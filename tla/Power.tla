-------------------------------- MODULE Power --------------------------------
(***************************************************************************)
(* The power of the bus (the FDO of src/xencons/fdo.c) and of its consoles *)
(* (the PDOs of src/xencons/pdo.c), from the creation of a device with its *)
(* two power threads to its destruction.  The power manager sends a system *)
(* IRP to every started device, to the bus after its consoles on the way   *)
(* down and before them on the way up; a device's system thread requests   *)
(* from the power manager a device IRP, which the device thread of the     *)
(* same device handles.  Waking, the FDO enters itself in the store's      *)
(* "drivers" directory, which it shares with other drivers that do the     *)
(* same at any time.  The scan, and the consoles' references, are in Pnp.  *)
(*                                                                         *)
(* The PnP manager starts, stops and removes devices while the system      *)
(* works and no power IRP is about; the power manager ends a transition    *)
(* when all IRPs are complete and all calls that sent them have returned.  *)
(* A device is not made or destroyed during a transition either: it gets   *)
(* no IRP before it is started, and shares nothing with those that do.     *)
(***************************************************************************)
EXTENDS PowerThread, FiniteSets

CONSTANTS Fdo,          \* the bus
          Pdos,         \* its consoles
          States,       \* the system power states, 1 is PowerSystemWorking
          LowerCapabilities, \* the FDO's device state in each of them
          MaxIndex,     \* MAXIMUM_INDEX, the last name tried in "drivers"
          Cases         \* the sets of hazards to consider, see faults

Devices == {Fdo} \cup Pdos

ASSUME PowerAssumption ==
  /\ Fdo \notin Pdos
  /\ IsFiniteSet(Pdos)
  /\ Threads = Devices \X {"system", "device"}
  /\ 1 \in States /\ States \subseteq 1..5
  /\ LowerCapabilities \in [States -> {0, 3}] /\ LowerCapabilities[1] = 0
  /\ MaxIndex \in Nat
  /\ \A c \in Cases : c \subseteq 
       {"create", "up", "watch", "lower", "store", "calls"}

VARIABLES life,         \* where each device is in its life
          system,       \* Dx->SystemPowerState
          power,        \* Dx->DevicePowerState: 0 for D0, 3 for D3
          move,         \* where a change of the device's power is
          failed,       \* whether the last attempt to power it up failed
          link,         \* whether a PDO's device interface is enabled
          bound,        \* whether the FDO's late suspend callback is registered
          index, names, \* what the FDO has read of "drivers"
          drivers,      \* the store's "drivers"
          other,        \* the index another driver has found free
          left,         \* the FDO's entries that a failed call has left there
          waking,       \* whether a dispatch routine that filled the slot is to wake
          owed,         \* the IRPs sent, and not completed
          pm,           \* the power manager's transition
          working,      \* the system state the power manager is in
          faults        \* the hazards considered (constant)

deviceVars == <<life, system, power, move, failed, link>>
storeVars  == <<bound, index, names, drivers, other, left>>
irpVars    == <<waking, owed>>
pmVars     == <<pm, working, faults>>
vars       == <<threadVars, deviceVars, storeVars, irpVars, pmVars>>

(* The hazards of faults: "create", the creation of a device fails; "up",  *)
(* its power-up does, and "watch", WatchAdd does; "lower", the driver below*)
(* does not power up; "store", other drivers use "drivers", and the        *)
(* virtual machine is suspended; "calls", any call to the store about      *)
(* "drivers" fails.  To keep the cases small, the system works all the     *)
(* while with "create" and "store"; no device is destroyed and a           *)
(* transition is a set to a new state with "up" and "lower".               *)
Fails(f) == f \in faults

Free == "free"
Indices == 0..MaxIndex
Kinds == {"system", "device"}
Sys(x) == <<x, "system">>
Dev(x) == <<x, "device">>
Irps == [minor : {"set", "query"}, state : States \cup {0, 3}, off : BOOLEAN]
Transitions == [minor : {"set", "query"}, target : States, off : BOOLEAN,
                todo : SUBSET Devices]

ASSUME NoneAssumption == /\ None \notin Irps \cup Transitions \cup Indices
                         /\ Fdo \notin {Free, "other"}

Init == /\ ThreadInit
        /\ life = [x \in Devices |-> "none"]
        /\ system = [x \in Devices |-> 1]
        /\ power = [x \in Devices |-> 3]
        /\ move = [x \in Devices |-> "none"]
        /\ failed = [x \in Devices |-> FALSE]
        /\ link = [p \in Pdos |-> FALSE]
        /\ bound = FALSE /\ index = 0 /\ names = {}
        /\ drivers = [i \in Indices |-> Free] /\ other = None /\ left = {}
        /\ waking = [t \in Threads |-> FALSE]
        /\ owed = [t \in Threads |-> 0]
        /\ pm = None /\ working = 1
        /\ faults \in Cases

(* The states a device asks for: the FDO from what it has learnt of the    *)
(* lower device, a PDO from DevicePowerStateMap.                           *)
DevicePowerStateMap(x, s) == IF x = Fdo THEN LowerCapabilities[s]
                             ELSE IF s = 1 THEN 0 ELSE 3

-----------------------------------------------------------------------------
(* FdoCreate and PdoCreate, FdoDestroy and PdoDestroy: the threads, in the *)
(* order of the code; a failure unwinds as destruction does.               *)

Lives(x, from, to) == /\ life[x] = from
                      /\ life' = [life EXCEPT ![x] = to]

CreateSystemThread(x) ==
  LET t == Sys(x)
  IN
  /\ at[t] = "none" /\ at[Dev(x)] = "none"
  /\ IF x = Fdo THEN \A p \in Pdos : life[p] = "none"
     ELSE life[Fdo] \in {"made", "started"}
  /\ \/ Lives(x, "none", "one") /\ Creates(t)
     \/ Fails("create") /\ Lives(x, "none", "none") /\ Abandons(t)
  /\ system' = [system EXCEPT ![x] = 1]
  /\ failed' = [failed EXCEPT ![x] = FALSE]
  /\ UNCHANGED <<slot, irp, power, move, link, storeVars, irpVars, pmVars>>

(* ThreadCreate fails for the device thread: the system thread is alerted; *)
(* the order of the two threads' alerts makes no difference.               *)
CreateDeviceThread(x) ==
  LET t == Dev(x) u == Sys(x)
  IN
  /\ \/ Lives(x, "one", "two") /\ Creates(t)
     \/ /\ Fails("create")
        /\ Lives(x, "one", "join system")
        /\ ThreadAlert(u)
        /\ UNCHANGED <<references, held, at>>
     \/ /\ Fails("create")
        /\ Lives(x, "one", "join system")
        /\ references' = [references EXCEPT ![t] = 1]
        /\ at' = [at EXCEPT ![t] = "look"]
        /\ alerted' = [alerted EXCEPT ![t] = TRUE, ![u] = TRUE]
        /\ event' = [event EXCEPT ![t] = TRUE, ![u] = TRUE]
        /\ UNCHANGED held
  /\ UNCHANGED <<slot, irp, system, power, move, failed, link, storeVars, irpVars,
                 pmVars>>

CreateRest(x) ==
  /\ Lives(x, "two", "made")
  /\ UNCHANGED <<threadVars, system, power, move, failed, link, storeVars, irpVars,
                 pmVars>>

(* Mutation of Destroy: the threads are told to end, and the device freed. *)
DestroyUnjoined(x) ==
  /\ \/ Lives(x, "made", "none")
     \/ Lives(x, "two", "none") /\ Fails("create")
  /\ ~Fails("up") /\ ~Fails("lower")
  /\ x = Fdo => \A p \in Pdos : life[p] = "none"
  /\ ThreadAlert(Dev(x))
  /\ UNCHANGED <<references, held, at, slot, irp, system, power, move, failed, link,
                 storeVars, irpVars, pmVars>>

(* The device is destroyed, or a later step of its creation has failed.    *)
Destroy(x) ==
  /\ \/ Lives(x, "made", "join device")
     \/ Lives(x, "two", "join device") /\ Fails("create")
  /\ ~Fails("up") /\ ~Fails("lower")
  /\ x = Fdo => \A p \in Pdos : life[p] = "none"
  /\ ThreadAlert(Dev(x))
  /\ UNCHANGED <<references, held, at, slot, irp, system, power, move, failed, link,
                 storeVars, irpVars, pmVars>>

JoinDeviceThread(x) ==
  /\ Lives(x, "join device", "join system")
  /\ ThreadJoin(Dev(x))
  /\ ThreadAlert(Sys(x))
  /\ UNCHANGED <<slot, irp, system, power, move, failed, link, storeVars, irpVars,
                 pmVars>>

JoinSystemThread(x) ==
  /\ Lives(x, "join system", "none")
  /\ ThreadJoin(Sys(x))
  /\ UNCHANGED <<event, alerted, slot, irp, system, power, move, failed, link,
                 storeVars, irpVars, pmVars>>

-----------------------------------------------------------------------------
(* The start, stop and removal of a device; one at a time, when all        *)
(* threads rest (they have nothing to do with it).                         *)

Quiet == /\ pm = None /\ working = 1
         /\ \A t \in Threads : at[t] = "none" \/ (at[t] = "wait" /\ ~event[t])
         /\ \A x \in Devices : life[x] \notin {"starting", "stopping"}

StartDevice(x) ==
  /\ Quiet
  /\ Lives(x, "made", "starting")
  /\ x \in Pdos => life[Fdo] = "started"
  /\ move' = [move EXCEPT ![x] = "up"]
  /\ index' = 0
  /\ UNCHANGED <<threadVars, system, power, failed, link, bound, names, drivers,
                 other, left, irpVars, pmVars>>

(* StopDevice, and as much of RemoveDevice: a device in D3 stays there.    *)
StopDevice(x) ==
  /\ Quiet
  /\ Lives(x, "started", "stopping")
  /\ x = Fdo => \A p \in Pdos : life[p] # "started"
  /\ move' = [move EXCEPT ![x] = IF power[x] = 0 THEN "down" ELSE "none"]
  /\ UNCHANGED <<threadVars, system, power, failed, link, storeVars, irpVars,
                 pmVars>>

StartStopEnd(x) ==
  /\ move[x] = "none"
  /\ \/ Lives(x, "starting", IF power[x] = 0 THEN "started" ELSE "made")
     \/ Lives(x, "stopping", "made")
  /\ UNCHANGED <<threadVars, system, power, move, failed, link, storeVars, irpVars,
                 pmVars>>

-----------------------------------------------------------------------------
(* FdoD3ToD0, FdoD0ToD3 and the "drivers" directory.                       *)

Moves(x, from, to) == /\ move[x] = from
                      /\ move' = [move EXCEPT ![x] = to]

(* The interfaces cannot be acquired. *)
FdoUpFails ==
  /\ Fails("up") /\ index = 0
  /\ Moves(Fdo, "up", "none")
  /\ failed' = [failed EXCEPT ![Fdo] = TRUE]
  /\ UNCHANGED <<threadVars, life, system, power, link, storeVars, irpVars, pmVars>>

(* FdoSetDistribution reads the names in turn, until one is not found; it  *)
(* gives up past the last, or when a read fails otherwise, and nobody asks *)
(* whether it did.                                                         *)
FdoFindIndex ==
  /\ \/ /\ index \notin Indices \/ Fails("calls")
        /\ Moves(Fdo, "up", "watch") /\ index' = 0
     \/ /\ index \in Indices /\ drivers[index] = Free
        /\ Moves(Fdo, "up", "write") /\ UNCHANGED index
     \/ /\ index \in Indices /\ drivers[index] # Free
        /\ Moves(Fdo, "up", "up") /\ index' = index + 1
  /\ UNCHANGED <<threadVars, life, system, power, failed, link, bound, names,
                 drivers, other, left, irpVars, pmVars>>

(* The entry is written, or not: the result of Printf is ignored. *)
FdoWriteIndex ==
  /\ Moves(Fdo, "write", "watch")
  /\ \/ /\ drivers' = [drivers EXCEPT ![index] = Fdo]
        /\ left' = left \ {index}
     \/ Fails("calls") /\ UNCHANGED <<drivers, left>>
  /\ index' = 0
  /\ UNCHANGED <<threadVars, life, system, power, failed, link, bound, names,
                 other, irpVars, pmVars>>

(* The entries that the FDO finds to be its own (__FdoMatchDistribution).  *)
Own == {i \in Indices : drivers[i] = Fdo}

(* WatchAdd, Register and the new state; when WatchAdd fails the entry     *)
(* stays.                                                                  *)
FdoWatch ==
  /\ \/ /\ Moves(Fdo, "watch", "none")
        /\ bound' = TRUE
        /\ power' = [power EXCEPT ![Fdo] = 0]
        /\ failed' = [failed EXCEPT ![Fdo] = FALSE]
        /\ UNCHANGED left
     \/ /\ failed' = [failed EXCEPT ![Fdo] = TRUE]
        /\ UNCHANGED <<bound, power>>
        /\ \/ Fails("watch") /\ Moves(Fdo, "watch", "none") /\ left' = left \cup Own
           \/ Fails("up") /\ Moves(Fdo, "watch", "list") /\ UNCHANGED left
  /\ UNCHANGED <<threadVars, life, system, link, index, names, drivers, other,
                 irpVars, pmVars>>

FdoAsleep ==
  /\ Moves(Fdo, "down", "list")
  /\ power' = [power EXCEPT ![Fdo] = 3]
  /\ bound' = FALSE
  /\ UNCHANGED <<threadVars, life, system, failed, link, index, names, drivers,
                 other, left, irpVars, pmVars>>

(* FdoClearDistribution lists the directory, and looks at each entry.  It  *)
(* sees to none when Directory fails or there is no memory for the names.  *)
FdoList ==
  /\ Moves(Fdo, "list", "clear")
  /\ \/ names' = {i \in Indices : drivers[i] # Free} /\ UNCHANGED left
     \/ Fails("calls") /\ names' = {} /\ left' = left \cup Own
  /\ UNCHANGED <<threadVars, life, system, power, failed, link, bound, index, drivers,
                 other, irpVars, pmVars>>

(* Mutation of FdoClear: the first entry that matches is the last looked at. *)
FdoClearOne(i) ==
  /\ i \in names
  /\ Moves(Fdo, "clear", "clear")
  /\ IF drivers[i] = Fdo
     THEN drivers' = [drivers EXCEPT ![i] = Free] /\ names' = {} /\ left' = left \ {i}
     ELSE names' = names \ {i} /\ UNCHANGED <<drivers, left>>
  /\ UNCHANGED <<threadVars, life, system, power, failed, link, bound, index,
                 other, irpVars, pmVars>>

(* An entry of the FDO's is removed, or left when it cannot be read or     *)
(* removed; the loop goes on in any case.                                  *)
FdoClear(i) ==
  /\ i \in names
  /\ Moves(Fdo, "clear", "clear")
  /\ names' = names \ {i}
  /\ \/ /\ drivers' = [drivers EXCEPT ![i] = IF @ = Fdo THEN Free ELSE @]
        /\ left' = left \ {i}
     \/ Fails("calls") /\ left' = left \cup (Own \cap {i}) /\ UNCHANGED drivers
  /\ UNCHANGED <<threadVars, life, system, power, failed, link, bound, index,
                 other, irpVars, pmVars>>

FdoCleared ==
  /\ Moves(Fdo, "clear", "none")
  /\ names = {}
  /\ UNCHANGED <<threadVars, life, system, power, failed, link, storeVars, irpVars,
                 pmVars>>

(* Clearing the directory, but for the entries in kept, and setting the    *)
(* distribution when enters, with nothing in between.                      *)
Reentered(store, kept, enters) ==
  LET clean == [i \in Indices |-> IF store[i] = Fdo /\ i \notin kept
                                  THEN Free ELSE store[i]]
      free  == {i \in Indices : clean[i] = Free}
  IN IF free = {} \/ ~enters THEN clean
     ELSE [clean EXCEPT ![CHOOSE i \in free : \A j \in free : i <= j] = Fdo]

(* The virtual machine is suspended, or moved to another store; the late   *)
(* callback runs while nothing else does.  That of a PDO puts it to sleep  *)
(* and wakes it, and leaves no trace.  A call that fails keeps an entry    *)
(* from being removed, or the new one from being entered.                  *)
FdoSuspendCallbackLate ==
  /\ bound /\ Fails("store")
  /\ \E store \in {drivers, [i \in Indices |-> Free]},
        kept \in SUBSET Own, enters \in BOOLEAN :
       /\ Fails("calls") \/ (kept = {} /\ enters)
       /\ \A i \in kept : store[i] = Fdo
       /\ drivers' = Reentered(store, kept, enters)
       /\ left' = kept
  /\ UNCHANGED <<threadVars, deviceVars, bound, index, names, other, irpVars, pmVars>>

(* Another driver finds an index free, and later enters itself there; it   *)
(* removes its entry when it goes.                                         *)
OtherFinds ==
  /\ other = None /\ Fails("store")
  /\ \E i \in Indices : /\ drivers[i] = Free /\ \A j \in 0..(i - 1) : drivers[j] # Free
                        /\ other' = i
  /\ UNCHANGED <<threadVars, deviceVars, bound, index, names, drivers, left, irpVars,
                 pmVars>>

OtherWrites ==
  /\ other # None
  /\ drivers' = [drivers EXCEPT ![other] = "other"]
  /\ other' = None
  /\ UNCHANGED <<threadVars, deviceVars, bound, index, names, left, irpVars, pmVars>>

OtherRemoves(i) ==
  /\ drivers[i] = "other"
  /\ drivers' = [drivers EXCEPT ![i] = Free]
  /\ UNCHANGED <<threadVars, deviceVars, bound, index, names, other, left, irpVars,
                 pmVars>>

-----------------------------------------------------------------------------
(* PdoD3ToD0 and PdoD0ToD3.                                                *)

PdoAwake(p) ==
  /\ Moves(p, "up", "abi")
  /\ power' = [power EXCEPT ![p] = 0]
  /\ failed' = [failed EXCEPT ![p] = FALSE]
  /\ UNCHANGED <<threadVars, life, system, link, storeVars, irpVars, pmVars>>

(* The suspend interface cannot be acquired, or the console not powered.   *)
PdoUpFails(p) ==
  /\ Fails("up")
  /\ Moves(p, "up", "none") \/ Moves(p, "abi", "none")
  /\ power' = [power EXCEPT ![p] = 3]
  /\ failed' = [failed EXCEPT ![p] = TRUE]
  /\ UNCHANGED <<threadVars, life, system, link, storeVars, irpVars, pmVars>>

(* The console is powered, and the device's interface enabled.             *)
PdoEnable(p) ==
  /\ Moves(p, "abi", "none")
  /\ link' = [link EXCEPT ![p] = TRUE]
  /\ UNCHANGED <<threadVars, life, system, power, failed, storeVars, irpVars, pmVars>>

(* Mutation of PdoDisable: the interface stays enabled. *)
PdoDisableNot(p) ==
  /\ Moves(p, "down", "off")
  /\ UNCHANGED <<threadVars, life, system, power, failed, link, storeVars, irpVars,
                 pmVars>>

PdoDisable(p) ==
  /\ Moves(p, "down", "off")
  /\ link' = [link EXCEPT ![p] = FALSE]
  /\ UNCHANGED <<threadVars, life, system, power, failed, storeVars, irpVars, pmVars>>

PdoAsleep(p) ==
  /\ Moves(p, "off", "none")
  /\ power' = [power EXCEPT ![p] = 3]
  /\ UNCHANGED <<threadVars, life, system, failed, link, storeVars, irpVars, pmVars>>

-----------------------------------------------------------------------------
(* The IRPs: PoRequestPowerIrp and the power manager send them, and the    *)
(* dispatch routines fill the slot, or complete or pass down what needs no *)
(* thread: a shutdown, and a query of a PDO.                               *)

Passed(x, i) == i.off \/ (x \in Pdos /\ i.minor = "query")

DispatchPower(x, t, i) ==
  IF Passed(x, i) THEN UNCHANGED <<slot, waking, owed>>
  ELSE /\ slot' = [slot EXCEPT ![t] = i]
       /\ waking' = [waking EXCEPT ![t] = TRUE]
       /\ owed' = [owed EXCEPT ![t] = @ + 1]

DispatchWake(t) ==
  /\ waking[t]
  /\ waking' = [waking EXCEPT ![t] = FALSE]
  /\ ThreadWake(t)
  /\ UNCHANGED <<references, held, alerted, at, slot, irp, deviceVars, storeVars,
                 owed, pmVars>>

Completes(t) == /\ Handled(t)
                /\ owed' = [owed EXCEPT ![t] = @ - 1]
                /\ UNCHANGED waking

Request(x, i) == /\ Goes(Sys(x), "handle", "requested")
                 /\ DispatchPower(x, Dev(x), i)
                 /\ UNCHANGED irp

Asks(x, i) == [minor |-> i.minor, state |-> DevicePowerStateMap(x, i.state),
               off |-> FALSE]

(* The system thread.  An IRP for the state the device is in goes on down; *)
(* the FDO has the lower driver wake first, and changes its system state   *)
(* before the request on the way up, after it on the way down.             *)
SystemSame(x) ==
  LET t == Sys(x)
  IN
  /\ at[t] = "handle" /\ irp[t].state = system[x]
  /\ Completes(t)
  /\ UNCHANGED <<references, held, event, alerted, slot, deviceVars, storeVars, pmVars>>

FdoSystemUp ==
  LET t == Sys(Fdo) i == irp[t]
  IN
  /\ at[t] = "handle" /\ i.minor = "set" /\ i.state < system[Fdo]
  /\ \/ /\ Request(Fdo, Asks(Fdo, i))
        /\ system' = [system EXCEPT ![Fdo] = i.state]
        /\ UNCHANGED failed
     \/ /\ Fails("lower")
        /\ Completes(t)
        /\ failed' = [failed EXCEPT ![Fdo] = @ \/ power[Fdo] = 3]
        /\ UNCHANGED <<system, slot>>
  /\ UNCHANGED <<references, held, event, alerted, life, power, move, link,
                 storeVars, pmVars>>

FdoSystemQuery ==
  LET t == Sys(Fdo) i == irp[t]
  IN
  /\ at[t] = "handle" /\ i.minor = "query" /\ i.state # system[Fdo]
  /\ Request(Fdo, Asks(Fdo, i))
  /\ UNCHANGED <<references, held, event, alerted, deviceVars, storeVars, pmVars>>

(* The FDO on the way down, and a PDO either way. *)
SystemRequest(x) ==
  LET t == Sys(x) i == irp[t]
  IN
  /\ at[t] = "handle" /\ i.minor = "set"
  /\ IF x = Fdo THEN i.state > system[x] ELSE i.state # system[x]
  /\ Request(x, Asks(x, i))
  /\ UNCHANGED <<references, held, event, alerted, deviceVars, storeVars, pmVars>>

(* Mutation of SystemDone: the device IRP is not waited for. *)
SystemDoneEarly(x) ==
  LET t == Sys(x) i == irp[t]
  IN
  /\ at[t] = "requested"
  /\ Completes(t)
  /\ system' = [system EXCEPT ![x] = IF i.minor = "set" THEN i.state ELSE @]
  /\ UNCHANGED <<references, held, event, alerted, slot, life, power, move, failed,
                 link, storeVars, pmVars>>

SystemDone(x) ==
  LET t == Sys(x) i == irp[t]
  IN
  /\ at[t] = "requested" /\ owed[Dev(x)] = 0
  /\ Completes(t)
  /\ system' = [system EXCEPT ![x] = IF i.minor = "set" THEN i.state ELSE @]
  /\ UNCHANGED <<references, held, event, alerted, slot, life, power, move, failed,
                 link, storeVars, pmVars>>

(* The device thread: an IRP for the state the device is in, or a query,   *)
(* is passed down or completed.                                            *)
DeviceSame(x) ==
  LET t == Dev(x)
  IN
  /\ at[t] = "handle" /\ irp[t].minor = "set" /\ irp[t].state = power[x]
  /\ Completes(t)
  /\ UNCHANGED <<references, held, event, alerted, slot, deviceVars, storeVars, pmVars>>

FdoDeviceQuery ==
  LET t == Dev(Fdo)
  IN
  /\ at[t] = "handle" /\ irp[t].minor = "query"
  /\ Completes(t)
  /\ UNCHANGED <<references, held, event, alerted, slot, deviceVars, storeVars, pmVars>>

(* The lower driver cannot wake. *)
FdoDeviceFails ==
  LET t == Dev(Fdo)
  IN
  /\ Fails("lower")
  /\ at[t] = "handle" /\ irp[t].minor = "set" /\ irp[t].state < power[Fdo]
  /\ Completes(t)
  /\ failed' = [failed EXCEPT ![Fdo] = TRUE]
  /\ UNCHANGED <<references, held, event, alerted, slot, life, system, power, move,
                 link, storeVars, pmVars>>

DeviceMove(x) ==
  LET t == Dev(x)
  IN
  /\ irp[t] # None /\ irp[t].minor = "set" /\ irp[t].state # power[x]
  /\ Goes(t, "handle", "moving")
  /\ move' = [move EXCEPT ![x] = IF irp[t].state < power[x] THEN "up" ELSE "down"]
  /\ index' = 0
  /\ UNCHANGED <<references, held, event, alerted, slot, irp, life, system, power,
                 failed, link, bound, names, drivers, other, left, irpVars, pmVars>>

DeviceMoved(x) ==
  LET t == Dev(x)
  IN
  /\ at[t] = "moving" /\ move[x] = "none"
  /\ Completes(t)
  /\ UNCHANGED <<references, held, event, alerted, slot, deviceVars, storeVars, pmVars>>

-----------------------------------------------------------------------------
(* The power manager.                                                      *)

PmBegin(target, minor, off) ==
  /\ pm = None /\ ~Fails("store") /\ ~Fails("create")
  /\ \A x \in Devices : life[x] \in {"none", "made", "started"}
  /\ off => minor = "set" /\ target # working
  /\ Fails("up") \/ Fails("lower") => minor = "set" /\ target # working /\ ~off
  /\ pm' = [minor |-> minor, target |-> target, off |-> off,
            todo |-> {x \in Devices : life[x] = "started"}]
  /\ UNCHANGED <<threadVars, deviceVars, storeVars, irpVars, working, faults>>

Turn(x) == LET done(y) == y \notin pm.todo /\ owed[Sys(y)] = 0
           IN IF x = Fdo THEN pm.target > working => \A p \in Pdos : done(p)
              ELSE pm.target <= working => done(Fdo)

PmSend(x) ==
  /\ pm # None /\ x \in pm.todo
  /\ Turn(x)
  /\ DispatchPower(x, Sys(x),
                   [minor |-> pm.minor, state |-> pm.target, off |-> pm.off])
  /\ pm' = [pm EXCEPT !.todo = @ \ {x}]
  /\ UNCHANGED <<references, held, event, alerted, at, irp, deviceVars, storeVars,
                 working, faults>>

PmEnd ==
  /\ pm # None /\ pm.todo = {}
  /\ \A t \in Threads : owed[t] = 0 /\ ~waking[t]
  /\ working' = IF pm.minor = "set" /\ ~pm.off THEN pm.target ELSE working
  /\ pm' = None
  /\ UNCHANGED <<threadVars, deviceVars, storeVars, irpVars, faults>>

-----------------------------------------------------------------------------
ThreadRuns(t) == /\ Runs(t)
                 /\ UNCHANGED <<deviceVars, storeVars, irpVars, pmVars>>

Handles(x) == \/ SystemSame(x) \/ SystemRequest(x) \/ SystemDone(x)
              \/ DeviceSame(x) \/ DeviceMove(x) \/ DeviceMoved(x)
              \/ x = Fdo /\ (FdoSystemUp \/ FdoSystemQuery)
              \/ x = Fdo /\ (FdoDeviceQuery \/ FdoDeviceFails)

FdoPowers == \/ FdoUpFails \/ FdoFindIndex \/ FdoWriteIndex \/ FdoWatch
             \/ FdoAsleep \/ FdoList
             \/ (\E i \in Indices : FdoClear(i)) \/ FdoCleared

PdoPowers(p) == \/ PdoAwake(p) \/ PdoUpFails(p) \/ PdoEnable(p)
                \/ PdoDisable(p) \/ PdoAsleep(p)

Proceeds == \/ \E t \in Threads : ThreadRuns(t) \/ DispatchWake(t)
            \/ \E x \in Devices : Handles(x) \/ PmSend(x)
            \/ FdoPowers
            \/ \E p \in Pdos : PdoPowers(p)
            \/ PmEnd

LivesOn(x) == \/ CreateSystemThread(x) \/ CreateDeviceThread(x) \/ CreateRest(x)
              \/ Destroy(x) \/ JoinDeviceThread(x) \/ JoinSystemThread(x)
              \/ StartDevice(x) \/ StopDevice(x) \/ StartStopEnd(x)

Next == \/ Proceeds
        \/ pm = None /\ \E x \in Devices : LivesOn(x)
        \/ FdoSuspendCallbackLate
        \/ OtherFinds \/ OtherWrites \/ \E i \in Indices : OtherRemoves(i)
        \/ \E s \in States, m \in {"set", "query"}, o \in BOOLEAN : PmBegin(s, m, o)

Spec == Init /\ [][Next]_vars

-----------------------------------------------------------------------------
TypeOK ==
  /\ references \in [Threads -> 0..2]
  /\ held \in [Threads -> BOOLEAN]
  /\ event \in [Threads -> BOOLEAN]
  /\ alerted \in [Threads -> BOOLEAN]
  /\ at \in [Threads -> Loop \cup {"none", "handle", "requested", "moving", "exited"}]
  /\ slot \in [Threads -> Irps \cup {None}]
  /\ irp \in [Threads -> Irps \cup {None}]
  /\ waking \in [Threads -> BOOLEAN]
  /\ owed \in [Threads -> 0..1]
  /\ life \in [Devices -> {"none", "one", "two", "made", "starting", "started",
                           "stopping", "join device", "join system"}]
  /\ system \in [Devices -> States]
  /\ power \in [Devices -> {0, 3}]
  /\ move \in [Devices -> {"none", "up", "write", "watch", "down", "off", "list",
                           "clear", "abi"}]
  /\ failed \in [Devices -> BOOLEAN]
  /\ link \in [Pdos -> BOOLEAN]
  /\ bound \in BOOLEAN /\ left \subseteq Indices
  /\ index \in 0..(MaxIndex + 1)
  /\ names \subseteq Indices
  /\ drivers \in [Indices -> {Free, Fdo, "other"}]
  /\ other \in Indices \cup {None}
  /\ pm \in Transitions \cup {None}
  /\ working \in States

(* A dispatch routine always finds the slot it fills empty, so that the    *)
(* thread never empties it of an IRP it has not taken: every IRP sent is   *)
(* in the slot or in the thread's hand until it has been handled, and a    *)
(* thread never rests on an IRP with nobody about to wake it.  (The loop   *)
(* of fdo.c 2613-2668, where the slot is read, and emptied later.)         *)
IrpsHeld ==
  /\ TypeOK
  /\ \A t \in Threads :
       /\ owed[t] = Cardinality({i \in {slot[t], irp[t]} : i # None})
       /\ at[t] = "empty" => slot[t] # None
       /\ at[t] = "wait" /\ slot[t] # None => event[t] \/ waking[t]

(* A thread is freed once, by the last of its owner and itself; a device   *)
(* is not freed before its threads have ended, but for a thread that       *)
(* ThreadCreate has abandoned (thread.c 170).                              *)
NoUseAfterFree ==
  \A x \in Devices : \A k \in Kinds :
    LET t == <<x, k>> runs == at[t] \notin {"none", "exited"}
    IN /\ references[t] = (IF held[t] THEN 1 ELSE 0) + (IF runs THEN 1 ELSE 0)
       /\ held[t] => life[x] # "none"
       /\ runs /\ ~held[t] => alerted[t] /\ owed[t] = 0

(* When the power manager has ended a transition, a started device has     *)
(* the system's state, and the device state that goes with it, unless it   *)
(* failed to wake; the interface of a console is enabled when it is in D0, *)
(* and only then.  (A lower driver that fails to wake is left out: the FDO *)
(* then keeps its old system state, even when it is stopped and started.)  *)
Settled ==
  /\ pm = None => \A x \in Devices : life[x] = "started" =>
       \/ Fails("lower")
       \/ /\ system[x] = working
          /\ power[x] = DevicePowerStateMap(x, system[x]) \/ failed[x]
  /\ \A p \in Pdos : link[p] => power[p] = 0
  /\ \A p \in Pdos : power[p] = 0 /\ move[p] = "none" => link[p]

(* But for the entries that a failed call has left, the FDO has one entry  *)
(* in "drivers" at most, and none when it sleeps: it takes away all that   *)
(* it can read and remove, those left by an earlier failure among them,    *)
(* and the late suspend callback does not add to what the directory of the *)
(* new store may hold.  (A call fails where fdo.c 1087, 1097, 1109 and     *)
(* 1113 pass over it, and a wake fails at 1246.)                           *)
OneDistribution ==
  /\ Cardinality(Own \ left) <= 1
  /\ move[Fdo] = "none" /\ ~bound => Own \subseteq left

(* A console wakes after the bus and sleeps before it, whatever the four   *)
(* threads and the two requests in between make of the power manager's     *)
(* order.                                                                  *)
Tree == INSTANCE PowerTree WITH Bus <- Fdo, Devices <- Pdos,
                                awake <- {x \in Devices : power[x] = 0},
                                failed <- failed[Fdo]
ImplementsPowerTree == Tree!Spec
=============================================================================
