----------------------------- MODULE PowerProofs -----------------------------
(***************************************************************************)
(* Proofs about modules PowerThread and Power, for any number of consoles, *)
(* any set of system power states and any directory: its safety properties *)
(* are invariants, from one inductive invariant, and it implements         *)
(* PowerTree.                                                              *)
(***************************************************************************)
EXTENDS Power, FiniteSetTheorems, TLAPS

(* The types of TypeOK, by who has to do with the variables.               *)
ThreadType ==
  /\ references \in [Threads -> 0..2]
  /\ held \in [Threads -> BOOLEAN]
  /\ event \in [Threads -> BOOLEAN]
  /\ alerted \in [Threads -> BOOLEAN]
  /\ at \in [Threads -> Loop \cup {"none", "handle", "requested", "moving", "exited"}]
  /\ slot \in [Threads -> Irps \cup {None}]
  /\ irp \in [Threads -> Irps \cup {None}]
  /\ waking \in [Threads -> BOOLEAN]
  /\ owed \in [Threads -> 0..1]

DeviceType ==
  /\ life \in [Devices -> {"none", "one", "two", "made", "starting", "started",
                           "stopping", "join device", "join system"}]
  /\ system \in [Devices -> States]
  /\ power \in [Devices -> {0, 3}]
  /\ move \in [Devices -> {"none", "up", "write", "watch", "down", "off", "list",
                           "clear", "abi"}]
  /\ failed \in [Devices -> BOOLEAN]
  /\ link \in [Pdos -> BOOLEAN]

StoreType ==
  /\ bound \in BOOLEAN /\ left \subseteq Indices
  /\ index \in 0..(MaxIndex + 1)
  /\ names \subseteq Indices
  /\ drivers \in [Indices -> {Free, Fdo, "other"}]
  /\ other \in Indices \cup {None}

PmType == pm \in Transitions \cup {None} /\ working \in States

(* A thread's slot and the IRP in its hand, by where its loop is: they are *)
(* the same between the reading of the slot and its emptying.              *)
HandKept(t) ==
  /\ irp[t] # None <=> at[t] \in {"empty", "handle", "requested", "moving"}
  /\ at[t] = "empty" => slot[t] = irp[t]
  /\ at[t] \in {"handle", "requested", "moving"} => slot[t] = None
  /\ owed[t] = IF slot[t] # None \/ irp[t] # None THEN 1 ELSE 0
  /\ at[t] = "wait" /\ slot[t] # None => event[t] \/ waking[t]

LoopKept == \A t \in Threads : HandKept(t)

(* Only the system thread requests, only the device thread moves. *)
KindsKept ==
  \A x \in Devices : at[Dev(x)] # "requested" /\ at[Sys(x)] # "moving"

(* The references, and what the owner holds at each point of its life.     *)
Both == {"two", "made", "starting", "started", "stopping", "join device"}
RunsNow(t) == at[t] \notin {"none", "exited"}

ThreadKept(t) ==
  /\ references[t] = (IF held[t] THEN 1 ELSE 0) + (IF RunsNow(t) THEN 1 ELSE 0)
  /\ at[t] = "exited" => held[t]
  /\ RunsNow(t) /\ ~held[t] => alerted[t]

OwnerKept(x) ==
  /\ held[Sys(x)] <=> life[x] # "none"
  /\ held[Dev(x)] <=> life[x] \in Both
  /\ life[x] = "one" => at[Dev(x)] = "none"

LivesKept ==
  /\ \A t \in Threads : ThreadKept(t)
  /\ \A x \in Devices : OwnerKept(x)
  /\ \A p \in Pdos : life[p] \in {"starting", "started", "stopping"}
                       => life[Fdo] = "started"

(* The power manager sends an IRP to a device once in a transition, and    *)
(* the device's system thread requests one of its device thread once for   *)
(* each that it has.                                                       *)
IrpsKept ==
  /\ pm = None => \A t \in Threads : owed[t] = 0 /\ ~waking[t]
  /\ pm # None => \A x \in Devices :
       /\ life[x] \in {"none", "made", "started"}
       /\ x \in pm.todo => life[x] = "started" /\ owed[Sys(x)] = 0
  /\ \A x \in Devices :
       /\ owed[Sys(x)] = 1 => life[x] = "started"
       /\ owed[Dev(x)] = 1 => at[Sys(x)] = "requested"

(* Which IRPs those are. *)
SystemIrp(x, i) == /\ pm # None
                   /\ i.minor = pm.minor /\ i.state = pm.target /\ ~i.off
                   /\ ~pm.off
                   /\ x \in Pdos => pm.minor = "set"
DeviceIrp(x, i) == /\ pm # None
                   /\ i.minor = pm.minor /\ ~i.off
                   /\ i.state = DevicePowerStateMap(x, pm.target)
                   /\ x \in Pdos => pm.minor = "set"

ContentsKept ==
  \A x \in Devices :
    /\ slot[Sys(x)] # None => SystemIrp(x, slot[Sys(x)])
    /\ irp[Sys(x)] # None => SystemIrp(x, irp[Sys(x)])
    /\ slot[Dev(x)] # None => DeviceIrp(x, slot[Dev(x)])
    /\ irp[Dev(x)] # None => DeviceIrp(x, irp[Dev(x)])

(* A change of power belongs to a start or a stop, or to the IRP in the    *)
(* device thread's hand.                                                   *)
GoesTo(x, s) == \/ s = 0 /\ life[x] = "starting"
                \/ s = 3 /\ life[x] = "stopping"
                \/ at[Dev(x)] = "moving" /\ irp[Dev(x)].state = s

MoveKept(x) ==
  /\ life[x] \notin {"starting", "started", "stopping"} => power[x] = 3
  /\ at[Dev(x)] = "moving" => irp[Dev(x)].minor = "set"
  /\ move[x] \in {"up", "write", "watch", "abi"} => GoesTo(x, 0)
  /\ move[x] \in {"down", "off"} => GoesTo(x, 3) /\ power[x] = 0
  /\ move[x] \in {"up", "write", "watch", "list", "clear"} => power[x] = 3
  /\ move[x] \in {"list", "clear"} =>
       GoesTo(x, 3) \/ (GoesTo(x, 0) /\ failed[x])
  /\ life[x] = "stopping" /\ move[x] = "none" => power[x] = 3
  /\ at[Dev(x)] = "moving" /\ move[x] = "none" =>
       power[x] = irp[Dev(x)].state \/ failed[x]

ConsoleKept(p) ==
  /\ move[p] \notin {"write", "watch", "list", "clear"}
  /\ failed[p] => power[p] = 3
  /\ move[p] \in {"abi", "off"} => power[p] = 0 /\ ~link[p]
  /\ link[p] => power[p] = 0
  /\ power[p] = 0 /\ move[p] = "none" => link[p]

MovesKept ==
  /\ \A x \in Devices : MoveKept(x)
  /\ \A p \in Pdos : ConsoleKept(p)
  /\ move[Fdo] \notin {"abi", "off"}
  /\ bound <=> power[Fdo] = 0

(* A started device that rests in state s; a lower driver that fails to    *)
(* wake may keep the bus in a deeper system state.                         *)
AtRest(x, s) ==
  /\ x \in Pdos \/ ~Fails("lower") =>
       system[x] = s /\ (power[x] = DevicePowerStateMap(x, s) \/ failed[x])
  /\ x = Fdo => /\ system[Fdo] \geq s
                /\ s = 1 => power[Fdo] = 0 \/ failed[Fdo]

Arrived == IF pm.minor = "set" /\ ~pm.off THEN pm.target ELSE working

(* How far a started device is in a transition of the power manager.       *)
Underway(x) ==
  /\ x \in pm.todo => AtRest(x, working)
  /\ x \notin pm.todo /\ owed[Sys(x)] = 0 => AtRest(x, Arrived)
  /\ owed[Sys(x)] = 1 /\ (at[Sys(x)] # "requested" \/ pm.minor = "query")
       => AtRest(x, working)
  /\ at[Sys(x)] = "requested" /\ pm.minor = "set" /\ owed[Dev(x)] = 0
       => power[x] = DevicePowerStateMap(x, pm.target) \/ failed[x]

TransitionKept ==
  /\ pm = None => \A x \in Devices : life[x] = "started" => AtRest(x, working)
  /\ pm # None => \A x \in Devices : life[x] = "started" => Underway(x)
  /\ pm # None /\ pm.off => pm.minor = "set"
  /\ \A x \in Devices : life[x] # "started" /\ (x \in Pdos \/ ~Fails("lower"))
                          => system[x] = 1
  /\ (\E x \in Devices : life[x] \in {"starting", "stopping"}) => working = 1

(* Children first on the way down, the bus first on the way up. *)
OrderKept ==
  pm # None =>
    /\ pm.target > working =>
         \A p \in Pdos : (p \in pm.todo \/ owed[Sys(p)] = 1) => Fdo \in pm.todo
    /\ pm.target <= working /\ (Fdo \in pm.todo \/ owed[Sys(Fdo)] = 1) =>
         \A p \in Pdos : life[p] = "started" => p \in pm.todo

(* What the FDO has in "drivers" along its way. *)
DriversKept ==
  /\ move[Fdo] = "write" => index \in Indices
  /\ move[Fdo] = "clear" => Own \subseteq names \cup left
  /\ \A i, j \in Own \ left : i = j
  /\ move[Fdo] \in {"none", "up", "write"} /\ ~bound => Own \subseteq left

IInv == /\ ThreadType /\ DeviceType /\ StoreType /\ PmType
        /\ LoopKept /\ KindsKept /\ LivesKept /\ IrpsKept /\ ContentsKept
        /\ MovesKept /\ TransitionKept /\ OrderKept /\ DriversKept

-----------------------------------------------------------------------------
(* A device has a system thread and a device thread of its own.            *)
LEMMA ThreadsAre ==
  /\ \A x \in Devices : Sys(x) \in Threads /\ Dev(x) \in Threads
  /\ \A t \in Threads : \E x \in Devices : t = Sys(x) \/ t = Dev(x)
  /\ \A x, y \in Devices : /\ Sys(x) = Sys(y) => x = y
                           /\ Dev(x) = Dev(y) => x = y
                           /\ Sys(x) # Dev(y)
  /\ Fdo \in Devices /\ Pdos \subseteq Devices /\ Fdo \notin Pdos
  /\ \A x \in Devices : x = Fdo \/ x \in Pdos
<1>1. Threads = Devices \X {"system", "device"}
  BY PowerAssumption
<1>2. Fdo \notin Pdos
  BY PowerAssumption
<1> QED
  BY <1>1, <1>2 DEF Sys, Dev, Devices

(* The steps, by who takes them.                                           *)
StoreStep == \/ FdoSuspendCallbackLate
             \/ OtherFinds \/ OtherWrites \/ \E i \in Indices : OtherRemoves(i)

Begins == \E s \in States, m \in {"set", "query"}, o \in BOOLEAN : PmBegin(s, m, o)

LEMMA Steps ==
  [Next]_vars => \/ \E t \in Threads : ThreadRuns(t) \/ DispatchWake(t)
                 \/ \E x \in Devices : Handles(x) \/ PmSend(x)
                 \/ \E x \in Devices : pm = None /\ LivesOn(x)
                 \/ FdoPowers \/ \E p \in Pdos : PdoPowers(p)
                 \/ StoreStep \/ PmEnd \/ Begins
                 \/ UNCHANGED vars
  BY DEF Next, Proceeds, StoreStep, Begins

(* What each of them leaves alone.                                         *)
LEMMA ThreadFrame ==
  ASSUME NEW t \in Threads, ThreadRuns(t)
  PROVE  /\ UNCHANGED <<deviceVars, storeVars, irpVars, pmVars>>
         /\ UNCHANGED <<held, alerted>>
  BY DEF ThreadRuns, Runs, Look, Wait, Alerted, Take, Empty, Return

LEMMA WakeFrame ==
  ASSUME NEW t \in Threads, DispatchWake(t)
  PROVE  UNCHANGED <<references, held, alerted, at, slot, irp, deviceVars, storeVars,
                     owed, pmVars>>
  BY DEF DispatchWake

LEMMA HandlesFrame ==
  ASSUME NEW x \in Devices, Handles(x)
  PROVE  /\ UNCHANGED <<references, held, event, alerted, pmVars>>
         /\ UNCHANGED <<life, power, link, bound, names, drivers, other, left>>
<1> USE DEF deviceVars, storeVars, irpVars, pmVars
<1>1. CASE SystemSame(x) \/ SystemRequest(x) \/ SystemDone(x)
  BY <1>1 DEF SystemSame, SystemRequest, SystemDone
<1>2. CASE DeviceSame(x) \/ DeviceMove(x) \/ DeviceMoved(x)
  BY <1>2 DEF DeviceSame, DeviceMove, DeviceMoved
<1>3. CASE FdoSystemUp \/ FdoSystemQuery \/ FdoDeviceQuery \/ FdoDeviceFails
  BY <1>3 DEF FdoSystemUp, FdoSystemQuery, FdoDeviceQuery, FdoDeviceFails
<1> QED
  BY <1>1, <1>2, <1>3 DEF Handles

LEMMA SendFrame ==
  ASSUME NEW x \in Devices, PmSend(x)
  PROVE  UNCHANGED <<references, held, event, alerted, at, irp, deviceVars, storeVars,
                     working, faults>>
  BY DEF PmSend

LEMMA FdoPowersFrame ==
  ASSUME FdoPowers
  PROVE  UNCHANGED <<threadVars, life, system, link, other, irpVars, pmVars>>
<1> USE DEF Moves, storeVars
<1>1. CASE FdoUpFails \/ FdoFindIndex \/ FdoWriteIndex \/ FdoWatch
  BY <1>1 DEF FdoUpFails, FdoFindIndex, FdoWriteIndex, FdoWatch
<1>2. CASE FdoAsleep \/ FdoList \/ FdoCleared \/ \E i \in Indices : FdoClear(i)
  BY <1>2 DEF FdoAsleep, FdoList, FdoClear, FdoCleared
<1> QED
  BY <1>1, <1>2 DEF FdoPowers

LEMMA PdoPowersFrame ==
  ASSUME NEW p \in Pdos, PdoPowers(p)
  PROVE  UNCHANGED <<threadVars, life, system, storeVars, irpVars, pmVars>>
  BY DEF PdoPowers, PdoAwake, PdoUpFails, PdoEnable, PdoDisable, PdoAsleep

LEMMA LivesFrame ==
  ASSUME NEW x \in Devices, LivesOn(x)
  PROVE  /\ UNCHANGED <<slot, irp, power, link, irpVars, pmVars>>
         /\ UNCHANGED <<bound, names, drivers, other, left>>
<1> USE DEF threadVars, storeVars, pmVars
<1>1. CASE CreateSystemThread(x) \/ CreateDeviceThread(x) \/ CreateRest(x)
  BY <1>1 DEF CreateSystemThread, CreateDeviceThread, CreateRest
<1>2. CASE Destroy(x) \/ JoinDeviceThread(x) \/ JoinSystemThread(x)
  BY <1>2 DEF Destroy, JoinDeviceThread, JoinSystemThread
<1>3. CASE StartDevice(x) \/ StopDevice(x) \/ StartStopEnd(x)
  BY <1>3 DEF StartDevice, StopDevice, StartStopEnd
<1> QED
  BY <1>1, <1>2, <1>3 DEF LivesOn

LEMMA StoreFrame ==
  ASSUME StoreStep
  PROVE  UNCHANGED <<threadVars, deviceVars, bound, index, names, irpVars, pmVars>>
  BY DEF StoreStep, FdoSuspendCallbackLate, OtherFinds, OtherWrites, OtherRemoves

LEMMA EndFrame ==
  ASSUME PmEnd
  PROVE  UNCHANGED <<threadVars, deviceVars, storeVars, irpVars, faults>>
  BY DEF PmEnd

LEMMA BeginFrame ==
  ASSUME Begins
  PROVE  UNCHANGED <<threadVars, deviceVars, storeVars, irpVars, working, faults>>
  BY DEF Begins, PmBegin

-----------------------------------------------------------------------------
(* What a step of the two threads of a device does to the threads: an IRP  *)
(* is done with, requested of the device thread, or leads to a move.       *)
Finishes(t) == /\ at[t] \in {"handle", "requested", "moving"}
               /\ at' = [at EXCEPT ![t] = "look"]
               /\ irp' = [irp EXCEPT ![t] = None]
               /\ owed' = [owed EXCEPT ![t] = @ - 1]
               /\ UNCHANGED <<slot, waking>>

SystemFinishes(x) == /\ Finishes(Sys(x))
                     /\ at[Sys(x)] = "requested" => owed[Dev(x)] = 0

Requests(x) == Request(x, Asks(x, irp[Sys(x)]))

SetsOut(x) == /\ at[Dev(x)] = "handle"
              /\ irp[Dev(x)].minor = "set"
              /\ at' = [at EXCEPT ![Dev(x)] = "moving"]
              /\ UNCHANGED <<slot, irp, irpVars>>

LEMMA HandlesThreads ==
  ASSUME NEW x \in Devices, Handles(x)
  PROVE  SystemFinishes(x) \/ Requests(x) \/ Finishes(Dev(x)) \/ SetsOut(x)
<1> USE DEF Completes, Handled, Finishes, SystemFinishes, Requests, SetsOut
<1>1. CASE SystemSame(x) \/ SystemDone(x)
  BY <1>1 DEF SystemSame, SystemDone
<1>2. CASE SystemRequest(x)
  BY <1>2 DEF SystemRequest
<1>3. CASE DeviceSame(x) \/ DeviceMoved(x)
  BY <1>3 DEF DeviceSame, DeviceMoved
<1>4. CASE DeviceMove(x)
  BY <1>4 DEF DeviceMove, Goes
<1>5. CASE x = Fdo /\ (FdoSystemUp \/ FdoSystemQuery)
  BY <1>5 DEF FdoSystemUp, FdoSystemQuery
<1>6. CASE x = Fdo /\ (FdoDeviceQuery \/ FdoDeviceFails)
  BY <1>6 DEF FdoDeviceQuery, FdoDeviceFails
<1> QED
  BY <1>1, <1>2, <1>3, <1>4, <1>5, <1>6 DEF Handles

(* A device a system thread has an IRP for has none yet for its device     *)
(* thread, and what it asks of it is a request of the transition.          *)
LEMMA Requested ==
  ASSUME IInv, NEW x \in Devices, at[Sys(x)] = "handle"
  PROVE  /\ owed[Dev(x)] = 0 /\ slot[Dev(x)] = None /\ irp[Dev(x)] = None
         /\ owed[Sys(x)] = 1 /\ slot[Sys(x)] = None
         /\ irp[Sys(x)] \in Irps /\ irp[Sys(x)] # None
         /\ SystemIrp(x, irp[Sys(x)])
         /\ Asks(x, irp[Sys(x)]) \in Irps
         /\ DeviceIrp(x, Asks(x, irp[Sys(x)]))
         /\ ~Passed(x, Asks(x, irp[Sys(x)]))
<1>1. Sys(x) \in Threads /\ Dev(x) \in Threads
  BY ThreadsAre
<1>2. HandKept(Sys(x)) /\ HandKept(Dev(x))
  BY <1>1 DEF IInv, LoopKept
<1>3. ThreadType /\ PmType /\ IrpsKept /\ ContentsKept
  BY DEF IInv
<1>4. owed[Dev(x)] = 0
  BY <1>1, <1>3 DEF ThreadType, IrpsKept
<1>5. slot[Dev(x)] = None /\ irp[Dev(x)] = None
  BY <1>2, <1>4 DEF HandKept
<1>6. irp[Sys(x)] # None /\ slot[Sys(x)] = None /\ owed[Sys(x)] = 1
  BY <1>2 DEF HandKept
<1>7. irp[Sys(x)] \in Irps
  BY <1>1, <1>3, <1>6 DEF ThreadType
<1>8. SystemIrp(x, irp[Sys(x)])
  BY <1>3, <1>6 DEF ContentsKept
<1>9. pm \in Transitions /\ pm.target \in States
  BY <1>3, <1>8 DEF PmType, SystemIrp, Transitions
<1>10. DevicePowerStateMap(x, pm.target) \in {0, 3}
  BY <1>9, PowerAssumption DEF DevicePowerStateMap
<1>11. Asks(x, irp[Sys(x)]) = [minor |-> pm.minor,
                               state |-> DevicePowerStateMap(x, pm.target),
                               off |-> FALSE]
  BY <1>8 DEF Asks, SystemIrp
<1>12. Asks(x, irp[Sys(x)]) \in Irps
  BY <1>9, <1>10, <1>11 DEF Irps, Transitions
<1>13. DeviceIrp(x, Asks(x, irp[Sys(x)]))
  BY <1>8, <1>11 DEF DeviceIrp, SystemIrp
<1>14. ~Passed(x, Asks(x, irp[Sys(x)]))
  BY <1>8, <1>11 DEF Passed, SystemIrp
<1> QED
  BY <1>4, <1>5, <1>6, <1>7, <1>8, <1>12, <1>13, <1>14

(* The power manager sends an IRP to a device that has none.               *)
Message == [minor |-> pm.minor, state |-> pm.target, off |-> pm.off]

LEMMA Sent ==
  ASSUME IInv, NEW x \in Devices, PmSend(x)
  PROVE  /\ pm \in Transitions /\ x \in pm.todo /\ life[x] = "started"
         /\ pm' = [pm EXCEPT !.todo = @ \ {x}]
         /\ owed[Sys(x)] = 0 /\ slot[Sys(x)] = None /\ irp[Sys(x)] = None
         /\ Message \in Irps
         /\ DispatchPower(x, Sys(x), Message)
         /\ ~Passed(x, Message) => SystemIrp(x, Message)
<1>1. Sys(x) \in Threads
  BY ThreadsAre
<1>2. HandKept(Sys(x))
  BY <1>1 DEF IInv, LoopKept
<1>3. ThreadType /\ PmType /\ IrpsKept
  BY DEF IInv
<1>4. /\ pm # None /\ x \in pm.todo /\ pm' = [pm EXCEPT !.todo = @ \ {x}]
      /\ DispatchPower(x, Sys(x), Message)
  BY DEF PmSend, Message
<1>5. pm \in Transitions
  BY <1>3, <1>4 DEF PmType
<1>6. life[x] = "started" /\ owed[Sys(x)] = 0
  BY <1>3, <1>4 DEF IrpsKept
<1>7. slot[Sys(x)] = None /\ irp[Sys(x)] = None
  BY <1>2, <1>6 DEF HandKept
<1>8. Message \in Irps
  BY <1>5 DEF Message, Irps, Transitions
<1>9. ~Passed(x, Message) => SystemIrp(x, Message)
  BY <1>4, <1>5 DEF Passed, SystemIrp, Message, Transitions
<1> QED
  BY <1>4, <1>5, <1>6, <1>7, <1>8, <1>9

-----------------------------------------------------------------------------
(* The variables of the threads keep their types.                          *)
LEMMA ThreadTypeStep == IInv /\ [Next]_vars => ThreadType'
<1> SUFFICES ASSUME IInv, [Next]_vars PROVE ThreadType'
  OBVIOUS
<1> USE DEF vars, threadVars, irpVars
<1>0. ThreadType /\ LoopKept /\ LivesKept
  BY DEF IInv
<1>1. ASSUME NEW t \in Threads, ThreadRuns(t) PROVE ThreadType'
  <2>1. UNCHANGED <<irpVars, held, alerted>>
    BY <1>1, ThreadFrame
  <2>2. CASE Look(t) \/ Wait(t) \/ Alerted(t) \/ Take(t) \/ Empty(t)
    BY <1>0, <2>1, <2>2
       DEF ThreadType, Loop, Look, Wait, Alerted, Take, Empty, Goes
  <2>3. CASE Return(t)
    <3>1. ThreadKept(t) /\ at[t] = "return"
      BY <1>0, <2>3 DEF LivesKept, Return, Goes
    <3>2. references[t] - 1 \in 0..2
      BY <1>0, <3>1 DEF ThreadType, ThreadKept, RunsNow
    <3> QED
      BY <1>0, <2>1, <2>3, <3>2 DEF ThreadType, Loop, Return, Goes
  <2> QED
    BY <1>1, <2>2, <2>3 DEF ThreadRuns, Runs
<1>2. ASSUME NEW t \in Threads, DispatchWake(t) PROVE ThreadType'
  BY <1>0, <1>2 DEF ThreadType, DispatchWake, ThreadWake
<1>3. ASSUME NEW x \in Devices, Handles(x) PROVE ThreadType'
  <2>1. UNCHANGED <<references, held, event, alerted>>
    BY <1>3, HandlesFrame
  <2>2. Sys(x) \in Threads /\ Dev(x) \in Threads
    BY ThreadsAre
  <2>3. ASSUME NEW t \in Threads, Finishes(t) PROVE ThreadType'
    <3>1. owed[t] - 1 \in 0..1
      BY <1>0, <2>3 DEF LoopKept, HandKept, Finishes
    <3> QED
      BY <1>0, <2>1, <2>3, <3>1 DEF ThreadType, Loop, Finishes
  <2>4. CASE Requests(x)
    <3>1. /\ at[Sys(x)] = "handle"
          /\ DispatchPower(x, Dev(x), Asks(x, irp[Sys(x)]))
          /\ at' = [at EXCEPT ![Sys(x)] = "requested"] /\ irp' = irp
      BY <2>4 DEF Requests, Request, Goes
    <3>2. owed[Dev(x)] + 1 \in 0..1 /\ Asks(x, irp[Sys(x)]) \in Irps
      BY <3>1, Requested
    <3> QED
      BY <1>0, <2>1, <3>1, <3>2 DEF ThreadType, DispatchPower
  <2>5. CASE SetsOut(x)
    BY <1>0, <2>1, <2>5 DEF ThreadType, SetsOut
  <2> QED
    BY <1>3, <2>2, <2>3, <2>4, <2>5, HandlesThreads DEF SystemFinishes
<1>4. ASSUME NEW x \in Devices, PmSend(x) PROVE ThreadType'
  <2>1. UNCHANGED <<references, held, event, alerted, at, irp>>
    BY <1>4, SendFrame
  <2>2. owed[Sys(x)] + 1 \in 0..1 /\ Message \in Irps
    BY <1>4, Sent
  <2>3. DispatchPower(x, Sys(x), Message)
    BY <1>4, Sent
  <2> QED
    BY <1>0, <2>1, <2>2, <2>3 DEF ThreadType, DispatchPower
<1>5. ASSUME NEW x \in Devices, LivesOn(x) PROVE ThreadType'
  <2>1. UNCHANGED <<slot, irp, irpVars>>
    BY <1>5, LivesFrame
  <2>2. CASE CreateSystemThread(x) \/ CreateDeviceThread(x)
    <3>1. ASSUME NEW t \in Threads, Creates(t) PROVE ThreadType'
      BY <1>0, <2>1, <3>1 DEF ThreadType, Loop, Creates
    <3>2. ASSUME NEW t \in Threads, Abandons(t) PROVE ThreadType'
      BY <1>0, <2>1, <3>2 DEF ThreadType, Loop, Abandons
    <3>3. CASE CreateSystemThread(x)
      BY <3>1, <3>2, <3>3, ThreadsAre DEF CreateSystemThread
    <3>4. CASE CreateDeviceThread(x)
      <4>1. CASE Creates(Dev(x))
        BY <3>1, <4>1, ThreadsAre
      <4>2. CASE ThreadAlert(Sys(x)) /\ UNCHANGED <<references, held, at>>
        BY <1>0, <2>1, <4>2 DEF ThreadType, ThreadAlert, ThreadWake
      <4>3. ASSUME NEW t \in Threads, NEW u \in Threads,
                   references' = [references EXCEPT ![t] = 1],
                   at' = [at EXCEPT ![t] = "look"],
                   alerted' = [alerted EXCEPT ![t] = TRUE, ![u] = TRUE],
                   event' = [event EXCEPT ![t] = TRUE, ![u] = TRUE],
                   UNCHANGED held
            PROVE  ThreadType'
        <5>1. /\ event' \in [Threads -> BOOLEAN]
              /\ alerted' \in [Threads -> BOOLEAN]
          BY <1>0, <4>3 DEF ThreadType
        <5>2. references' \in [Threads -> 0..2]
          BY <1>0, <4>3 DEF ThreadType
        <5>3. at' \in [Threads -> Loop \cup {"none", "handle", "requested",
                                            "moving", "exited"}]
          BY <1>0, <4>3 DEF ThreadType, Loop
        <5> QED
          BY <1>0, <2>1, <4>3, <5>1, <5>2, <5>3 DEF ThreadType
      <4> QED
        BY <3>4, <4>1, <4>2, <4>3, ThreadsAre DEF CreateDeviceThread
    <3> QED
      BY <2>2, <3>3, <3>4
  <2>3. CASE Destroy(x)
    BY <1>0, <2>1, <2>3 DEF ThreadType, Destroy, ThreadAlert, ThreadWake
  <2>4. CASE CreateRest(x) \/ StartDevice(x) \/ StopDevice(x) \/ StartStopEnd(x)
    BY <1>0, <2>1, <2>4
       DEF ThreadType, CreateRest, StartDevice, StopDevice, StartStopEnd
  <2>5. ASSUME NEW t \in Threads, ThreadJoin(t)
        PROVE  /\ references' \in [Threads -> 0..2]
               /\ held' \in [Threads -> BOOLEAN]
               /\ at' \in [Threads -> Loop \cup {"none", "handle", "requested",
                                               "moving", "exited"}]
    <3>1. ThreadKept(t) /\ at[t] = "exited"
      BY <1>0, <2>5 DEF LivesKept, ThreadJoin
    <3>2. references[t] - 1 \in 0..2
      BY <1>0, <3>1 DEF ThreadType, ThreadKept, RunsNow
    <3> QED
      BY <1>0, <2>5, <3>2 DEF ThreadType, ThreadJoin
  <2>6. CASE JoinDeviceThread(x)
    BY <1>0, <2>1, <2>5, <2>6, ThreadsAre
       DEF ThreadType, JoinDeviceThread, ThreadAlert, ThreadWake
  <2>7. CASE JoinSystemThread(x)
    BY <1>0, <2>1, <2>5, <2>7, ThreadsAre DEF ThreadType, JoinSystemThread
  <2> QED
    BY <1>5, <2>2, <2>3, <2>4, <2>6, <2>7 DEF LivesOn
<1>6. CASE UNCHANGED <<threadVars, irpVars>>
  BY <1>0, <1>6 DEF ThreadType
<1> QED
  BY <1>1, <1>2, <1>3, <1>4, <1>5, <1>6, Steps, FdoPowersFrame, PdoPowersFrame,
     StoreFrame, EndFrame, BeginFrame

(* A slot is filled only when it is empty, emptied only of what was taken  *)
(* from it, and filled by one who is about to wake the thread.             *)
LEMMA Filled ==
  ASSUME ThreadType, LoopKept, NEW t \in Threads, NEW x \in Devices, NEW i \in Irps,
         owed[t] = 0, at[t] \notin {"handle", "requested", "moving", "empty"},
         DispatchPower(x, t, i), UNCHANGED <<event, irp>>,
         \A u \in Threads : at'[u] # at[u] => at'[u] = "requested" /\ at[u] = "handle"
  PROVE  LoopKept'
<1>1. ASSUME NEW u \in Threads PROVE HandKept(u)'
  <2>1. HandKept(u) /\ HandKept(t)
    BY DEF LoopKept
  <2>2. i # None
    BY NoneAssumption
  <2>3. CASE Passed(x, i)
    BY <2>1, <2>3 DEF HandKept, DispatchPower
  <2>4. CASE ~Passed(x, i) /\ u = t
    <3>1. slot'[t] = i /\ waking'[t] /\ owed'[t] = 1 /\ at'[t] = at[t]
      BY <2>4 DEF ThreadType, DispatchPower
    <3> QED
      BY <2>1, <2>2, <2>4, <3>1 DEF HandKept
  <2>5. CASE ~Passed(x, i) /\ u # t
    <3>1. slot'[u] = slot[u] /\ waking'[u] = waking[u] /\ owed'[u] = owed[u]
      BY <2>5 DEF ThreadType, DispatchPower
    <3> QED
      BY <2>1, <3>1 DEF HandKept
  <2> QED
    BY <2>3, <2>4, <2>5
<1> QED
  BY <1>1 DEF LoopKept

LEMMA LoopStep == IInv /\ [Next]_vars => LoopKept'
<1> SUFFICES ASSUME IInv, [Next]_vars PROVE LoopKept'
  OBVIOUS
<1> USE DEF vars, threadVars, irpVars
<1>0. ThreadType /\ LoopKept /\ LivesKept
  BY DEF IInv
<1>a. \A x \in Devices : Sys(x) \in Threads /\ Dev(x) \in Threads
  BY ThreadsAre
<1>1. ASSUME NEW t \in Threads, ThreadRuns(t), NEW u \in Threads PROVE HandKept(u)'
  <2>1. UNCHANGED <<irpVars, held, alerted>>
    BY <1>1, ThreadFrame
  <2>2. HandKept(u)
    BY <1>0 DEF LoopKept
  <2>3. CASE u # t
    <3>1. /\ at'[u] = at[u] /\ slot'[u] = slot[u] /\ irp'[u] = irp[u]
          /\ event'[u] = event[u]
      BY <1>0, <1>1, <2>3
         DEF ThreadType, ThreadRuns, Runs, Look, Wait, Alerted, Take, Empty, Return,
             Goes
    <3> QED
      BY <2>1, <2>2, <3>1 DEF HandKept
  <2>4. CASE u = t
    <3>1. CASE Look(t)
      BY <1>0, <2>1, <2>2, <2>4, <3>1 DEF ThreadType, HandKept, Look, Goes
    <3>2. CASE Wait(t)
      BY <1>0, <2>1, <2>2, <2>4, <3>2 DEF ThreadType, HandKept, Wait, Goes
    <3>3. CASE Alerted(t)
      BY <1>0, <2>1, <2>2, <2>4, <3>3 DEF ThreadType, HandKept, Alerted, Goes
    <3>4. CASE Take(t)
      BY <1>0, <2>1, <2>2, <2>4, <3>4 DEF ThreadType, HandKept, Take, Goes
    <3>5. CASE Empty(t)
      BY <1>0, <2>1, <2>2, <2>4, <3>5 DEF ThreadType, HandKept, Empty, Goes
    <3>6. CASE Return(t)
      BY <1>0, <2>1, <2>2, <2>4, <3>6 DEF ThreadType, HandKept, Return, Goes
    <3> QED
      BY <1>1, <3>1, <3>2, <3>3, <3>4, <3>5, <3>6 DEF ThreadRuns, Runs
  <2> QED
    BY <2>3, <2>4
<1>2. ASSUME NEW t \in Threads, DispatchWake(t), NEW u \in Threads PROVE HandKept(u)'
  <2>1. HandKept(u)
    BY <1>0 DEF LoopKept
  <2>2. /\ UNCHANGED <<at, slot, irp, owed>>
        /\ waking[u] \/ event[u] => waking'[u] \/ event'[u]
    BY <1>0, <1>2 DEF ThreadType, DispatchWake, ThreadWake
  <2> QED
    BY <2>1, <2>2 DEF HandKept
<1>3. ASSUME NEW x \in Devices, Handles(x) PROVE LoopKept'
  <2>1. UNCHANGED event
    BY <1>3, HandlesFrame
  <2>2. ASSUME NEW t \in Threads, Finishes(t), NEW u \in Threads PROVE HandKept(u)'
    <3>1. HandKept(u)
      BY <1>0 DEF LoopKept
    <3>2. CASE u = t
      <4>1. owed[t] = 1
        BY <2>2, <3>1, <3>2 DEF HandKept, Finishes
      <4>2. /\ at'[t] = "look" /\ irp'[t] = None /\ owed'[t] = 0
            /\ slot'[t] = None
        BY <1>0, <2>2, <3>1, <3>2, <4>1 DEF ThreadType, HandKept, Finishes
      <4> QED
        BY <3>2, <4>2 DEF HandKept
    <3>3. CASE u # t
      <4>1. /\ at'[u] = at[u] /\ slot'[u] = slot[u] /\ irp'[u] = irp[u]
            /\ owed'[u] = owed[u] /\ waking'[u] = waking[u]
        BY <1>0, <2>2, <3>3 DEF ThreadType, Finishes
      <4> QED
        BY <2>1, <3>1, <4>1 DEF HandKept
    <3> QED
      BY <3>2, <3>3
  <2>3. CASE Requests(x)
    <3>1. /\ at[Sys(x)] = "handle" /\ UNCHANGED irp
          /\ DispatchPower(x, Dev(x), Asks(x, irp[Sys(x)]))
          /\ at' = [at EXCEPT ![Sys(x)] = "requested"]
      BY <2>3 DEF Requests, Request, Goes
    <3>2. /\ Asks(x, irp[Sys(x)]) \in Irps
          /\ owed[Dev(x)] = 0 /\ irp[Dev(x)] = None
      BY <3>1, Requested
    <3>3. HandKept(Dev(x))
      BY <1>0, <1>a DEF LoopKept
    <3>4. at[Dev(x)] \notin {"handle", "requested", "moving", "empty"}
      BY <3>2, <3>3 DEF HandKept
    <3>5. \A u \in Threads : at'[u] # at[u] => at'[u] = "requested" /\ at[u] = "handle"
      BY <1>0, <3>1 DEF ThreadType
    <3> QED
      BY <1>0, <1>a, <2>1, <3>1, <3>2, <3>4, <3>5, Filled
  <2>4. ASSUME SetsOut(x), NEW u \in Threads PROVE HandKept(u)'
    <3>1. HandKept(u)
      BY <1>0 DEF LoopKept
    <3>2. at'[u] = at[u] \/ (at'[u] = "moving" /\ at[u] = "handle")
      BY <1>0, <1>a, <2>4 DEF ThreadType, SetsOut
    <3>3. UNCHANGED <<slot, irp, waking, owed>>
      BY <2>4 DEF SetsOut
    <3> QED
      BY <2>1, <3>1, <3>2, <3>3 DEF HandKept
  <2> QED
    BY <1>3, <1>a, <2>2, <2>3, <2>4, HandlesThreads DEF SystemFinishes, LoopKept
<1>4. ASSUME NEW x \in Devices, PmSend(x) PROVE LoopKept'
  <2>1. UNCHANGED <<event, at, irp>>
    BY <1>4, SendFrame
  <2>2. /\ Message \in Irps
        /\ owed[Sys(x)] = 0 /\ slot[Sys(x)] = None /\ irp[Sys(x)] = None
        /\ DispatchPower(x, Sys(x), Message)
    BY <1>4, Sent
  <2>3. HandKept(Sys(x))
    BY <1>0, <1>a DEF LoopKept
  <2>4. at[Sys(x)] \notin {"handle", "requested", "moving", "empty"}
    BY <2>2, <2>3 DEF HandKept
  <2> QED
    BY <1>0, <1>a, <2>1, <2>2, <2>4, Filled
<1>5. ASSUME NEW x \in Devices, LivesOn(x), NEW u \in Threads PROVE HandKept(u)'
  <2>1. UNCHANGED <<slot, irp, waking, owed>>
    BY <1>5, LivesFrame
  <2>2. HandKept(u)
    BY <1>0 DEF LoopKept
  <2>3. \/ at'[u] = at[u] /\ (event[u] => event'[u])
        \/ at[u] \in {"none", "exited"} /\ at'[u] \in {"none", "look"}
    <3>1. CASE CreateSystemThread(x)
      BY <1>0, <1>a, <3>1 DEF ThreadType, CreateSystemThread, Creates, Abandons
    <3>2. CASE CreateDeviceThread(x)
      <4>1. at[Dev(x)] = "none"
        BY <1>0, <3>2 DEF LivesKept, OwnerKept, CreateDeviceThread, Lives
      <4>2. CASE Creates(Dev(x))
        BY <1>0, <1>a, <4>1, <4>2 DEF ThreadType, Creates
      <4>3. CASE UNCHANGED at /\ ThreadAlert(Sys(x))
        BY <1>0, <1>a, <4>3 DEF ThreadType, ThreadAlert, ThreadWake
      <4>4. CASE /\ at' = [at EXCEPT ![Dev(x)] = "look"]
                 /\ event' = [event EXCEPT ![Dev(x)] = TRUE, ![Sys(x)] = TRUE]
        BY <1>0, <1>a, <4>1, <4>4 DEF ThreadType
      <4> QED
        BY <3>2, <4>2, <4>3, <4>4 DEF CreateDeviceThread
    <3>3. CASE Destroy(x)
      BY <1>0, <1>a, <3>3 DEF ThreadType, Destroy, ThreadAlert, ThreadWake
    <3>4. CASE JoinDeviceThread(x)
      BY <1>0, <1>a, <3>4
         DEF ThreadType, JoinDeviceThread, ThreadJoin, ThreadAlert, ThreadWake
    <3>5. CASE JoinSystemThread(x)
      BY <1>0, <1>a, <3>5 DEF ThreadType, JoinSystemThread, ThreadJoin
    <3>6. CASE CreateRest(x) \/ StartDevice(x) \/ StopDevice(x) \/ StartStopEnd(x)
      BY <3>6 DEF CreateRest, StartDevice, StopDevice, StartStopEnd
    <3> QED
      BY <1>5, <3>1, <3>2, <3>3, <3>4, <3>5, <3>6 DEF LivesOn
  <2> QED
    BY <2>1, <2>2, <2>3 DEF HandKept
<1>6. CASE UNCHANGED <<threadVars, irpVars>>
  BY <1>0, <1>6 DEF LoopKept, HandKept
<1> QED
  BY <1>1, <1>2, <1>3, <1>4, <1>5, <1>6, Steps, FdoPowersFrame, PdoPowersFrame,
     StoreFrame, EndFrame, BeginFrame DEF LoopKept

(* Only the system thread requests, and only the device thread moves: the  *)
(* two run the same loop and differ in what they do with an IRP.           *)
LEMMA KindsStep == IInv /\ [Next]_vars => KindsKept'
<1> SUFFICES ASSUME IInv, [Next]_vars, NEW y \in Devices
             PROVE  at'[Dev(y)] # "requested" /\ at'[Sys(y)] # "moving"
  BY DEF KindsKept
<1> USE DEF vars, threadVars
<1>0. ThreadType /\ KindsKept
  BY DEF IInv
<1>a. \A x \in Devices : Sys(x) \in Threads /\ Dev(x) \in Threads
  BY ThreadsAre
<1>b. at[Dev(y)] # "requested" /\ at[Sys(y)] # "moving"
  BY <1>0 DEF KindsKept
<1>c. CASE \A u \in Threads : at'[u] # at[u] => at'[u] \notin {"requested", "moving"}
  BY <1>a, <1>b, <1>c
<1>1. ASSUME NEW t \in Threads, ThreadRuns(t), NEW u \in Threads
      PROVE  at'[u] # at[u] => at'[u] \notin {"requested", "moving"}
  BY <1>0, <1>1
     DEF ThreadType, ThreadRuns, Runs, Look, Wait, Alerted, Take, Empty, Return, Goes
<1>2. ASSUME NEW x \in Devices, Handles(x)
      PROVE  at'[Dev(y)] # "requested" /\ at'[Sys(y)] # "moving"
  <2>1. CASE SystemFinishes(x) \/ Finishes(Dev(x))
    BY <1>0, <1>a, <1>c, <2>1 DEF ThreadType, SystemFinishes, Finishes
  <2>2. CASE Requests(x)
    <3>1. at' = [at EXCEPT ![Sys(x)] = "requested"]
      BY <2>2 DEF Requests, Request, Goes
    <3> QED
      BY <1>0, <1>a, <1>b, <3>1, ThreadsAre DEF ThreadType
  <2>3. CASE SetsOut(x)
    BY <1>0, <1>a, <1>b, <2>3, ThreadsAre DEF ThreadType, SetsOut
  <2> QED
    BY <1>2, <2>1, <2>2, <2>3, HandlesThreads
<1>3. ASSUME NEW x \in Devices, LivesOn(x), NEW u \in Threads
      PROVE  at'[u] # at[u] => at'[u] \notin {"requested", "moving"}
  <2>1. CASE CreateSystemThread(x) \/ CreateDeviceThread(x)
    BY <1>0, <1>a, <2>1
       DEF ThreadType, CreateSystemThread, CreateDeviceThread, Creates, Abandons
  <2>2. CASE JoinDeviceThread(x) \/ JoinSystemThread(x)
    BY <1>0, <1>a, <2>2 DEF ThreadType, JoinDeviceThread, JoinSystemThread, ThreadJoin
  <2>3. CASE UNCHANGED at
    BY <2>3
  <2> QED
    BY <1>3, <2>1, <2>2, <2>3
       DEF LivesOn, CreateRest, Destroy, StartDevice, StopDevice, StartStopEnd
<1>4. CASE UNCHANGED at
  BY <1>b, <1>4
<1> QED
  BY <1>1, <1>2, <1>3, <1>4, <1>c, Steps, WakeFrame, SendFrame, FdoPowersFrame,
     PdoPowersFrame, StoreFrame, EndFrame, BeginFrame

(* A step of one device leaves the others and their threads alone.         *)
SameThread(u) == /\ references'[u] = references[u] /\ held'[u] = held[u]
                 /\ alerted'[u] = alerted[u] /\ at'[u] = at[u]
SameBut(x) == /\ \A u \in Threads : u \notin {Sys(x), Dev(x)} => SameThread(u)
              /\ \A y \in Devices : y # x => life'[y] = life[y]

(* A console lives while its bus does.                                     *)
Rooted == \A p \in Pdos : life[p] \in {"starting", "started", "stopping"}
                            => life[Fdo] = "started"

LEMMA LivesApart ==
  ASSUME LivesKept, NEW x \in Devices, SameBut(x), Rooted',
         ThreadKept(Sys(x))', ThreadKept(Dev(x))', OwnerKept(x)'
  PROVE  LivesKept'
<1>1. ASSUME NEW u \in Threads PROVE ThreadKept(u)'
  BY DEF LivesKept, SameBut, SameThread, ThreadKept, RunsNow
<1>2. ASSUME NEW y \in Devices PROVE OwnerKept(y)'
  <2>1. CASE y # x
    <3>1. SameThread(Sys(y)) /\ SameThread(Dev(y)) /\ life'[y] = life[y]
      BY <2>1, ThreadsAre DEF SameBut
    <3> QED
      BY <3>1 DEF LivesKept, OwnerKept, SameThread
  <2> QED
    BY <2>1
<1> QED
  BY <1>1, <1>2 DEF LivesKept, Rooted

LEMMA RootedStep ==
  ASSUME DeviceType, LivesKept, NEW x \in Devices, LivesOn(x)
  PROVE  Rooted' /\ \A y \in Devices : y # x => life'[y] = life[y]
<1> USE DEF Lives
<1>1. /\ Rooted
      /\ x = Fdo \/ x \in Pdos
      /\ Fdo \in Devices /\ Pdos \subseteq Devices /\ Fdo \notin Pdos
  BY ThreadsAre DEF LivesKept, Rooted
<1>2. CASE StartDevice(x)
  <2>1. /\ life[x] = "made" /\ life' = [life EXCEPT ![x] = "starting"]
        /\ x \in Pdos => life[Fdo] = "started"
    BY <1>2 DEF StartDevice
  <2> QED
    BY <1>1, <2>1 DEF DeviceType, Rooted
<1>3. CASE StopDevice(x)
  <2>1. /\ life' = [life EXCEPT ![x] = "stopping"] /\ life[x] = "started"
        /\ \A y \in Devices : life[y] \notin {"starting", "stopping"}
        /\ x = Fdo => \A p \in Pdos : life[p] # "started"
    BY <1>3 DEF StopDevice, Quiet
  <2> QED
    BY <1>1, <2>1 DEF DeviceType, Rooted
<1>4. CASE StartStopEnd(x)
  <2>1. /\ life[x] \in {"starting", "stopping"}
        /\ \E l \in {"started", "made"} : life' = [life EXCEPT ![x] = l]
    BY <1>4 DEF StartStopEnd
  <2> QED
    BY <1>1, <2>1 DEF DeviceType, Rooted
<1>5. ASSUME NEW l \in {"none", "one", "two", "made", "join device", "join system"},
             life' = [life EXCEPT ![x] = l],
             life[x] \notin {"starting", "started", "stopping"}
      PROVE  Rooted' /\ \A y \in Devices : y # x => life'[y] = life[y]
  BY <1>1, <1>5 DEF DeviceType, Rooted
<1>6. CASE CreateSystemThread(x) \/ CreateDeviceThread(x) \/ CreateRest(x)
  BY <1>5, <1>6 DEF CreateSystemThread, CreateDeviceThread, CreateRest
<1>7. CASE Destroy(x) \/ JoinDeviceThread(x) \/ JoinSystemThread(x)
  BY <1>5, <1>7 DEF Destroy, JoinDeviceThread, JoinSystemThread
<1> QED
  BY <1>2, <1>3, <1>4, <1>6, <1>7 DEF LivesOn

(* A thread has a reference of its own while it runs and one of its device *)
(* while that holds it, and the device holds the threads its life says.    *)
LEMMA LivesStep == IInv /\ [Next]_vars => LivesKept'
<1> SUFFICES ASSUME IInv, [Next]_vars PROVE LivesKept'
  OBVIOUS
<1> USE DEF vars, threadVars, deviceVars
<1>0. ThreadType /\ DeviceType /\ LivesKept /\ MovesKept
  BY DEF IInv
<1>a. \A x \in Devices : Sys(x) \in Threads /\ Dev(x) \in Threads
  BY ThreadsAre
<1>b. /\ \A t \in Threads : ThreadKept(t)
      /\ \A x \in Devices : OwnerKept(x)
  BY <1>0 DEF LivesKept
<1>c. ASSUME UNCHANGED <<references, held, alerted, life>>,
             \A t \in Threads : /\ RunsNow(t)' <=> RunsNow(t)
                                /\ at'[t] = "exited" <=> at[t] = "exited"
                                /\ at'[t] = "none" <=> at[t] = "none"
      PROVE  LivesKept'
  <2>1. \A t \in Threads : ThreadKept(t)'
    BY <1>b, <1>c DEF ThreadKept
  <2>2. \A x \in Devices : OwnerKept(x)'
    BY <1>a, <1>b, <1>c DEF OwnerKept
  <2> QED
    BY <1>0, <1>c, <2>1, <2>2 DEF LivesKept
<1>1. ASSUME NEW t \in Threads, ThreadRuns(t) PROVE LivesKept'
  <2>1. UNCHANGED <<deviceVars, held, alerted>>
    BY <1>1, ThreadFrame
  <2>2. CASE Look(t) \/ Wait(t) \/ Alerted(t) \/ Take(t) \/ Empty(t)
    BY <1>0, <1>c, <2>1, <2>2
       DEF ThreadType, RunsNow, Look, Wait, Alerted, Take, Empty, Goes
  <2>3. CASE Return(t)
    <3>1. ASSUME NEW u \in Threads PROVE ThreadKept(u)'
      <4>1. CASE u = t
        <5>1. /\ at[t] = "return" /\ at'[t] = IF held[t] THEN "exited" ELSE "none"
              /\ references'[t] = references[t] - 1
          BY <1>0, <2>3 DEF ThreadType, Return, Goes
        <5>2. references[t] = (IF held[t] THEN 1 ELSE 0) + 1
          BY <1>b, <5>1 DEF ThreadKept, RunsNow
        <5> QED
          BY <2>1, <4>1, <5>1, <5>2 DEF ThreadKept, RunsNow
      <4>2. CASE u # t
        <5>1. at'[u] = at[u] /\ references'[u] = references[u]
          BY <1>0, <2>3, <4>2 DEF ThreadType, Return, Goes
        <5> QED
          BY <1>b, <2>1, <5>1 DEF ThreadKept, RunsNow
      <4> QED
        BY <4>1, <4>2
    <3>2. ASSUME NEW x \in Devices PROVE OwnerKept(x)'
      <4>1. at[Dev(x)] = "none" => at'[Dev(x)] = "none"
        BY <1>0, <1>a, <2>3 DEF ThreadType, Return, Goes
      <4> QED
        BY <1>b, <2>1, <4>1 DEF OwnerKept
    <3> QED
      BY <1>0, <2>1, <3>1, <3>2 DEF LivesKept
  <2> QED
    BY <1>1, <2>2, <2>3 DEF ThreadRuns, Runs
<1>2. ASSUME NEW x \in Devices, Handles(x) PROVE LivesKept'
  <2>1. UNCHANGED <<references, held, alerted, life>>
    BY <1>2, HandlesFrame
  <2>2. CASE SystemFinishes(x) \/ Finishes(Dev(x))
    BY <1>0, <1>a, <1>c, <2>1, <2>2 DEF ThreadType, RunsNow, SystemFinishes, Finishes
  <2>3. CASE Requests(x)
    <3>1. at' = [at EXCEPT ![Sys(x)] = "requested"] /\ at[Sys(x)] = "handle"
      BY <2>3 DEF Requests, Request, Goes
    <3> QED
      BY <1>0, <1>a, <1>c, <2>1, <3>1 DEF ThreadType, RunsNow
  <2>4. CASE SetsOut(x)
    BY <1>0, <1>a, <1>c, <2>1, <2>4 DEF ThreadType, RunsNow, SetsOut
  <2> QED
    BY <1>2, <2>2, <2>3, <2>4, HandlesThreads
<1>3. ASSUME NEW x \in Devices, LivesOn(x) PROVE LivesKept'
  <2> DEFINE s == Sys(x)
             d == Dev(x)
  <2>0. /\ s \in Threads /\ d \in Threads /\ s # d
        /\ Rooted' /\ \A y \in Devices : y # x => life'[y] = life[y]
        /\ ThreadKept(s) /\ ThreadKept(d) /\ OwnerKept(x)
    BY <1>0, <1>3, <1>b, ThreadsAre, RootedStep
  <2>a. ASSUME NEW t \in Threads, Creates(t)
        PROVE  /\ references'[t] = 2 /\ held'[t] /\ at'[t] = "look"
               /\ \A u \in Threads : u # t => SameThread(u)
    BY <1>0, <2>a DEF ThreadType, Creates, SameThread
  <2>b. ASSUME NEW t \in Threads, ThreadJoin(t)
        PROVE  /\ references'[t] = references[t] - 1 /\ ~held'[t] /\ at'[t] = "none"
               /\ at[t] = "exited"
               /\ \A u \in Threads : u # t => /\ references'[u] = references[u]
                                              /\ held'[u] = held[u] /\ at'[u] = at[u]
    BY <1>0, <2>b DEF ThreadType, ThreadJoin
  <2>c. ASSUME NEW t \in Threads, ThreadAlert(t)
        PROVE  alerted'[t] /\ \A u \in Threads : u # t => alerted'[u] = alerted[u]
    BY <1>0, <2>c DEF ThreadType, ThreadAlert
  <2> HIDE DEF s, d
  <2>1. CASE CreateSystemThread(x)
    <3>1. life[x] = "none" /\ at[s] = "none" /\ at[d] = "none"
      BY <2>1 DEF CreateSystemThread, Lives, s, d
    <3>2. ~held[s] /\ ~held[d]
      BY <2>0, <3>1 DEF OwnerKept, Both, s, d
    <3>3. CASE life' = [life EXCEPT ![x] = "one"] /\ Creates(s)
      <4>1. life'[x] = "one"
        BY <1>0, <3>3 DEF DeviceType
      <4>2. /\ references'[s] = 2 /\ held'[s] /\ at'[s] = "look"
            /\ \A u \in Threads : u # s => SameThread(u)
        BY <2>0, <2>a, <3>3
      <4>3. ThreadKept(s)' /\ ThreadKept(d)'
        BY <2>0, <4>2 DEF ThreadKept, RunsNow, SameThread
      <4>4. OwnerKept(x)'
        BY <2>0, <3>1, <3>2, <4>1, <4>2 DEF OwnerKept, Both, SameThread, s, d
      <4> QED
        BY <1>0, <2>0, <4>2, <4>3, <4>4, LivesApart DEF SameBut, s, d
    <3>4. CASE life' = [life EXCEPT ![x] = "none"] /\ Abandons(s)
      <4>1. life'[x] = "none"
        BY <1>0, <3>4 DEF DeviceType
      <4>2. /\ references'[s] = 1 /\ ~held'[s] /\ at'[s] = "look" /\ alerted'[s]
            /\ \A u \in Threads : u # s => SameThread(u)
        BY <1>0, <2>0, <3>2, <3>4 DEF ThreadType, Abandons, SameThread
      <4>3. ThreadKept(s)' /\ ThreadKept(d)'
        BY <2>0, <4>2 DEF ThreadKept, RunsNow, SameThread
      <4>4. OwnerKept(x)'
        BY <2>0, <3>1, <3>2, <4>1, <4>2 DEF OwnerKept, Both, SameThread, s, d
      <4> QED
        BY <1>0, <2>0, <4>2, <4>3, <4>4, LivesApart DEF SameBut, s, d
    <3> QED
      BY <2>1, <3>3, <3>4 DEF CreateSystemThread, Lives, s
  <2>2. CASE CreateDeviceThread(x)
    <3>1. life[x] = "one" /\ at[d] = "none" /\ held[s] /\ ~held[d]
      BY <2>0, <2>2 DEF CreateDeviceThread, Lives, OwnerKept, Both, s, d
    <3>2. CASE life' = [life EXCEPT ![x] = "two"] /\ Creates(d)
      <4>1. life'[x] = "two"
        BY <1>0, <3>2 DEF DeviceType
      <4>2. /\ references'[d] = 2 /\ held'[d] /\ at'[d] = "look"
            /\ \A u \in Threads : u # d => SameThread(u)
        BY <2>0, <2>a, <3>2
      <4>3. ThreadKept(s)' /\ ThreadKept(d)'
        BY <2>0, <4>2 DEF ThreadKept, RunsNow, SameThread
      <4>4. OwnerKept(x)'
        BY <2>0, <3>1, <4>1, <4>2 DEF OwnerKept, Both, SameThread, s, d
      <4> QED
        BY <1>0, <2>0, <4>2, <4>3, <4>4, LivesApart DEF SameBut, s, d
    <3>3. CASE /\ life' = [life EXCEPT ![x] = "join system"]
               /\ ThreadAlert(s) /\ UNCHANGED <<references, held, at>>
      <4>1. life'[x] = "join system"
        BY <1>0, <3>3 DEF DeviceType
      <4>2. alerted'[s] /\ \A u \in Threads : u # s => alerted'[u] = alerted[u]
        BY <2>0, <2>c, <3>3
      <4>3. ThreadKept(s)' /\ ThreadKept(d)'
        BY <2>0, <3>3, <4>2 DEF ThreadKept, RunsNow
      <4>4. OwnerKept(x)'
        BY <2>0, <3>1, <3>3, <4>1 DEF OwnerKept, Both, s, d
      <4> QED
        BY <1>0, <2>0, <3>3, <4>2, <4>3, <4>4, LivesApart
           DEF SameBut, SameThread, s, d
    <3>4. CASE /\ life' = [life EXCEPT ![x] = "join system"]
               /\ references' = [references EXCEPT ![d] = 1]
               /\ at' = [at EXCEPT ![d] = "look"]
               /\ alerted' = [alerted EXCEPT ![d] = TRUE, ![s] = TRUE]
               /\ UNCHANGED held
      <4>1. life'[x] = "join system"
        BY <1>0, <3>4 DEF DeviceType
      <4>2. /\ references'[d] = 1 /\ at'[d] = "look" /\ alerted'[d]
            /\ at'[s] = at[s] /\ references'[s] = references[s] /\ alerted'[s]
            /\ held'[s] /\ ~held'[d]
            /\ \A u \in Threads : u \notin {s, d} => SameThread(u)
        BY <1>0, <2>0, <3>1, <3>4 DEF ThreadType, SameThread
      <4>3. ThreadKept(s)' /\ ThreadKept(d)'
        BY <2>0, <3>1, <4>2 DEF ThreadKept, RunsNow
      <4>4. OwnerKept(x)'
        BY <2>0, <3>1, <3>4, <4>1, <4>2 DEF OwnerKept, Both, s, d
      <4> QED
        BY <1>0, <2>0, <4>2, <4>3, <4>4, LivesApart DEF SameBut, s, d
    <3> QED
      BY <2>2, <3>2, <3>3, <3>4 DEF CreateDeviceThread, Lives, s, d
  <2>3. CASE Destroy(x)
    <3>1. /\ life[x] \in {"made", "two"} /\ life' = [life EXCEPT ![x] = "join device"]
          /\ ThreadAlert(d) /\ UNCHANGED <<references, held, at>>
      BY <2>3 DEF Destroy, Lives, d
    <3>2. life'[x] = "join device"
      BY <1>0, <3>1 DEF DeviceType
    <3>3. alerted'[d] /\ \A u \in Threads : u # d => alerted'[u] = alerted[u]
      BY <2>0, <2>c, <3>1
    <3>4. ThreadKept(s)' /\ ThreadKept(d)'
      BY <2>0, <3>1, <3>3 DEF ThreadKept, RunsNow
    <3>5. OwnerKept(x)'
      BY <2>0, <3>1, <3>2 DEF OwnerKept, Both, s, d
    <3> QED
      BY <1>0, <2>0, <3>1, <3>3, <3>4, <3>5, LivesApart DEF SameBut, SameThread, s, d
  <2>4. CASE JoinDeviceThread(x)
    <3>1. /\ life[x] = "join device" /\ life' = [life EXCEPT ![x] = "join system"]
          /\ ThreadJoin(d) /\ ThreadAlert(s)
      BY <2>4 DEF JoinDeviceThread, Lives, s, d
    <3>2. life'[x] = "join system"
      BY <1>0, <3>1 DEF DeviceType
    <3>3. alerted'[s] /\ \A u \in Threads : u # s => alerted'[u] = alerted[u]
      BY <2>0, <2>c, <3>1
    <3>4. /\ references'[d] = references[d] - 1 /\ ~held'[d] /\ at'[d] = "none"
          /\ at[d] = "exited"
          /\ \A u \in Threads : u # d => /\ references'[u] = references[u]
                                         /\ held'[u] = held[u] /\ at'[u] = at[u]
      BY <2>0, <2>b, <3>1
    <3>5. held[s] /\ held[d]
      BY <2>0, <3>1 DEF OwnerKept, Both, s, d
    <3>6. ThreadKept(s)' /\ ThreadKept(d)'
      BY <2>0, <3>3, <3>4, <3>5 DEF ThreadKept, RunsNow
    <3>7. OwnerKept(x)'
      BY <2>0, <3>2, <3>4, <3>5 DEF OwnerKept, Both, s, d
    <3> QED
      BY <1>0, <2>0, <3>3, <3>4, <3>6, <3>7, LivesApart DEF SameBut, SameThread, s, d
  <2>5. CASE JoinSystemThread(x)
    <3>1. /\ life[x] = "join system" /\ life' = [life EXCEPT ![x] = "none"]
          /\ ThreadJoin(s) /\ UNCHANGED alerted
      BY <2>5 DEF JoinSystemThread, Lives, s
    <3>2. life'[x] = "none"
      BY <1>0, <3>1 DEF DeviceType
    <3>3. /\ references'[s] = references[s] - 1 /\ ~held'[s] /\ at'[s] = "none"
          /\ at[s] = "exited"
          /\ \A u \in Threads : u # s => /\ references'[u] = references[u]
                                         /\ held'[u] = held[u] /\ at'[u] = at[u]
          /\ UNCHANGED alerted
      BY <2>0, <2>b, <3>1
    <3>4. held[s] /\ ~held[d]
      BY <2>0, <3>1 DEF OwnerKept, Both, s, d
    <3>5. ThreadKept(s)' /\ ThreadKept(d)'
      BY <2>0, <3>3, <3>4 DEF ThreadKept, RunsNow
    <3>6. OwnerKept(x)'
      BY <2>0, <3>2, <3>3, <3>4 DEF OwnerKept, Both, s, d
    <3> QED
      BY <1>0, <2>0, <3>3, <3>5, <3>6, LivesApart DEF SameBut, SameThread, s, d
  <2>6. CASE CreateRest(x) \/ StartDevice(x) \/ StopDevice(x) \/ StartStopEnd(x)
    <3>1. /\ life[x] \in Both /\ UNCHANGED threadVars
          /\ \E l \in Both : life' = [life EXCEPT ![x] = l]
      BY <2>6 DEF CreateRest, StartDevice, StopDevice, StartStopEnd, Lives, Both
    <3>2. life'[x] \in Both
      BY <1>0, <3>1 DEF DeviceType
    <3>3. ThreadKept(s)' /\ ThreadKept(d)'
      BY <2>0, <3>1 DEF ThreadKept, RunsNow
    <3>4. OwnerKept(x)'
      BY <2>0, <3>1, <3>2 DEF OwnerKept, Both, s, d
    <3> QED
      BY <1>0, <2>0, <3>1, <3>3, <3>4, LivesApart DEF SameBut, SameThread, s, d
  <2> QED
    BY <1>3, <2>1, <2>2, <2>3, <2>4, <2>5, <2>6 DEF LivesOn
<1>4. CASE UNCHANGED <<references, held, alerted, at, life>>
  BY <1>c, <1>4 DEF RunsNow
<1> QED
  BY <1>1, <1>2, <1>3, <1>4, Steps, WakeFrame, SendFrame, FdoPowersFrame,
     PdoPowersFrame, StoreFrame, EndFrame, BeginFrame

(* IRPs are about only in a transition, one for each system thread and one *)
(* for the device thread it waits for.                                     *)
IrpsOf(x) == /\ pm # None => /\ life[x] \in {"none", "made", "started"}
                             /\ x \in pm.todo => /\ life[x] = "started"
                                                 /\ owed[Sys(x)] = 0
             /\ owed[Sys(x)] = 1 => life[x] = "started"
             /\ owed[Dev(x)] = 1 => at[Sys(x)] = "requested"

LEMMA IrpsStep == IInv /\ [Next]_vars => IrpsKept'
<1> SUFFICES ASSUME IInv, [Next]_vars PROVE IrpsKept'
  OBVIOUS
<1> USE DEF vars, threadVars, deviceVars, irpVars, pmVars
<1>0. ThreadType /\ DeviceType /\ PmType /\ LoopKept /\ IrpsKept
  BY DEF IInv
<1>a. \A x \in Devices : Sys(x) \in Threads /\ Dev(x) \in Threads
  BY ThreadsAre
<1>b. /\ pm = None => \A t \in Threads : owed[t] = 0 /\ ~waking[t]
      /\ \A x \in Devices : IrpsOf(x)
  BY <1>0 DEF IrpsKept, IrpsOf
<1>c. None \notin Transitions
  BY NoneAssumption
<1>1. ASSUME NEW t \in Threads, ThreadRuns(t) PROVE IrpsKept'
  <2>1. UNCHANGED <<deviceVars, irpVars, pmVars>>
    BY <1>1, ThreadFrame
  <2>2. \A u \in Threads : at[u] = "requested" => at'[u] = "requested"
    BY <1>0, <1>1
       DEF ThreadType, ThreadRuns, Runs, Look, Wait, Alerted, Take, Empty, Return,
           Goes
  <2> QED
    BY <1>0, <1>a, <2>1, <2>2 DEF IrpsKept
<1>2. ASSUME NEW t \in Threads, DispatchWake(t) PROVE IrpsKept'
  <2>1. UNCHANGED <<at, owed, deviceVars, pmVars>>
    BY <1>2, WakeFrame
  <2>2. \A u \in Threads : ~waking[u] => ~waking'[u]
    BY <1>0, <1>2 DEF ThreadType, DispatchWake
  <2> QED
    BY <1>0, <2>1, <2>2 DEF IrpsKept
<1>3. ASSUME NEW x \in Devices, Handles(x) PROVE IrpsKept'
  <2>1. UNCHANGED <<life, pm>>
    BY <1>3, HandlesFrame
  <2>2. ASSUME NEW t \in Threads, Finishes(t)
        PROVE  /\ pm # None /\ owed'[t] = 0 /\ at'[t] = "look"
               /\ \A u \in Threads : u # t => owed'[u] = owed[u] /\ at'[u] = at[u]
    <3>1. HandKept(t) /\ at[t] \in {"handle", "requested", "moving"}
      BY <1>0, <2>2 DEF LoopKept, Finishes
    <3>2. owed[t] = 1
      BY <3>1 DEF HandKept
    <3> QED
      BY <1>0, <1>b, <2>2, <3>2 DEF ThreadType, Finishes
  <2>3. CASE SystemFinishes(x)
    <3>1. owed[Dev(x)] = 0
      <4>1. owed[Dev(x)] \in 0..1 /\ at[Sys(x)] # "moving"
        BY <1>0, <1>a DEF ThreadType, IInv, KindsKept
      <4> QED
        BY <1>b, <2>3, <4>1 DEF IrpsOf, SystemFinishes, Finishes
    <3>2. /\ pm # None /\ owed'[Sys(x)] = 0 /\ owed'[Dev(x)] = 0
          /\ \A u \in Threads : u # Sys(x) => owed'[u] = owed[u] /\ at'[u] = at[u]
      BY <1>a, <2>2, <2>3, <3>1, ThreadsAre DEF SystemFinishes
    <3>3. ASSUME NEW y \in Devices PROVE IrpsOf(y)'
      <4>1. CASE y = x
        BY <1>b, <2>1, <3>2, <4>1 DEF IrpsOf
      <4>2. CASE y # x
        BY <1>a, <1>b, <2>1, <3>2, <4>2, ThreadsAre DEF IrpsOf
      <4> QED
        BY <4>1, <4>2
    <3> QED
      BY <2>1, <3>2, <3>3 DEF IrpsKept, IrpsOf
  <2>4. CASE Finishes(Dev(x))
    <3>1. /\ pm # None /\ owed'[Dev(x)] = 0
          /\ \A u \in Threads : u # Dev(x) => owed'[u] = owed[u] /\ at'[u] = at[u]
      BY <1>a, <2>2, <2>4
    <3>2. ASSUME NEW y \in Devices PROVE IrpsOf(y)'
      <4>1. CASE y = x
        BY <1>a, <1>b, <2>1, <3>1, <4>1, ThreadsAre DEF IrpsOf
      <4>2. CASE y # x
        BY <1>a, <1>b, <2>1, <3>1, <4>2, ThreadsAre DEF IrpsOf
      <4> QED
        BY <4>1, <4>2
    <3> QED
      BY <2>1, <3>1, <3>2 DEF IrpsKept, IrpsOf
  <2>5. CASE Requests(x)
    <3>1. /\ at[Sys(x)] = "handle" /\ at' = [at EXCEPT ![Sys(x)] = "requested"]
          /\ DispatchPower(x, Dev(x), Asks(x, irp[Sys(x)]))
      BY <2>5 DEF Requests, Request, Goes
    <3>2. pm # None
      BY <3>1, Requested DEF SystemIrp
    <3>3. /\ at'[Sys(x)] = "requested"
          /\ \A u \in Threads : u # Sys(x) => at'[u] = at[u]
      BY <1>0, <1>a, <3>1 DEF ThreadType
    <3>4. \A u \in Threads : u # Dev(x) => owed'[u] = owed[u]
      BY <1>0, <3>1 DEF ThreadType, DispatchPower
    <3>5. ASSUME NEW y \in Devices PROVE IrpsOf(y)'
      <4>1. CASE y = x
        BY <1>a, <1>b, <2>1, <3>3, <3>4, <4>1, ThreadsAre DEF IrpsOf
      <4>2. CASE y # x
        BY <1>a, <1>b, <2>1, <3>3, <3>4, <4>2, ThreadsAre DEF IrpsOf
      <4> QED
        BY <4>1, <4>2
    <3> QED
      BY <2>1, <3>2, <3>5 DEF IrpsKept, IrpsOf
  <2>6. CASE SetsOut(x)
    <3>1. \A u \in Threads : at[u] = "requested" => at'[u] = "requested"
      BY <1>0, <1>a, <2>6 DEF ThreadType, SetsOut
    <3> QED
      BY <1>0, <1>a, <2>1, <2>6, <3>1 DEF IrpsKept, SetsOut
  <2> QED
    BY <1>3, <2>3, <2>4, <2>5, <2>6, HandlesThreads
<1>4. ASSUME NEW x \in Devices, PmSend(x) PROVE IrpsKept'
  <2>1. UNCHANGED <<at, life>>
    BY <1>4, SendFrame
  <2>2. /\ pm \in Transitions /\ pm # None /\ pm' = [pm EXCEPT !.todo = @ \ {x}]
        /\ life[x] = "started" /\ DispatchPower(x, Sys(x), Message)
    BY <1>4, <1>c, Sent
  <2>3. pm' \in Transitions /\ pm' # None /\ pm'.todo = pm.todo \ {x}
    BY <1>c, <2>2 DEF Transitions
  <2>4. \A u \in Threads : u # Sys(x) => owed'[u] = owed[u]
    BY <1>0, <2>2 DEF ThreadType, DispatchPower
  <2>5. ASSUME NEW y \in Devices PROVE IrpsOf(y)'
    <3>1. CASE y = x
      BY <1>a, <1>b, <2>1, <2>2, <2>3, <2>4, <3>1, ThreadsAre DEF IrpsOf
    <3>2. CASE y # x
      BY <1>a, <1>b, <2>1, <2>2, <2>3, <2>4, <3>2, ThreadsAre DEF IrpsOf
    <3> QED
      BY <3>1, <3>2
  <2> QED
    BY <2>3, <2>5 DEF IrpsKept, IrpsOf
<1>5. ASSUME NEW x \in Devices, pm = None, LivesOn(x) PROVE IrpsKept'
  <2>1. UNCHANGED <<waking, owed, pm>>
    BY <1>5, LivesFrame
  <2>2. \A t \in Threads : owed'[t] = 0 /\ ~waking'[t]
    BY <1>5, <1>b, <2>1
  <2> QED
    BY <1>5, <1>a, <2>1, <2>2 DEF IrpsKept
<1>6. CASE PmEnd
  <2>1. /\ UNCHANGED <<at, owed, waking, life>> /\ pm' = None
        /\ \A t \in Threads : owed[t] = 0 /\ ~waking[t]
    BY <1>6 DEF PmEnd
  <2> QED
    BY <1>a, <2>1 DEF IrpsKept
<1>7. CASE Begins
  <2>1. UNCHANGED <<at, owed, waking, life>> /\ pm = None
    BY <1>7 DEF Begins, PmBegin
  <2>2. /\ pm'.todo = {x \in Devices : life[x] = "started"}
        /\ \A x \in Devices : life[x] \in {"none", "made", "started"}
        /\ pm' # None
    <3>1. PICK s \in States, m \in {"set", "query"}, o \in BOOLEAN : PmBegin(s, m, o)
      BY <1>7 DEF Begins
    <3>2. /\ pm' = [minor |-> m, target |-> s, off |-> o,
                   todo |-> {x \in Devices : life[x] = "started"}]
          /\ \A x \in Devices : life[x] \in {"none", "made", "started"}
      BY <3>1 DEF PmBegin
    <3>3. pm' \in Transitions
      BY <3>2 DEF Transitions
    <3> QED
      BY <1>c, <3>2, <3>3
  <2> QED
    BY <1>a, <1>b, <2>1, <2>2 DEF IrpsKept
<1>8. CASE UNCHANGED <<at, owed, waking, life, pm>>
  BY <1>0, <1>8 DEF IrpsKept
<1> QED
  BY <1>1, <1>2, <1>3, <1>4, <1>5, <1>6, <1>7, <1>8, Steps, FdoPowersFrame,
     PdoPowersFrame, StoreFrame

(* The IRPs of a transition are those of the power manager, and what the   *)
(* system threads make of them.                                            *)
HoldsOf(x) == /\ slot[Sys(x)] # None => SystemIrp(x, slot[Sys(x)])
              /\ irp[Sys(x)] # None => SystemIrp(x, irp[Sys(x)])
              /\ slot[Dev(x)] # None => DeviceIrp(x, slot[Dev(x)])
              /\ irp[Dev(x)] # None => DeviceIrp(x, irp[Dev(x)])

LEMMA ContentsStep == IInv /\ [Next]_vars => ContentsKept'
<1> SUFFICES ASSUME IInv, [Next]_vars, NEW y \in Devices PROVE HoldsOf(y)'
  BY DEF ContentsKept, HoldsOf
<1> USE DEF vars, threadVars, deviceVars, irpVars, pmVars
<1>0. ThreadType /\ PmType /\ LoopKept /\ IrpsKept /\ ContentsKept
  BY DEF IInv
<1>a. Sys(y) \in Threads /\ Dev(y) \in Threads
  BY ThreadsAre
<1>b. HoldsOf(y)
  BY <1>0 DEF ContentsKept, HoldsOf
<1>d. ASSUME pm = None PROVE \A t \in Threads : slot[t] = None /\ irp[t] = None
  BY <1>0, <1>d DEF IrpsKept, LoopKept, HandKept
<1>e. ASSUME pm' = pm \/ \E x \in Devices : pm' = [pm EXCEPT !.todo = @ \ {x}],
             NEW i
      PROVE  /\ SystemIrp(y, i) => SystemIrp(y, i)'
             /\ DeviceIrp(y, i) => DeviceIrp(y, i)'
  <2>1. CASE pm' = pm
    BY <2>1 DEF SystemIrp, DeviceIrp, DevicePowerStateMap
  <2>2. ASSUME pm # None, NEW x \in Devices, pm' = [pm EXCEPT !.todo = @ \ {x}]
        PROVE  /\ pm' # None /\ pm'.minor = pm.minor /\ pm'.target = pm.target
               /\ pm'.off = pm.off
    <3>1. pm \in Transitions
      BY <1>0, <2>2 DEF PmType
    <3>2. pm' \in Transitions
      BY <2>2, <3>1 DEF Transitions
    <3> QED
      BY <2>2, <3>1, <3>2, NoneAssumption DEF Transitions
  <2> QED
    BY <1>e, <2>1, <2>2 DEF SystemIrp, DeviceIrp, DevicePowerStateMap
<1>f. ASSUME UNCHANGED pm,
             \A t \in {Sys(y), Dev(y)} :
               /\ slot'[t] \in {slot[t], irp[t], None}
               /\ irp'[t] \in {slot[t], irp[t], None}
      PROVE  HoldsOf(y)'
  BY <1>b, <1>e, <1>f DEF HoldsOf
<1>1. ASSUME NEW t \in Threads, ThreadRuns(t) PROVE HoldsOf(y)'
  <2>1. UNCHANGED pm
    BY <1>1, ThreadFrame
  <2>2. ASSUME NEW u \in Threads
        PROVE  /\ slot'[u] \in {slot[u], irp[u], None}
               /\ irp'[u] \in {slot[u], irp[u], None}
    BY <1>0, <1>1
       DEF ThreadType, ThreadRuns, Runs, Look, Wait, Alerted, Take, Empty, Return
  <2> QED
    BY <1>a, <1>f, <2>1, <2>2
<1>2. ASSUME NEW x \in Devices, Handles(x) PROVE HoldsOf(y)'
  <2>1. UNCHANGED pm
    BY <1>2, HandlesFrame
  <2>2. ASSUME NEW t \in Threads, Finishes(t) PROVE HoldsOf(y)'
    BY <1>0, <1>a, <1>f, <2>1, <2>2 DEF ThreadType, Finishes
  <2>3. CASE Requests(x)
    <3>1. /\ at[Sys(x)] = "handle" /\ irp' = irp
          /\ DispatchPower(x, Dev(x), Asks(x, irp[Sys(x)]))
      BY <2>3 DEF Requests, Request, Goes
    <3>2. DeviceIrp(x, Asks(x, irp[Sys(x)]))
      BY <3>1, Requested
    <3>3. \A t \in Threads : \/ slot'[t] = slot[t]
                             \/ t = Dev(x) /\ slot'[t] = Asks(x, irp[Sys(x)])
      BY <1>0, <3>1 DEF ThreadType, DispatchPower
    <3>4. slot'[Sys(y)] = slot[Sys(y)]
      BY <1>a, <3>3, ThreadsAre
    <3>5. slot'[Dev(y)] = slot[Dev(y)] \/ DeviceIrp(y, slot'[Dev(y)])
      BY <1>a, <3>2, <3>3, ThreadsAre
    <3> QED
      BY <1>b, <1>e, <2>1, <3>1, <3>4, <3>5 DEF HoldsOf
  <2>4. CASE SetsOut(x)
    BY <1>f, <2>1, <2>4 DEF SetsOut
  <2> QED
    BY <1>2, <2>2, <2>3, <2>4, HandlesThreads, ThreadsAre DEF SystemFinishes
<1>3. ASSUME NEW x \in Devices, PmSend(x) PROVE HoldsOf(y)'
  <2>1. UNCHANGED irp
    BY <1>3, SendFrame
  <2>2. /\ pm' = [pm EXCEPT !.todo = @ \ {x}]
        /\ DispatchPower(x, Sys(x), Message)
        /\ ~Passed(x, Message) => SystemIrp(x, Message)
    BY <1>3, Sent
  <2>3. \A t \in Threads : \/ slot'[t] = slot[t]
                           \/ t = Sys(x) /\ slot'[t] = Message /\ ~Passed(x, Message)
    BY <1>0, <2>2 DEF ThreadType, DispatchPower
  <2>4. slot'[Dev(y)] = slot[Dev(y)]
    BY <1>a, <2>3, ThreadsAre
  <2>5. slot'[Sys(y)] = slot[Sys(y)] \/ SystemIrp(y, slot'[Sys(y)])
    BY <1>a, <2>2, <2>3, ThreadsAre
  <2> QED
    BY <1>b, <1>e, <2>1, <2>2, <2>4, <2>5 DEF HoldsOf
<1>4. CASE PmEnd \/ Begins
  <2>1. UNCHANGED <<slot, irp>>
    BY <1>4, EndFrame, BeginFrame
  <2>2. \A t \in Threads : slot[t] = None /\ irp[t] = None
    <3>1. CASE PmEnd
      BY <1>0, <3>1 DEF PmEnd, LoopKept, HandKept
    <3>2. CASE Begins
      BY <1>d, <3>2 DEF Begins, PmBegin
    <3> QED
      BY <1>4, <3>1, <3>2
  <2> QED
    BY <1>a, <2>1, <2>2 DEF HoldsOf
<1>5. CASE UNCHANGED <<slot, irp, pm>>
  BY <1>f, <1>5
<1> QED
  BY <1>1, <1>2, <1>3, <1>4, <1>5, Steps, WakeFrame, FdoPowersFrame,
     PdoPowersFrame, LivesFrame, StoreFrame

-----------------------------------------------------------------------------
(* What is known while a system thread has an IRP in its hand, and while a *)
(* device thread has.                                                      *)
LEMMA SystemHand ==
  ASSUME IInv, NEW x \in Devices, at[Sys(x)] \in {"handle", "requested"}
  PROVE  /\ irp[Sys(x)] # None /\ SystemIrp(x, irp[Sys(x)])
         /\ pm \in Transitions /\ pm # None /\ pm.target \in States
         /\ owed[Sys(x)] = 1 /\ life[x] = "started" /\ x \notin pm.todo
<1>1. HandKept(Sys(x))
  BY ThreadsAre DEF IInv, LoopKept
<1>2. IrpsKept /\ ContentsKept /\ PmType
  BY DEF IInv
<1>3. irp[Sys(x)] # None /\ owed[Sys(x)] = 1
  BY <1>1 DEF HandKept
<1>4. SystemIrp(x, irp[Sys(x)])
  BY <1>2, <1>3 DEF ContentsKept
<1>5. pm # None /\ pm \in Transitions
  BY <1>2, <1>4 DEF SystemIrp, PmType
<1>6. life[x] = "started" /\ x \notin pm.todo
  BY <1>2, <1>3, <1>5 DEF IrpsKept
<1> QED
  BY <1>3, <1>4, <1>5, <1>6 DEF Transitions

LEMMA DeviceHand ==
  ASSUME IInv, NEW x \in Devices, at[Dev(x)] \in {"handle", "moving"}
  PROVE  /\ irp[Dev(x)] # None /\ irp[Dev(x)] \in Irps
         /\ DeviceIrp(x, irp[Dev(x)]) /\ irp[Dev(x)].state \in {0, 3}
         /\ owed[Dev(x)] = 1 /\ at[Sys(x)] = "requested"
<1>1. HandKept(Dev(x)) /\ Dev(x) \in Threads
  BY ThreadsAre DEF IInv, LoopKept
<1>2. IrpsKept /\ ContentsKept /\ PmType /\ ThreadType
  BY DEF IInv
<1>3. irp[Dev(x)] # None /\ owed[Dev(x)] = 1
  BY <1>1 DEF HandKept
<1>4. DeviceIrp(x, irp[Dev(x)]) /\ at[Sys(x)] = "requested"
  BY <1>2, <1>3 DEF ContentsKept, IrpsKept
<1>5. pm \in Transitions
  BY <1>2, <1>4 DEF DeviceIrp, PmType
<1>6. DevicePowerStateMap(x, pm.target) \in {0, 3}
  BY <1>5, PowerAssumption DEF DevicePowerStateMap, Transitions
<1> QED
  BY <1>1, <1>2, <1>3, <1>4, <1>6 DEF DeviceIrp, ThreadType

Ages == {"none", "one", "two", "made", "starting", "started", "stopping",
         "join device", "join system"}
Places == {"none", "up", "write", "watch", "down", "off", "list", "clear", "abi"}

(* The variables of the devices keep their types.                          *)
LEMMA DeviceTypeStep == IInv /\ [Next]_vars => DeviceType'
<1> SUFFICES ASSUME IInv, [Next]_vars PROVE DeviceType'
  OBVIOUS
<1> USE DEF vars, deviceVars
<1>0. DeviceType
  BY DEF IInv
<1>1. ASSUME NEW x \in Devices, Handles(x) PROVE DeviceType'
  <2>1. UNCHANGED <<life, power, link>>
    BY <1>1, HandlesFrame
  <2>2. CASE SystemSame(x) \/ SystemRequest(x) \/ DeviceSame(x) \/ DeviceMoved(x)
    BY <1>0, <2>2 DEF DeviceType, SystemSame, SystemRequest, DeviceSame, DeviceMoved
  <2>3. CASE SystemDone(x)
    <3>1. /\ UNCHANGED <<move, failed>>
          /\ system' = [system EXCEPT ![x] = IF irp[Sys(x)].minor = "set"
                                             THEN irp[Sys(x)].state ELSE @]
      BY <2>3 DEF SystemDone
    <3>2. irp[Sys(x)].state \in States
      BY <2>3, SystemHand DEF SystemDone, SystemIrp
    <3> QED
      BY <1>0, <2>1, <3>1, <3>2 DEF DeviceType
  <2>4. CASE DeviceMove(x)
    BY <1>0, <2>1, <2>4 DEF DeviceType, DeviceMove
  <2>5. CASE x = Fdo /\ FdoSystemUp
    <3>1. /\ UNCHANGED move /\ at[Sys(Fdo)] = "handle"
          /\ \/ UNCHANGED failed
             \/ failed' = [failed EXCEPT ![Fdo] = @ \/ power[Fdo] = 3]
          /\ \/ UNCHANGED system
             \/ system' = [system EXCEPT ![Fdo] = irp[Sys(Fdo)].state]
      BY <2>5 DEF FdoSystemUp
    <3>2. irp[Sys(Fdo)].state \in States
      BY <2>5, <3>1, SystemHand DEF SystemIrp
    <3>3. failed' \in [Devices -> BOOLEAN]
      BY <1>0, <3>1 DEF DeviceType
    <3> QED
      BY <1>0, <2>1, <3>1, <3>2, <3>3 DEF DeviceType
  <2>6. CASE x = Fdo /\ (FdoSystemQuery \/ FdoDeviceQuery \/ FdoDeviceFails)
    BY <1>0, <2>1, <2>6 DEF DeviceType, FdoSystemQuery, FdoDeviceQuery, FdoDeviceFails
  <2> QED
    BY <1>1, <2>2, <2>3, <2>4, <2>5, <2>6 DEF Handles
<1>2. ASSUME FdoPowers PROVE DeviceType'
  <2>1. UNCHANGED <<life, system, link>>
    BY <1>2, FdoPowersFrame
  <2>2. /\ power' \in [Devices -> {0, 3}]
        /\ failed' \in [Devices -> BOOLEAN]
    BY <1>0, <1>2
       DEF DeviceType, FdoPowers, FdoUpFails, FdoFindIndex, FdoWriteIndex, FdoWatch,
           FdoAsleep, FdoList, FdoClear, FdoCleared
  <2>3. \E m \in {"none", "up", "write", "watch", "list", "clear"} :
          move' = [move EXCEPT ![Fdo] = m]
    BY <1>2
       DEF FdoPowers, FdoUpFails, FdoFindIndex, FdoWriteIndex, FdoWatch, FdoAsleep,
           FdoList, FdoClear, FdoCleared, Moves
  <2>4. move' \in [Devices -> Places]
    BY <1>0, <2>3 DEF DeviceType, Places
  <2> QED
    BY <1>0, <2>1, <2>2, <2>4 DEF DeviceType, Places
<1>3. ASSUME NEW p \in Pdos, PdoPowers(p) PROVE DeviceType'
  <2>1. UNCHANGED <<life, system>>
    BY <1>3, PdoPowersFrame
  <2>2. /\ power' \in [Devices -> {0, 3}]
        /\ failed' \in [Devices -> BOOLEAN]
        /\ link' \in [Pdos -> BOOLEAN]
    BY <1>0, <1>3
       DEF DeviceType, PdoPowers, PdoAwake, PdoUpFails, PdoEnable, PdoDisable,
           PdoAsleep
  <2>3. \E m \in {"none", "abi", "off"} : move' = [move EXCEPT ![p] = m]
    BY <1>3
       DEF PdoPowers, PdoAwake, PdoUpFails, PdoEnable, PdoDisable, PdoAsleep, Moves
  <2>4. move' \in [Devices -> Places]
    BY <1>0, <2>3 DEF DeviceType, Places
  <2> QED
    BY <1>0, <2>1, <2>2, <2>4 DEF DeviceType, Places
<1>4. ASSUME NEW x \in Devices, LivesOn(x) PROVE DeviceType'
  <2>1. UNCHANGED <<power, link>>
    BY <1>4, LivesFrame
  <2>a. \E l \in Ages : life' = [life EXCEPT ![x] = l]
    BY <1>4
       DEF LivesOn, CreateSystemThread, CreateDeviceThread, CreateRest, Destroy,
           JoinDeviceThread, JoinSystemThread, StartDevice, StopDevice, StartStopEnd,
           Lives, Ages
  <2>2. life' \in [Devices -> Ages]
    BY <1>0, <2>a DEF DeviceType, Ages
  <2>3. CASE CreateSystemThread(x)
    <3>1. /\ UNCHANGED move
          /\ system' = [system EXCEPT ![x] = 1]
          /\ failed' = [failed EXCEPT ![x] = FALSE]
      BY <2>3 DEF CreateSystemThread
    <3>2. system' \in [Devices -> States]
      BY <1>0, <3>1, PowerAssumption DEF DeviceType
    <3>3. failed' \in [Devices -> BOOLEAN]
      BY <1>0, <3>1 DEF DeviceType
    <3> QED
      BY <1>0, <2>1, <2>2, <3>1, <3>2, <3>3 DEF DeviceType, Ages
  <2>4. CASE StartDevice(x) \/ StopDevice(x)
    <3>1. /\ UNCHANGED <<system, failed>>
          /\ \E m \in {"up", "down", "none"} : move' = [move EXCEPT ![x] = m]
      BY <2>4 DEF StartDevice, StopDevice
    <3>2. move' \in [Devices -> Places]
      BY <1>0, <3>1 DEF DeviceType, Places
    <3> QED
      BY <1>0, <2>1, <2>2, <3>1, <3>2 DEF DeviceType, Ages, Places
  <2>5. CASE UNCHANGED <<system, move, failed>>
    BY <1>0, <2>1, <2>2, <2>5 DEF DeviceType, Ages
  <2> QED
    BY <1>4, <2>3, <2>4, <2>5
       DEF LivesOn, CreateDeviceThread, CreateRest, Destroy, JoinDeviceThread,
           JoinSystemThread, StartStopEnd
<1>5. CASE UNCHANGED deviceVars
  BY <1>0, <1>5 DEF DeviceType
<1> QED
  BY <1>1, <1>2, <1>3, <1>4, <1>5, Steps, ThreadFrame, WakeFrame, SendFrame,
     StoreFrame, EndFrame, BeginFrame

(* What the store holds and the FDO knows of it, and the power manager's   *)
(* transition, keep their types.                                           *)
LEMMA StoreTypeStep == IInv /\ [Next]_vars => StoreType'
<1> SUFFICES ASSUME IInv, [Next]_vars PROVE StoreType'
  OBVIOUS
<1> USE DEF vars, storeVars
<1>0. StoreType
  BY DEF IInv
<1>a. MaxIndex \in Nat
  BY PowerAssumption
<1>1. ASSUME NEW x \in Devices, Handles(x) PROVE StoreType'
  <2>1. UNCHANGED <<bound, names, drivers, other, left>>
    BY <1>1, HandlesFrame
  <2>2. index' \in {index, 0}
    <3>1. CASE SystemSame(x) \/ SystemRequest(x) \/ SystemDone(x) \/ DeviceSame(x)
      BY <3>1 DEF SystemSame, SystemRequest, SystemDone, DeviceSame
    <3>2. CASE DeviceMove(x) \/ DeviceMoved(x)
      BY <3>2 DEF DeviceMove, DeviceMoved
    <3>3. CASE FdoSystemUp \/ FdoSystemQuery \/ FdoDeviceQuery \/ FdoDeviceFails
      BY <3>3 DEF FdoSystemUp, FdoSystemQuery, FdoDeviceQuery, FdoDeviceFails
    <3> QED
      BY <1>1, <3>1, <3>2, <3>3 DEF Handles
  <2> QED
    BY <1>0, <1>a, <2>1, <2>2 DEF StoreType
<1>2. ASSUME FdoPowers PROVE StoreType'
  <2>1. CASE FdoUpFails
    BY <1>0, <2>1 DEF StoreType, FdoUpFails
  <2>2. CASE FdoFindIndex
    <3>1. /\ UNCHANGED <<bound, names, drivers, other, left>>
          /\ index' \in {0, index} \/ (index \in Indices /\ index' = index + 1)
      BY <2>2 DEF FdoFindIndex
    <3>2. index' \in 0..(MaxIndex + 1)
      BY <1>0, <1>a, <3>1 DEF StoreType, Indices
    <3> QED
      BY <1>0, <3>1, <3>2 DEF StoreType
  <2>3. CASE FdoWriteIndex
    <3>1. /\ UNCHANGED <<bound, names, other>> /\ index' = 0
          /\ drivers' = [drivers EXCEPT ![index] = Fdo] \/ UNCHANGED drivers
          /\ left' \subseteq left
      BY <2>3 DEF FdoWriteIndex
    <3>2. drivers' \in [Indices -> {Free, Fdo, "other"}]
      BY <1>0, <3>1 DEF StoreType
    <3> QED
      BY <1>0, <1>a, <3>1, <3>2 DEF StoreType
  <2>4. CASE FdoWatch \/ FdoAsleep \/ FdoCleared
    BY <1>0, <2>4 DEF StoreType, FdoWatch, FdoAsleep, FdoCleared, Own
  <2>5. CASE FdoList
    BY <1>0, <2>5 DEF StoreType, FdoList, Own
  <2>6. ASSUME NEW i \in Indices, FdoClear(i) PROVE StoreType'
    <3>1. /\ UNCHANGED <<bound, index, other>> /\ names' = names \ {i}
          /\ \/ drivers' = [drivers EXCEPT ![i] = IF @ = Fdo THEN Free ELSE @]
             \/ UNCHANGED drivers
          /\ left' \subseteq left \cup Own
      BY <2>6 DEF FdoClear
    <3>2. drivers' \in [Indices -> {Free, Fdo, "other"}]
      BY <1>0, <3>1 DEF StoreType
    <3> QED
      BY <1>0, <3>1, <3>2 DEF StoreType, Own
  <2> QED
    BY <1>2, <2>1, <2>2, <2>3, <2>4, <2>5, <2>6 DEF FdoPowers
<1>3. ASSUME NEW x \in Devices, LivesOn(x) PROVE StoreType'
  <2>1. UNCHANGED <<bound, names, drivers, other, left>>
    BY <1>3, LivesFrame
  <2>2. index' \in {index, 0}
    BY <1>3
       DEF LivesOn, CreateSystemThread, CreateDeviceThread, CreateRest, Destroy,
           JoinDeviceThread, JoinSystemThread, StartDevice, StopDevice, StartStopEnd
  <2> QED
    BY <1>0, <1>a, <2>1, <2>2 DEF StoreType
<1>4. ASSUME StoreStep PROVE StoreType'
  <2>1. CASE FdoSuspendCallbackLate
    <3>1. ASSUME NEW store \in [Indices -> {Free, Fdo, "other"}], NEW kept,
                 NEW enters
          PROVE  Reentered(store, kept, enters) \in [Indices -> {Free, Fdo, "other"}]
      <4> DEFINE clean == [i \in Indices |-> IF store[i] = Fdo /\ i \notin kept
                                             THEN Free ELSE store[i]]
      <4>1. clean \in [Indices -> {Free, Fdo, "other"}]
        OBVIOUS
      <4> HIDE DEF clean
      <4>2. ASSUME NEW j
            PROVE  [clean EXCEPT ![j] = Fdo] \in [Indices -> {Free, Fdo, "other"}]
        BY <4>1
      <4> QED
        BY <4>1, <4>2 DEF Reentered, clean
    <3>2. [i \in Indices |-> Free] \in [Indices -> {Free, Fdo, "other"}]
      OBVIOUS
    <3>3. /\ UNCHANGED <<bound, index, names, other>>
          /\ left' \subseteq Own
          /\ \E store \in {drivers, [i \in Indices |-> Free]} : \E kept, enters :
               drivers' = Reentered(store, kept, enters)
      BY <2>1 DEF FdoSuspendCallbackLate
    <3>4. drivers' \in [Indices -> {Free, Fdo, "other"}]
      BY <1>0, <3>1, <3>2, <3>3 DEF StoreType
    <3> QED
      BY <1>0, <3>3, <3>4 DEF StoreType, Own
  <2>2. CASE OtherFinds
    BY <1>0, <2>2 DEF StoreType, OtherFinds
  <2>3. CASE OtherWrites \/ \E i \in Indices : OtherRemoves(i)
    BY <1>0, <2>3 DEF StoreType, OtherWrites, OtherRemoves
  <2> QED
    BY <1>4, <2>1, <2>2, <2>3 DEF StoreStep
<1>5. CASE UNCHANGED storeVars
  BY <1>0, <1>5 DEF StoreType
<1> QED
  BY <1>1, <1>2, <1>3, <1>4, <1>5, Steps, ThreadFrame, WakeFrame, SendFrame,
     PdoPowersFrame, EndFrame, BeginFrame

LEMMA PmTypeStep == IInv /\ [Next]_vars => PmType'
<1> SUFFICES ASSUME IInv, [Next]_vars PROVE PmType'
  OBVIOUS
<1> USE DEF vars, pmVars
<1>0. PmType
  BY DEF IInv
<1>1. ASSUME NEW x \in Devices, PmSend(x) PROVE PmType'
  BY <1>0, <1>1, Sent, SendFrame DEF PmType, Transitions
<1>2. CASE PmEnd
  BY <1>0, <1>2 DEF PmType, PmEnd, Transitions
<1>3. CASE Begins
  BY <1>0, <1>3 DEF PmType, Begins, PmBegin, Transitions
<1>4. CASE UNCHANGED pmVars
  BY <1>0, <1>4 DEF PmType
<1> QED
  BY <1>1, <1>2, <1>3, <1>4, Steps, ThreadFrame, WakeFrame, HandlesFrame,
     FdoPowersFrame, PdoPowersFrame, LivesFrame, StoreFrame

(* A change of power is for a start, a stop, or an IRP, never for two of   *)
(* them: a device that gets IRPs is started.                               *)
LEMMA Directions ==
  ASSUME IInv, NEW x \in Devices
  PROVE  /\ at[Dev(x)] = "moving" => /\ life[x] = "started" /\ pm # None
                                     /\ irp[Dev(x)].state \in {0, 3}
         /\ GoesTo(x, 0) => /\ life[x] \in {"starting", "started"}
                            /\ at[Dev(x)] = "moving" => irp[Dev(x)].state = 0
         /\ GoesTo(x, 3) => /\ life[x] \in {"stopping", "started"}
                            /\ at[Dev(x)] = "moving" => irp[Dev(x)].state = 3
         /\ move[x] # "none" => GoesTo(x, 0) \/ GoesTo(x, 3)
         /\ MoveKept(x)
<1>1. at[Dev(x)] = "moving" => /\ life[x] = "started" /\ pm # None
                               /\ irp[Dev(x)].state \in {0, 3}
  BY DeviceHand, SystemHand
<1>2. MoveKept(x) /\ DeviceType
  BY DEF IInv, MovesKept
<1>3. move[x] # "none" => GoesTo(x, 0) \/ GoesTo(x, 3)
  BY <1>2 DEF MoveKept, DeviceType
<1> QED
  BY <1>1, <1>2, <1>3 DEF GoesTo

(* What MoveKept and ConsoleKept say of a device depends on nothing else.  *)
Still(x) == /\ life'[x] = life[x] /\ power'[x] = power[x] /\ move'[x] = move[x]
            /\ at'[Dev(x)] = "moving" <=> at[Dev(x)] = "moving"
            /\ at[Dev(x)] = "moving" => irp'[Dev(x)] = irp[Dev(x)]

LEMMA StillMoves ==
  ASSUME NEW x \in Devices, MoveKept(x), Still(x), failed[x] => failed'[x]
  PROVE  MoveKept(x)'
  BY DEF MoveKept, Still, GoesTo

LEMMA StillConsole ==
  ASSUME NEW p \in Pdos, ConsoleKept(p), power'[p] = power[p], move'[p] = move[p],
         failed'[p] => failed[p], link'[p] = link[p]
  PROVE  ConsoleKept(p)'
  BY DEF ConsoleKept

(* The threads do not change the power of a device but in a move, and they *)
(* do not let go of its IRP before the move has ended.                     *)
LEMMA ThreadMoves ==
  ASSUME IInv, NEW t \in Threads, ThreadRuns(t), NEW x \in Devices
  PROVE  Still(x) /\ UNCHANGED deviceVars
<1>1. UNCHANGED deviceVars
  BY ThreadFrame
<1>2. ThreadType /\ Dev(x) \in Threads
  BY ThreadsAre DEF IInv
<1>3. /\ at'[Dev(x)] = "moving" <=> at[Dev(x)] = "moving"
      /\ at[Dev(x)] = "moving" => irp'[Dev(x)] = irp[Dev(x)]
  BY <1>2
     DEF ThreadType, ThreadRuns, Runs, Look, Wait, Alerted, Take, Empty, Return, Goes
<1> QED
  BY <1>1, <1>3 DEF Still, deviceVars

LEMMA MovesByThreads ==
  ASSUME IInv, NEW x \in Devices, Handles(x)
  PROVE  MovesKept'
<1> USE DEF deviceVars
<1>0. ThreadType /\ DeviceType /\ MovesKept /\ KindsKept
  BY DEF IInv
<1>a. UNCHANGED <<life, power, link, bound>>
  BY HandlesFrame
<1>b. \A y \in Devices : Sys(y) \in Threads /\ Dev(y) \in Threads
  BY ThreadsAre
<1>c. Fdo \in Devices /\ Pdos \subseteq Devices /\ Fdo \notin Pdos
  BY ThreadsAre
<1>1. ASSUME move' = move, failed' = failed \/ failed' = [failed EXCEPT ![Fdo] = TRUE],
             \A y \in Devices : Still(y)
      PROVE  MovesKept'
  <2>1. ASSUME NEW y \in Devices PROVE MoveKept(y)'
    <3>1. failed[y] => failed'[y]
      BY <1>0, <1>1 DEF DeviceType
    <3> QED
      BY <1>0, <1>1, <3>1, StillMoves DEF MovesKept
  <2>2. ASSUME NEW p \in Pdos PROVE ConsoleKept(p)'
    <3>1. failed'[p] = failed[p]
      BY <1>0, <1>1, <1>c DEF DeviceType
    <3> QED
      BY <1>0, <1>1, <1>a, <3>1, StillConsole DEF MovesKept
  <2> QED
    BY <1>0, <1>1, <1>a, <2>1, <2>2 DEF MovesKept
<1>2. ASSUME NEW t \in Threads, Finishes(t), at[t] # "moving", move' = move
      PROVE  \A y \in Devices : Still(y)
  BY <1>0, <1>2, <1>a, <1>b DEF ThreadType, Finishes, Still
<1>3. ASSUME Requests(x), move' = move PROVE \A y \in Devices : Still(y)
  <2>1. at' = [at EXCEPT ![Sys(x)] = "requested"] /\ irp' = irp
    BY <1>3 DEF Requests, Request, Goes
  <2>2. \A y \in Devices : at'[Dev(y)] = at[Dev(y)]
    BY <1>0, <1>b, <2>1, ThreadsAre DEF ThreadType
  <2> QED
    BY <1>3, <1>a, <2>1, <2>2 DEF Still
<1>4. CASE SystemSame(x) \/ SystemDone(x)
  <2>1. Finishes(Sys(x)) /\ UNCHANGED <<move, failed>> /\ at[Sys(x)] # "moving"
    BY <1>4 DEF SystemSame, SystemDone, Finishes, Completes, Handled
  <2> QED
    BY <1>1, <1>2, <1>b, <2>1
<1>5. CASE SystemRequest(x)
  BY <1>1, <1>3, <1>5 DEF SystemRequest, Requests
<1>6. CASE DeviceSame(x)
  <2>1. Finishes(Dev(x)) /\ UNCHANGED <<move, failed>> /\ at[Dev(x)] # "moving"
    BY <1>6 DEF DeviceSame, Finishes, Completes, Handled
  <2> QED
    BY <1>1, <1>2, <1>b, <2>1
<1>7. CASE x = Fdo /\ FdoSystemUp
  <2>1. UNCHANGED move /\ at[Sys(Fdo)] = "handle"
    BY <1>7 DEF FdoSystemUp
  <2>2. failed' = failed \/ failed' = [failed EXCEPT ![Fdo] = TRUE]
    <3>1. \/ UNCHANGED failed
          \/ failed' = [failed EXCEPT ![Fdo] = @ \/ power[Fdo] = 3]
      BY <1>7 DEF FdoSystemUp
    <3>2. failed[Fdo] \in BOOLEAN /\ failed = [failed EXCEPT ![Fdo] = failed[Fdo]]
      BY <1>0, <1>c DEF DeviceType
    <3> QED
      BY <3>1, <3>2
  <2>3. Requests(Fdo) \/ Finishes(Sys(Fdo))
    BY <1>7 DEF FdoSystemUp, Requests, Finishes, Completes, Handled
  <2> QED
    BY <1>1, <1>2, <1>3, <1>7, <1>b, <2>1, <2>2, <2>3
<1>8. CASE x = Fdo /\ FdoSystemQuery
  BY <1>1, <1>3, <1>8 DEF FdoSystemQuery, Requests
<1>9. CASE x = Fdo /\ (FdoDeviceQuery \/ FdoDeviceFails)
  <2>1. /\ Finishes(Dev(Fdo)) /\ UNCHANGED move /\ at[Dev(Fdo)] # "moving"
        /\ failed' = failed \/ failed' = [failed EXCEPT ![Fdo] = TRUE]
    BY <1>9 DEF FdoDeviceQuery, FdoDeviceFails, Finishes, Completes, Handled
  <2> QED
    BY <1>1, <1>2, <1>b, <1>c, <2>1
<1>10. CASE DeviceMoved(x)
  <2>1. Finishes(Dev(x)) /\ UNCHANGED <<move, failed>> /\ move[x] = "none"
    BY <1>10 DEF DeviceMoved, Finishes, Completes, Handled
  <2>2. ASSUME NEW y \in Devices PROVE MoveKept(y)'
    <3>1. CASE y = x
      <4>1. at'[Dev(x)] = "look"
        BY <1>0, <1>b, <2>1 DEF ThreadType, Finishes
      <4>2. MoveKept(x)
        BY <1>0 DEF MovesKept
      <4> QED
        BY <1>a, <2>1, <3>1, <4>1, <4>2 DEF MoveKept, GoesTo
    <3>2. CASE y # x
      <4>1. at'[Dev(y)] = at[Dev(y)] /\ irp'[Dev(y)] = irp[Dev(y)]
        BY <1>0, <1>b, <2>1, <3>2, ThreadsAre DEF ThreadType, Finishes
      <4> QED
        BY <1>0, <1>a, <2>1, <4>1, StillMoves DEF MovesKept, Still
    <3> QED
      BY <3>1, <3>2
  <2> QED
    BY <1>0, <1>a, <2>1, <2>2, StillConsole DEF MovesKept
<1>11. CASE DeviceMove(x)
  <2>1. /\ at[Dev(x)] = "handle" /\ at' = [at EXCEPT ![Dev(x)] = "moving"]
        /\ irp[Dev(x)].minor = "set" /\ irp[Dev(x)].state # power[x]
        /\ move' = [move EXCEPT ![x] = IF irp[Dev(x)].state < power[x] THEN "up"
                                       ELSE "down"]
        /\ UNCHANGED <<irp, failed>>
    BY <1>11 DEF DeviceMove, Goes
  <2>2. irp[Dev(x)].state \in {0, 3} /\ life[x] = "started" /\ power[x] \in {0, 3}
    BY <1>0, <2>1, DeviceHand, SystemHand DEF DeviceType
  <2>3. /\ at'[Dev(x)] = "moving"
        /\ \A y \in Devices : y # x => at'[Dev(y)] = at[Dev(y)]
    BY <1>0, <1>b, <2>1, ThreadsAre DEF ThreadType
  <2>4. /\ \/ move'[x] = "up" /\ irp[Dev(x)].state = 0 /\ power[x] = 3
           \/ move'[x] = "down" /\ irp[Dev(x)].state = 3 /\ power[x] = 0
        /\ \A y \in Devices : y # x => move'[y] = move[y]
    <3>1. /\ move'[x] = IF irp[Dev(x)].state < power[x] THEN "up" ELSE "down"
          /\ \A y \in Devices : y # x => move'[y] = move[y]
      BY <1>0, <2>1 DEF DeviceType
    <3> QED
      BY <2>1, <2>2, <3>1
  <2>5. ASSUME NEW y \in Devices PROVE MoveKept(y)'
    <3>1. CASE y = x
      BY <1>a, <2>1, <2>2, <2>3, <2>4, <3>1 DEF MoveKept, GoesTo
    <3>2. CASE y # x
      BY <1>0, <1>a, <2>1, <2>3, <2>4, <3>2, StillMoves DEF MovesKept, Still
    <3> QED
      BY <3>1, <3>2
  <2>6. ASSUME NEW p \in Pdos PROVE ConsoleKept(p)'
    <3>1. ConsoleKept(p)
      BY <1>0 DEF MovesKept
    <3> QED
      BY <1>a, <1>c, <2>1, <2>4, <3>1 DEF ConsoleKept
  <2>7. move'[Fdo] \notin {"abi", "off"}
    BY <1>0, <1>c, <2>4 DEF MovesKept
  <2> QED
    BY <1>0, <1>a, <2>5, <2>6, <2>7 DEF MovesKept
<1> QED
  BY <1>4, <1>5, <1>6, <1>7, <1>8, <1>9, <1>10, <1>11 DEF Handles

(* FdoD3ToD0, FdoD0ToD3, PdoD3ToD0 and PdoD0ToD3 step by step.             *)
Advances(x) ==
  /\ UNCHANGED <<at, irp, life>>
  /\ \A y \in Devices : y # x => /\ power'[y] = power[y] /\ move'[y] = move[y]
                                 /\ failed'[y] = failed[y]

LEMMA MovesByFdo == IInv /\ FdoPowers => MovesKept'
<1> SUFFICES ASSUME IInv, FdoPowers PROVE MovesKept'
  OBVIOUS
<1> USE DEF threadVars
<1>0. DeviceType /\ MovesKept
  BY DEF IInv
<1>a. UNCHANGED <<at, irp, life, link>>
  BY FdoPowersFrame
<1>b. Fdo \in Devices /\ Pdos \subseteq Devices /\ Fdo \notin Pdos
  BY ThreadsAre
<1>c. /\ at[Dev(Fdo)] = "moving" => life[Fdo] = "started"
      /\ GoesTo(Fdo, 0) => /\ life[Fdo] \in {"starting", "started"}
                           /\ at[Dev(Fdo)] = "moving" => irp[Dev(Fdo)].state = 0
      /\ GoesTo(Fdo, 3) => /\ life[Fdo] \in {"stopping", "started"}
                           /\ at[Dev(Fdo)] = "moving" => irp[Dev(Fdo)].state = 3
      /\ MoveKept(Fdo)
      /\ power[Fdo] \in {0, 3} /\ failed[Fdo] \in BOOLEAN
  BY <1>0, <1>b, Directions DEF DeviceType
<1>d. \A s \in {0, 3} : GoesTo(Fdo, s)' <=> GoesTo(Fdo, s)
  BY <1>a DEF GoesTo
<1>1. ASSUME Advances(Fdo), MoveKept(Fdo)', bound' <=> power'[Fdo] = 0,
             move'[Fdo] \notin {"abi", "off"}
      PROVE  MovesKept'
  <2>1. ASSUME NEW y \in Devices, y # Fdo PROVE MoveKept(y)'
    BY <1>0, <1>1, <2>1, StillMoves DEF MovesKept, Still, Advances
  <2>2. ASSUME NEW p \in Pdos PROVE ConsoleKept(p)'
    BY <1>0, <1>1, <1>a, <1>b, StillConsole DEF MovesKept, Advances
  <2> QED
    BY <1>1, <2>1, <2>2 DEF MovesKept
<1>2. CASE FdoUpFails
  <2>1. /\ move[Fdo] = "up" /\ move'[Fdo] = "none" /\ failed'[Fdo]
        /\ power'[Fdo] = power[Fdo] /\ bound' = bound /\ Advances(Fdo)
    BY <1>0, <1>2, <1>a, <1>b DEF DeviceType, FdoUpFails, Moves, Advances, storeVars
  <2>2. MoveKept(Fdo)'
    BY <1>a, <1>c, <1>d, <2>1 DEF MoveKept
  <2> QED
    BY <1>0, <1>1, <2>1, <2>2 DEF MovesKept
<1>3. CASE FdoFindIndex \/ FdoWriteIndex
  <2>1. /\ move[Fdo] \in {"up", "write"} /\ move'[Fdo] \in {"up", "write", "watch"}
        /\ UNCHANGED <<power, failed, bound>> /\ Advances(Fdo)
    BY <1>0, <1>3, <1>a, <1>b
       DEF DeviceType, FdoFindIndex, FdoWriteIndex, Moves, Advances
  <2>2. MoveKept(Fdo)'
    BY <1>a, <1>c, <1>d, <2>1 DEF MoveKept
  <2> QED
    BY <1>0, <1>1, <2>1, <2>2 DEF MovesKept
<1>4. CASE FdoWatch
  <2>1. CASE /\ Moves(Fdo, "watch", "none")
             /\ bound' = TRUE
             /\ power' = [power EXCEPT ![Fdo] = 0]
             /\ failed' = [failed EXCEPT ![Fdo] = FALSE]
    <3>1. /\ move[Fdo] = "watch" /\ move'[Fdo] = "none" /\ power'[Fdo] = 0
          /\ bound' /\ Advances(Fdo)
      BY <1>0, <1>a, <1>b, <2>1 DEF DeviceType, Moves, Advances
    <3>2. MoveKept(Fdo)'
      BY <1>a, <1>c, <1>d, <3>1 DEF MoveKept
    <3> QED
      BY <1>1, <3>1, <3>2
  <2>2. CASE /\ failed' = [failed EXCEPT ![Fdo] = TRUE]
             /\ UNCHANGED <<bound, power>>
             /\ Moves(Fdo, "watch", "none") \/ Moves(Fdo, "watch", "list")
    <3>1. /\ move[Fdo] = "watch" /\ move'[Fdo] \in {"none", "list"} /\ failed'[Fdo]
          /\ Advances(Fdo)
      BY <1>0, <1>a, <1>b, <2>2 DEF DeviceType, Moves, Advances
    <3>2. MoveKept(Fdo)'
      BY <1>a, <1>c, <1>d, <2>2, <3>1 DEF MoveKept
    <3> QED
      BY <1>0, <1>1, <2>2, <3>1, <3>2 DEF MovesKept
  <2> QED
    BY <1>4, <2>1, <2>2 DEF FdoWatch
<1>5. CASE FdoAsleep
  <2>1. /\ move[Fdo] = "down" /\ move'[Fdo] = "list" /\ power'[Fdo] = 3
        /\ ~bound' /\ Advances(Fdo)
    BY <1>0, <1>5, <1>a, <1>b DEF DeviceType, FdoAsleep, Moves, Advances
  <2>2. MoveKept(Fdo)'
    BY <1>a, <1>c, <1>d, <2>1 DEF MoveKept
  <2> QED
    BY <1>1, <2>1, <2>2
<1>6. CASE FdoList \/ (\E i \in Indices : FdoClear(i)) \/ FdoCleared
  <2>1. /\ move[Fdo] \in {"list", "clear"} /\ move'[Fdo] \in {"clear", "none"}
        /\ UNCHANGED <<power, failed, bound>> /\ Advances(Fdo)
    <3>1. /\ Moves(Fdo, "list", "clear") \/ Moves(Fdo, "clear", "clear")
             \/ Moves(Fdo, "clear", "none")
          /\ UNCHANGED <<power, failed, bound>>
      BY <1>6 DEF FdoList, FdoClear, FdoCleared, storeVars
    <3> QED
      BY <1>0, <1>a, <1>b, <3>1 DEF DeviceType, Moves, Advances
  <2>2. MoveKept(Fdo)'
    BY <1>a, <1>c, <1>d, <2>1 DEF MoveKept
  <2> QED
    BY <1>0, <1>1, <2>1, <2>2 DEF MovesKept
<1> QED
  BY <1>2, <1>3, <1>4, <1>5, <1>6 DEF FdoPowers

LEMMA MovesByPdo == ASSUME IInv, NEW p \in Pdos, PdoPowers(p) PROVE MovesKept'
<1> USE DEF threadVars, storeVars
<1>0. DeviceType /\ MovesKept
  BY DEF IInv
<1>a. UNCHANGED <<at, irp, life, bound>>
  BY PdoPowersFrame
<1>b. Fdo \in Devices /\ Pdos \subseteq Devices /\ Fdo \notin Pdos
  BY ThreadsAre
<1>c. /\ at[Dev(p)] = "moving" => life[p] = "started"
      /\ GoesTo(p, 0) => /\ life[p] \in {"starting", "started"}
                         /\ at[Dev(p)] = "moving" => irp[Dev(p)].state = 0
      /\ GoesTo(p, 3) => /\ life[p] \in {"stopping", "started"}
                         /\ at[Dev(p)] = "moving" => irp[Dev(p)].state = 3
      /\ MoveKept(p) /\ ConsoleKept(p)
      /\ power[p] \in {0, 3} /\ failed[p] \in BOOLEAN /\ link[p] \in BOOLEAN
  BY <1>0, <1>b, Directions DEF DeviceType, MovesKept
<1>d. \A s \in {0, 3} : GoesTo(p, s)' <=> GoesTo(p, s)
  BY <1>a DEF GoesTo
<1>1. ASSUME Advances(p), \A q \in Pdos : q # p => link'[q] = link[q],
             MoveKept(p)', ConsoleKept(p)'
      PROVE  MovesKept'
  <2>1. ASSUME NEW y \in Devices, y # p PROVE MoveKept(y)'
    BY <1>0, <1>1, <2>1, StillMoves DEF MovesKept, Still, Advances
  <2>2. ASSUME NEW q \in Pdos, q # p PROVE ConsoleKept(q)'
    BY <1>0, <1>1, <1>b, <2>2, StillConsole DEF MovesKept, Advances
  <2>3. move'[Fdo] = move[Fdo] /\ power'[Fdo] = power[Fdo]
    BY <1>1, <1>b DEF Advances
  <2> QED
    BY <1>0, <1>1, <1>a, <2>1, <2>2, <2>3 DEF MovesKept
<1>2. CASE PdoAwake(p)
  <2>1. /\ move[p] = "up" /\ move'[p] = "abi" /\ power'[p] = 0 /\ ~failed'[p]
        /\ UNCHANGED link /\ Advances(p)
    BY <1>0, <1>2, <1>a, <1>b DEF DeviceType, PdoAwake, Moves, Advances
  <2>2. MoveKept(p)'
    BY <1>a, <1>c, <1>d, <2>1 DEF MoveKept
  <2>3. ConsoleKept(p)'
    BY <1>c, <2>1 DEF MoveKept, ConsoleKept
  <2> QED
    BY <1>1, <2>1, <2>2, <2>3
<1>3. CASE PdoUpFails(p)
  <2>1. /\ move[p] \in {"up", "abi"} /\ move'[p] = "none" /\ power'[p] = 3
        /\ failed'[p] /\ UNCHANGED link /\ Advances(p)
    BY <1>0, <1>3, <1>a, <1>b DEF DeviceType, PdoUpFails, Moves, Advances
  <2>2. MoveKept(p)'
    BY <1>a, <1>c, <1>d, <2>1 DEF MoveKept
  <2>3. ConsoleKept(p)'
    BY <1>c, <2>1 DEF MoveKept, ConsoleKept
  <2> QED
    BY <1>1, <2>1, <2>2, <2>3
<1>4. CASE PdoEnable(p)
  <2>1. /\ move[p] = "abi" /\ move'[p] = "none" /\ link'[p]
        /\ UNCHANGED <<power, failed>> /\ Advances(p)
        /\ \A q \in Pdos : q # p => link'[q] = link[q]
    BY <1>0, <1>4, <1>a, <1>b DEF DeviceType, PdoEnable, Moves, Advances
  <2>2. MoveKept(p)'
    BY <1>a, <1>c, <1>d, <2>1 DEF MoveKept, ConsoleKept
  <2>3. ConsoleKept(p)'
    BY <1>c, <2>1 DEF ConsoleKept
  <2> QED
    BY <1>1, <2>1, <2>2, <2>3
<1>5. CASE PdoDisable(p)
  <2>1. /\ move[p] = "down" /\ move'[p] = "off" /\ ~link'[p]
        /\ UNCHANGED <<power, failed>> /\ Advances(p)
        /\ \A q \in Pdos : q # p => link'[q] = link[q]
    BY <1>0, <1>5, <1>a, <1>b DEF DeviceType, PdoDisable, Moves, Advances
  <2>2. MoveKept(p)'
    BY <1>a, <1>c, <1>d, <2>1 DEF MoveKept
  <2>3. ConsoleKept(p)'
    BY <1>c, <2>1 DEF MoveKept, ConsoleKept
  <2> QED
    BY <1>1, <2>1, <2>2, <2>3
<1>6. CASE PdoAsleep(p)
  <2>1. /\ move[p] = "off" /\ move'[p] = "none" /\ power'[p] = 3
        /\ UNCHANGED <<link, failed>> /\ Advances(p)
    BY <1>0, <1>6, <1>a, <1>b DEF DeviceType, PdoAsleep, Moves, Advances
  <2>2. MoveKept(p)'
    BY <1>a, <1>c, <1>d, <2>1 DEF MoveKept
  <2>3. ConsoleKept(p)'
    BY <1>c, <2>1 DEF MoveKept, ConsoleKept
  <2> QED
    BY <1>1, <2>1, <2>2, <2>3
<1> QED
  BY <1>2, <1>3, <1>4, <1>5, <1>6 DEF PdoPowers

LEMMA MovesByLives ==
  ASSUME IInv, pm = None, NEW x \in Devices, LivesOn(x) PROVE MovesKept'
<1>0. ThreadType /\ DeviceType /\ MovesKept /\ IrpsKept /\ LoopKept
  BY DEF IInv
<1>a. UNCHANGED <<irp, power, link, bound>>
  BY LivesFrame
<1>b. /\ Fdo \in Devices /\ Pdos \subseteq Devices /\ Fdo \notin Pdos
      /\ \A y \in Devices : Sys(y) \in Threads /\ Dev(y) \in Threads
  BY ThreadsAre
<1>c. ASSUME NEW y \in Devices
      PROVE  at[Dev(y)] # "moving" /\ at'[Dev(y)] # "moving"
  <2>1. at[Dev(y)] # "moving"
    BY Directions
  <2>2. \A u \in Threads : at'[u] # at[u] => at'[u] # "moving"
    <3>1. CASE CreateSystemThread(x) \/ CreateDeviceThread(x)
      BY <1>0, <1>b, <3>1
         DEF ThreadType, CreateSystemThread, CreateDeviceThread, Creates, Abandons
    <3>2. CASE JoinDeviceThread(x) \/ JoinSystemThread(x)
      BY <1>0, <1>b, <3>2
         DEF ThreadType, JoinDeviceThread, JoinSystemThread, ThreadJoin
    <3>3. CASE UNCHANGED at
      BY <3>3
    <3> QED
      BY <3>1, <3>2, <3>3
         DEF LivesOn, CreateRest, Destroy, StartDevice, StopDevice, StartStopEnd,
             threadVars
  <2> QED
    BY <1>b, <2>1, <2>2
<1>d. MoveKept(x) /\ (move[x] # "none" => GoesTo(x, 0) \/ GoesTo(x, 3))
  BY Directions
<1>e. /\ at[Dev(x)] # "moving" /\ at'[Dev(x)] # "moving"
      /\ power[x] \in {0, 3} /\ power'[x] = power[x]
  BY <1>0, <1>a, <1>c DEF DeviceType
<1>1. ASSUME MoveKept(x)', move'[Fdo] \notin {"abi", "off"},
             \A y \in Devices : y # x => /\ life'[y] = life[y] /\ move'[y] = move[y]
                                         /\ failed'[y] = failed[y],
             x \in Pdos => ConsoleKept(x)'
      PROVE  MovesKept'
  <2>1. ASSUME NEW y \in Devices, y # x PROVE MoveKept(y)'
    BY <1>0, <1>1, <1>a, <1>c, <2>1, StillMoves DEF MovesKept, Still
  <2>2. ASSUME NEW q \in Pdos, q # x PROVE ConsoleKept(q)'
    BY <1>0, <1>1, <1>a, <1>b, <2>2, StillConsole DEF MovesKept
  <2> QED
    BY <1>0, <1>1, <1>a, <2>1, <2>2 DEF MovesKept
<1>2. CASE StartDevice(x)
  <2>1. /\ life[x] = "made" /\ life' = [life EXCEPT ![x] = "starting"]
        /\ move' = [move EXCEPT ![x] = "up"] /\ UNCHANGED failed
    BY <1>2 DEF StartDevice, Lives
  <2>2. /\ life'[x] = "starting" /\ move'[x] = "up" /\ failed'[x] = failed[x]
        /\ \A y \in Devices : y # x => /\ life'[y] = life[y] /\ move'[y] = move[y]
                                       /\ failed'[y] = failed[y]
    BY <1>0, <2>1 DEF DeviceType
  <2>3. MoveKept(x)'
    BY <1>d, <1>e, <2>1, <2>2 DEF MoveKept, GoesTo
  <2>4. x \in Pdos => ConsoleKept(x)'
    BY <1>0, <1>a, <1>e, <2>2 DEF MovesKept, ConsoleKept
  <2>5. move'[Fdo] \notin {"abi", "off"}
    BY <1>0, <1>b, <2>2 DEF MovesKept
  <2> QED
    BY <1>1, <2>2, <2>3, <2>4, <2>5
<1>3. CASE StopDevice(x)
  <2>1. /\ life[x] = "started" /\ life' = [life EXCEPT ![x] = "stopping"]
        /\ move' = [move EXCEPT ![x] = IF power[x] = 0 THEN "down" ELSE "none"]
        /\ UNCHANGED failed
    BY <1>3 DEF StopDevice, Lives
  <2>2. /\ life'[x] = "stopping" /\ failed'[x] = failed[x]
        /\ move'[x] = IF power[x] = 0 THEN "down" ELSE "none"
        /\ \A y \in Devices : y # x => /\ life'[y] = life[y] /\ move'[y] = move[y]
                                       /\ failed'[y] = failed[y]
    BY <1>0, <2>1 DEF DeviceType
  <2>3. MoveKept(x)'
    BY <1>d, <1>e, <2>1, <2>2 DEF MoveKept, GoesTo
  <2>4. x \in Pdos => ConsoleKept(x)'
    BY <1>0, <1>a, <1>e, <2>2 DEF MovesKept, ConsoleKept
  <2>5. move'[Fdo] \notin {"abi", "off"}
    BY <1>0, <1>b, <2>2 DEF MovesKept
  <2> QED
    BY <1>1, <2>2, <2>3, <2>4, <2>5
<1>4. CASE StartStopEnd(x)
  <2>1. /\ move[x] = "none" /\ UNCHANGED <<move, failed>>
        /\ \/ /\ life[x] = "starting"
              /\ life' = [life EXCEPT ![x] = IF power[x] = 0 THEN "started" ELSE "made"]
           \/ life[x] = "stopping" /\ life' = [life EXCEPT ![x] = "made"]
    BY <1>4 DEF StartStopEnd, Lives
  <2>2. /\ \/ /\ life[x] = "starting"
              /\ life'[x] = IF power[x] = 0 THEN "started" ELSE "made"
           \/ life[x] = "stopping" /\ life'[x] = "made"
        /\ \A y \in Devices : y # x => life'[y] = life[y]
    BY <1>0, <2>1 DEF DeviceType
  <2>3. MoveKept(x)'
    BY <1>d, <1>e, <2>1, <2>2 DEF MoveKept, GoesTo
  <2>4. x \in Pdos => ConsoleKept(x)'
    BY <1>0, <1>a, <2>1 DEF MovesKept, ConsoleKept
  <2> QED
    BY <1>0, <1>1, <2>1, <2>2, <2>3, <2>4 DEF MovesKept
<1>5. ASSUME NEW l \in Ages \ {"starting", "started", "stopping"},
             life[x] \notin {"starting", "started", "stopping"},
             life' = [life EXCEPT ![x] = l], UNCHANGED move,
             failed' = failed \/ failed' = [failed EXCEPT ![x] = FALSE]
      PROVE  MovesKept'
  <2>1. /\ life'[x] = l /\ (failed'[x] => failed[x])
        /\ \A y \in Devices : y # x => life'[y] = life[y] /\ failed'[y] = failed[y]
    BY <1>0, <1>5 DEF DeviceType
  <2>2. move[x] = "none"
    BY <1>d, <1>e, <1>5 DEF GoesTo
  <2>3. MoveKept(x)'
    BY <1>d, <1>e, <1>5, <2>1, <2>2 DEF MoveKept, GoesTo
  <2>4. x \in Pdos => ConsoleKept(x)'
    BY <1>0, <1>5, <1>a, <2>1 DEF MovesKept, ConsoleKept
  <2> QED
    BY <1>0, <1>1, <1>5, <2>1, <2>3, <2>4 DEF MovesKept
<1>6. CASE CreateSystemThread(x) \/ CreateDeviceThread(x) \/ CreateRest(x)
  BY <1>5, <1>6
     DEF CreateSystemThread, CreateDeviceThread, CreateRest, Lives, Ages
<1>7. CASE Destroy(x) \/ JoinDeviceThread(x) \/ JoinSystemThread(x)
  BY <1>5, <1>7 DEF Destroy, JoinDeviceThread, JoinSystemThread, Lives, Ages
<1> QED
  BY <1>2, <1>3, <1>4, <1>6, <1>7 DEF LivesOn

(* A device changes its power only on its way somewhere, comes to D0 or D3 *)
(* as it was to unless it failed, and enables its interface only in D0.    *)
LEMMA MovesStep == IInv /\ [Next]_vars => MovesKept'
<1> SUFFICES ASSUME IInv, [Next]_vars PROVE MovesKept'
  OBVIOUS
<1> USE DEF vars, threadVars, deviceVars, storeVars
<1>0. MovesKept /\ Pdos \subseteq Devices
  BY ThreadsAre DEF IInv
<1>1. ASSUME UNCHANGED <<deviceVars, bound>>, \A x \in Devices : Still(x)
      PROVE  MovesKept'
  <2>1. \A x \in Devices : MoveKept(x)'
    BY <1>0, <1>1, StillMoves DEF MovesKept
  <2>2. \A p \in Pdos : ConsoleKept(p)'
    BY <1>0, <1>1, StillConsole DEF MovesKept
  <2> QED
    BY <1>0, <1>1, <2>1, <2>2 DEF MovesKept
<1>2. CASE \E t \in Threads : ThreadRuns(t)
  BY <1>1, <1>2, ThreadMoves, ThreadFrame
<1>3. CASE UNCHANGED <<at, irp, deviceVars, bound>>
  BY <1>1, <1>3 DEF Still
<1> QED
  BY <1>2, <1>3, Steps, WakeFrame, MovesByThreads, MovesByFdo, MovesByPdo,
     MovesByLives, SendFrame, StoreFrame, EndFrame, BeginFrame

-----------------------------------------------------------------------------
(* How far a device is depends on little else.                             *)
Halts(x) == /\ system'[x] = system[x] /\ power'[x] = power[x]
            /\ failed'[x] = failed[x]
            /\ owed'[Sys(x)] = owed[Sys(x)] /\ owed'[Dev(x)] = owed[Dev(x)]
            /\ at'[Sys(x)] = "requested" <=> at[Sys(x)] = "requested"

LEMMA HaltsRest ==
  ASSUME NEW x \in Devices, NEW s \in States, AtRest(x, s), UNCHANGED faults,
         system'[x] = system[x], power'[x] = power[x], failed'[x] = failed[x]
  PROVE  AtRest(x, s)'
  BY DEF AtRest, DevicePowerStateMap, Fails

LEMMA HaltsUnderway ==
  ASSUME NEW x \in Devices, Underway(x), Halts(x), UNCHANGED <<working, faults>>,
         pm'.minor = pm.minor, pm'.target = pm.target, pm'.off = pm.off,
         x \in pm'.todo <=> x \in pm.todo
  PROVE  Underway(x)'
  BY DEF Underway, Halts, AtRest, Arrived, DevicePowerStateMap, Fails

(* A started device whose power changes does so for an IRP to set it.      *)
LEMMA Moving ==
  ASSUME IInv, NEW x \in Devices, move[x] # "none", life[x] = "started"
  PROVE  /\ pm # None /\ pm.minor = "set" /\ x \notin pm.todo /\ owed[Sys(x)] = 1
         /\ owed[Dev(x)] = 1 /\ at[Sys(x)] = "requested"
<1>1. at[Dev(x)] = "moving" /\ irp[Dev(x)].minor = "set"
  BY Directions DEF GoesTo, MoveKept
<1>2. at[Sys(x)] = "requested" /\ owed[Dev(x)] = 1 /\ DeviceIrp(x, irp[Dev(x)])
  BY <1>1, DeviceHand
<1> QED
  BY <1>1, <1>2, SystemHand DEF DeviceIrp

(* The change of power of such a device disturbs nothing.                  *)
LEMMA MovingKept ==
  ASSUME IInv, NEW x \in Devices, move[x] # "none",
         UNCHANGED <<threadVars, life, system, irpVars, pmVars>>,
         \A y \in Devices : y # x => power'[y] = power[y] /\ failed'[y] = failed[y]
  PROVE  TransitionKept'
<1> USE DEF threadVars, irpVars, pmVars
<1>0. TransitionKept /\ PmType
  BY DEF IInv
<1>1. CASE pm = None
  <2>1. ASSUME NEW y \in Devices, life[y] = "started" PROVE AtRest(y, working)'
    <3>1. y # x
      BY <1>1, <2>1, Moving
    <3>2. working \in States
      BY <1>0 DEF PmType
    <3>3. AtRest(y, working)
      BY <1>0, <1>1, <2>1 DEF TransitionKept
    <3> QED
      BY <3>1, <3>3 DEF AtRest, DevicePowerStateMap, Fails
  <2> QED
    BY <1>0, <1>1, <2>1 DEF TransitionKept, Fails
<1>2. CASE pm # None
  <2>1. ASSUME NEW y \in Devices, life[y] = "started" PROVE Underway(y)'
    <3>1. CASE y = x
      <4>1. /\ pm.minor = "set" /\ x \notin pm.todo /\ owed[Sys(x)] = 1
            /\ owed[Dev(x)] = 1 /\ at[Sys(x)] = "requested"
        BY <2>1, <3>1, Moving
      <4> QED
        BY <3>1, <4>1 DEF Underway
    <3>2. CASE y # x
      <4>1. Underway(y) /\ Halts(y)
        BY <1>0, <1>2, <2>1, <3>2 DEF TransitionKept, Halts
      <4> QED
        BY <4>1, HaltsUnderway
    <3> QED
      BY <3>1, <3>2
  <2> QED
    BY <1>0, <1>2, <2>1 DEF TransitionKept, Fails
<1> QED
  BY <1>1, <1>2

(* A device that the power manager has an answer of is where it was to be. *)
LEMMA TransitionByThreads ==
  ASSUME IInv, NEW x \in Devices, Handles(x)
  PROVE  TransitionKept'
<1> USE DEF deviceVars, pmVars
<1>0. ThreadType /\ DeviceType /\ PmType /\ LoopKept /\ IrpsKept /\ KindsKept
  BY DEF IInv
<1>a. /\ UNCHANGED <<life, power, working, faults>> /\ pm' = pm
      /\ UNCHANGED <<pm, life, power>>
  BY HandlesFrame
<1>b. /\ \A y \in Devices : Sys(y) \in Threads /\ Dev(y) \in Threads
      /\ Fdo \in Devices /\ Pdos \subseteq Devices /\ Fdo \notin Pdos
      /\ x = Fdo \/ x \in Pdos
  BY ThreadsAre
<1>c. TransitionKept
  BY DEF IInv
<1>d. /\ pm # None /\ pm \in Transitions /\ pm.target \in States /\ ~pm.off
      /\ life[x] = "started" /\ x \notin pm.todo /\ owed[Sys(x)] = 1
      /\ pm.minor \in {"set", "query"} /\ system[x] \in 1..5 /\ working \in 1..5
      /\ pm.target \in 1..5 /\ power[x] \in {0, 3} /\ failed[x] \in BOOLEAN
  <2>1. \/ at[Sys(x)] \in {"handle", "requested"}
        \/ at[Dev(x)] \in {"handle", "moving"}
    BY HandlesThreads, <1>0
       DEF SystemFinishes, Finishes, Requests, Request, Goes, SetsOut, KindsKept
  <2>2. at[Sys(x)] \in {"handle", "requested"}
    BY <2>1, DeviceHand
  <2>3. States \subseteq 1..5
    BY PowerAssumption
  <2> QED
    BY <1>0, <2>2, <2>3, SystemHand DEF SystemIrp, Transitions, DeviceType, PmType
<1>e. Underway(x)
  BY <1>c, <1>d DEF TransitionKept
<1>1. ASSUME Underway(x)', system'[x] \in States, life[x] = "started",
             \A y \in Devices : y # x => Halts(y)
      PROVE  TransitionKept'
  <2>1. ASSUME NEW y \in Devices, life[y] = "started" PROVE Underway(y)'
    <3>1. CASE y # x
      <4>1. Underway(y)
        BY <1>c, <1>d, <2>1 DEF TransitionKept
      <4> QED
        BY <1>1, <1>a, <3>1, <4>1, HaltsUnderway
    <3> QED
      BY <1>1, <3>1
  <2>2. \A y \in Devices : life[y] # "started" => system'[y] = system[y]
    BY <1>1 DEF Halts
  <2> QED
    BY <1>a, <1>c, <1>d, <2>1, <2>2 DEF TransitionKept, Fails
(* The others stay as they are, and so do the other thread and its IRP.    *)
<1>2. ASSUME NEW t \in {Sys(x), Dev(x)}, Finishes(t),
             \E b \in BOOLEAN : failed' = [failed EXCEPT ![x] = b],
             \E s \in States : system' = [system EXCEPT ![x] = s]
      PROVE  /\ \A y \in Devices : y # x => Halts(y)
             /\ system'[x] \in States
             /\ owed'[t] = 0 /\ at'[t] = "look"
             /\ \A u \in Threads : u # t => owed'[u] = owed[u] /\ at'[u] = at[u]
  <2>1. t \in Threads
    BY <1>2, <1>b
  <2>2. HandKept(t) /\ at[t] \in {"handle", "requested", "moving"}
    BY <1>0, <1>2, <2>1 DEF LoopKept, Finishes
  <2>3. owed[t] = 1
    BY <2>2 DEF HandKept
  <2>4. /\ owed'[t] = 0 /\ at'[t] = "look"
        /\ \A u \in Threads : u # t => owed'[u] = owed[u] /\ at'[u] = at[u]
    BY <1>0, <1>2, <2>1, <2>3 DEF ThreadType, Finishes
  <2>5. /\ system'[x] \in States
        /\ \A y \in Devices : y # x => system'[y] = system[y] /\ failed'[y] = failed[y]
    BY <1>0, <1>2 DEF DeviceType
  <2>6. ASSUME NEW y \in Devices, y # x PROVE Sys(y) # t /\ Dev(y) # t
    BY <1>2, <2>6, ThreadsAre
  <2> QED
    BY <1>a, <1>b, <2>4, <2>5, <2>6 DEF Halts
<1>3. ASSUME Requests(x),
             UNCHANGED failed,
             \E s \in States : system' = [system EXCEPT ![x] = s]
      PROVE  /\ \A y \in Devices : y # x => Halts(y)
             /\ system'[x] \in States
             /\ owed'[Sys(x)] = 1 /\ owed'[Dev(x)] = 1 /\ at'[Sys(x)] = "requested"
             /\ at[Sys(x)] = "handle"
  <2>1. /\ at' = [at EXCEPT ![Sys(x)] = "requested"] /\ at[Sys(x)] = "handle"
        /\ DispatchPower(x, Dev(x), Asks(x, irp[Sys(x)]))
    BY <1>3 DEF Requests, Request, Goes
  <2>2. ~Passed(x, Asks(x, irp[Sys(x)])) /\ owed[Dev(x)] = 0
    BY <2>1, Requested
  <2>3. /\ owed'[Dev(x)] = 1 /\ \A u \in Threads : u # Dev(x) => owed'[u] = owed[u]
        /\ at'[Sys(x)] = "requested"
        /\ \A u \in Threads : u # Sys(x) => at'[u] = at[u]
    BY <1>0, <1>b, <2>1, <2>2 DEF ThreadType, DispatchPower
  <2>4. /\ system'[x] \in States
        /\ \A y \in Devices : y # x => system'[y] = system[y] /\ failed'[y] = failed[y]
    BY <1>0, <1>3 DEF DeviceType
  <2>5. ASSUME NEW y \in Devices, y # x PROVE Sys(y) # Sys(x) /\ Dev(y) # Dev(x)
    BY <2>5, ThreadsAre
  <2> QED
    BY <1>a, <1>b, <1>d, <2>1, <2>3, <2>4, <2>5, ThreadsAre DEF Halts
<1>f. /\ failed = [failed EXCEPT ![x] = failed[x]] /\ system[x] \in States
      /\ system = [system EXCEPT ![x] = system[x]]
  BY <1>0 DEF DeviceType
<1>g. Sys(x) # Dev(x) /\ Sys(x) \in Threads /\ Dev(x) \in Threads
  BY <1>b, ThreadsAre
<1>4. CASE SystemSame(x)
  <2>1. /\ Finishes(Sys(x)) /\ UNCHANGED <<system, failed>> /\ at[Sys(x)] = "handle"
        /\ irp[Sys(x)].state = system[x]
    BY <1>4 DEF SystemSame, Finishes, Completes, Handled
  <2>2. system[x] = pm.target
    BY <2>1, SystemHand DEF SystemIrp
  <2>3. /\ \A y \in Devices : y # x => Halts(y)
        /\ owed'[Sys(x)] = 0 /\ at'[Sys(x)] = "look"
    BY <1>2, <1>d, <1>f, <2>1
  <2>4. AtRest(x, working)
    BY <1>d, <1>e, <2>1 DEF Underway
  <2>5. AtRest(x, Arrived)
    BY <1>d, <2>2, <2>4 DEF AtRest, Arrived
  <2>6. Underway(x)'
    BY <1>a, <1>d, <2>1, <2>3, <2>5
       DEF Underway, AtRest, Arrived, DevicePowerStateMap, Fails
  <2> QED
    BY <1>1, <1>d, <1>f, <2>1, <2>3, <2>6
<1>5. CASE SystemRequest(x) \/ (x = Fdo /\ FdoSystemQuery)
  <2>1. Requests(x) /\ UNCHANGED <<system, failed>>
    BY <1>5 DEF SystemRequest, FdoSystemQuery, Requests
  <2>2. /\ \A y \in Devices : y # x => Halts(y)
        /\ owed'[Sys(x)] = 1 /\ owed'[Dev(x)] = 1 /\ at[Sys(x)] = "handle"
    BY <1>3, <1>f, <2>1
  <2>3. AtRest(x, working)
    BY <1>d, <1>e, <2>2 DEF Underway
  <2>4. Underway(x)'
    BY <1>a, <1>d, <2>1, <2>2, <2>3
       DEF Underway, AtRest, Arrived, DevicePowerStateMap, Fails
  <2> QED
    BY <1>1, <1>d, <1>f, <2>1, <2>2, <2>4
<1>6. CASE x = Fdo /\ FdoSystemUp
  <2>1. /\ at[Sys(x)] = "handle" /\ irp[Sys(x)].minor = "set"
        /\ irp[Sys(x)].state < system[x]
    BY <1>6 DEF FdoSystemUp
  <2>2. pm.minor = "set" /\ pm.target < system[x] /\ irp[Sys(x)].state = pm.target
    BY <2>1, SystemHand DEF SystemIrp
  <2>3. CASE /\ Requests(x) /\ UNCHANGED failed
             /\ system' = [system EXCEPT ![x] = irp[Sys(x)].state]
    <3>1. /\ \A y \in Devices : y # x => Halts(y)
          /\ owed'[Sys(x)] = 1 /\ owed'[Dev(x)] = 1 /\ at'[Sys(x)] = "requested"
          /\ system'[x] \in States
      BY <1>3, <1>d, <2>2, <2>3
    <3>2. Underway(x)'
      BY <1>a, <1>d, <2>2, <3>1 DEF Underway
    <3> QED
      BY <1>1, <1>d, <3>1, <3>2
  <2>4. CASE /\ Finishes(Sys(x)) /\ UNCHANGED system /\ Fails("lower")
             /\ failed' = [failed EXCEPT ![x] = @ \/ power[x] = 3]
    <3>1. /\ \A y \in Devices : y # x => Halts(y)
          /\ owed'[Sys(x)] = 0 /\ at'[Sys(x)] = "look"
      BY <1>2, <1>f, <2>4
    <3>2. failed'[x] = (failed[x] \/ power[x] = 3)
      BY <1>0, <2>4 DEF DeviceType
    <3>3. AtRest(x, pm.target)'
      <4>1. Fails("lower")' /\ x \notin Pdos
        BY <1>6, <1>a, <1>b, <2>4 DEF Fails
      <4>2. system'[x] = system[x] /\ power'[x] = power[x] /\ pm'.target = pm.target
        BY <1>a, <2>4
      <4>3. system'[x] \geq pm'.target
        BY <1>d, <2>2, <4>2
      <4>4. power'[x] = 0 \/ failed'[x]
        BY <1>d, <3>2, <4>2
      <4> QED
        BY <1>6, <4>1, <4>3, <4>4 DEF AtRest
    <3>4. Arrived' = pm.target' /\ x \notin pm'.todo /\ at'[Sys(x)] # "requested"
      BY <1>a, <1>d, <2>2, <3>1 DEF Arrived
    <3>5. Underway(x)'
      BY <3>1, <3>3, <3>4 DEF Underway
    <3> QED
      BY <1>1, <1>d, <1>f, <2>4, <3>1, <3>5
  <2> QED
    BY <1>6, <2>3, <2>4 DEF FdoSystemUp, Requests, Finishes, Completes, Handled
<1>7. CASE SystemDone(x)
  <2>1. /\ Finishes(Sys(x)) /\ UNCHANGED failed /\ at[Sys(x)] = "requested"
        /\ owed[Dev(x)] = 0
        /\ system' = [system EXCEPT ![x] = IF irp[Sys(x)].minor = "set"
                                           THEN irp[Sys(x)].state ELSE @]
    BY <1>7 DEF SystemDone, Finishes, Completes, Handled
  <2>2. irp[Sys(x)].minor = pm.minor /\ irp[Sys(x)].state = pm.target
    BY <2>1, SystemHand DEF SystemIrp
  <2>3. system' = [system EXCEPT ![x] = IF pm.minor = "set" THEN pm.target
                                        ELSE system[x]]
    BY <2>1, <2>2
  <2>4. /\ \A y \in Devices : y # x => Halts(y)
        /\ owed'[Sys(x)] = 0 /\ at'[Sys(x)] = "look" /\ system'[x] \in States
    BY <1>2, <1>d, <1>f, <2>1, <2>3
  <2>5. system'[x] = IF pm.minor = "set" THEN pm.target ELSE system[x]
    BY <1>0, <2>3 DEF DeviceType
  <2>6. CASE pm.minor = "set"
    <3>1. power[x] = DevicePowerStateMap(x, pm.target) \/ failed[x]
      BY <1>e, <2>1, <2>6 DEF Underway
    <3>2. x = Fdo /\ pm.target = 1 => DevicePowerStateMap(x, pm.target) = 0
      BY PowerAssumption DEF DevicePowerStateMap
    <3>3. AtRest(x, pm.target)'
      BY <1>a, <1>b, <1>d, <2>1, <2>5, <2>6, <3>1, <3>2
         DEF AtRest, DevicePowerStateMap, Fails
    <3> QED
      BY <1>1, <1>a, <1>d, <2>4, <2>6, <3>3 DEF Underway, Arrived
  <2>7. CASE pm.minor = "query"
    <3>1. AtRest(x, working)
      BY <1>d, <1>e, <2>7 DEF Underway
    <3>2. AtRest(x, working)'
      BY <1>a, <1>d, <2>1, <2>5, <2>7, <3>1 DEF AtRest, DevicePowerStateMap, Fails
    <3> QED
      BY <1>1, <1>a, <1>d, <2>4, <2>7, <3>2 DEF Underway, Arrived
  <2> QED
    BY <1>d, <2>6, <2>7
(* The device thread is done with its IRP.                                 *)
<1>8. ASSUME Finishes(Dev(x)), at[Dev(x)] \in {"handle", "moving"}, UNCHANGED system,
             \/ UNCHANGED failed
             \/ failed' = [failed EXCEPT ![x] = TRUE],
             pm.minor = "set" => \/ failed'[x]
                                 \/ power[x] = DevicePowerStateMap(x, pm.target)
      PROVE  TransitionKept'
  <2>1. at[Sys(x)] = "requested"
    BY <1>8, DeviceHand
  <2>2. /\ \A y \in Devices : y # x => Halts(y)
        /\ at'[Sys(x)] = "requested" /\ owed'[Sys(x)] = 1
    BY <1>2, <1>8, <1>d, <1>f, <1>g, <2>1
  <2>3. failed[x] => failed'[x]
    BY <1>0, <1>8 DEF DeviceType
  <2>4. Underway(x)'
    BY <1>8, <1>a, <1>d, <1>e, <2>1, <2>2, <2>3
       DEF Underway, AtRest, DevicePowerStateMap, Fails
  <2> QED
    BY <1>1, <1>8, <1>d, <1>f, <2>2, <2>4
<1>9. CASE DeviceSame(x)
  <2>1. /\ Finishes(Dev(x)) /\ at[Dev(x)] = "handle" /\ UNCHANGED <<system, failed>>
        /\ irp[Dev(x)].state = power[x]
    BY <1>9 DEF DeviceSame, Finishes, Completes, Handled
  <2>2. power[x] = DevicePowerStateMap(x, pm.target)
    BY <2>1, DeviceHand DEF DeviceIrp
  <2> QED
    BY <1>8, <2>1, <2>2
<1>10. CASE DeviceMoved(x)
  <2>1. /\ Finishes(Dev(x)) /\ at[Dev(x)] = "moving" /\ UNCHANGED <<system, failed>>
        /\ move[x] = "none"
    BY <1>10 DEF DeviceMoved, Finishes, Completes, Handled
  <2>2. power[x] = irp[Dev(x)].state \/ failed[x]
    BY <2>1, Directions DEF MoveKept
  <2>3. irp[Dev(x)].state = DevicePowerStateMap(x, pm.target)
    BY <2>1, DeviceHand DEF DeviceIrp
  <2> QED
    BY <1>8, <2>1, <2>2, <2>3
<1>11. CASE x = Fdo /\ FdoDeviceQuery
  <2>1. /\ Finishes(Dev(x)) /\ at[Dev(x)] = "handle" /\ UNCHANGED <<system, failed>>
        /\ irp[Dev(x)].minor = "query"
    BY <1>11 DEF FdoDeviceQuery, Finishes, Completes, Handled
  <2>2. pm.minor = "query"
    BY <2>1, DeviceHand DEF DeviceIrp
  <2> QED
    BY <1>8, <2>1, <2>2
<1>12. CASE x = Fdo /\ FdoDeviceFails
  <2>1. /\ Finishes(Dev(x)) /\ at[Dev(x)] = "handle" /\ UNCHANGED system
        /\ failed' = [failed EXCEPT ![x] = TRUE]
    BY <1>12 DEF FdoDeviceFails, Finishes, Completes, Handled
  <2>2. failed'[x]
    BY <1>0, <2>1 DEF DeviceType
  <2> QED
    BY <1>8, <2>1, <2>2
<1>13. CASE DeviceMove(x)
  <2>1. /\ at[Dev(x)] = "handle" /\ at' = [at EXCEPT ![Dev(x)] = "moving"]
        /\ UNCHANGED <<owed, system, failed>>
    BY <1>13 DEF DeviceMove, Goes, irpVars
  <2>2. \A y \in Devices : at'[Sys(y)] = at[Sys(y)]
    BY <1>0, <1>b, <2>1, ThreadsAre DEF ThreadType
  <2>3. \A y \in Devices : Halts(y)
    BY <1>a, <2>1, <2>2 DEF Halts
  <2>4. Underway(x)'
    BY <1>a, <1>e, <2>3, HaltsUnderway
  <2> QED
    BY <1>1, <1>d, <1>f, <2>1, <2>3, <2>4
<1> QED
  BY <1>4, <1>5, <1>6, <1>7, <1>9, <1>10, <1>11, <1>12, <1>13 DEF Handles

(* Between transitions the devices rest; a device is started in a working  *)
(* system, and is awake by then.                                           *)
LEMMA TransitionByLives ==
  ASSUME IInv, pm = None, NEW x \in Devices, LivesOn(x)
  PROVE  TransitionKept'
<1>0. DeviceType /\ TransitionKept /\ PmType
  BY DEF IInv
<1>a. UNCHANGED <<power, pm, working, faults>>
  BY LivesFrame DEF pmVars
<1>b. \A y \in Devices : life[y] = "started" => AtRest(y, working)
  BY <1>0 DEF TransitionKept
<1>c. /\ \A y \in Devices : life[y] # "started" /\ (y \in Pdos \/ ~Fails("lower"))
                              => system[y] = 1
      /\ life[x] = "starting" => working = 1
      /\ \A y \in Devices : life[y] \in {"starting", "stopping"} => working = 1
  BY <1>0 DEF TransitionKept
<1>d. x = Fdo => x \notin Pdos
  BY ThreadsAre
<1>1. ASSUME \A y \in Devices : y # x => /\ life'[y] = life[y]
                                         /\ system'[y] = system[y]
                                         /\ failed'[y] = failed[y],
             life'[x] = "started" => AtRest(x, working)',
             life'[x] # "started" /\ (x \in Pdos \/ ~Fails("lower"))
               => system'[x] = 1,
             life'[x] \in {"starting", "stopping"} => working = 1
      PROVE  TransitionKept'
  <2>1. ASSUME NEW y \in Devices, life'[y] = "started" PROVE AtRest(y, working)'
    <3>1. CASE y # x
      <4>1. AtRest(y, working) /\ working \in States
        BY <1>0, <1>1, <1>b, <2>1, <3>1 DEF PmType
      <4> QED
        BY <1>1, <1>a, <3>1, <4>1 DEF AtRest, DevicePowerStateMap, Fails
    <3> QED
      BY <1>1, <2>1, <3>1
  <2>2. \A y \in Devices : life'[y] # "started" /\ (y \in Pdos \/ ~Fails("lower"))
                             => system'[y] = 1
    BY <1>1, <1>c
  <2>3. \A y \in Devices : life'[y] \in {"starting", "stopping"} => working = 1
    BY <1>1, <1>c
  <2> QED
    BY <1>a, <2>1, <2>2, <2>3 DEF TransitionKept, Fails
<1>2. ASSUME NEW l, life' = [life EXCEPT ![x] = l]
      PROVE  life'[x] = l /\ \A y \in Devices : y # x => life'[y] = life[y]
  BY <1>0, <1>2 DEF DeviceType
<1>3. CASE CreateSystemThread(x)
  <2>1. /\ \E l \in {"one", "none"} : life' = [life EXCEPT ![x] = l]
        /\ system' = [system EXCEPT ![x] = 1]
        /\ failed' = [failed EXCEPT ![x] = FALSE]
    BY <1>3 DEF CreateSystemThread, Lives
  <2>2. /\ life'[x] \in {"one", "none"}
        /\ \A y \in Devices : y # x => life'[y] = life[y]
    BY <1>2, <2>1
  <2>3. system'[x] = 1 /\ \A y \in Devices : y # x => system'[y] = system[y]
    BY <1>0, <2>1 DEF DeviceType
  <2>4. \A y \in Devices : y # x => failed'[y] = failed[y]
    BY <1>0, <2>1 DEF DeviceType
  <2> QED
    BY <1>1, <2>2, <2>3, <2>4
<1>4. CASE \/ CreateDeviceThread(x) \/ CreateRest(x) \/ Destroy(x)
           \/ JoinDeviceThread(x) \/ JoinSystemThread(x)
  <2>1. /\ \E l \in {"two", "join system", "made", "join device", "none"} :
             life' = [life EXCEPT ![x] = l]
        /\ UNCHANGED <<system, failed>> /\ life[x] # "started"
    BY <1>4
       DEF CreateDeviceThread, CreateRest, Destroy, JoinDeviceThread,
           JoinSystemThread,
           Lives, deviceVars
  <2>2. /\ life'[x] \in {"two", "join system", "made", "join device", "none"}
        /\ \A y \in Devices : y # x => life'[y] = life[y]
    BY <1>2, <2>1
  <2> QED
    BY <1>1, <1>c, <2>1, <2>2
<1>5. CASE StartDevice(x)
  <2>1. /\ life' = [life EXCEPT ![x] = "starting"] /\ life[x] = "made"
        /\ UNCHANGED <<system, failed>> /\ working = 1
    BY <1>5 DEF StartDevice, Lives, Quiet
  <2>2. /\ life'[x] = "starting"
        /\ \A y \in Devices : y # x => life'[y] = life[y]
    BY <1>2, <2>1
  <2> QED
    BY <1>1, <1>c, <2>1, <2>2
<1>6. CASE StopDevice(x)
  <2>1. /\ life' = [life EXCEPT ![x] = "stopping"] /\ life[x] = "started"
        /\ UNCHANGED <<system, failed>> /\ working = 1
    BY <1>6 DEF StopDevice, Lives, Quiet
  <2>2. /\ life'[x] = "stopping"
        /\ \A y \in Devices : y # x => life'[y] = life[y]
    BY <1>2, <2>1
  <2>3. x \in Pdos \/ ~Fails("lower") => system[x] = 1
    BY <1>b, <2>1 DEF AtRest
  <2> QED
    BY <1>1, <2>1, <2>2, <2>3
<1>7. CASE StartStopEnd(x)
  <2>1. /\ \E l \in {"started", "made"} : life' = [life EXCEPT ![x] = l]
        /\ UNCHANGED <<system, failed>>
        /\ life[x] \in {"starting", "stopping"}
    BY <1>7 DEF StartStopEnd, Lives
  <2>2. /\ life'[x] \in {"started", "made"}
        /\ \A y \in Devices : y # x => life'[y] = life[y]
    BY <1>2, <2>1
  <2>3. ASSUME life'[x] = "started" PROVE power[x] = 0
    <3>1. \/ life' = [life EXCEPT ![x] = IF power[x] = 0 THEN "started" ELSE "made"]
          \/ life' = [life EXCEPT ![x] = "made"]
      BY <1>7 DEF StartStopEnd, Lives
    <3> QED
      BY <1>2, <2>3, <3>1
  <2>4. ASSUME life'[x] = "started" PROVE AtRest(x, working)'
    <3>1. /\ power'[x] = 0 /\ working' = 1 /\ system'[x] = system[x]
          /\ x \in Pdos \/ ~Fails("lower") => system[x] = 1
      BY <1>a, <1>c, <2>1, <2>3, <2>4
    <3>2. system[x] \geq 1
      <4>1. system[x] \in States /\ States \subseteq 1..5
        BY <1>0, PowerAssumption DEF DeviceType
      <4>2. system[x] \in 1..5
        BY <4>1
      <4> QED
        BY <4>2
    <3>3. DevicePowerStateMap(x, 1)' = 0
      BY PowerAssumption DEF DevicePowerStateMap
    <3> QED
      BY <1>a, <3>1, <3>2, <3>3 DEF AtRest, Fails
  <2> QED
    BY <1>1, <1>c, <2>1, <2>2, <2>4
<1> QED
  BY <1>3, <1>4, <1>5, <1>6, <1>7 DEF LivesOn

(* The power manager sends an IRP to a device at rest.                     *)
LEMMA TransitionBySend ==
  ASSUME IInv, NEW x \in Devices, PmSend(x)
  PROVE  TransitionKept'
<1>0. ThreadType /\ TransitionKept /\ PmType
  BY DEF IInv
<1>a. /\ UNCHANGED <<at, system, power, failed, life, working, faults>>
  BY SendFrame DEF deviceVars
<1>b. Sys(x) \in Threads /\ at[Sys(x)] # "requested"
  <2>1. Sys(x) \in Threads /\ HandKept(Sys(x))
    BY ThreadsAre DEF IInv, LoopKept
  <2> QED
    BY <2>1, Sent DEF HandKept
<1>c. /\ pm # None /\ pm \in Transitions /\ x \in pm.todo /\ life[x] = "started"
      /\ pm.minor \in {"set", "query"} /\ working \in States
  BY <1>0, Sent DEF PmSend, PmType, Transitions
<1>d. /\ pm'.minor = pm.minor /\ pm'.target = pm.target /\ pm'.off = pm.off
      /\ pm'.todo = pm.todo \ {x} /\ pm' \in Transitions
  BY <1>c, Sent DEF Transitions
<1>e. pm' # None
  BY <1>d, NoneAssumption
<1>1. AtRest(x, working)'
  <2>1. AtRest(x, working)
    BY <1>0, <1>c DEF TransitionKept, Underway
  <2> QED
    BY <1>a, <2>1 DEF AtRest, DevicePowerStateMap, Fails
<1>2. Underway(x)'
  <2>1. CASE Passed(x, Message)
    <3>1. Arrived' = working'
      BY <1>a, <1>c, <1>d, <2>1 DEF Passed, Message, Arrived
    <3>2. owed'[Sys(x)] = 0
      BY <2>1, Sent DEF DispatchPower
    <3> QED
      BY <1>1, <1>a, <1>b, <1>d, <3>1, <3>2 DEF Underway
  <2>2. CASE ~Passed(x, Message)
    <3>1. owed' = [owed EXCEPT ![Sys(x)] = @ + 1] /\ owed[Sys(x)] = 0
      BY <2>2, Sent DEF DispatchPower
    <3>2. owed'[Sys(x)] = 1
      BY <1>0, <1>b, <3>1 DEF ThreadType
    <3> QED
      BY <1>1, <1>a, <1>b, <1>d, <3>2 DEF Underway
  <2> QED
    BY <2>1, <2>2
<1>3. ASSUME NEW y \in Devices, y # x, life[y] = "started" PROVE Underway(y)'
  <2>1. Underway(y)
    BY <1>0, <1>3, <1>c DEF TransitionKept
  <2>2. \A u \in Threads : u # Sys(x) => owed'[u] = owed[u]
    BY <1>0, Sent DEF DispatchPower, ThreadType
  <2>3. Halts(y)
    BY <1>3, <1>a, <2>2, ThreadsAre DEF Halts
  <2> QED
    BY <1>3, <1>a, <1>d, <2>1, <2>3, HaltsUnderway
<1> QED
  BY <1>0, <1>2, <1>3, <1>a, <1>c, <1>d, <1>e DEF TransitionKept, Fails

(* It begins and ends a transition when all started devices are at rest.   *)
LEMMA TransitionByBegins == IInv /\ Begins => TransitionKept'
<1> SUFFICES ASSUME IInv, Begins PROVE TransitionKept'
  OBVIOUS
<1>0. TransitionKept /\ IrpsKept
  BY DEF IInv
<1>a. UNCHANGED <<at, owed, system, power, failed, life, working, faults>>
  BY BeginFrame DEF threadVars, deviceVars, irpVars
<1>1. PICK s \in States, m \in {"set", "query"}, o \in BOOLEAN : PmBegin(s, m, o)
  BY DEF Begins
<1>2. /\ pm = None /\ pm'.todo = {x \in Devices : life[x] = "started"}
      /\ pm'.off => pm'.minor = "set"
      /\ pm' \in Transitions
  BY <1>1 DEF PmBegin, Transitions
<1>3. pm' # None
  BY <1>2, NoneAssumption
<1>4. ASSUME NEW x \in Devices, life[x] = "started" PROVE Underway(x)'
  <2>1. AtRest(x, working)'
    <3>1. AtRest(x, working)
      BY <1>0, <1>2, <1>4 DEF TransitionKept
    <3> QED
      BY <1>a, <3>1 DEF AtRest, DevicePowerStateMap, Fails
  <2>2. owed'[Sys(x)] = 0 /\ at'[Sys(x)] # "requested"
    <3>1. Sys(x) \in Threads /\ HandKept(Sys(x))
      BY ThreadsAre DEF IInv, LoopKept
    <3>2. owed[Sys(x)] = 0
      BY <1>0, <1>2, <3>1 DEF IrpsKept
    <3> QED
      BY <1>a, <3>1, <3>2 DEF HandKept
  <2> QED
    BY <1>2, <1>4, <2>1, <2>2 DEF Underway
<1> QED
  BY <1>0, <1>2, <1>3, <1>4, <1>a DEF TransitionKept, Fails

LEMMA TransitionByEnd == IInv /\ PmEnd => TransitionKept'
<1> SUFFICES ASSUME IInv, PmEnd PROVE TransitionKept'
  OBVIOUS
<1>0. TransitionKept /\ IrpsKept
  BY DEF IInv
<1>a. UNCHANGED <<system, power, failed, life, faults>>
  BY EndFrame DEF deviceVars
<1>1. /\ pm # None /\ pm.todo = {} /\ \A t \in Threads : owed[t] = 0
      /\ working' = Arrived /\ pm' = None
  BY DEF PmEnd, Arrived
<1>2. ASSUME NEW x \in Devices, life[x] = "started" PROVE AtRest(x, working)'
  <2>1. Sys(x) \in Threads
    BY ThreadsAre
  <2>2. AtRest(x, Arrived)
    BY <1>0, <1>1, <1>2, <2>1 DEF TransitionKept, Underway
  <2> QED
    BY <1>1, <1>a, <2>2 DEF AtRest, DevicePowerStateMap, Fails
<1>3. \A x \in Devices : life[x] \notin {"starting", "stopping"}
  BY <1>0, <1>1 DEF IrpsKept
<1> QED
  BY <1>0, <1>1, <1>2, <1>3, <1>a DEF TransitionKept, Fails

LEMMA TransitionStep == IInv /\ [Next]_vars => TransitionKept'
<1> SUFFICES ASSUME IInv, [Next]_vars PROVE TransitionKept'
  OBVIOUS
<1> USE DEF vars, threadVars, deviceVars, irpVars, pmVars
<1>0. ThreadType /\ TransitionKept /\ MovesKept
  BY DEF IInv
<1>a. \A x \in Devices : Sys(x) \in Threads
  BY ThreadsAre
<1>1. ASSUME UNCHANGED <<deviceVars, owed, pmVars>>,
             \A t \in Threads : at'[t] = "requested" <=> at[t] = "requested"
      PROVE  TransitionKept'
  <2>1. \A x \in Devices : Halts(x)
    BY <1>1, <1>a DEF Halts
  <2>2. ASSUME NEW x \in Devices, life[x] = "started", pm # None PROVE Underway(x)'
    <3>1. Underway(x)
      BY <1>0, <2>2 DEF TransitionKept
    <3> QED
      BY <1>1, <2>1, <3>1, HaltsUnderway
  <2>3. ASSUME NEW x \in Devices, life[x] = "started", pm = None
        PROVE  AtRest(x, working)'
    <3>1. AtRest(x, working)
      BY <1>0, <2>3 DEF TransitionKept
    <3> QED
      BY <1>1, <3>1 DEF AtRest, DevicePowerStateMap, Fails
  <2> QED
    BY <1>0, <1>1, <2>2, <2>3 DEF TransitionKept, Fails
<1>2. ASSUME NEW t \in Threads, ThreadRuns(t) PROVE TransitionKept'
  <2>1. \A u \in Threads : at'[u] = "requested" <=> at[u] = "requested"
    BY <1>0, <1>2
       DEF ThreadType, ThreadRuns, Runs, Look, Wait, Alerted, Take, Empty, Return,
           Goes
  <2> QED
    BY <1>1, <1>2, <2>1, ThreadFrame
<1>3. ASSUME NEW t \in Threads, DispatchWake(t) PROVE TransitionKept'
  BY <1>1, <1>3, WakeFrame
<1>4. CASE FdoPowers
  <2>1. move[Fdo] # "none" /\ Fdo \in Devices
    BY <1>4, ThreadsAre
       DEF FdoPowers, FdoUpFails, FdoFindIndex, FdoWriteIndex, FdoWatch, FdoAsleep,
           FdoList, FdoClear, FdoCleared, Moves
  <2>2. \A y \in Devices : y # Fdo => power'[y] = power[y] /\ failed'[y] = failed[y]
    <3>1. power' = power \/ \E s \in {0, 3} : power' = [power EXCEPT ![Fdo] = s]
      BY <1>4
         DEF FdoPowers, FdoUpFails, FdoFindIndex, FdoWriteIndex, FdoWatch, FdoAsleep,
             FdoList, FdoClear, FdoCleared
    <3>2. failed' = failed \/ \E b \in BOOLEAN : failed' = [failed EXCEPT ![Fdo] = b]
      BY <1>4
         DEF FdoPowers, FdoUpFails, FdoFindIndex, FdoWriteIndex, FdoWatch, FdoAsleep,
             FdoList, FdoClear, FdoCleared
    <3>3. DeviceType
      BY DEF IInv
    <3> QED
      BY <3>1, <3>2, <3>3 DEF DeviceType
  <2> QED
    BY <1>4, <2>1, <2>2, FdoPowersFrame, MovingKept
<1>5. ASSUME NEW p \in Pdos, PdoPowers(p) PROVE TransitionKept'
  <2>1. move[p] # "none" /\ p \in Devices
    BY <1>5, ThreadsAre
       DEF PdoPowers, PdoAwake, PdoUpFails, PdoEnable, PdoDisable, PdoAsleep, Moves
  <2>2. \A y \in Devices : y # p => power'[y] = power[y] /\ failed'[y] = failed[y]
    <3>1. power' = power \/ \E s \in {0, 3} : power' = [power EXCEPT ![p] = s]
      BY <1>5
         DEF PdoPowers, PdoAwake, PdoUpFails, PdoEnable, PdoDisable, PdoAsleep
    <3>2. failed' = failed \/ \E b \in BOOLEAN : failed' = [failed EXCEPT ![p] = b]
      BY <1>5
         DEF PdoPowers, PdoAwake, PdoUpFails, PdoEnable, PdoDisable, PdoAsleep
    <3>3. DeviceType
      BY DEF IInv
    <3> QED
      BY <3>1, <3>2, <3>3 DEF DeviceType
  <2> QED
    BY <1>5, <2>1, <2>2, PdoPowersFrame, MovingKept
<1>6. CASE StoreStep
  BY <1>1, <1>6, StoreFrame
<1>7. CASE UNCHANGED vars
  BY <1>1, <1>7
<1> QED
  BY <1>2, <1>3, <1>4, <1>5, <1>6, <1>7, Steps, TransitionByThreads,
     TransitionBySend, TransitionByLives, TransitionByBegins, TransitionByEnd

(* The bus has its turn after its consoles on the way down, before them on *)
(* the way up.                                                             *)
LEMMA OrderStep == IInv /\ [Next]_vars => OrderKept'
<1> SUFFICES ASSUME IInv, [Next]_vars PROVE OrderKept'
  OBVIOUS
<1> USE DEF vars, threadVars, deviceVars, irpVars, pmVars
<1>0. ThreadType /\ DeviceType /\ OrderKept /\ LivesKept /\ IrpsKept /\ LoopKept
  BY DEF IInv
<1>a. /\ \A x \in Devices : Sys(x) \in Threads /\ Dev(x) \in Threads
      /\ Fdo \in Devices /\ Pdos \subseteq Devices /\ Fdo \notin Pdos
      /\ \A x \in Devices : x = Fdo \/ x \in Pdos
  BY ThreadsAre
<1>1. ASSUME UNCHANGED <<life, pm, working>>,
             \A x \in Devices : owed'[Sys(x)] = 1 => owed[Sys(x)] = 1
      PROVE  OrderKept'
  BY <1>0, <1>1, <1>a DEF OrderKept
<1>2. ASSUME NEW x \in Devices, Handles(x) PROVE OrderKept'
  <2>1. UNCHANGED <<life, pm, working>>
    BY <1>2, HandlesFrame
  <2>2. ASSUME NEW t \in Threads, Finishes(t)
        PROVE  \A u \in Threads : owed'[u] = 1 => owed[u] = 1
    <3>1. HandKept(t) /\ at[t] \in {"handle", "requested", "moving"}
      BY <1>0, <2>2 DEF LoopKept, Finishes
    <3>2. owed[t] = 1
      BY <3>1 DEF HandKept
    <3> QED
      BY <1>0, <2>2, <3>2 DEF ThreadType, Finishes
  <2>3. ASSUME Requests(x)
        PROVE  \A y \in Devices : owed'[Sys(y)] = 1 => owed[Sys(y)] = 1
    <3>1. \/ UNCHANGED owed
          \/ owed' = [owed EXCEPT ![Dev(x)] = @ + 1]
      BY <2>3 DEF Requests, Request, DispatchPower
    <3>2. \A u \in Threads : u # Dev(x) => owed'[u] = owed[u]
      BY <1>0, <1>a, <3>1 DEF ThreadType
    <3> QED
      BY <1>a, <3>2, ThreadsAre
  <2> QED
    BY <1>1, <1>2, <1>a, <2>1, <2>2, <2>3, HandlesThreads
       DEF SystemFinishes, SetsOut
<1>3. ASSUME NEW x \in Devices, PmSend(x) PROVE OrderKept'
  <2>1. /\ pm \in Transitions /\ x \in pm.todo /\ life[x] = "started" /\ Turn(x)
        /\ pm # None /\ UNCHANGED <<life, working>>
    BY <1>3, Sent, SendFrame DEF PmSend
  <2>2. /\ pm'.target = pm.target /\ pm'.todo = pm.todo \ {x}
    BY <1>3, <2>1, Sent DEF Transitions
  <2>3. \A u \in Threads : u # Sys(x) => owed'[u] = owed[u]
    BY <1>0, <1>3, Sent DEF DispatchPower, ThreadType
  <2>4. \A y \in Devices : y # x => owed'[Sys(y)] = owed[Sys(y)]
    BY <1>a, <2>3, ThreadsAre
  <2>5. CASE x = Fdo
    BY <1>0, <1>a, <2>1, <2>2, <2>4, <2>5 DEF OrderKept, Turn
  <2>6. CASE x \in Pdos
    BY <1>0, <1>a, <2>1, <2>2, <2>4, <2>6 DEF OrderKept, Turn
  <2> QED
    BY <1>a, <2>5, <2>6
<1>4. CASE Begins
  <2>1. /\ pm'.todo = {x \in Devices : life[x] = "started"} /\ pm = None
        /\ UNCHANGED <<life, owed, working>>
    BY <1>4 DEF Begins, PmBegin
  <2>2. \A x \in Devices : owed'[Sys(x)] = 0
    BY <1>0, <1>a, <2>1 DEF IrpsKept
  <2>3. \A p \in Pdos : life[p] = "started" => life[Fdo] = "started"
    BY <1>0 DEF LivesKept
  <2> QED
    BY <1>a, <2>1, <2>2, <2>3 DEF OrderKept
<1>5. CASE PmEnd
  BY <1>5 DEF PmEnd, OrderKept
<1>6. ASSUME NEW x \in Devices, pm = None, LivesOn(x) PROVE OrderKept'
  BY <1>6, LivesFrame DEF OrderKept
<1> QED
  BY <1>1, <1>2, <1>3, <1>4, <1>5, <1>6, Steps, ThreadFrame, WakeFrame,
     FdoPowersFrame, PdoPowersFrame, StoreFrame

-----------------------------------------------------------------------------
(* The FDO's entries in "drivers": a clearing lists them all, and a wake   *)
(* makes one when there is none.                                           *)
LEMMA DriversSame ==
  ASSUME DriversKept, move'[Fdo] = move[Fdo], UNCHANGED <<bound, names, left>>,
         index' = index \/ index' = 0, Own' \subseteq Own
  PROVE  DriversKept'
<1>1. 0 \in Indices
  BY PowerAssumption DEF Indices
<1> QED
  BY <1>1 DEF DriversKept

(* The callback leaves the FDO one entry at most in whatever store it      *)
(* finds, but for those that it has kept.                                  *)
LEMMA ReenteredOnce ==
  ASSUME NEW store, NEW kept, NEW enters
  PROVE  \A i, j \in Indices \ kept :
           Reentered(store, kept, enters)[i] = Fdo
           /\ Reentered(store, kept, enters)[j] = Fdo => i = j
<1> DEFINE clean == [i \in Indices |-> IF store[i] = Fdo /\ i \notin kept
                                       THEN Free ELSE store[i]]
           free == {i \in Indices : clean[i] = Free}
           first == CHOOSE i \in free : \A j \in free : i <= j
<1>1. \A i \in Indices \ kept : clean[i] # Fdo
  BY NoneAssumption
<1>2. Reentered(store, kept, enters)
        = IF free = {} \/ ~enters THEN clean ELSE [clean EXCEPT ![first] = Fdo]
  BY DEF Reentered
<1>3. clean \in [Indices -> {clean[i] : i \in Indices}]
  OBVIOUS
<1> HIDE DEF clean, free, first
<1>4. \A i \in Indices \ kept : Reentered(store, kept, enters)[i] = Fdo => i = first
  BY <1>1, <1>2, <1>3
<1> QED
  BY <1>4

LEMMA DriversByFdo == IInv /\ FdoPowers => DriversKept'
<1> SUFFICES ASSUME IInv, FdoPowers PROVE DriversKept'
  OBVIOUS
<1>0. StoreType /\ DeviceType /\ MovesKept /\ DriversKept
  BY DEF IInv
<1>a. Fdo \in Devices /\ Fdo # Free /\ 0 \in Indices
  BY ThreadsAre, NoneAssumption, PowerAssumption DEF Indices
<1>b. \A m \in Places : move' = [move EXCEPT ![Fdo] = m] => move'[Fdo] = m
  BY <1>0, <1>a DEF DeviceType, Places
<1>1. CASE FdoUpFails
  <2>1. move[Fdo] = "up" /\ move'[Fdo] = "none" /\ UNCHANGED storeVars
    BY <1>1, <1>b DEF FdoUpFails, Moves, Places
  <2> QED
    BY <1>0, <2>1 DEF DriversKept, Own, storeVars
<1>2. CASE FdoFindIndex
  <2>1. /\ move[Fdo] = "up" /\ UNCHANGED <<bound, names, drivers, left>>
        /\ \/ move'[Fdo] = "write" /\ index' = index /\ index \in Indices
           \/ move'[Fdo] = "watch" \/ move'[Fdo] = "up"
    BY <1>2, <1>b DEF FdoFindIndex, Moves, Places
  <2> QED
    BY <1>0, <2>1 DEF DriversKept, Own
<1>3. CASE FdoWriteIndex
  <2>1. /\ move[Fdo] = "write" /\ move'[Fdo] = "watch" /\ UNCHANGED bound
        /\ \/ /\ drivers' = [drivers EXCEPT ![index] = Fdo]
              /\ left' = left \ {index}
           \/ UNCHANGED <<drivers, left>>
    BY <1>3, <1>b DEF FdoWriteIndex, Moves, Places
  <2>2. ~bound /\ index \in Indices
    BY <1>0, <1>a, <2>1 DEF MovesKept, MoveKept, DriversKept
  <2>3. Own \subseteq left
    BY <1>0, <2>1, <2>2 DEF DriversKept
  <2>4. \A i \in Own' \ left' : i = index
    BY <1>0, <2>1, <2>2, <2>3 DEF Own, StoreType
  <2> QED
    BY <2>1, <2>4 DEF DriversKept
<1>4. CASE FdoWatch
  <2>1. /\ \/ move'[Fdo] = "none" /\ bound'
           \/ move'[Fdo] = "none" /\ Own \subseteq left'
           \/ move'[Fdo] = "list" /\ left' = left
        /\ left \subseteq left'
        /\ UNCHANGED drivers
    BY <1>4, <1>b DEF FdoWatch, Moves, Places
  <2> QED
    BY <1>0, <2>1 DEF DriversKept, Own
<1>5. CASE FdoAsleep
  <2>1. move'[Fdo] = "list" /\ UNCHANGED <<drivers, left>>
    BY <1>5, <1>b DEF FdoAsleep, Moves, Places
  <2> QED
    BY <1>0, <2>1 DEF DriversKept, Own
<1>6. CASE FdoList
  <2>1. /\ move'[Fdo] = "clear" /\ UNCHANGED drivers
        /\ \/ names' = {i \in Indices : drivers[i] # Free} /\ left' = left
           \/ left' = left \cup Own
    BY <1>6, <1>b DEF FdoList, Moves, Places
  <2> QED
    BY <1>0, <1>a, <2>1 DEF DriversKept, Own
<1>7. ASSUME NEW i \in Indices, FdoClear(i) PROVE DriversKept'
  <2>1. /\ move[Fdo] = "clear" /\ move'[Fdo] = "clear" /\ names' = names \ {i}
        /\ \/ /\ drivers' = [drivers EXCEPT ![i] = IF @ = Fdo THEN Free ELSE @]
              /\ left' = left \ {i}
           \/ left' = left \cup (Own \cap {i}) /\ UNCHANGED drivers
    BY <1>7, <1>b DEF FdoClear, Moves, Places
  <2>2. CASE /\ drivers' = [drivers EXCEPT ![i] = IF @ = Fdo THEN Free ELSE @]
             /\ left' = left \ {i}
    <3>1. /\ drivers'[i] # Fdo
          /\ \A j \in Indices : j # i => drivers'[j] = drivers[j]
      BY <1>0, <1>a, <2>2 DEF StoreType
    <3>2. Own' = Own \ {i}
      BY <3>1 DEF Own
    <3> QED
      BY <1>0, <2>1, <2>2, <3>2 DEF DriversKept
  <2>3. CASE left' = left \cup (Own \cap {i}) /\ UNCHANGED drivers
    <3>1. Own' = Own
      BY <2>3 DEF Own
    <3> QED
      BY <1>0, <2>1, <2>3, <3>1 DEF DriversKept
  <2> QED
    BY <2>1, <2>2, <2>3
<1>8. CASE FdoCleared
  <2>1. /\ move[Fdo] = "clear" /\ names = {} /\ move'[Fdo] = "none"
        /\ UNCHANGED <<drivers, left>>
    BY <1>8, <1>b DEF FdoCleared, Moves, Places, storeVars
  <2>2. Own' = Own /\ Own \subseteq left
    BY <1>0, <2>1 DEF DriversKept, Own
  <2> QED
    BY <1>0, <2>1, <2>2 DEF DriversKept
<1> QED
  BY <1>1, <1>2, <1>3, <1>4, <1>5, <1>6, <1>7, <1>8 DEF FdoPowers

LEMMA DriversByLives ==
  ASSUME IInv, pm = None, NEW x \in Devices, LivesOn(x)
  PROVE  DriversKept'
<1>0. StoreType /\ DeviceType /\ ThreadType /\ DriversKept
  BY DEF IInv
<1>a. /\ UNCHANGED <<bound, names, drivers, left>>
  BY LivesFrame
<1>b. Own' = Own
  BY <1>a DEF Own
<1>c. /\ Fdo \in Devices /\ 0 \in Indices
      /\ Dev(x) \in Threads
  BY ThreadsAre, PowerAssumption DEF Indices
<1>1. CASE StartDevice(x) \/ StopDevice(x)
  <2>1. /\ life[x] \in {"made", "started"} /\ Quiet
        /\ \E m \in {"up", "down", "none"} : move' = [move EXCEPT ![x] = m]
        /\ index' = index \/ index' = 0
    BY <1>1 DEF StartDevice, StopDevice, Lives, storeVars
  <2>2. at[Dev(x)] # "moving"
    BY <1>c, <2>1 DEF Quiet
  <2>3. move[x] = "none"
    BY <2>1, <2>2, Directions DEF GoesTo
  <2>4. CASE x # Fdo
    <3>1. move'[Fdo] = move[Fdo]
      BY <1>0, <1>c, <2>1, <2>4 DEF DeviceType
    <3> QED
      BY <1>0, <1>a, <1>b, <2>1, <3>1, DriversSame
  <2>5. CASE x = Fdo
    <3>1. move'[Fdo] \in {"up", "down", "none"}
      BY <1>0, <1>c, <2>1, <2>5 DEF DeviceType
    <3> QED
      BY <1>0, <1>a, <1>b, <2>3, <2>5, <3>1 DEF DriversKept
  <2> QED
    BY <2>4, <2>5
<1>2. CASE UNCHANGED <<move, index>>
  BY <1>0, <1>2, <1>a, <1>b, DriversSame
<1> QED
  BY <1>1, <1>2
     DEF LivesOn, CreateSystemThread, CreateDeviceThread, CreateRest, Destroy,
         JoinDeviceThread, JoinSystemThread, StartStopEnd, storeVars

LEMMA DriversByStore == IInv /\ StoreStep => DriversKept'
<1> SUFFICES ASSUME IInv, StoreStep PROVE DriversKept'
  OBVIOUS
<1>0. StoreType /\ DeviceType /\ MovesKept /\ DriversKept
  BY DEF IInv
<1>a. UNCHANGED <<move, bound, index, names>>
  BY StoreFrame DEF deviceVars
<1>b. Fdo \in Devices /\ Fdo # Free /\ Fdo # "other" /\ None \notin Indices
  BY ThreadsAre, NoneAssumption
<1>1. CASE FdoSuspendCallbackLate
  <2>1. /\ bound
        /\ \E store, enters : drivers' = Reentered(store, left', enters)
    BY <1>1 DEF FdoSuspendCallbackLate
  <2>2. move[Fdo] # "clear"
    BY <1>0, <1>b, <2>1 DEF MovesKept, MoveKept
  <2>3. \A i, j \in Own' \ left' : i = j
    BY <2>1, ReenteredOnce DEF Own
  <2> QED
    BY <1>0, <1>a, <2>1, <2>2, <2>3 DEF DriversKept
<1>2. CASE OtherFinds \/ OtherWrites \/ \E i \in Indices : OtherRemoves(i)
  <2>1. \/ UNCHANGED drivers
        \/ \E i \in Indices, d \in {Free, "other"} : drivers' = [drivers EXCEPT ![i] = d]
    <3>1. OtherWrites => other \in Indices
      BY <1>0 DEF OtherWrites, StoreType
    <3> QED
      BY <1>2, <3>1 DEF OtherFinds, OtherWrites, OtherRemoves
  <2>2. Own' \subseteq Own
    BY <1>0, <1>b, <2>1 DEF Own, StoreType
  <2>3. UNCHANGED left
    BY <1>2 DEF OtherFinds, OtherWrites, OtherRemoves
  <2> QED
    BY <1>0, <1>a, <2>2, <2>3, DriversSame
<1> QED
  BY <1>1, <1>2 DEF StoreStep

LEMMA DriversStep == IInv /\ [Next]_vars => DriversKept'
<1> SUFFICES ASSUME IInv, [Next]_vars PROVE DriversKept'
  OBVIOUS
<1> USE DEF vars, deviceVars, storeVars
<1>0. DeviceType /\ DriversKept
  BY DEF IInv
<1>a. Fdo \in Devices /\ Pdos \subseteq Devices /\ Fdo \notin Pdos
  BY ThreadsAre
<1>1. CASE UNCHANGED <<move, storeVars>>
  BY <1>0, <1>1, DriversSame DEF Own
<1>2. ASSUME NEW x \in Devices, Handles(x) PROVE DriversKept'
  <2>1. UNCHANGED <<bound, names, drivers, left>>
    BY <1>2, HandlesFrame
  <2>2. CASE DeviceMove(x)
    <3>1. /\ at[Dev(x)] = "handle" /\ index' = 0
          /\ \E m \in {"up", "down"} : move' = [move EXCEPT ![x] = m]
      BY <2>2 DEF DeviceMove, Goes
    <3>2. move[x] = "none"
      <4>1. life[x] = "started"
        BY <3>1, DeviceHand, SystemHand
      <4> QED
        BY <3>1, <4>1, Directions DEF GoesTo
    <3>3. CASE x = Fdo
      <4>1. move'[Fdo] \in {"up", "down"}
        BY <1>0, <1>a, <3>1, <3>3 DEF DeviceType
      <4> QED
        BY <1>0, <2>1, <3>2, <3>3, <4>1 DEF DriversKept, Own
    <3>4. CASE x # Fdo
      <4>1. move'[Fdo] = move[Fdo]
        BY <1>0, <1>a, <3>1, <3>4 DEF DeviceType
      <4> QED
        BY <1>0, <2>1, <3>1, <4>1, DriversSame DEF Own
    <3> QED
      BY <3>3, <3>4
  <2>3. CASE ~DeviceMove(x)
    <3>1. UNCHANGED <<move, index>>
      BY <1>2, <2>3
         DEF Handles, SystemSame, SystemRequest, SystemDone, DeviceSame, DeviceMoved,
             FdoSystemUp, FdoSystemQuery, FdoDeviceQuery, FdoDeviceFails
    <3> QED
      BY <1>0, <2>1, <3>1, DriversSame DEF Own
  <2> QED
    BY <2>2, <2>3
<1>3. ASSUME NEW p \in Pdos, PdoPowers(p) PROVE DriversKept'
  <2>1. UNCHANGED storeVars
    BY <1>3, PdoPowersFrame
  <2>2. \E m \in Places : move' = [move EXCEPT ![p] = m]
    BY <1>3
       DEF PdoPowers, PdoAwake, PdoUpFails, PdoEnable, PdoDisable, PdoAsleep, Moves,
           Places
  <2>3. move'[Fdo] = move[Fdo]
    BY <1>0, <1>a, <2>2 DEF DeviceType
  <2> QED
    BY <1>0, <2>1, <2>3, DriversSame DEF Own
<1> QED
  BY <1>1, <1>2, <1>3, Steps, DriversByFdo, DriversByLives, DriversByStore,
     ThreadFrame, WakeFrame, SendFrame, EndFrame, BeginFrame

-----------------------------------------------------------------------------
(* The devices and the directory at the start.                             *)
LEMMA IInvInit == Init => IInv
<1> SUFFICES ASSUME Init PROVE IInv
  OBVIOUS
<1> USE DEF Init, ThreadInit
<1>1. /\ 1 \in States /\ LowerCapabilities[1] = 0 /\ 0 \in 0..(MaxIndex + 1)
      /\ Free # Fdo
  BY PowerAssumption, NoneAssumption
<1>2. /\ \A x \in Devices : Sys(x) \in Threads /\ Dev(x) \in Threads
      /\ Fdo \in Devices /\ Pdos \subseteq Devices /\ Fdo \notin Pdos
  BY ThreadsAre
<1>3. ThreadType
  BY DEF ThreadType, Loop
<1>4. DeviceType
  BY <1>1 DEF DeviceType
<1>5. StoreType /\ PmType
  BY <1>1 DEF StoreType, PmType
<1>6. LoopKept
  BY DEF LoopKept, HandKept
<1>7. KindsKept
  BY <1>2 DEF KindsKept
<1>8. LivesKept
  BY <1>2 DEF LivesKept, ThreadKept, OwnerKept, RunsNow, Both
<1>9. IrpsKept
  BY <1>2 DEF IrpsKept
<1>10. ContentsKept
  BY <1>2 DEF ContentsKept
<1>11. MovesKept
  BY <1>2 DEF MovesKept, MoveKept, ConsoleKept
<1>12. TransitionKept
  BY <1>2 DEF TransitionKept
<1>13. OrderKept
  BY DEF OrderKept
<1>14. DriversKept
  BY <1>1, <1>2 DEF DriversKept, Own
<1> QED
  BY <1>3, <1>4, <1>5, <1>6, <1>7, <1>8, <1>9, <1>10, <1>11, <1>12, <1>13, <1>14
     DEF IInv

LEMMA IInvStep == IInv /\ [Next]_vars => IInv'
<1> QED
  BY ThreadTypeStep, DeviceTypeStep, StoreTypeStep, PmTypeStep, LoopStep, KindsStep,
     LivesStep, IrpsStep, ContentsStep, MovesStep, TransitionStep, OrderStep,
     DriversStep DEF IInv

(* The inductive invariant holds of every behaviour.                       *)
THEOREM Invariance == Spec => []IInv
<1> QED
  BY IInvInit, IInvStep, PTL DEF Spec

(* Whatever the managers, the threads and the other drivers do, the        *)
(* variables keep their types; no thread owes more than one IRP.           *)
THEOREM TypeCorrect == Spec => []TypeOK
<1>1. IInv => TypeOK
  BY DEF IInv, ThreadType, DeviceType, StoreType, PmType, TypeOK
<1> QED
  BY Invariance, <1>1, PTL

(* A dispatch routine always finds the slot empty: no IRP is overwritten   *)
(* or lost, and none waits in a slot with nobody about to wake the thread. *)
THEOREM IrpsStayHeld == Spec => []IrpsHeld
<1>1. IInv => IrpsHeld
  <2> SUFFICES ASSUME IInv PROVE IrpsHeld
    OBVIOUS
  <2>1. TypeOK
    BY DEF IInv, ThreadType, DeviceType, StoreType, PmType, TypeOK
  <2>2. ASSUME NEW t \in Threads
        PROVE  /\ owed[t] = Cardinality({i \in {slot[t], irp[t]} : i # None})
               /\ at[t] = "empty" => slot[t] # None
               /\ at[t] = "wait" /\ slot[t] # None => event[t] \/ waking[t]
    <3>1. HandKept(t)
      BY DEF IInv, LoopKept
    <3>2. slot[t] = None \/ irp[t] = None \/ slot[t] = irp[t]
      BY <3>1 DEF HandKept
    <3>3. CASE slot[t] = None /\ irp[t] = None
      <4>1. {i \in {slot[t], irp[t]} : i # None} = {}
        BY <3>3
      <4> QED
        BY <3>1, <3>3, <4>1, FS_EmptySet DEF HandKept
    <3>4. CASE slot[t] # None \/ irp[t] # None
      <4>1. PICK i : {j \in {slot[t], irp[t]} : j # None} = {i}
        <5>1. CASE slot[t] # None
          <6>1. {j \in {slot[t], irp[t]} : j # None} = {slot[t]}
            BY <3>2, <5>1
          <6> QED
            BY <6>1
        <5>2. CASE irp[t] # None
          <6>1. {j \in {slot[t], irp[t]} : j # None} = {irp[t]}
            BY <3>2, <5>2
          <6> QED
            BY <6>1
        <5> QED
          BY <3>4, <5>1, <5>2
      <4> QED
        BY <3>1, <3>4, <4>1, FS_Singleton DEF HandKept
    <3> QED
      BY <3>3, <3>4
  <2> QED
    BY <2>1, <2>2 DEF IrpsHeld
<1> QED
  BY Invariance, <1>1, PTL

(* The owner and the thread function drop one reference each, the thread   *)
(* ends before its device is freed, and it has no IRP by then.             *)
THEOREM ThreadsOutliveNothing == Spec => []NoUseAfterFree
<1>1. IInv => NoUseAfterFree
  <2> SUFFICES ASSUME IInv PROVE NoUseAfterFree
    OBVIOUS
  <2>0. ThreadType /\ LivesKept /\ IrpsKept
    BY DEF IInv
  <2>1. ASSUME NEW x \in Devices, NEW t \in {Sys(x), Dev(x)}
        PROVE  /\ references[t] = (IF held[t] THEN 1 ELSE 0)
                                  + (IF RunsNow(t) THEN 1 ELSE 0)
               /\ held[t] => life[x] # "none"
               /\ RunsNow(t) /\ ~held[t] => alerted[t] /\ owed[t] = 0
    <3>1. t \in Threads /\ ThreadKept(t) /\ OwnerKept(x)
      BY <2>0, ThreadsAre DEF LivesKept
    <3>2. held[t] => life[x] # "none"
      BY <3>1 DEF OwnerKept, Both
    <3>3. ASSUME ~held[t] PROVE owed[t] = 0
      <4>1. life[x] # "started"
        BY <3>1, <3>3 DEF OwnerKept, Both
      <4>2. at[Sys(x)] # "requested"
        BY <4>1, SystemHand
      <4>3. owed[t] # 1
        BY <2>0, <4>1, <4>2 DEF IrpsKept
      <4> QED
        BY <2>0, <3>1, <4>3 DEF ThreadType
    <3> QED
      BY <3>1, <3>2, <3>3 DEF ThreadKept
  <2>2. \A x \in Devices, k \in Kinds : <<x, k>> \in {Sys(x), Dev(x)}
    BY DEF Kinds, Sys, Dev
  <2> QED
    BY <2>1, <2>2 DEF NoUseAfterFree, RunsNow
<1> QED
  BY Invariance, <1>1, PTL

(* A transition of the power manager ends with every started device in the *)
(* state asked for, or failed; an interface is enabled in D0 only.         *)
THEOREM DevicesSettle == Spec => []Settled
<1>1. IInv => Settled
  BY DEF IInv, TransitionKept, AtRest, MovesKept, ConsoleKept, Settled
<1> QED
  BY Invariance, <1>1, PTL

(* Other drivers, the callback and failing calls notwithstanding, the FDO  *)
(* has one entry in "drivers" at most, and none when it sleeps, but for    *)
(* those that a failed call has left.                                      *)
THEOREM DistributedOnce == Spec => []OneDistribution
<1>1. IInv => OneDistribution
  <2> SUFFICES ASSUME IInv PROVE OneDistribution
    OBVIOUS
  <2> DEFINE own == Own \ left
  <2>1. DriversKept
    BY DEF IInv
  <2>2. own = {} => Cardinality(own) <= 1
    BY FS_EmptySet
  <2>3. ASSUME NEW i \in own PROVE Cardinality(own) <= 1
    <3>1. own = {i}
      BY <2>1, <2>3 DEF DriversKept
    <3>2. Cardinality({i}) = 1
      BY FS_Singleton
    <3> QED
      BY <3>1, <3>2
  <2> QED
    BY <2>1, <2>2, <2>3 DEF DriversKept, OneDistribution
<1> QED
  BY Invariance, <1>1, PTL

-----------------------------------------------------------------------------
(* The refinement of PowerTree: what is awake, from the devices' power.    *)
Awake == {x \in Devices : power[x] = 0}

LEMMA TreeSame ==
  ASSUME UNCHANGED power, failed'[Fdo] = failed[Fdo]
  PROVE  UNCHANGED <<Awake, failed[Fdo]>>
  BY DEF Awake

(* Whether the last wake has failed changes for a sleeping bus only.       *)
LEMMA TreeFails ==
  ASSUME UNCHANGED power, power[Fdo] # 0, failed'[Fdo] \in BOOLEAN
  PROVE  Tree!FailBus \/ Tree!Replace
<1>1. Fdo \notin Awake /\ UNCHANGED Awake
  BY DEF Awake
<1> QED
  BY <1>1 DEF Tree!FailBus, Tree!Replace, Awake

LEMMA TreeByThreads ==
  ASSUME IInv, NEW x \in Devices, Handles(x)
  PROVE  Tree!Next \/ UNCHANGED <<Awake, failed[Fdo]>>
<1>0. DeviceType /\ Fdo \in Devices
  BY ThreadsAre DEF IInv
<1>a. UNCHANGED power
  BY HandlesFrame
<1>1. CASE x = Fdo /\ FdoSystemUp
  <2>1. \/ UNCHANGED failed
        \/ failed' = [failed EXCEPT ![Fdo] = @ \/ power[Fdo] = 3]
    BY <1>1 DEF FdoSystemUp
  <2>2. failed'[Fdo] = failed[Fdo] \/ (power[Fdo] = 3 /\ failed'[Fdo] \in BOOLEAN)
    <3>1. \/ failed'[Fdo] = failed[Fdo]
          \/ failed'[Fdo] = (failed[Fdo] \/ power[Fdo] = 3)
      BY <1>0, <2>1 DEF DeviceType
    <3> QED
      BY <1>0, <3>1 DEF DeviceType
  <2> QED
    BY <1>a, <2>2, TreeSame, TreeFails DEF Tree!Next
<1>2. CASE x = Fdo /\ FdoDeviceFails
  <2>1. /\ failed' = [failed EXCEPT ![Fdo] = TRUE] /\ at[Dev(Fdo)] = "handle"
        /\ irp[Dev(Fdo)].state < power[Fdo]
    BY <1>2 DEF FdoDeviceFails
  <2>2. irp[Dev(Fdo)].state \in {0, 3}
    BY <1>0, <2>1, DeviceHand
  <2>3. power[Fdo] # 0
    BY <2>1, <2>2
  <2>4. failed'[Fdo] \in BOOLEAN
    BY <1>0, <2>1 DEF DeviceType
  <2> QED
    BY <1>a, <2>3, <2>4, TreeFails DEF Tree!Next
<1>3. CASE UNCHANGED failed
  BY <1>3, <1>a, TreeSame
<1> QED
  BY <1>1, <1>2, <1>3
     DEF Handles, SystemSame, SystemRequest, SystemDone, DeviceSame, DeviceMove,
         DeviceMoved, FdoSystemQuery, FdoDeviceQuery, deviceVars

LEMMA TreeByLives ==
  ASSUME IInv, NEW x \in Devices, LivesOn(x)
  PROVE  Tree!Next \/ UNCHANGED <<Awake, failed[Fdo]>>
<1>0. DeviceType /\ MovesKept /\ Fdo \in Devices
  BY ThreadsAre DEF IInv
<1>a. UNCHANGED power
  BY LivesFrame
<1>1. CASE CreateSystemThread(x)
  <2>1. failed' = [failed EXCEPT ![x] = FALSE] /\ life[x] = "none"
    BY <1>1 DEF CreateSystemThread, Lives
  <2>2. CASE x = Fdo
    <3>1. power[Fdo] # 0
      BY <1>0, <2>1, <2>2 DEF MovesKept, MoveKept
    <3>2. failed'[Fdo] \in BOOLEAN
      BY <1>0, <2>1, <2>2 DEF DeviceType
    <3> QED
      BY <1>a, <3>1, <3>2, TreeFails DEF Tree!Next
  <2>3. CASE x # Fdo
    <3>1. failed'[Fdo] = failed[Fdo]
      BY <1>0, <2>1, <2>3 DEF DeviceType
    <3> QED
      BY <1>a, <3>1, TreeSame
  <2> QED
    BY <2>2, <2>3
<1>2. CASE UNCHANGED failed
  BY <1>2, <1>a, TreeSame
<1> QED
  BY <1>1, <1>2
     DEF LivesOn, CreateDeviceThread, CreateRest, Destroy, JoinDeviceThread,
         JoinSystemThread, StartDevice, StopDevice, StartStopEnd, deviceVars

(* A console that wakes finds the bus awake, or failed: it was started     *)
(* after the bus, or gets its IRP when the bus is done with its own.       *)
LEMMA BusFirst ==
  ASSUME IInv, NEW p \in Pdos, move[p] = "up"
  PROVE  power[Fdo] = 0 \/ failed[Fdo]
<1>0. /\ DeviceType /\ ThreadType /\ PmType /\ LivesKept /\ IrpsKept
      /\ TransitionKept /\ OrderKept
  BY DEF IInv
<1>a. Fdo \in Devices /\ p \in Devices /\ Sys(Fdo) \in Threads
  BY ThreadsAre
<1>1. GoesTo(p, 0)
  BY <1>a, Directions DEF MoveKept
<1>2. life[Fdo] = "started"
  BY <1>0, <1>1, <1>a, Directions DEF LivesKept
<1>3. CASE life[p] = "starting"
  <2>1. pm = None
    BY <1>0, <1>3, <1>a DEF IrpsKept
  <2>2. working = 1 /\ AtRest(Fdo, working)
    BY <1>0, <1>2, <1>3, <1>a, <2>1 DEF TransitionKept
  <2> QED
    BY <2>2 DEF AtRest
<1>4. CASE life[p] # "starting"
  <2>1. at[Dev(p)] = "moving" /\ irp[Dev(p)].state = 0
    BY <1>1, <1>4 DEF GoesTo
  <2>2. /\ life[p] = "started" /\ pm # None /\ pm.minor = "set"
        /\ p \notin pm.todo
    BY <1>a, <2>1, Directions, Moving
  <2>3. DeviceIrp(p, irp[Dev(p)]) /\ at[Sys(p)] = "requested"
    BY <1>a, <2>1, DeviceHand
  <2>4. pm.target = 1 /\ ~pm.off
    <3>1. ~pm.off
      BY <1>a, <2>3, SystemHand DEF SystemIrp
    <3>2. DevicePowerStateMap(p, pm.target) = 0 /\ p # Fdo
      BY <2>1, <2>3, PowerAssumption DEF DeviceIrp
    <3> QED
      BY <3>1, <3>2 DEF DevicePowerStateMap
  <2>5. pm.target <= working
    <3>1. working \in 1..5
      BY <1>0, PowerAssumption DEF PmType
    <3> QED
      BY <2>4, <3>1
  <2>6. Fdo \notin pm.todo /\ owed[Sys(Fdo)] # 1
    BY <1>0, <2>2, <2>5 DEF OrderKept
  <2>7. owed[Sys(Fdo)] = 0
    BY <1>0, <1>a, <2>6 DEF ThreadType
  <2>8. AtRest(Fdo, 1)
    BY <1>0, <1>2, <1>a, <2>2, <2>4, <2>6, <2>7
       DEF TransitionKept, Underway, Arrived
  <2> QED
    BY <2>8 DEF AtRest
<1> QED
  BY <1>3, <1>4

(* When the bus goes to sleep, its consoles do: they are not started when  *)
(* it is stopped, and they have had their IRPs when it moves for its own.  *)
LEMMA BusLast ==
  ASSUME IInv, move[Fdo] = "down"
  PROVE  power[Fdo] = 0 /\ \A p \in Pdos : power[p] = 3
<1>0. /\ DeviceType /\ ThreadType /\ PmType /\ LivesKept /\ IrpsKept
      /\ TransitionKept /\ OrderKept /\ MovesKept
  BY DEF IInv
<1>a. /\ Fdo \in Devices /\ Pdos \subseteq Devices /\ Fdo \notin Pdos
      /\ \A x \in Devices : Sys(x) \in Threads
  BY ThreadsAre
<1>1. power[Fdo] = 0 /\ GoesTo(Fdo, 3)
  BY <1>0, <1>a DEF MovesKept, MoveKept
<1>2. ASSUME NEW p \in Pdos PROVE power[p] = 3
  <2>0. MoveKept(p) /\ ConsoleKept(p)
    BY <1>0, <1>a DEF MovesKept
  <2>1. CASE life[Fdo] = "stopping"
    BY <1>0, <2>0, <2>1 DEF LivesKept, MoveKept
  <2>2. CASE life[Fdo] # "stopping"
    <3>1. at[Dev(Fdo)] = "moving" /\ irp[Dev(Fdo)].state = 3
      BY <1>1, <2>2 DEF GoesTo
    <3>2. /\ life[Fdo] = "started" /\ pm # None /\ pm.minor = "set"
          /\ Fdo \notin pm.todo /\ owed[Sys(Fdo)] = 1
      BY <1>a, <3>1, Directions, Moving
    <3>3. DeviceIrp(Fdo, irp[Dev(Fdo)]) /\ at[Sys(Fdo)] = "requested"
      BY <1>a, <3>1, DeviceHand
    <3>4. ~pm.off /\ pm.target \in States /\ pm.target # 1
      <4>1. ~pm.off /\ pm.target \in States
        BY <1>a, <3>3, SystemHand DEF SystemIrp
      <4>2. LowerCapabilities[pm.target] = 3 /\ LowerCapabilities[1] = 0
        BY <3>1, <3>3, PowerAssumption DEF DeviceIrp, DevicePowerStateMap
      <4> QED
        BY <4>1, <4>2
    <3>5. pm.target \in 1..5 /\ working \in 1..5 /\ p # Fdo
      BY <1>0, <1>a, <3>4, PowerAssumption DEF PmType
    <3>6. ASSUME NEW s \in 2..5, AtRest(p, s) PROVE power[p] = 3
      BY <1>a, <2>0, <3>5, <3>6 DEF AtRest, DevicePowerStateMap, ConsoleKept
    <3>7. CASE life[p] # "started"
      <4>1. life[p] \in {"none", "made", "started"}
        BY <1>0, <1>a, <3>2 DEF IrpsKept
      <4> QED
        BY <2>0, <3>7, <4>1 DEF MoveKept
    <3>8. CASE life[p] = "started" /\ pm.target > working
      <4>1. p \notin pm.todo /\ owed[Sys(p)] = 0
        BY <1>0, <1>a, <3>2, <3>8 DEF OrderKept, ThreadType
      <4>2. AtRest(p, pm.target)
        BY <1>0, <1>a, <3>2, <3>4, <3>8, <4>1 DEF TransitionKept, Underway, Arrived
      <4> QED
        BY <3>4, <3>5, <3>6, <4>2
    <3>9. CASE life[p] = "started" /\ pm.target <= working
      <4>1. p \in pm.todo
        BY <1>0, <3>2, <3>9 DEF OrderKept
      <4>2. AtRest(p, working)
        BY <1>0, <1>a, <3>2, <3>9, <4>1 DEF TransitionKept, Underway
      <4> QED
        BY <3>4, <3>5, <3>6, <3>9, <4>2
    <3> QED
      BY <3>5, <3>7, <3>8, <3>9
  <2> QED
    BY <2>1, <2>2
<1> QED
  BY <1>1, <1>2

LEMMA TreeByFdo ==
  IInv /\ FdoPowers => Tree!Next \/ UNCHANGED <<Awake, failed[Fdo]>>
<1> SUFFICES ASSUME IInv, FdoPowers
             PROVE  Tree!Next \/ UNCHANGED <<Awake, failed[Fdo]>>
  OBVIOUS
<1>0. DeviceType /\ MovesKept
  BY DEF IInv
<1>a. /\ Fdo \in Devices /\ Devices = {Fdo} \cup Pdos /\ Fdo \notin Pdos
  BY ThreadsAre DEF Devices
<1>b. MoveKept(Fdo)
  BY <1>0, <1>a DEF MovesKept
<1>1. CASE FdoUpFails \/ (FdoWatch /\ UNCHANGED power)
  <2>1. /\ move[Fdo] \in {"up", "watch"} /\ UNCHANGED power
        /\ \/ failed' = [failed EXCEPT ![Fdo] = TRUE]
           \/ failed' = [failed EXCEPT ![Fdo] = FALSE]
    BY <1>1 DEF FdoUpFails, FdoWatch, Moves
  <2>2. power[Fdo] # 0
    BY <1>b, <2>1 DEF MoveKept
  <2>3. failed'[Fdo] \in BOOLEAN
    BY <1>0, <1>a, <2>1 DEF DeviceType
  <2> QED
    BY <2>1, <2>2, <2>3, TreeFails DEF Tree!Next
<1>2. CASE FdoWatch /\ ~UNCHANGED power
  <2>1. /\ power[Fdo] # 0 /\ power' = [power EXCEPT ![Fdo] = 0]
        /\ failed' = [failed EXCEPT ![Fdo] = FALSE]
    BY <1>2, <1>b DEF FdoWatch, Moves, MoveKept
  <2>2. /\ power'[Fdo] = 0 /\ \A y \in Devices : y # Fdo => power'[y] = power[y]
        /\ failed'[Fdo] = FALSE
    BY <1>0, <1>a, <2>1 DEF DeviceType
  <2>3. Awake' = Awake \cup {Fdo} /\ Fdo \notin Awake
    BY <1>a, <2>1, <2>2 DEF Awake
  <2> QED
    BY <2>2, <2>3 DEF Tree!Next, Tree!WakeBus, Awake
<1>3. CASE FdoAsleep
  <2>1. power' = [power EXCEPT ![Fdo] = 3] /\ move[Fdo] = "down" /\ UNCHANGED failed
    BY <1>3 DEF FdoAsleep, Moves
  <2>2. /\ power'[Fdo] = 3 /\ \A y \in Devices : y # Fdo => power'[y] = power[y]
    BY <1>0, <1>a, <2>1 DEF DeviceType
  <2>3. Awake = {Fdo} /\ Awake' = {}
    BY <1>a, <2>1, <2>2, BusLast DEF Awake
  <2> QED
    BY <2>1, <2>3 DEF Tree!Next, Tree!SleepBus, Awake
<1>4. CASE UNCHANGED <<power, failed>>
  BY <1>4, TreeSame
<1> QED
  BY <1>1, <1>2, <1>3, <1>4
     DEF FdoPowers, FdoFindIndex, FdoWriteIndex, FdoList, FdoClear, FdoCleared

LEMMA TreeByPdo ==
  ASSUME IInv, NEW p \in Pdos, PdoPowers(p)
  PROVE  Tree!Next \/ UNCHANGED <<Awake, failed[Fdo]>>
<1>0. DeviceType
  BY DEF IInv
<1>a. Fdo \in Devices /\ p \in Devices /\ p # Fdo
  BY ThreadsAre
<1>1. failed'[Fdo] = failed[Fdo]
  <2>1. \/ UNCHANGED failed
        \/ \E b \in BOOLEAN : failed' = [failed EXCEPT ![p] = b]
    BY DEF PdoPowers, PdoAwake, PdoUpFails, PdoEnable, PdoDisable, PdoAsleep
  <2> QED
    BY <1>0, <1>a, <2>1 DEF DeviceType
<1>2. CASE PdoAwake(p)
  <2>1. power' = [power EXCEPT ![p] = 0] /\ move[p] = "up"
    BY <1>2 DEF PdoAwake, Moves
  <2>2. power'[p] = 0 /\ \A y \in Devices : y # p => power'[y] = power[y]
    BY <1>0, <1>a, <2>1 DEF DeviceType
  <2>3. Awake' = Awake \cup {p} /\ (Fdo \in Awake \/ failed[Fdo])
    BY <1>a, <2>1, <2>2, BusFirst DEF Awake
  <2> QED
    BY <1>1, <2>3 DEF Tree!Next, Tree!Wake, Awake
<1>3. CASE PdoUpFails(p) \/ PdoAsleep(p)
  <2>1. power' = [power EXCEPT ![p] = 3]
    BY <1>3 DEF PdoUpFails, PdoAsleep
  <2>2. power'[p] = 3 /\ \A y \in Devices : y # p => power'[y] = power[y]
    BY <1>0, <1>a, <2>1 DEF DeviceType
  <2>3. Awake' = Awake \ {p}
    BY <1>a, <2>2 DEF Awake
  <2> QED
    BY <1>1, <2>3 DEF Tree!Next, Tree!Sleep, Awake
<1>4. CASE PdoEnable(p) \/ PdoDisable(p)
  BY <1>1, <1>4, TreeSame DEF PdoEnable, PdoDisable
<1> QED
  BY <1>2, <1>3, <1>4 DEF PdoPowers

LEMMA TreeInit == Init => Tree!Init
<1> SUFFICES ASSUME Init PROVE Tree!Init
  OBVIOUS
<1>1. Fdo \in Devices
  BY ThreadsAre
<1> QED
  BY <1>1 DEF Init, Tree!Init

LEMMA TreeStep ==
  IInv /\ [Next]_vars => Tree!Next \/ UNCHANGED <<Awake, failed[Fdo]>>
<1> SUFFICES ASSUME IInv, [Next]_vars
             PROVE  Tree!Next \/ UNCHANGED <<Awake, failed[Fdo]>>
  OBVIOUS
<1>1. CASE UNCHANGED deviceVars
  BY <1>1, TreeSame DEF deviceVars
<1> QED
  BY <1>1, Steps, TreeByThreads, TreeByLives, TreeByFdo, TreeByPdo, ThreadFrame,
     WakeFrame, SendFrame, StoreFrame, EndFrame, BeginFrame DEF vars

(* Whatever comes between the power manager's order and the devices, a     *)
(* console wakes after its bus and sleeps before it.                       *)
THEOREM Refines == Spec => ImplementsPowerTree
<1>1. IInv /\ [Next]_vars => [Tree!Next]_<<Awake, failed[Fdo]>>
  BY TreeStep
<1> QED
  BY TreeInit, <1>1, Invariance, PTL
     DEF Spec, ImplementsPowerTree, Tree!Spec, Awake
=============================================================================
