------------------------------- MODULE Service -------------------------------
(***************************************************************************)
(* The service of src/monitor/monitor.c around its consoles: MonitorMain   *)
(* enumerates the devices that are there, waits for the stop event and     *)
(* destroys all consoles; the control handler, which the service manager   *)
(* calls for one control at a time, on a thread of its own, creates and    *)
(* destroys consoles as devices come and go.  A console, which is module   *)
(* MonitorConsole's matter, is known by the handle it has opened.          *)
(*                                                                         *)
(* Windows notifies the arrival of a device while the notification is      *)
(* registered, and the removal of one to each handle open on it; closing   *)
(* the handle withdraws what has not been delivered.                       *)
(*                                                                         *)
(* Names are not those of MonitorConsole, for MonitorProofs extends both.  *)
(***************************************************************************)
EXTENDS Naturals, FiniteSets, Sequences, SequencesExt

CONSTANTS Devices, Handles, Null,
          MaxChanges    \* how often devices arrive, leave and are asked to

ASSUME ServiceAssumption == /\ Null \notin Devices \cup Handles
                            /\ IsFiniteSet(Handles)
                            /\ MaxChanges \in Nat

VARIABLES present,      \* the devices that are there
          changes,      \* how often that has changed
          open,         \* the device of each open handle
          notices,      \* the notifications not delivered
          registered,   \* Context->InterfaceNotification
          handler,      \* the console the handler holds, and for what
          main,         \* where MonitorMain is
          mine,         \* the console MonitorMain holds
          left,         \* the devices still to be enumerated
          consoles,     \* Context->ListHead
          lock,         \* whether the list and its lock are usable: "none",
                        \* "ready" or "deleted"
          stop,         \* whether Context->StopEvent is set
          lost,         \* a stop came when there was no such event (history)
          status,       \* Context->Status.dwCurrentState
          undefined,    \* the lock was used when it was not to be
          failed,       \* devices whose console could not be created (history)
          asked,        \* those that were asked to leave (history)
          twice,        \* those that may be found twice: they came before the
                        \* enumeration ended, or a second time before their
                        \* first arrival was delivered (history)
          missed        \* consoles whose device left unnoticed (history)

world   == <<present, changes, asked>>
shared  == <<open, consoles, lock, undefined, failed>>
history == <<lost, twice, missed>>
serviceVars == <<world, shared, notices, registered, handler, main, mine, left, stop,
                 status, history>>

Arrival(d) == [type |-> "arrival", of |-> d]
Removal(h) == [type |-> "remove", of |-> h]
Events == {Arrival(d) : d \in Devices} \cup {Removal(h) : h \in Handles}
Idle == [does |-> "idle", with |-> Null]

ServiceInit == /\ present \in SUBSET Devices
               /\ changes = 0
               /\ open = [h \in Handles |-> Null]
               /\ notices = <<>> /\ registered = FALSE
               /\ handler = Idle
               /\ main = "begin" /\ mine = Null /\ left = {}
               /\ consoles = <<>> /\ lock = "none"
               /\ stop = FALSE /\ status = "START_PENDING"
               /\ undefined = FALSE /\ lost = FALSE
               /\ failed = {} /\ asked = {} /\ twice = {} /\ missed = {}

On(d) == {h \in Handles : open[h] = d}
Removes(d) == SetToSeq({Removal(h) : h \in On(d)})

(* The elements of a sequence that are in a set, in their order.           *)
Keep(s, set) ==
  LET kept[n \in 0..Len(s)] ==
        IF n = 0 THEN <<>>
        ELSE IF s[n] \in set THEN Append(kept[n - 1], s[n]) ELSE kept[n - 1]
  IN kept[Len(s)]

-----------------------------------------------------------------------------
(* The devices.                                                            *)

Changes == /\ ~undefined
           /\ changes < MaxChanges
           /\ changes' = changes + 1

Arrives(d) ==
  /\ Changes /\ d \notin present
  /\ present' = present \cup {d}
  /\ asked' = asked \ {d}
  /\ notices' = IF registered THEN Append(notices, Arrival(d))
               ELSE notices
  /\ twice' = IF \/ main \in {"running", "init", "enumerate", "create", "insert"}
                \/ Arrival(d) \in ToSet(notices)
              THEN twice \cup {d} ELSE twice
  /\ failed' = failed \ {d}
  /\ UNCHANGED <<open, consoles, lock, undefined, registered, handler, main, mine, left,
                 stop, status, lost, missed>>

Leaves(d) ==
  /\ Changes /\ d \in present
  /\ present' = present \ {d}
  /\ notices' = notices \o Removes(d)
  /\ UNCHANGED <<asked, shared, registered, handler, main, mine, left, stop, status,
                 history>>

(* Windows asks whether the device may leave, and then may let it stay.    *)
IsAsked(d) ==
  /\ Changes /\ d \in present
  /\ asked' = asked \cup {d}
  /\ notices' = notices \o Removes(d)
  /\ UNCHANGED <<present, shared, registered, handler, main, mine, left, stop, status,
                 history>>

-----------------------------------------------------------------------------
(* ConsoleCreate opens the device and registers for its removal; it makes  *)
(* no difference which of the free handles it is given.                    *)

Created(d, h) == /\ d \in present /\ On(Null) # {}
                 /\ h = CHOOSE g \in Handles : g \in On(Null)
                 /\ open' = [open EXCEPT ![h] = d]
                 /\ UNCHANGED failed

NotCreated(d) == /\ failed' = failed \cup {d}
                 /\ UNCHANGED open

Inserted(h) == IF lock = "ready"
               THEN consoles' = Append(consoles, h) /\ UNCHANGED undefined
               ELSE undefined' = TRUE /\ UNCHANGED consoles

(* ConsoleDestroy unregisters the notification, and closes the handle.     *)
Destroyed(h) == /\ open' = [open EXCEPT ![h] = Null]
                /\ notices' = Keep(notices, Events \ {Removal(h)})
                /\ missed' = missed \ {h}

-----------------------------------------------------------------------------
(* MonitorCtrlHandlerEx, MonitorAdd and MonitorRemove.                     *)

HandlerFree == /\ ~undefined /\ handler = Idle

Delivered(type) == /\ HandlerFree
                   /\ notices # <<>> /\ Head(notices).type = type
                   /\ notices' = Tail(notices)

MonitorAdd ==
  LET d == Head(notices).of
  IN
  /\ Delivered("arrival")
  /\ \/ \E h \in Handles : /\ Created(d, h)
                           /\ handler' = [does |-> "insert", with |-> h]
     \/ NotCreated(d) /\ UNCHANGED handler
  /\ UNCHANGED <<world, consoles, lock, undefined, registered, main, mine, left, stop,
                 status, history>>

MonitorAdded ==
  /\ ~undefined /\ handler.does = "insert"
  /\ Inserted(handler.with)
  /\ handler' = Idle
  /\ UNCHANGED <<world, open, lock, failed, notices, registered, main, mine, left,
                 stop, status, history>>

(* Mutation of MonitorRemove: the console found stays on the list. *)
MonitorRemoveKeeping ==
  LET h == Head(notices).of
  IN
  /\ Delivered("remove") /\ lock = "ready"
  /\ IF h \in ToSet(consoles)
     THEN handler' = [does |-> "destroy", with |-> h] /\ UNCHANGED missed
     ELSE missed' = missed \cup {h} /\ UNCHANGED handler
  /\ UNCHANGED <<world, shared, registered, main, mine, left, stop, status, lost,
                 twice>>

MonitorRemove ==
  LET h == Head(notices).of
  IN
  /\ Delivered("remove")
  /\ IF lock # "ready" THEN undefined' = TRUE /\ UNCHANGED <<consoles, handler, missed>>
     ELSE /\ UNCHANGED undefined
          /\ IF h \in ToSet(consoles)
             THEN /\ handler' = [does |-> "destroy", with |-> h]
                  /\ consoles' = RemoveFirst(consoles, h)
                  /\ UNCHANGED missed
             ELSE missed' = missed \cup {h} /\ UNCHANGED <<consoles, handler>>
  /\ UNCHANGED <<world, open, lock, failed, registered, main, mine, left, stop,
                 status, lost, twice>>

MonitorRemoved ==
  /\ ~undefined /\ handler.does = "destroy"
  /\ Destroyed(handler.with)
  /\ handler' = Idle
  /\ UNCHANGED <<world, consoles, lock, undefined, failed, registered, main, mine, left,
                 stop, status, lost, twice>>

(* The service manager sends what ReportStatus has said to be accepted.    *)
(* The handler sets the stop event, which MonitorMain may not have created.*)
ControlStop ==
  /\ HandlerFree /\ ~stop
  /\ status \notin {"START_PENDING", "STOPPED"}
  /\ status' = "STOP_PENDING"
  /\ IF main \in {"begin", "report", "event", "stopped"}
     THEN lost' = TRUE /\ UNCHANGED stop
     ELSE stop' = TRUE /\ UNCHANGED lost
  /\ UNCHANGED <<world, shared, notices, registered, handler, main, mine, left, twice,
                 missed>>

ControlInterrogate ==
  /\ HandlerFree /\ main # "begin" /\ status # "STOPPED"
  /\ status' = "RUNNING"
  /\ UNCHANGED <<world, shared, notices, registered, handler, main, mine, left, stop,
                 history>>

-----------------------------------------------------------------------------
(* MonitorMain, with MonitorEnumerate and MonitorRemoveAll.                *)

MainGoes(from, to) == /\ ~undefined
                      /\ main = from
                      /\ main' = to

(* The control handler is registered.  This failure, and that of the event *)
(* log, is not reported.                                                   *)
MainRegister ==
  /\ MainGoes("begin", "report") \/ MainGoes("begin", "stopped")
  /\ UNCHANGED <<world, shared, notices, registered, handler, mine, left, stop, status,
                 history>>

MainReport ==
  /\ \/ MainGoes("report", "event") /\ status' = "START_PENDING"
     \/ MainGoes("report", "stopped") /\ UNCHANGED status
  /\ UNCHANGED <<world, shared, notices, registered, handler, mine, left, stop, history>>

MainEvent ==
  /\ \/ MainGoes("event", "notify") /\ UNCHANGED status
     \/ MainGoes("event", "stopped") /\ status' = "STOPPED"
  /\ UNCHANGED <<world, shared, notices, registered, handler, mine, left, stop, history>>

MainNotify ==
  /\ \/ /\ MainGoes("notify", "running")
        /\ registered' = TRUE
        /\ UNCHANGED status
     \/ /\ MainGoes("notify", "stopped")
        /\ status' = "STOPPED"
        /\ UNCHANGED registered
  /\ UNCHANGED <<world, shared, notices, handler, mine, left, stop, history>>

MainRunning ==
  /\ MainGoes("running", "init")
  /\ status' = "RUNNING"
  /\ UNCHANGED <<world, shared, notices, registered, handler, mine, left, stop, history>>

MainInit ==
  /\ MainGoes("init", "enumerate")
  /\ lock' = "ready"
  /\ consoles' = <<>>
  /\ UNCHANGED <<world, open, undefined, failed, notices, registered, handler, mine,
                 left, stop, status, history>>

(* The set of the devices is taken once; it may not be had.                *)
MainEnumerate ==
  /\ \/ MainGoes("enumerate", "create") /\ left' = present /\ UNCHANGED failed
     \/ MainGoes("enumerate", "wait") /\ failed' = failed \cup present /\ UNCHANGED left
  /\ UNCHANGED <<world, open, consoles, lock, undefined, notices, registered, handler, mine,
                 stop, status, history>>

(* Mutation of MainCreate: the first failure ends the enumeration. *)
MainCreateStops(d) ==
  /\ d \in left
  /\ \/ /\ MainGoes("create", "insert")
        /\ left' = left \ {d}
        /\ \E h \in Handles : Created(d, h) /\ mine' = h
     \/ /\ MainGoes("create", "create")
        /\ left' = {}
        /\ NotCreated(d)
        /\ UNCHANGED mine
  /\ UNCHANGED <<world, consoles, lock, undefined, notices, registered, handler, stop,
                 status, history>>

MainCreate(d) ==
  /\ d \in left
  /\ left' = left \ {d}
  /\ \/ /\ MainGoes("create", "insert")
        /\ \E h \in Handles : Created(d, h) /\ mine' = h
     \/ /\ MainGoes("create", "create")
        /\ NotCreated(d)
        /\ UNCHANGED mine
  /\ UNCHANGED <<world, consoles, lock, undefined, notices, registered, handler, stop,
                 status, history>>

MainInsert ==
  /\ MainGoes("insert", "create")
  /\ Inserted(mine)
  /\ mine' = Null
  /\ UNCHANGED <<world, open, lock, failed, notices, registered, handler, left, stop,
                 status, history>>

MainWait ==
  /\ left = {}
  /\ MainGoes("create", "wait")
  /\ UNCHANGED <<world, shared, notices, registered, handler, mine, left, stop, status,
                 history>>

MainStop ==
  /\ stop
  /\ MainGoes("wait", "remove")
  /\ UNCHANGED <<world, shared, notices, registered, handler, mine, left, stop, status,
                 history>>

(* Mutation of MainRemove: the head of the list is not taken off it. *)
MainRemovePeeking ==
  /\ IF consoles = <<>> THEN MainGoes("remove", "delete") /\ UNCHANGED mine
     ELSE MainGoes("remove", "destroy") /\ mine' = Head(consoles)
  /\ UNCHANGED <<world, shared, notices, registered, handler, left, stop, status,
                 history>>

MainRemove ==
  /\ IF consoles = <<>> THEN MainGoes("remove", "delete") /\ UNCHANGED <<consoles, mine>>
     ELSE /\ MainGoes("remove", "destroy")
          /\ mine' = Head(consoles)
          /\ consoles' = Tail(consoles)
  /\ UNCHANGED <<world, open, lock, undefined, failed, notices, registered, handler,
                 left, stop, status, history>>

MainDestroy ==
  /\ MainGoes("destroy", "remove")
  /\ Destroyed(mine)
  /\ mine' = Null
  /\ UNCHANGED <<world, consoles, lock, undefined, failed, registered, handler, left, stop,
                 status, lost, twice>>

MainDelete ==
  /\ MainGoes("delete", "unregister")
  /\ lock' = "deleted"
  /\ consoles' = <<>>
  /\ UNCHANGED <<world, open, undefined, failed, notices, registered, handler, mine,
                 left, stop, status, history>>

MainStopped ==
  /\ MainGoes("unregister", "stopped")
  /\ registered' = FALSE
  /\ notices' = Keep(notices, {Removal(h) : h \in Handles})
  /\ status' = "STOPPED"
  /\ UNCHANGED <<world, shared, handler, mine, left, stop, history>>

-----------------------------------------------------------------------------
MonitorMain == \/ MainRegister \/ MainReport \/ MainEvent \/ MainNotify
               \/ MainRunning \/ MainInit \/ MainEnumerate \/ (\E d \in Devices : MainCreate(d)) \/ MainInsert \/ MainWait
               \/ MainStop \/ MainRemove \/ MainDestroy \/ MainDelete \/ MainStopped

MonitorCtrlHandlerEx == \/ MonitorAdd \/ MonitorAdded
                        \/ MonitorRemove \/ MonitorRemoved

ServiceNext == \/ MonitorMain \/ MonitorCtrlHandlerEx
               \/ ControlStop \/ ControlInterrogate
               \/ \E d \in Devices : Arrives(d) \/ Leaves(d) \/ IsAsked(d)

(* Both threads run when they can. *)
ServiceSpec == /\ ServiceInit /\ [][ServiceNext]_serviceVars
               /\ WF_serviceVars(MonitorMain) /\ WF_serviceVars(MonitorCtrlHandlerEx)

-----------------------------------------------------------------------------
ServiceTypeOK ==
  /\ present \subseteq Devices /\ changes \in 0..MaxChanges
  /\ open \in [Handles -> Devices \cup {Null}]
  /\ notices \in Seq(Events)
  /\ registered \in BOOLEAN /\ stop \in BOOLEAN /\ lost \in BOOLEAN
  /\ undefined \in BOOLEAN
  /\ handler \in [does : {"idle", "insert", "destroy"}, with : Handles \cup {Null}]
  /\ main \in {"begin", "report", "event", "notify", "running", "init", "enumerate",
               "create", "insert", "wait", "remove", "destroy", "delete",
               "unregister", "stopped"}
  /\ mine \in Handles \cup {Null}
  /\ left \subseteq Devices
  /\ consoles \in Seq(Handles)
  /\ lock \in {"none", "ready", "deleted"}
  /\ status \in {"START_PENDING", "RUNNING", "STOP_PENDING", "STOPPED"}
  /\ failed \subseteq Devices /\ asked \subseteq Devices /\ twice \subseteq Devices
  /\ missed \subseteq Handles

(* A console is on the list or in the hands of one thread, that creates or *)
(* destroys it: the two threads never destroy the same console, and none   *)
(* is lost while the list is in use.                                       *)
OwnedOnce ==
  /\ ServiceTypeOK
  /\ IsInjective(consoles)
  /\ LET held == {mine, handler.with} \ {Null}
     IN /\ mine # Null => mine # handler.with
        /\ ToSet(consoles) \cap held = {}
        /\ \A h \in ToSet(consoles) \cup held : open[h] # Null
        /\ lock = "ready" /\ ~undefined =>
             \A h \in Handles : open[h] # Null => h \in ToSet(consoles) \cup held

(* When the service waits and has nothing to do, a device has its console, *)
(* unless that failed or Windows had asked to remove the device (a console *)
(* closed for a removal that did not come about is not opened again); and  *)
(* the other way round, a console has its device, unless that left when    *)
(* the enumeration had the console in hand.  There is one console, unless  *)
(* the device came as the service started (monitor.c 1481: it registers,   *)
(* and enumerates later), or came again before it was known to have come.  *)
ConsolesMatch ==
  main = "wait" /\ ~stop /\ handler = Idle /\ notices = <<>> /\ ~undefined =>
    /\ \A d \in present \ (failed \cup asked) : On(d) # {}
    /\ \A h \in ToSet(consoles) \ missed : open[h] \in present
    /\ \A d \in Devices \ twice : Cardinality(On(d) \ missed) <= 1

(* Once the stop event is set, the service stops, when devices have        *)
(* stopped coming and going; unless it has used the lock after its         *)
(* deletion.  A stop that comes before there is an event is lost (it comes *)
(* after an interrogation, which is answered with RUNNING, monitor.c 1387):*)
(* the service starts nevertheless, and then says so, so that the service  *)
(* manager may tell it again.                                              *)
Stops == /\ stop ~> main = "stopped" \/ undefined
         /\ lost ~> status = "RUNNING" \/ main = "stopped" \/ undefined
=============================================================================
