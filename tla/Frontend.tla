------------------------------ MODULE Frontend ------------------------------
(***************************************************************************)
(* The frontend of a console other than the default one                    *)
(* (src/xencons/frontend.c): FrontendSetState walks from state to state    *)
(* towards the one that is asked for, shaking hands with the backend       *)
(* through the store and connecting the ring on the way, and a thread asks *)
(* for the device to be ejected when the toolstack takes the backend       *)
(* offline.  FrontendSetState holds the frontend's lock throughout, so     *)
(* that one call is in progress at a time and the thread looks at the      *)
(* state only between calls; the backend and the toolstack run at any      *)
(* time.                                                                   *)
(*                                                                         *)
(* FrontendAbiAcquire and FrontendAbiRelease count the references, and     *)
(* wait for the thread to look at the state once.  The last release, and   *)
(* a first acquisition that fails, call FrontendSetState with the lock     *)
(* held: it spins for the lock that its own caller holds, and nothing that *)
(* needs the lock goes on from there.                                      *)
(***************************************************************************)
EXTENDS Naturals

CONSTANTS Callers,      \* the threads that acquire and release the frontend
          MaxReferences, \* bound: how many references they take
          Settings      \* which states are asked for, and by whom the frontend
                        \* is acquired; in the code at hand only UNKNOWN is
                        \* asked for, as the other calls are commented out

States == {"UNKNOWN", "CLOSED", "PREPARED", "CONNECTED", "ENABLED"}

ASSUME FrontendAssumption ==
  Settings \subseteq [targets : SUBSET States, callers : SUBSET Callers] /\ MaxReferences \in Nat

VARIABLES state,        \* Frontend->State
          target,       \* the state asked for
          failed,       \* FrontendSetState's Failed
          pc,           \* where FrontendSetState is
          seen,         \* the backend's state when it was last looked at
          online,       \* Frontend->Online
          store,        \* whether the store interface is acquired
          path,         \* whether there is a BackendPath
          watch,        \* Frontend->Watch
          ring,         \* the ring: "off", "connected" or "enabled"
          event,        \* the eject thread's event
          checking,     \* whether the eject thread waits for the lock
          ejected,      \* Frontend->EjectEvent: it has looked
          eject,        \* an eject that has been requested
          frontend,     \* the frontend's state in the store
          backend,      \* the backend's state in the store
          toolstack,    \* the backend's "online" node: the toolstack wants it
          mapped,       \* whether the backend maps the ring
          references,   \* Frontend->References
          abi,          \* where each caller of the ABI is
          spinning,     \* one waits for the lock that it holds itself
          setting       \* what is asked for, and by whom (constant)

callVars  == <<state, target, failed, pc, seen>>
ownVars   == <<online, store, path, watch, ring>>
ejectVars == <<event, checking, eject, ejected>>
xenVars   == <<frontend, backend, toolstack, mapped>>
abiVars   == <<references, abi, spinning, setting>>
vars      == <<callVars, ownVars, ejectVars, xenVars, abiVars>>

XenbusStates == {"Unknown", "Initialising", "InitWait", "Connected",
                 "Closing", "Closed"}

Init == /\ state = "UNKNOWN"
        /\ target = "UNKNOWN"
        /\ failed = FALSE
        /\ pc = "idle"
        /\ seen = "Unknown"
        /\ online = FALSE
        /\ store = FALSE
        /\ path = FALSE
        /\ watch = FALSE
        /\ ring = "off"
        /\ event = FALSE
        /\ checking = FALSE
        /\ eject = FALSE
        /\ frontend = "Initialising"
        /\ backend = "Initialising"
        /\ toolstack = TRUE
        /\ mapped = FALSE
        /\ ejected = FALSE
        /\ references = 0
        /\ abi = [c \in Callers |-> "idle"]
        /\ spinning = FALSE
        /\ setting \in Settings

Goes(from, to) == pc = from /\ pc' = to

SetOffline == online' = FALSE /\ eject' = TRUE

(* FrontendSetXenbusState: the last state of a frontend whose backend the  *)
(* toolstack no longer wants takes it offline.                             *)
SetXenbusState(s) ==
  /\ frontend' = s
  /\ IF s = "Closed" /\ ~toolstack THEN SetOffline
                                   ELSE UNCHANGED <<online, eject>>

-----------------------------------------------------------------------------
(* FrontendSetState.                                                       *)

LockFree == pc = "idle" /\ ~spinning

(* Called by the suspend callback, which does not hold the lock. *)
SetState(s) ==
  /\ LockFree
  /\ s \in setting.targets
  /\ Goes("idle", "decide")
  /\ target' = s
  /\ failed' = FALSE
  /\ UNCHANGED <<state, seen, ownVars, ejectVars, xenVars, abiVars>>

Return ==
  /\ state = target \/ failed
  /\ Goes("decide", "idle")
  /\ UNCHANGED <<state, target, failed, seen, ownVars, ejectVars, xenVars, abiVars>>

Towards(s) == pc = "decide" /\ ~failed /\ state = s /\ target # s

(* Mutation of Decide: a connected ring is left to itself.                 *)
DecideSkips ==
  \/ /\ Towards("UNKNOWN") \/ (Towards("CLOSED") /\ target # "UNKNOWN")
     /\ pc' = "prepare"
     /\ UNCHANGED <<state, ring>>
  \/ /\ Towards("CLOSED") /\ target = "UNKNOWN"
     /\ state' = "UNKNOWN"
     /\ UNCHANGED <<pc, ring>>
  \/ /\ Towards("PREPARED")
     /\ pc' = IF target \in {"CONNECTED", "ENABLED"} THEN "connect" ELSE "close"
     /\ UNCHANGED <<state, ring>>
  \/ /\ Towards("CONNECTED")
     /\ \/ target = "ENABLED" /\ state' = "ENABLED" /\ ring' = "enabled"
           /\ UNCHANGED pc
        \/ target # "ENABLED" /\ pc' = "close" /\ state' = "PREPARED"
           /\ UNCHANGED ring
  \/ /\ Towards("ENABLED")
     /\ ring' = "connected"
     /\ state' = "CONNECTED"
     /\ UNCHANGED pc

Decide ==
  \/ /\ Towards("UNKNOWN") \/ (Towards("CLOSED") /\ target # "UNKNOWN")
     /\ pc' = "prepare"
     /\ UNCHANGED <<state, ring>>
  \/ /\ Towards("CLOSED") /\ target = "UNKNOWN"
     /\ state' = "UNKNOWN"
     /\ UNCHANGED <<pc, ring>>
  \/ /\ Towards("PREPARED")
     /\ pc' = IF target \in {"CONNECTED", "ENABLED"} THEN "connect" ELSE "close"
     /\ UNCHANGED <<state, ring>>
  \/ /\ Towards("CONNECTED")
     /\ \/ target = "ENABLED" /\ state' = "ENABLED" /\ ring' = "enabled"
           /\ UNCHANGED pc
        \/ target # "ENABLED" /\ pc' = "close" /\ UNCHANGED <<state, ring>>
  \/ /\ Towards("ENABLED")
     /\ ring' = "connected"
     /\ state' = "CONNECTED"
     /\ UNCHANGED pc

DecideStep == Decide /\ UNCHANGED <<target, failed, seen, online, store, path,
                                    watch, ejectVars, xenVars, abiVars>>

(* FrontendWaitForBackendXenbusStateChange: the wait ends when the state   *)
(* read is another one, or after two minutes with the same one.            *)
Wait(at, then) ==
  /\ Goes(at, then)
  /\ seen' = backend
  /\ UNCHANGED <<state, target, failed, ownVars, ejectVars, xenVars, abiVars>>

-----------------------------------------------------------------------------
(* FrontendPrepare.                                                        *)

PrepareFailed ==
  /\ pc' = "decide"
  /\ failed' = TRUE
  /\ SetOffline
  /\ path' = FALSE
  /\ store' = FALSE

PrepareBegin ==
  /\ pc = "prepare"
  /\ \/ /\ pc' = "decide" /\ failed' = TRUE         \* no store interface
        /\ UNCHANGED <<seen, online, store, path, eject>>
     \/ PrepareFailed /\ UNCHANGED seen             \* no backend path
     \/ /\ pc' = "prepare wait"
        /\ seen' = "Unknown"
        /\ online' = TRUE
        /\ store' = TRUE
        /\ path' = TRUE
        /\ UNCHANGED <<failed, eject>>
  /\ UNCHANGED <<state, target, watch, ring, event, checking, ejected, xenVars,
                 abiVars>>

(* Mutation of PrepareAct: the backend's Closed is not an end.             *)
PrepareActRetries ==
  /\ pc = "prepare act"
  /\ \/ /\ seen = "InitWait"
        /\ pc' = "watch"
        /\ UNCHANGED <<failed, online, store, path, eject, frontend>>
     \/ /\ seen # "InitWait"
        /\ SetXenbusState("Initialising")
        /\ pc' = "prepare wait"
        /\ UNCHANGED <<failed, store, path>>
  /\ UNCHANGED <<state, target, seen, watch, ring, event, checking, ejected,
                 backend, toolstack, mapped, abiVars>>

(* A backend that is Closed is told so once more, and given up. *)
PrepareAct ==
  /\ pc = "prepare act"
  /\ \/ /\ seen = "InitWait"
        /\ pc' = "watch"
        /\ UNCHANGED <<failed, online, store, path, eject, frontend>>
     \/ /\ seen = "Closed"
        /\ frontend' = "Closed"
        /\ PrepareFailed
     \/ /\ seen \notin {"InitWait", "Closed"}
        /\ SetXenbusState("Initialising")
        /\ pc' = "prepare wait"
        /\ UNCHANGED <<failed, store, path>>
  /\ UNCHANGED <<state, target, seen, watch, ring, event, checking, ejected,
                 backend, toolstack, mapped, abiVars>>

(* Mutation of PrepareWatch: the watch is set on another event.            *)
PrepareWatchMisses ==
  /\ pc = "watch"
  /\ \/ /\ pc' = "decide"
        /\ watch' = TRUE
        /\ state' = "PREPARED"
        /\ UNCHANGED <<failed, online, store, path, eject, event>>
     \/ PrepareFailed /\ UNCHANGED <<state, watch, event>>
  /\ UNCHANGED <<target, seen, ring, checking, ejected, xenVars, abiVars>>

(* A watch fires when it is added, and whenever its node changes. *)
PrepareWatch ==
  /\ pc = "watch"
  /\ \/ /\ pc' = "decide"
        /\ watch' = TRUE
        /\ event' = TRUE
        /\ state' = "PREPARED"
        /\ UNCHANGED <<failed, online, store, path, eject>>
     \/ PrepareFailed /\ UNCHANGED <<state, watch, event>>
  /\ UNCHANGED <<target, seen, ring, checking, ejected, xenVars, abiVars>>

-----------------------------------------------------------------------------
(* FrontendConnect; when it fails FrontendSetState closes the frontend.    *)

ConnectFailed == pc' = "close" /\ failed' = TRUE /\ ring' = "off"

ConnectRing ==
  /\ pc = "connect"
  /\ \/ pc' = "publish" /\ ring' = "connected" /\ UNCHANGED failed
     \/ ConnectFailed
  /\ UNCHANGED <<state, target, seen, online, store, path, watch, ejectVars,
                 xenVars, abiVars>>

(* The transaction that publishes the ring: it may fail for good. *)
ConnectPublish ==
  /\ pc = "publish"
  /\ \/ pc' = "connect wait" /\ seen' = "Unknown" /\ UNCHANGED <<failed, ring>>
     \/ ConnectFailed /\ UNCHANGED seen
  /\ UNCHANGED <<state, target, online, store, path, watch, ejectVars, xenVars, abiVars>>

ConnectAct ==
  /\ pc = "connect act"
  /\ \/ /\ seen = "InitWait"
        /\ SetXenbusState("Connected")
        /\ pc' = "connect wait"
        /\ UNCHANGED <<state, failed, ring>>
     \/ /\ seen = "Connected"
        /\ state' = "CONNECTED"
        /\ pc' = "decide"
        /\ UNCHANGED <<failed, online, ring, eject, frontend>>
     \/ /\ seen \in {"Unknown", "Closing", "Closed"}
        /\ SetOffline
        /\ ConnectFailed
        /\ UNCHANGED <<state, frontend>>
     \/ /\ seen = "Initialising"
        /\ pc' = "connect wait"
        /\ UNCHANGED <<state, failed, online, ring, eject, frontend>>
  /\ UNCHANGED <<target, seen, store, path, watch, event, checking, ejected,
                 backend, toolstack, mapped, abiVars>>

-----------------------------------------------------------------------------
(* FrontendClose, and FrontendDisconnect after it.                         *)

CloseBegin ==
  /\ Goes("close", "close loop")
  /\ watch' = FALSE
  /\ seen' = "Unknown"
  /\ UNCHANGED <<state, target, failed, online, store, path, ring, ejectVars,
                 xenVars, abiVars>>

(* Mutation of CloseLoop: the backend need only have begun to close.       *)
CloseLoopEarly ==
  /\ Goes("close loop", IF ~online \/ seen \in {"Closing", "Closed"}
                        THEN "closed" ELSE "close wait")
  /\ UNCHANGED <<state, target, failed, seen, ownVars, ejectVars, xenVars, abiVars>>

CloseLoop ==
  /\ Goes("close loop", IF ~online \/ seen = "Closed"
                        THEN "closed" ELSE "close wait")
  /\ UNCHANGED <<state, target, failed, seen, ownVars, ejectVars, xenVars, abiVars>>

CloseAct ==
  /\ Goes("close act", "close loop")
  /\ CASE seen = "Closing" -> SetXenbusState("Closed")
       [] seen = "Closed"  -> UNCHANGED <<frontend, online, eject>>
       [] OTHER            -> SetXenbusState("Closing")
  /\ UNCHANGED <<state, target, failed, seen, store, path, watch, ring, event,
                 checking, ejected, backend, toolstack, mapped, abiVars>>

CloseEnd ==
  /\ Goes("closed", "decide")
  /\ path' = FALSE
  /\ store' = FALSE
  /\ state' = "CLOSED"
  /\ ring' = IF state = "CONNECTED" THEN "off" ELSE ring
  /\ UNCHANGED <<target, failed, seen, online, watch, ejectVars, xenVars, abiVars>>

Call == \/ Return
        \/ DecideStep
        \/ PrepareBegin
        \/ Wait("prepare wait", "prepare act")
        \/ PrepareAct
        \/ PrepareWatch
        \/ ConnectRing
        \/ ConnectPublish
        \/ Wait("connect wait", "connect act")
        \/ ConnectAct
        \/ CloseBegin
        \/ CloseLoop
        \/ Wait("close wait", "close act")
        \/ CloseAct
        \/ CloseEnd

-----------------------------------------------------------------------------
(* FrontendEject, the thread, and what PnP makes of its request.           *)

EjectWait ==
  /\ event
  /\ ~checking
  /\ event' = FALSE
  /\ checking' = TRUE
  /\ UNCHANGED <<callVars, ownVars, eject, ejected, xenVars, abiVars>>

(* Setting EjectEvent lets everyone go that waits for it. *)
EjectCheck ==
  /\ checking
  /\ LockFree
  /\ checking' = FALSE
  /\ eject' = (eject \/ (state \notin {"UNKNOWN", "CLOSED"} /\ online
                           /\ (~toolstack \/ backend = "Unknown")))
  /\ ejected' = TRUE
  /\ abi' = [c \in Callers |-> IF abi[c] = "waiting" THEN "idle" ELSE abi[c]]
  /\ UNCHANGED <<callVars, ownVars, event, xenVars, references, spinning,
                 setting>>

(* IoRequestDeviceEject need not lead to a removal: a request is forgotten *)
(* while the toolstack wants the backend, and stands once it does not.     *)
EjectHandled ==
  /\ eject
  /\ toolstack
  /\ eject' = FALSE
  /\ UNCHANGED <<callVars, ownVars, event, checking, ejected, xenVars, abiVars>>

-----------------------------------------------------------------------------
(* FrontendAbiAcquire and FrontendAbiRelease.                              *)

AbiGoes(c, from, to) == abi[c] = from /\ abi' = [abi EXCEPT ![c] = to]

(* FrontendSetState acquires the lock that its caller has. *)
AbiSpins(c) == AbiGoes(c, "idle", "spinning") /\ spinning' = TRUE

(* The first reference registers for suspends.  When that fails it suspends *)
(* what it has not resumed; when only the interface is missing it leaves   *)
(* nothing behind.                                                         *)
AbiAcquire(c) ==
  /\ LockFree
  /\ c \in setting.callers
  /\ references < MaxReferences
  /\ references' = references + 1
  /\ \/ AbiGoes(c, "idle", "clear") /\ UNCHANGED spinning
     \/ references = 0 /\ AbiSpins(c)
  /\ UNCHANGED <<callVars, ownVars, ejectVars, xenVars, setting>>

AbiRelease(c) ==
  /\ LockFree
  /\ c \in setting.callers
  /\ references > 0
  /\ references' = references - 1
  /\ IF references = 1 THEN AbiSpins(c)
                       ELSE AbiGoes(c, "idle", "clear") /\ UNCHANGED spinning
  /\ UNCHANGED <<callVars, ownVars, ejectVars, xenVars, setting>>

(* Without the lock, the thread is made to look at the state, and waited   *)
(* for.                                                                    *)
AbiClear(c) ==
  /\ AbiGoes(c, "clear", "wake")
  /\ ejected' = FALSE
  /\ UNCHANGED <<callVars, ownVars, event, checking, eject, xenVars, references,
                 spinning, setting>>

AbiWakes(c) ==
  /\ AbiGoes(c, "wake", "wait")
  /\ event' = TRUE
  /\ UNCHANGED <<callVars, ownVars, checking, eject, ejected, xenVars,
                 references, spinning, setting>>

(* Mutation of AbiWait: the event is cleared after the wake-up.            *)
AbiWaitClears(c) ==
  /\ AbiGoes(c, "wait", "waiting")
  /\ ejected' = FALSE
  /\ UNCHANGED <<callVars, ownVars, event, checking, eject, xenVars, references,
                 spinning, setting>>

AbiWait(c) ==
  /\ AbiGoes(c, "wait", IF ejected THEN "idle" ELSE "waiting")
  /\ UNCHANGED <<callVars, ownVars, ejectVars, xenVars, references, spinning,
                 setting>>

Abi(c) == AbiClear(c) \/ AbiWakes(c) \/ AbiWait(c)

-----------------------------------------------------------------------------
(* The backend and the toolstack.  A backend that is Closed stays so until *)
(* its nodes are made anew, as the comment in FrontendPrepare says.        *)

BackendGoes(from, to) == /\ backend \in from
                         /\ backend' = to
                         /\ mapped' = (IF to = "Connected" THEN TRUE
                                       ELSE mapped /\ to # "Closed")
                         /\ UNCHANGED <<callVars, ownVars, ejectVars, frontend,
                                        toolstack, abiVars>>

Backend == \/ BackendGoes({"Initialising"}, "InitWait")
           \/ frontend = "Connected" /\ BackendGoes({"InitWait"}, "Connected")
           \/ /\ frontend \in {"Closing", "Closed"} \/ ~toolstack
              /\ BackendGoes({"InitWait", "Connected"}, "Closing")
           \/ /\ frontend = "Closed" \/ ~toolstack
              /\ BackendGoes({"Closing"}, "Closed")

ToolstackOffline ==
  /\ toolstack
  /\ toolstack' = FALSE
  /\ event' = (event \/ watch)
  /\ UNCHANGED <<callVars, ownVars, checking, eject, ejected, frontend, backend,
                 mapped, abiVars>>

(* The backend's nodes are removed, or both ends' are made anew. *)
ToolstackRemoves ==
  /\ backend # "Unknown"
  /\ ~toolstack
  /\ backend' = "Unknown"
  /\ mapped' = FALSE
  /\ event' = (event \/ watch)
  /\ UNCHANGED <<callVars, ownVars, checking, eject, ejected, frontend,
                 toolstack, abiVars>>

ToolstackRestores ==
  /\ backend = "Unknown"
  /\ state \in {"UNKNOWN", "CLOSED"} /\ pc = "idle"
  /\ backend' = "Initialising"
  /\ frontend' = "Initialising"
  /\ toolstack' = TRUE
  /\ eject' = FALSE
  /\ UNCHANGED <<callVars, ownVars, event, checking, ejected, mapped, abiVars>>

Toolstack == ToolstackOffline \/ ToolstackRemoves \/ ToolstackRestores

-----------------------------------------------------------------------------
Next == \/ \E s \in States : SetState(s)
        \/ Call
        \/ EjectWait \/ EjectCheck \/ EjectHandled
        \/ \E c \in Callers : AbiAcquire(c) \/ AbiRelease(c) \/ Abi(c)
        \/ Backend \/ Toolstack

Spec == Init /\ [][Next]_vars

(* A call goes on, and the eject thread is scheduled and gets the lock in  *)
(* the end.                                                                *)
Fairness == /\ WF_vars(Call)
            /\ WF_vars(EjectWait)
            /\ SF_vars(EjectCheck)
            /\ \A c \in Callers : WF_vars(Abi(c))

FairSpec == Spec /\ Fairness

-----------------------------------------------------------------------------
(* Every variable keeps its type, and the store interface is acquired      *)
(* exactly while there is a path to use it with.                           *)
TypeOK ==
  /\ {state, target} \subseteq States
  /\ pc \in {"idle", "decide", "prepare", "prepare wait", "prepare act",
             "watch", "connect", "publish", "connect wait", "connect act",
             "close", "close loop", "close wait", "close act", "closed"}
  /\ {failed, online, store, path, watch, event, checking, eject, toolstack,
      mapped, ejected, spinning} \subseteq BOOLEAN
  /\ ring \in {"off", "connected", "enabled"}
  /\ {seen, frontend, backend} \subseteq XenbusStates
  /\ store = path
  /\ references \in 0 .. MaxReferences
  /\ abi \in [Callers -> {"idle", "clear", "wake", "wait", "waiting", "spinning"}]

(* Between calls the frontend holds exactly what its state stands for: no  *)
(* failure of a step leaves a reference, a path, a watch or a ring behind, *)
(* and no step finds missing what it asserts to be there.                  *)
Holds(s, p, w, r) == store = s /\ path = p /\ watch = w /\ ring = r

ResourcesMatch ==
  /\ TypeOK
  /\ pc \in {"idle", "decide"} =>
       CASE state \in {"UNKNOWN", "CLOSED"} -> Holds(FALSE, FALSE, FALSE, "off")
         [] state = "PREPARED"  -> Holds(TRUE, TRUE, TRUE, "off")
         [] state = "CONNECTED" -> Holds(TRUE, TRUE, TRUE, "connected")
         [] state = "ENABLED"   -> Holds(TRUE, TRUE, TRUE, "enabled")
  /\ pc \in {"prepare act", "connect act", "close act"} => online
  /\ pc = "close" => watch
  /\ pc = "closed" => path

(* The ring's page is revoked and freed while the backend maps it only by  *)
(* a frontend that has gone offline.                                       *)
PageOutlivesMapping ==
  [][ring # "off" /\ ring' = "off" /\ mapped => ~online']_vars

(* A frontend that is in use while the toolstack wants its backend offline *)
(* asks to be ejected, or is no longer in use, unless the lock is never    *)
(* given up: a call never ends, or waits for the lock that it holds.       *)
OfflineEjected ==
  \/ <>[]~LockFree
  \/ (watch /\ ~toolstack) ~> (eject \/ ~watch)

(* FrontendSetState, once it has the lock, returns if the backend goes on  *)
(* as the protocol says, unless its nodes are removed: it would wait for   *)
(* ever for a backend that does not answer.                                *)
SetStateReturns ==
  WF_vars(Backend) => ((pc # "idle") ~> (pc = "idle" \/ backend = "Unknown"))

(* Whoever acquires or releases the frontend, and gives up the lock, is    *)
(* let go by the eject thread, however many do and in whatever order they  *)
(* clear the event and wait for it; unless the lock is never given up.     *)
AbiReturns ==
  \/ <>[]~LockFree
  \/ \A c \in Callers : (abi[c] # "idle") ~> (abi[c] = "idle")
=============================================================================
