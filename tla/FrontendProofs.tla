--------------------------- MODULE FrontendProofs ---------------------------
(***************************************************************************)
(* Proofs about module Frontend: whatever the backend and the toolstack do *)
(* between two steps of FrontendSetState, the frontend holds what its      *)
(* state stands for, and its ring's page outlives the backend's mapping    *)
(* unless it has gone offline.  Both follow from one inductive invariant,  *)
(* which says what is held at each place of FrontendSetState, and what the *)
(* backend can have become since its state was read.                       *)
(***************************************************************************)
EXTENDS Frontend, TLAPS

Down == {"UNKNOWN", "CLOSED"}

(* What the frontend holds at each place of FrontendSetState. *)
HeldAt ==
  /\ pc \in {"idle", "decide"} =>
       /\ state \in Down => Holds(FALSE, FALSE, FALSE, "off")
       /\ state = "PREPARED" => Holds(TRUE, TRUE, TRUE, "off")
       /\ state = "CONNECTED" => Holds(TRUE, TRUE, TRUE, "connected")
       /\ state = "ENABLED" => Holds(TRUE, TRUE, TRUE, "enabled")
       /\ state \notin Down => online
  /\ pc = "prepare" => state \in Down /\ Holds(FALSE, FALSE, FALSE, "off")
  /\ pc \in {"prepare wait", "prepare act", "watch"} =>
       state \in Down /\ Holds(TRUE, TRUE, FALSE, "off") /\ online
  /\ pc = "connect" => Holds(TRUE, TRUE, TRUE, "off")
  /\ pc \in {"publish", "connect wait", "connect act"} =>
       Holds(TRUE, TRUE, TRUE, "connected")
  /\ pc \in {"connect", "publish", "connect wait", "connect act"} =>
       state = "PREPARED" /\ online
  /\ pc = "close" => watch
  /\ pc \in {"close loop", "close wait", "close act", "closed"} => ~watch
  /\ pc \in {"close", "close loop", "close wait", "close act", "closed"} =>
       /\ store /\ path
       /\ \/ state = "PREPARED" /\ ring = "off"
          \/ state = "CONNECTED" /\ ring = "connected"
  /\ pc \in {"close wait", "close act"} => online

(* A backend that is mapped is between Connected and Closed, and becomes   *)
(* Connected only for a frontend that waits for it.                        *)
MappedWhen ==
  /\ mapped => backend \in {"Connected", "Closing"}
  /\ frontend = "Connected" /\ backend \in {"Initialising", "InitWait"}
       => pc \in {"connect wait", "connect act"}

(* During a call the backend only goes forward from the state that was     *)
(* read: the states it can have reached.                                   *)
Later(s) == CASE s = "Initialising" -> XenbusStates
              [] s = "InitWait"     -> XenbusStates \ {"Initialising"}
              [] s = "Connected"    -> {"Connected", "Closing", "Closed", "Unknown"}
              [] s = "Closing"      -> {"Closing", "Closed", "Unknown"}
              [] s = "Closed"       -> {"Closed", "Unknown"}
              [] s = "Unknown"      -> {"Unknown"}

SeenPast ==
  /\ pc \in {"prepare act", "connect act", "close act"} => backend \in Later(seen)
  /\ pc = "close loop" /\ seen = "Closed" => backend \in Later(seen)

(* Where the page cannot be mapped yet, or is no longer. *)
Unmapped ==
  /\ pc = "prepare act" /\ seen = "InitWait" => ~mapped
  /\ pc = "watch" => ~mapped
  /\ pc \in {"idle", "decide", "connect", "publish"} /\ state = "PREPARED" => ~mapped
  /\ pc = "closed" /\ online => ~mapped

(* The types of the frontend, and those of its callers. *)
CallType ==
  /\ {state, target} \subseteq States
  /\ pc \in {"idle", "decide", "prepare", "prepare wait", "prepare act",
             "watch", "connect", "publish", "connect wait", "connect act",
             "close", "close loop", "close wait", "close act", "closed"}
  /\ {failed, online, store, path, watch, event, checking, eject, toolstack,
      mapped} \subseteq BOOLEAN
  /\ ring \in {"off", "connected", "enabled"}
  /\ {seen, frontend, backend} \subseteq XenbusStates
  /\ store = path

AbiType ==
  /\ {ejected, spinning} \subseteq BOOLEAN
  /\ references \in 0 .. MaxReferences
  /\ abi \in [Callers -> {"idle", "clear", "wake", "wait", "waiting", "spinning"}]

Inside == CallType /\ HeldAt /\ MappedWhen /\ SeenPast /\ Unmapped

IInv == Inside /\ AbiType

-----------------------------------------------------------------------------
(* No device is in use before the first call. *)
LEMMA IInvInit == Init => IInv
<1>1. Init => Inside
  BY DEF Init, Inside, CallType, HeldAt, Holds, Down, MappedWhen, SeenPast, Unmapped,
         Later, States, XenbusStates
<1>2. ASSUME Init PROVE AbiType
  <2>1. {ejected, spinning} \subseteq BOOLEAN
    BY <1>2 DEF Init
  <2>2. references \in 0 .. MaxReferences
    BY <1>2, FrontendAssumption DEF Init
  <2>3. abi \in [Callers -> {"idle", "clear", "wake", "wait", "waiting", "spinning"}]
    BY <1>2 DEF Init
  <2> QED
    BY <2>1, <2>2, <2>3 DEF AbiType
<1> QED
  BY <1>1, <1>2 DEF IInv

(* The callers of the ABI keep the types of what they use.                 *)
LEMMA AbiStep == AbiType /\ [Next]_vars => AbiType'
<1> SUFFICES ASSUME AbiType, [Next]_vars PROVE AbiType'
  OBVIOUS
<1> USE FrontendAssumption DEF AbiType, AbiGoes, AbiSpins
<1>1. ASSUME NEW c \in Callers, AbiAcquire(c) PROVE AbiType'
  <2>1. {ejected', spinning'} \subseteq BOOLEAN
    BY <1>1, ZenonT(30) DEF AbiAcquire, ejectVars
  <2>2. references' \in 0 .. MaxReferences
    BY <1>1 DEF AbiAcquire
  <2>3. \E to \in {"clear", "spinning"} : abi' = [abi EXCEPT ![c] = to]
    BY <1>1, Zenon DEF AbiAcquire
  <2> QED
    BY <2>1, <2>2, <2>3
<1>2. ASSUME NEW c \in Callers, AbiRelease(c) PROVE AbiType'
  <2>1. {ejected', spinning'} \subseteq BOOLEAN
    BY <1>2, ZenonT(30) DEF AbiRelease, ejectVars
  <2>2. references' \in 0 .. MaxReferences
    BY <1>2 DEF AbiRelease
  <2>3. \E to \in {"clear", "spinning"} : abi' = [abi EXCEPT ![c] = to]
    BY <1>2, ZenonT(30) DEF AbiRelease
  <2> QED
    BY <2>1, <2>2, <2>3
<1>3. ASSUME NEW c \in Callers, AbiClear(c) PROVE AbiType'
  BY <1>3 DEF AbiClear
<1>4. ASSUME NEW c \in Callers, AbiWakes(c) PROVE AbiType'
  BY <1>4 DEF AbiWakes
<1>5. ASSUME NEW c \in Callers, AbiWait(c) PROVE AbiType'
  BY <1>5 DEF AbiWait, ejectVars
<1>6. CASE EjectCheck
  BY <1>6 DEF EjectCheck
<1>7. CASE UNCHANGED <<ejected, abiVars>>
  BY <1>7 DEF abiVars
<1> QED
  <2>1. \/ UNCHANGED <<ejected, abiVars>> \/ EjectCheck
        \/ \E c \in Callers : AbiAcquire(c) \/ AbiRelease(c) \/ Abi(c)
    BY DEF Next, Call, SetState, Return, DecideStep, PrepareBegin, Wait, PrepareAct,
           PrepareWatch, ConnectRing, ConnectPublish, ConnectAct, CloseBegin,
           CloseLoop, CloseAct, CloseEnd, EjectWait, EjectHandled, Backend,
           BackendGoes, Toolstack, ToolstackOffline, ToolstackRemoves,
           ToolstackRestores, ejectVars, vars
  <2> QED
    BY <1>1, <1>2, <1>3, <1>4, <1>5, <1>6, <1>7, <2>1 DEF Abi

(* Every step of the call, of the eject thread, of the backend and of the  *)
(* toolstack keeps the invariant.                                          *)
LEMMA InsideStep == Inside /\ [Next]_vars => Inside'
<1> SUFFICES ASSUME Inside, [Next]_vars PROVE Inside'
  OBVIOUS
<1> USE DEF Inside, CallType, HeldAt, Holds, Down, MappedWhen, SeenPast, Unmapped,
            Later, States, XenbusStates, callVars, ownVars, ejectVars, xenVars,
            Goes
<1>1. ASSUME NEW s \in States, SetState(s) PROVE Inside'
  BY <1>1 DEF SetState
<1>2. CASE Return
  BY <1>2 DEF Return
<1>3. CASE DecideStep
  BY <1>3 DEF DecideStep, Decide, Towards
<1>4. CASE PrepareBegin
  BY <1>4, ZenonT(30) DEF PrepareBegin, PrepareFailed, SetOffline
<1>5. CASE Wait("prepare wait", "prepare act")
  BY <1>5 DEF Wait
<1>6. CASE PrepareAct
  BY <1>6, ZenonT(30) DEF PrepareAct, PrepareFailed, SetOffline, SetXenbusState
<1>7. CASE PrepareWatch
  BY <1>7 DEF PrepareWatch, PrepareFailed, SetOffline
<1>8. CASE ConnectRing
  BY <1>8, ZenonT(30) DEF ConnectRing, ConnectFailed
<1>9. CASE ConnectPublish
  BY <1>9, ZenonT(30) DEF ConnectPublish, ConnectFailed
<1>10. CASE Wait("connect wait", "connect act")
  BY <1>10 DEF Wait
<1>11. CASE ConnectAct
  BY <1>11, ZenonT(30) DEF ConnectAct, ConnectFailed, SetOffline, SetXenbusState
<1>12. CASE CloseBegin
  BY <1>12 DEF CloseBegin
<1>13. CASE CloseLoop
  BY <1>13 DEF CloseLoop
<1>14. CASE Wait("close wait", "close act")
  BY <1>14 DEF Wait
<1>15. CASE CloseAct
  BY <1>15, ZenonT(30) DEF CloseAct, SetXenbusState, SetOffline
<1>16. CASE CloseEnd
  BY <1>16 DEF CloseEnd
<1>17. CASE EjectWait
  BY <1>17, ZenonT(30) DEF EjectWait
<1>18. CASE EjectCheck
  <2>1. /\ UNCHANGED <<callVars, ownVars, event, xenVars>>
        /\ checking' = FALSE /\ eject' \in BOOLEAN
    BY <1>18, Zenon DEF EjectCheck
  <2>2. CallType'
    BY <2>1, Zenon
  <2>3. HeldAt' /\ MappedWhen' /\ SeenPast' /\ Unmapped'
    BY <2>1, Zenon
  <2> QED
    BY <2>2, <2>3, Zenon
<1>19. ASSUME NEW c \in Callers,
              AbiAcquire(c) \/ AbiRelease(c) \/ Abi(c)
       PROVE  Inside'
  <2>1. \/ AbiWakes(c)
        \/ UNCHANGED <<callVars, ownVars, event, checking, eject, xenVars>>
    BY <1>19, Zenon DEF AbiAcquire, AbiRelease, Abi, AbiClear, AbiWait
  <2>2. CASE AbiWakes(c)
    <3>1. UNCHANGED <<callVars, ownVars, checking, eject, xenVars>> /\ event' = TRUE
      BY <2>2 DEF AbiWakes
    <3> QED
      BY <3>1, ZenonT(30)
  <2>3. CASE UNCHANGED <<callVars, ownVars, event, checking, eject, xenVars>>
    BY <2>3, ZenonT(30)
  <2> QED
    BY <2>1, <2>2, <2>3
<1>20. CASE EjectHandled
  BY <1>20, ZenonT(30) DEF EjectHandled
<1>21. CASE Backend
  <2>1. CASE BackendGoes({"Initialising"}, "InitWait")
    BY <2>1, ZenonT(30) DEF BackendGoes
  <2>2. CASE frontend = "Connected" /\ BackendGoes({"InitWait"}, "Connected")
    BY <2>2 DEF BackendGoes
  <2>3. CASE BackendGoes({"InitWait", "Connected"}, "Closing")
    BY <2>3, ZenonT(30) DEF BackendGoes
  <2>4. CASE BackendGoes({"Closing"}, "Closed")
    <3>1. CallType'
      BY <2>4, ZenonT(30) DEF BackendGoes
    <3>2. (HeldAt /\ MappedWhen /\ SeenPast /\ Unmapped)'
      BY <2>4, ZenonT(30) DEF BackendGoes
    <3> QED
      BY <3>1, <3>2
  <2> QED
    BY <1>21, <2>1, <2>2, <2>3, <2>4 DEF Backend
<1>22. CASE ToolstackOffline
  <2>1. CallType'
    BY <1>22, ZenonT(30) DEF ToolstackOffline
  <2>2. (HeldAt /\ MappedWhen /\ SeenPast /\ Unmapped)'
    BY <1>22 DEF ToolstackOffline
  <2> QED
    BY <2>1, <2>2
<1>23. CASE ToolstackRemoves
  BY <1>23, ZenonT(30) DEF ToolstackRemoves
<1>24. CASE ToolstackRestores
  BY <1>24 DEF ToolstackRestores
<1>25. CASE UNCHANGED vars
  BY <1>25, ZenonT(30) DEF vars
<1> QED
  BY <1>1, <1>2, <1>3, <1>4, <1>5, <1>6, <1>7, <1>8, <1>9, <1>10, <1>11, <1>12, <1>13,
     <1>14, <1>15, <1>16, <1>17, <1>18, <1>19, <1>20, <1>21, <1>22, <1>23, <1>24, <1>25
     DEF Next, Call, Toolstack

LEMMA IInvStep == IInv /\ [Next]_vars => IInv'
  BY InsideStep, AbiStep DEF IInv

(* The inductive invariant holds of every behaviour. *)
THEOREM Invariance == Spec => []IInv
<1>1. Init => IInv
  BY IInvInit
<1>2. IInv /\ [Next]_vars => IInv'
  BY IInvStep
<1> QED
  BY <1>1, <1>2, PTL DEF Spec

-----------------------------------------------------------------------------
(* Every variable keeps its type, and the store interface is acquired      *)
(* exactly while there is a path (frontend.c, FrontendSetState).           *)
THEOREM TypeCorrect == Spec => []TypeOK
<1>1. IInv => TypeOK
  <2> SUFFICES ASSUME IInv PROVE TypeOK
    OBVIOUS
  <2>1. {failed, online, store, path, watch, event, checking, eject, toolstack,
         mapped, ejected, spinning} \subseteq BOOLEAN
    BY DEF IInv, Inside, CallType, AbiType
  <2> QED
    BY <2>1 DEF IInv, Inside, CallType, AbiType, TypeOK
<1> QED
  BY <1>1, Invariance, PTL

(* Between calls the frontend holds what its state stands for: no failed   *)
(* step of FrontendPrepare or FrontendConnect leaves a reference, a path,  *)
(* a watch or a ring behind, and no step finds missing what it asserts.    *)
THEOREM StateHoldsResources == Spec => []ResourcesMatch
<1>1. IInv /\ TypeOK => ResourcesMatch
  BY DEF IInv, Inside, CallType, ResourcesMatch, HeldAt, Holds, Down, States
<1> QED
  BY <1>1, Invariance, TypeCorrect, PTL

(* FrontendClose and a failed FrontendConnect revoke the ring's page while *)
(* the backend maps it only when the frontend has gone offline.            *)
THEOREM PageKept == Spec => PageOutlivesMapping
<1>1. IInv /\ [Next]_vars => [ring # "off" /\ ring' = "off" /\ mapped => ~online']_vars
  <2> SUFFICES ASSUME IInv, Next, ring # "off", ring' = "off", mapped
               PROVE  ~online'
    OBVIOUS
  <2> USE DEF IInv, Inside, CallType, HeldAt, Holds, Down, Unmapped, ownVars, Goes
  <2>1. CASE ConnectRing
    BY <2>1 DEF ConnectRing, ConnectFailed
  <2>2. CASE ConnectPublish
    BY <2>2 DEF ConnectPublish, ConnectFailed
  <2>3. CASE ConnectAct
    BY <2>3 DEF ConnectAct, ConnectFailed, SetOffline
  <2>4. CASE CloseEnd
    BY <2>4 DEF CloseEnd
  <2>5. CASE DecideStep
    BY <2>5 DEF DecideStep, Decide, Towards
  <2>6. CASE UNCHANGED ring
    BY <2>6
  <2>7. Next => \/ ConnectRing \/ ConnectPublish \/ ConnectAct \/ CloseEnd
                \/ DecideStep \/ UNCHANGED ring
    BY DEF Next, Call, SetState, Return, PrepareBegin, Wait, PrepareAct,
           PrepareWatch, CloseBegin, CloseLoop, CloseAct, EjectWait, EjectCheck,
           AbiAcquire, AbiRelease, Abi, AbiClear, AbiWakes, AbiWait, EjectHandled, Backend, BackendGoes, Toolstack,
           ToolstackOffline, ToolstackRemoves, ToolstackRestores
  <2> QED
    BY <2>1, <2>2, <2>3, <2>4, <2>5, <2>6, <2>7
<1> QED
  BY <1>1, Invariance, PTL DEF Spec, PageOutlivesMapping
=============================================================================
