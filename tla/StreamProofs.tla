---------------------------- MODULE StreamProofs ----------------------------
(***************************************************************************)
(* Proofs about module Stream, for any set of IRPs and any size of the     *)
(* console: its safety properties are invariants, from one inductive       *)
(* invariant, and it implements the abstract queue of module IrpQueue.     *)
(***************************************************************************)
EXTENDS Stream, SequenceFacts

(* The worker holds an IRP exactly while it decides what to do with it. *)
WorkerHolds == held # None <=> worker \in {"poll", "transfer", "reinsert"}

(* One reference for the owner until it has joined the thread, one for the *)
(* thread function until it has returned.                                  *)
ReferencesCounted ==
  /\ references = (IF worker = "terminated" THEN 0 ELSE 1)
                  + (IF destroy \in {"drain", "freed"} THEN 0 ELSE 1)
  /\ destroy \in {"drain", "freed"} => worker = "terminated"
  /\ destroy = "freed" => list = << >>

(* The event is registered while the worker can wait for it. *)
WakeupRegistered ==
  worker \notin {"start", "exit", "terminated"} => wakeup

(* The console can serve the IRP the worker transfers, unless another      *)
(* stream has been faster.                                                 *)
TransferReady == worker = "transfer" => Ready(held) \/ held \in overtaken

(* Only an IRP that has been submitted can have been cancelled. *)
CancelInPast == \A i \in cancel : status[i] # "idle"

(* What the worker knows on the two ways into a wait that leave something  *)
(* on the list: nothing was submitted before it started, or the IRP it     *)
(* puts back is still blocked, unless something will wake it.              *)
WaitJustified ==
  /\ worker = "start" /\ ~event => list = << >>
  /\ worker = "reinsert" /\ ~event /\ ~signal => ~Ready(held)

(* The part that says where everything is, and the whole. *)
Shape == TypeOK /\ WorkerHolds /\ ReferencesCounted /\ WakeupRegistered

IInv == /\ Shape
        /\ IrpAccounted
        /\ CancelNotParked
        /\ CancelInPast
        /\ TransferReady
        /\ WaitJustified
        /\ NoLostWakeup
        /\ Transferred

-----------------------------------------------------------------------------
(* Every step keeps the types, what the worker holds, the references and   *)
(* the registration of the event.                                          *)
LEMMA ShapeStep == Shape /\ [Next]_vars => Shape'
<1> SUFFICES ASSUME Shape, [Next]_vars PROVE Shape'
  OBVIOUS
<1> USE DEF Shape, TypeOK, WorkerHolds, ReferencesCounted, WakeupRegistered,
            irpVars, threadVars, consoleVars, WorkerStates, DestroyStates
<1>0. list \in Seq(Irps) /\ Len(list) \in Nat
  BY LenProperties
<1>1. ASSUME NEW i \in Irps, StreamPutQueue(i) PROVE Shape'
  <2>1. Append(list, i) \in Seq(Irps)
    BY <1>0
  <2> QED
    BY <1>1, <2>1 DEF StreamPutQueue, ThreadWake
<1>2. ASSUME NEW k \in 1 .. Len(list), CancelQueued(k) PROVE Shape'
  <2>1. list[k] \in Irps
    BY ElementOfSeq
  <2>2. list # << >>
    BY <1>0, EmptySeq
  <2>3. RemoveAt(list, k) \in Seq(Irps)
    BY RemoveAtElements
  <2> QED
    BY <1>2, <2>1, <2>2, <2>3 DEF CancelQueued
<1>3. CASE CancelHeld
  BY <1>3 DEF CancelHeld
<1>4. CASE WorkerStart
  BY <1>4 DEF WorkerStart, WorkerGoes
<1>5. CASE WorkerWait
  BY <1>5 DEF WorkerWait, WorkerGoes
<1>6. CASE WorkerClear
  BY <1>6 DEF WorkerClear, WorkerGoes
<1>7. CASE WorkerCheck
  BY <1>7 DEF WorkerCheck, WorkerGoes
<1>8. CASE WorkerRemove
  <2>1. Head(list) \in Irps /\ Tail(list) \in Seq(Irps)
    BY <1>8, TailElements DEF WorkerRemove
  <2>2. Head(list) # None
    BY <2>1, StreamAssumption DEF StreamAssumption
  <2> QED
    BY <1>8, <2>1, <2>2 DEF WorkerRemove, WorkerGoes
<1>9. CASE WorkerDrained
  BY <1>9 DEF WorkerDrained, WorkerGoes
<1>10. CASE WorkerPoll
  BY <1>10 DEF WorkerPoll, WorkerGoes
<1>11. CASE WorkerTransfer
  <2>1. held \in Irps
    BY <1>11 DEF WorkerTransfer, WorkerGoes
  <2>2. PICK n \in 0 .. Length[held] :
          /\ n <= Available(held)
          /\ information' = [information EXCEPT ![held] = n]
          /\ input'  = IF held \in Reads THEN input - n ELSE input
          /\ output' = IF held \in Reads THEN output ELSE output + n
    BY <1>11 DEF WorkerTransfer
  <2>3. input' \in 0 .. InSize /\ output' \in 0 .. OutSize /\ n \in Nat
    BY <2>1, <2>2, StreamAssumption DEF StreamAssumption, Available
  <2> QED
    BY <1>11, <2>1, <2>2, <2>3 DEF WorkerTransfer, WorkerGoes
<1>12. CASE WorkerReinsert
  <2>1. held \in Irps
    BY <1>12 DEF WorkerReinsert, WorkerGoes
  <2>2. <<held>> \o list \in Seq(Irps)
    BY <2>1, PrependElements
  <2> QED
    BY <1>12, <2>1, <2>2 DEF WorkerReinsert, WorkerGoes
<1>13. CASE WorkerLeave
  BY <1>13 DEF WorkerLeave, WorkerGoes
<1>14. CASE WorkerExit
  BY <1>14 DEF WorkerExit, WorkerGoes
<1>15. CASE DestroyAlert
  BY <1>15 DEF DestroyAlert, DestroyGoes
<1>16. CASE DestroyWake
  BY <1>16 DEF DestroyWake, DestroyGoes, ThreadWake
<1>17. CASE DestroyJoin
  BY <1>17 DEF DestroyJoin, DestroyGoes
<1>18. CASE DestroyDrain
  <2>1. Head(list) \in Irps /\ Tail(list) \in Seq(Irps)
    BY <1>18, TailElements DEF DestroyDrain
  <2> QED
    BY <1>18, <2>1 DEF DestroyDrain
<1>19. CASE DestroyFree
  BY <1>19 DEF DestroyFree, DestroyGoes
<1>20. CASE BackendSends
  BY <1>20, StreamAssumption DEF BackendSends, StreamAssumption
<1>21. CASE BackendTakes
  BY <1>21, StreamAssumption DEF BackendTakes, StreamAssumption
<1>22. CASE OtherStreams
  <2>1. overtaken' \subseteq Irps
    BY <1>22 DEF OtherStreams
  <2> QED
    BY <1>22, <2>1, StreamAssumption DEF OtherStreams, StreamAssumption
<1>23. CASE ConsoleSignal
  BY <1>23 DEF ConsoleSignal
<1>24. CASE UNCHANGED vars
  BY <1>24 DEF vars
<1> QED
  BY <1>1, <1>2, <1>3, <1>4, <1>5, <1>6, <1>7, <1>8, <1>9, <1>10, <1>11,
     <1>12, <1>13, <1>14, <1>15, <1>16, <1>17, <1>18, <1>19, <1>20, <1>21,
     <1>22, <1>23, <1>24
     DEF Next, IoManager, Worker, StreamDestroy, Environment

-----------------------------------------------------------------------------
(* Only these steps move an IRP: they are the ones that can disturb the    *)
(* accounting of IRPs.                                                     *)
IrpStep == \/ \E i \in Irps : StreamPutQueue(i)
           \/ \E k \in 1 .. Len(list) : CancelQueued(k)
           \/ WorkerRemove \/ WorkerTransfer \/ WorkerReinsert \/ DestroyDrain

(* No other step moves an IRP.                                             *)
LEMMA OtherSteps ==
  [Next]_vars => IrpStep \/ (list' = list /\ held' = held /\ status' = status)
<1> USE DEF irpVars, threadVars, consoleVars, vars
<1> QED
  BY DEF Next, IoManager, Worker, StreamDestroy, Environment, IrpStep,
         CancelHeld, WorkerStart, WorkerWait, WorkerClear, WorkerCheck,
         WorkerDrained, WorkerPoll, WorkerLeave, WorkerExit, DestroyAlert,
         DestroyWake, DestroyJoin, DestroyFree, BackendSends, BackendTakes,
         OtherStreams, ConsoleSignal

(* An IRP is pending in the stream exactly while the list or the worker    *)
(* holds it.                                                               *)
LEMMA AccountedStep ==
  Shape /\ IrpAccounted /\ [Next]_vars => IrpAccounted'
<1> SUFFICES ASSUME Shape, IrpAccounted, [Next]_vars PROVE IrpAccounted'
  OBVIOUS
<1> USE DEF IrpAccounted, ListDistinct, irpVars, threadVars, consoleVars
<1>0. /\ list \in Seq(Irps) /\ Len(list) \in Nat
      /\ status \in [Irps -> {"idle", "pending", "success", "cancelled"}]
      /\ held \in Irps \union {None}
      /\ None \notin Irps
      /\ \A j \in 1 .. Len(list) : list[j] \in Irps
  BY LenProperties, ElementOfSeq, StreamAssumption
     DEF Shape, TypeOK, StreamAssumption
<1>1. ASSUME NEW i \in Irps, StreamPutQueue(i) PROVE IrpAccounted'
  <2>1. /\ Len(list') = Len(list) + 1
        /\ list'[Len(list) + 1] = i
        /\ \A j \in 1 .. Len(list) : list'[j] = list[j]
    BY <1>0, <1>1, AppendProperties DEF StreamPutQueue
  <2>2. i # held /\ \A j \in 1 .. Len(list) : list[j] # i
    BY <1>0, <1>1 DEF StreamPutQueue
  <2>3. held' = held /\ status' = [status EXCEPT ![i] = "pending"]
    BY <1>1 DEF StreamPutQueue
  <2>4. ListDistinct'
    BY <1>0, <2>1, <2>2, <2>3, SMTT(30)
  <2>5. ASSUME NEW h \in Irps
        PROVE status'[h] = "pending"
                <=> h = held' \/ \E j \in 1 .. Len(list') : list'[j] = h
    <3>1. (\E j \in 1 .. Len(list') : list'[j] = h)
            <=> h = i \/ \E j \in 1 .. Len(list) : list[j] = h
      BY <1>0, <2>1
    <3> QED
      BY <1>0, <2>3, <3>1
  <2> QED
    BY <2>4, <2>5
<1>2. ASSUME NEW k \in 1 .. Len(list), CancelQueued(k) PROVE IrpAccounted'
  <2>1. /\ Len(list') = Len(list) - 1
        /\ \A j \in 1 .. Len(list) - 1 :
             list'[j] = IF j < k THEN list[j] ELSE list[j + 1]
    <3>1. list' = RemoveAt(list, k)
      BY <1>2 DEF CancelQueued
    <3> QED
      BY <1>0, <3>1, RemoveAtElements, SMTT(30)
  <2>2. held' = held /\ status' = [status EXCEPT ![list[k]] = "cancelled"]
    BY <1>2 DEF CancelQueued
  <2>3. ListDistinct'
    <3> DEFINE From(j) == IF j < k THEN j ELSE j + 1
    <3>1. ASSUME NEW j \in 1 .. Len(list')
          PROVE  From(j) \in 1 .. Len(list) /\ list'[j] = list[From(j)]
      BY <1>0, <2>1
    <3>2. ASSUME NEW j \in 1 .. Len(list'), NEW l \in 1 .. Len(list'),
                 list'[j] = list'[l]
          PROVE  j = l
      <4>1. From(j) \in 1 .. Len(list) /\ From(l) \in 1 .. Len(list)
        BY <3>1
      <4>2. list[From(j)] = list[From(l)]
        BY <3>1, <3>2
      <4>3. From(j) = From(l)
        <5> HIDE DEF From
        <5> QED
          BY <4>1, <4>2
      <4> QED
        BY <4>3
    <3>3. ASSUME NEW j \in 1 .. Len(list') PROVE list'[j] # held'
      BY <2>2, <3>1
    <3> QED
      BY <3>2, <3>3
  <2>4. ASSUME NEW h \in Irps
        PROVE status'[h] = "pending"
                <=> h = held' \/ \E j \in 1 .. Len(list') : list'[j] = h
    <3>1. (\E j \in 1 .. Len(list') : list'[j] = h)
            <=> h # list[k] /\ \E j \in 1 .. Len(list) : list[j] = h
      <4>1. ASSUME NEW j \in 1 .. Len(list), list[j] = h, h # list[k]
            PROVE  \E l \in 1 .. Len(list') : list'[l] = h
        <5>1. CASE j < k
          BY <1>0, <2>1, <4>1, <5>1
        <5>2. CASE j > k
          <6>1. j - 1 \in 1 .. Len(list') /\ list'[j - 1] = list[j]
            BY <1>0, <2>1, <5>2
          <6> QED
            BY <4>1, <6>1
        <5> QED
          BY <4>1, <5>1, <5>2
      <4>2. ASSUME NEW l \in 1 .. Len(list'), list'[l] = h
            PROVE  h # list[k] /\ \E j \in 1 .. Len(list) : list[j] = h
        BY <1>0, <2>1, <4>2
      <4> QED
        BY <4>1, <4>2
    <3> QED
      BY <1>0, <2>2, <3>1
  <2> QED
    BY <2>3, <2>4
<1>3. CASE WorkerRemove
  <2>1. /\ list # << >> /\ held' = Head(list) /\ list' = Tail(list)
        /\ status' = status
        /\ held = None
    BY <1>3 DEF WorkerRemove, WorkerGoes, Shape, WorkerHolds
  <2>2. /\ Len(list) >= 1 /\ held' = list[1] /\ Len(list') = Len(list) - 1
        /\ \A j \in 1 .. Len(list) - 1 : list'[j] = list[j + 1]
    BY <1>0, <2>1, TailElements
  <2>3. ListDistinct'
    BY <1>0, <2>2, SMTT(30)
  <2>4. ASSUME NEW h \in Irps
        PROVE (\E j \in 1 .. Len(list) : list[j] = h)
                <=> h = held' \/ \E j \in 1 .. Len(list') : list'[j] = h
    <3>1. ASSUME NEW j \in 1 .. Len(list), list[j] = h
          PROVE  h = held' \/ \E l \in 1 .. Len(list') : list'[l] = h
      <4>1. CASE j = 1
        BY <2>2, <3>1, <4>1
      <4>2. CASE j # 1
        <5>1. j - 1 \in 1 .. Len(list') /\ list'[j - 1] = list[j]
          BY <1>0, <2>2, <4>2
        <5> QED
          BY <3>1, <5>1
      <4> QED
        BY <4>1, <4>2
    <3>2. ASSUME NEW l \in 1 .. Len(list'), list'[l] = h
          PROVE  \E j \in 1 .. Len(list) : list[j] = h
      <4>1. l + 1 \in 1 .. Len(list) /\ list[l + 1] = h
        BY <1>0, <2>2, <3>2
      <4> QED
        BY <4>1
    <3>3. 1 \in 1 .. Len(list) /\ list[1] = held'
      BY <1>0, <2>2
    <3> QED
      BY <3>1, <3>2, <3>3
  <2> QED
    BY <1>0, <2>1, <2>3, <2>4
<1>4. CASE WorkerTransfer
  <2>1. /\ list' = list /\ held' = None /\ held \in Irps
        /\ status' = [status EXCEPT ![held] = "success"]
    BY <1>4 DEF WorkerTransfer, WorkerGoes, Shape, TypeOK, WorkerHolds
  <2> QED
    BY <1>0, <2>1
<1>5. CASE WorkerReinsert
  <2>1. held' = None /\ held \in Irps
    BY <1>5 DEF WorkerReinsert, WorkerGoes, Shape, TypeOK, WorkerHolds
  <2>2. CASE held \in cancel
    <3>1. list' = list /\ status' = [status EXCEPT ![held] = "cancelled"]
      BY <1>5, <2>2 DEF WorkerReinsert
    <3> QED
      BY <1>0, <2>1, <3>1
  <2>3. CASE held \notin cancel
    <3>1. status' = status /\ list' = <<held>> \o list
      BY <1>5, <2>3 DEF WorkerReinsert
    <3>2. /\ Len(list') = Len(list) + 1
          /\ list'[1] = held
          /\ \A j \in 2 .. Len(list) + 1 : list'[j] = list[j - 1]
      BY <1>0, <2>1, <3>1, PrependElements
    <3>3. ListDistinct'
      <4>1. ASSUME NEW j \in 1 .. Len(list')
            PROVE  \/ j = 1 /\ list'[j] = held
                   \/ j - 1 \in 1 .. Len(list) /\ list'[j] = list[j - 1]
        BY <1>0, <3>2
      <4>2. ASSUME NEW j \in 1 .. Len(list'), NEW l \in 1 .. Len(list'),
                   list'[j] = list'[l]
            PROVE  j = l
        <5>1. \A m \in 1 .. Len(list) : list[m] # held
          OBVIOUS
        <5>2. \A m, n \in 1 .. Len(list) : list[m] = list[n] => m = n
          OBVIOUS
        <5> QED
          BY <1>0, <4>1, <4>2, <5>1, <5>2, SMTT(30)
      <4>3. \A j \in 1 .. Len(list') : list'[j] # held'
        BY <1>0, <2>1, <4>1
      <4> QED
        BY <4>2, <4>3
    <3>4. ASSUME NEW h \in Irps
          PROVE (\E j \in 1 .. Len(list') : list'[j] = h)
                  <=> h = held \/ \E j \in 1 .. Len(list) : list[j] = h
      <4>1. ASSUME NEW j \in 1 .. Len(list)
            PROVE  j + 1 \in 1 .. Len(list') /\ list'[j + 1] = list[j]
        BY <1>0, <3>2
      <4>2. ASSUME NEW j \in 1 .. Len(list')
            PROVE  j = 1 \/ (j - 1 \in 1 .. Len(list) /\ list'[j] = list[j - 1])
        BY <1>0, <3>2
      <4>3. 1 \in 1 .. Len(list') /\ list'[1] = held
        BY <1>0, <3>2
      <4>4. ASSUME NEW j \in 1 .. Len(list'), list'[j] = h
            PROVE  h = held \/ \E l \in 1 .. Len(list) : list[l] = h
        BY <4>2, <4>3, <4>4
      <4>5. ASSUME NEW j \in 1 .. Len(list), list[j] = h
            PROVE  \E l \in 1 .. Len(list') : list'[l] = h
        BY <4>1, <4>5
      <4> QED
        BY <4>3, <4>4, <4>5
    <3> QED
      BY <1>0, <2>1, <3>1, <3>3, <3>4
  <2> QED
    BY <2>2, <2>3
<1>6. CASE DestroyDrain
  <2>1. /\ list # << >> /\ held' = held /\ list' = Tail(list)
        /\ status' = [status EXCEPT ![Head(list)] = "cancelled"]
    BY <1>6 DEF DestroyDrain
  <2>2. /\ Len(list) >= 1 /\ Head(list) = list[1] /\ Len(list') = Len(list) - 1
        /\ \A j \in 1 .. Len(list) - 1 : list'[j] = list[j + 1]
    BY <1>0, <2>1, TailElements
  <2>3. ListDistinct'
    BY <1>0, <2>1, <2>2
  <2>4. ASSUME NEW h \in Irps
        PROVE (\E j \in 1 .. Len(list') : list'[j] = h)
                <=> h # list[1] /\ \E j \in 1 .. Len(list) : list[j] = h
    <3>1. ASSUME NEW j \in 1 .. Len(list), list[j] = h, h # list[1]
          PROVE  \E l \in 1 .. Len(list') : list'[l] = h
      <4>1. j - 1 \in 1 .. Len(list') /\ list'[j - 1] = list[j]
        BY <1>0, <2>2, <3>1
      <4> QED
        BY <3>1, <4>1
    <3> QED
      BY <1>0, <2>2, <3>1
  <2> QED
    BY <1>0, <2>1, <2>2, <2>3, <2>4
<1>7. CASE list' = list /\ held' = held /\ status' = status
  BY <1>7
<1> QED
  BY <1>1, <1>2, <1>3, <1>4, <1>5, <1>6, <1>7, OtherSteps DEF IrpStep

-----------------------------------------------------------------------------
(* A cancelled IRP that the worker holds never returns to the list, and one *)
(* on the list leaves it when it is cancelled.                             *)
LEMMA CancelStep ==
  Shape /\ IrpAccounted /\ CancelNotParked /\ CancelInPast /\ [Next]_vars
    => CancelNotParked' /\ CancelInPast'
<1> SUFFICES ASSUME Shape, IrpAccounted, CancelNotParked, CancelInPast,
                    [Next]_vars
             PROVE  CancelNotParked' /\ CancelInPast'
  OBVIOUS
<1> USE DEF CancelNotParked, CancelInPast, irpVars, threadVars, consoleVars
<1>0. /\ list \in Seq(Irps) /\ Len(list) \in Nat
      /\ status \in [Irps -> {"idle", "pending", "success", "cancelled"}]
      /\ \A j \in 1 .. Len(list) : list[j] \in Irps
      /\ cancel \subseteq Irps
  BY LenProperties, ElementOfSeq DEF Shape, TypeOK
<1>1. ASSUME NEW i \in Irps, StreamPutQueue(i)
      PROVE  CancelNotParked' /\ CancelInPast'
  <2>1. /\ Len(list') = Len(list) + 1
        /\ list'[Len(list) + 1] = i
        /\ \A j \in 1 .. Len(list) : list'[j] = list[j]
    BY <1>0, <1>1, AppendProperties DEF StreamPutQueue
  <2>2. /\ i \notin cancel /\ cancel' = cancel
        /\ status' = [status EXCEPT ![i] = "pending"]
    BY <1>1 DEF StreamPutQueue
  <2> QED
    BY <1>0, <2>1, <2>2
<1>2. ASSUME NEW k \in 1 .. Len(list), CancelQueued(k)
      PROVE  CancelNotParked' /\ CancelInPast'
  <2>1. /\ Len(list') = Len(list) - 1
        /\ \A j \in 1 .. Len(list) - 1 :
             list'[j] = IF j < k THEN list[j] ELSE list[j + 1]
    <3>1. list' = RemoveAt(list, k)
      BY <1>2 DEF CancelQueued
    <3> QED
      BY <1>0, <3>1, RemoveAtElements
  <2>2. /\ cancel' = cancel \union {list[k]}
        /\ status' = [status EXCEPT ![list[k]] = "cancelled"]
    BY <1>2 DEF CancelQueued
  <2>3. \A j \in 1 .. Len(list') : list'[j] # list[k]
    BY <1>0, <2>1 DEF IrpAccounted, ListDistinct
  <2>4. \A j \in 1 .. Len(list') : list'[j] \notin cancel
    BY <1>0, <2>1
  <2> QED
    BY <1>0, <2>2, <2>3, <2>4
<1>3. CASE CancelHeld
  <2>1. /\ cancel' = cancel \union {held} /\ list' = list /\ status' = status
        /\ held \in Irps
    BY <1>3 DEF CancelHeld, Shape, TypeOK
  <2>2. status[held] = "pending" /\ \A j \in 1 .. Len(list) : list[j] # held
    BY <2>1 DEF IrpAccounted, ListDistinct
  <2> QED
    BY <1>0, <2>1, <2>2
<1>4. CASE WorkerRemove
  <2>1. list # << >> /\ list' = Tail(list) /\ cancel' = cancel /\ status' = status
    BY <1>4 DEF WorkerRemove
  <2>2. /\ Len(list') = Len(list) - 1
        /\ \A j \in 1 .. Len(list) - 1 : list'[j] = list[j + 1]
    BY <1>0, <2>1, TailElements
  <2> QED
    BY <1>0, <2>1, <2>2
<1>5. CASE WorkerTransfer
  BY <1>0, <1>5 DEF WorkerTransfer
<1>6. CASE WorkerReinsert
  <2>1. cancel' = cancel
    BY <1>6 DEF WorkerReinsert
  <2>2. CASE held \in cancel
    BY <1>0, <1>6, <2>1, <2>2 DEF WorkerReinsert
  <2>3. CASE held \notin cancel
    <3>1. held \in Irps
      BY <1>6 DEF WorkerReinsert, WorkerGoes, Shape, TypeOK, WorkerHolds
    <3>2. list' = <<held>> \o list /\ status' = status
      BY <1>6, <2>3 DEF WorkerReinsert
    <3>3. /\ Len(list') = Len(list) + 1 /\ list'[1] = held
          /\ \A j \in 2 .. Len(list) + 1 : list'[j] = list[j - 1]
      BY <1>0, <3>1, <3>2, PrependElements
    <3> QED
      BY <1>0, <2>1, <2>3, <3>2, <3>3
  <2> QED
    BY <2>2, <2>3
<1>7. CASE DestroyDrain
  <2>1. /\ list # << >> /\ list' = Tail(list) /\ cancel' = cancel
        /\ status' = [status EXCEPT ![Head(list)] = "cancelled"]
    BY <1>7 DEF DestroyDrain
  <2>2. /\ Len(list') = Len(list) - 1
        /\ \A j \in 1 .. Len(list) - 1 : list'[j] = list[j + 1]
    BY <1>0, <2>1, TailElements
  <2> QED
    BY <1>0, <2>1, <2>2
<1>8. CASE /\ list' = list /\ status' = status /\ cancel' = cancel
  BY <1>8
<1> QED
  <2>1. [Next]_vars => IrpStep \/ CancelHeld
                         \/ (list' = list /\ status' = status /\ cancel' = cancel)
    BY DEF vars, Next, IoManager, Worker, StreamDestroy, Environment, IrpStep,
           WorkerStart, WorkerWait, WorkerClear, WorkerCheck, WorkerDrained,
           WorkerPoll, WorkerLeave, WorkerExit, DestroyAlert, DestroyWake,
           DestroyJoin, DestroyFree, BackendSends, BackendTakes, OtherStreams,
           ConsoleSignal
  <2> QED
    BY <1>1, <1>2, <1>3, <1>4, <1>5, <1>6, <1>7, <1>8, <2>1 DEF IrpStep

-----------------------------------------------------------------------------
(* What the console said when the worker asked still holds when the worker *)
(* transfers, and when it waits nothing it could serve has been forgotten. *)
LEMMA WaitStep ==
  (Shape /\ IrpAccounted /\ TransferReady /\ WaitJustified /\ NoLostWakeup
     /\ [Next]_vars)
    => TransferReady' /\ WaitJustified' /\ NoLostWakeup'
<1> SUFFICES ASSUME Shape, IrpAccounted, TransferReady, WaitJustified,
                    NoLostWakeup, [Next]_vars
             PROVE  TransferReady' /\ WaitJustified' /\ NoLostWakeup'
  OBVIOUS
<1> USE DEF TransferReady, WaitJustified, NoLostWakeup, Asleep, Ready,
            Available, irpVars, threadVars, consoleVars
<1>0. /\ list \in Seq(Irps)
      /\ input \in Nat /\ output \in Nat /\ OutSize \in Nat
      /\ Irps # {} \/ list = << >>
      /\ held # None => held \in Irps
  BY EmptySeq, HeadTailProperties, StreamAssumption
     DEF Shape, TypeOK, StreamAssumption
<1>1. ASSUME NEW i \in Irps, StreamPutQueue(i)
      PROVE  TransferReady' /\ WaitJustified' /\ NoLostWakeup'
  BY <1>1 DEF StreamPutQueue, ThreadWake
<1>2. ASSUME NEW k \in 1 .. Len(list), CancelQueued(k)
      PROVE  TransferReady' /\ WaitJustified' /\ NoLostWakeup'
  <2>1. /\ list' = RemoveAt(list, k)
        /\ cancel' = cancel \union {list[k]}
        /\ UNCHANGED <<held, overtaken, threadVars, consoleVars>>
    BY <1>2 DEF CancelQueued
  <2>2. /\ list # << >> /\ Head(list) = list[1]
        /\ list' \in Seq(Irps) /\ Len(list') = Len(list) - 1
        /\ \A j \in 1 .. Len(list) - 1 :
             list'[j] = IF j < k THEN list[j] ELSE list[j + 1]
    <3>1. list # << >>
      BY <1>0, EmptySeq
    <3> QED
      BY <1>0, <2>1, <3>1, RemoveAtElements, TailElements, SMTT(30)
  <2>3. list' # << >> => Head(list') = list'[1] /\ Len(list') \in Nat \ {0}
    BY <2>2, TailElements
  <2>4. ASSUME Asleep', list' # << >>, Ready(Head(list))'
        PROVE  \E i \in cancel' : ~SameFunction(i, Head(list'))
    <3>1. CASE k = 1
      <4>1. CASE Ready(Head(list))
        <5>1. PICK i \in cancel : ~SameFunction(i, Head(list))
          BY <2>1, <2>2, <2>4, <4>1
        <5>2. i \in cancel' /\ list[1] \in cancel'
          BY <2>1, <3>1
        <5> QED
          BY <2>2, <5>1, <5>2 DEF SameFunction
      <4>2. CASE ~Ready(Head(list))
        BY <2>1, <2>2, <2>4, <3>1, <4>2 DEF SameFunction
      <4> QED
        BY <4>1, <4>2
    <3>2. CASE k # 1
      <4>1. Head(list') = Head(list)
        BY <2>2, <2>3, <2>4, <3>2
      <4> QED
        BY <2>1, <2>2, <2>4, <4>1
    <3> QED
      BY <3>1, <3>2
  <2> QED
    BY <2>1, <2>2, <2>4
<1>3. CASE CancelHeld
  BY <1>3 DEF CancelHeld
<1>4. CASE WorkerStart
  BY <1>4 DEF WorkerStart, WorkerGoes
<1>5. CASE WorkerWait \/ WorkerClear \/ WorkerCheck \/ WorkerRemove
  BY <1>5 DEF WorkerWait, WorkerClear, WorkerCheck, WorkerRemove, WorkerGoes
<1>6. CASE WorkerDrained
  BY <1>6 DEF WorkerDrained, WorkerGoes
<1>7. CASE WorkerPoll
  BY <1>7 DEF WorkerPoll, WorkerGoes
<1>8. CASE WorkerTransfer
  BY <1>8 DEF WorkerTransfer, WorkerGoes
<1>9. CASE WorkerReinsert
  <2>1. /\ UNCHANGED <<cancel, event, signal, input, output>>
        /\ worker = "reinsert" /\ worker' = "wait" /\ held \in Irps
    BY <1>0, <1>9 DEF WorkerReinsert, WorkerGoes, Shape, WorkerHolds
  <2>2. ASSUME Asleep', list' # << >>, Ready(Head(list))'
        PROVE  \E i \in cancel' : ~SameFunction(i, Head(list'))
    <3>1. ~Ready(held)
      BY <2>1, <2>2
    <3>2. CASE held \in cancel
      BY <1>9, <2>1, <2>2, <3>1, <3>2 DEF WorkerReinsert, SameFunction
    <3>3. CASE held \notin cancel
      <4>1. Head(list') = held
        BY <1>0, <1>9, <2>1, <3>3, PrependElements DEF WorkerReinsert
      <4> QED
        BY <2>1, <2>2, <3>1, <4>1
    <3> QED
      BY <3>2, <3>3
  <2> QED
    BY <2>1, <2>2
<1>10. CASE WorkerLeave \/ WorkerExit
  BY <1>10 DEF WorkerLeave, WorkerExit, WorkerGoes
<1>11. CASE DestroyAlert \/ DestroyWake
  BY <1>11 DEF DestroyAlert, DestroyWake, DestroyGoes, ThreadWake
<1>12. CASE DestroyJoin \/ DestroyDrain \/ DestroyFree
  BY <1>12
     DEF DestroyJoin, DestroyDrain, DestroyFree, DestroyGoes, Shape,
         ReferencesCounted
<1>13. CASE BackendSends \/ BackendTakes
  BY <1>0, <1>13 DEF BackendSends, BackendTakes
<1>14. CASE OtherStreams
  BY <1>0, <1>14 DEF OtherStreams
<1>15. CASE ConsoleSignal
  BY <1>15 DEF ConsoleSignal, Shape, WakeupRegistered
<1>16. CASE UNCHANGED vars
  BY <1>16 DEF vars
<1> QED
  BY <1>1, <1>2, <1>3, <1>4, <1>5, <1>6, <1>7, <1>8, <1>9, <1>10, <1>11,
     <1>12, <1>13, <1>14, <1>15, <1>16
     DEF Next, IoManager, Worker, StreamDestroy, Environment

-----------------------------------------------------------------------------
(* A transfer moves no more than was asked for, and something if anything  *)
(* was and no other stream has been faster.                                *)
LEMMA TransferStep ==
  Shape /\ TransferReady /\ Transferred /\ [Next]_vars => Transferred'
<1> SUFFICES ASSUME Shape, TransferReady, Transferred, [Next]_vars
             PROVE  Transferred'
  OBVIOUS
<1> USE DEF Transferred, irpVars, threadVars, consoleVars
<1>0. /\ status \in [Irps -> {"idle", "pending", "success", "cancelled"}]
      /\ information \in [Irps -> Nat]
      /\ \A j \in 1 .. Len(list) : list[j] \in Irps
      /\ list # << >> => Head(list) \in Irps
      /\ \A i \in Irps : Length[i] \in Nat
  BY ElementOfSeq, TailElements, StreamAssumption
     DEF Shape, TypeOK, StreamAssumption
<1>1. CASE WorkerTransfer
  <2>1. worker = "transfer" /\ held \in Irps /\ overtaken' = overtaken
    BY <1>1 DEF WorkerTransfer, WorkerGoes, Shape, TypeOK, WorkerHolds
  <2>2. PICK n \in 0 .. Length[held] :
          /\ n = 0 => ~Ready(held) \/ Length[held] = 0
          /\ information' = [information EXCEPT ![held] = n]
    BY <1>1 DEF WorkerTransfer
  <2>3. status' = [status EXCEPT ![held] = "success"]
    BY <1>1 DEF WorkerTransfer
  <2> QED
    BY <1>0, <2>1, <2>2, <2>3 DEF TransferReady
<1>2. ASSUME NEW i \in Irps, StreamPutQueue(i) PROVE Transferred'
  BY <1>0, <1>2 DEF StreamPutQueue
<1>3. ASSUME NEW k \in 1 .. Len(list), CancelQueued(k) PROVE Transferred'
  BY <1>0, <1>3 DEF CancelQueued
<1>4. CASE WorkerReinsert
  BY <1>0, <1>4 DEF WorkerReinsert, WorkerGoes, Shape, TypeOK, WorkerHolds
<1>5. CASE DestroyDrain
  BY <1>0, <1>5 DEF DestroyDrain
<1>6. CASE UNCHANGED <<status, information>> /\ overtaken \subseteq overtaken'
  BY <1>6
<1> QED
  <2>1. [Next]_vars => \/ IrpStep
                       \/ /\ UNCHANGED <<status, information>>
                          /\ overtaken \subseteq overtaken'
    BY DEF vars, Next, IoManager, Worker, StreamDestroy, Environment, IrpStep,
           CancelHeld, WorkerStart, WorkerWait, WorkerClear, WorkerCheck,
           WorkerDrained, WorkerPoll, WorkerLeave, WorkerExit, DestroyAlert,
           DestroyWake, DestroyJoin, DestroyFree, BackendSends, BackendTakes,
           OtherStreams, ConsoleSignal
  <2>2. WorkerRemove => /\ UNCHANGED <<status, information>>
                        /\ overtaken \subseteq overtaken'
    BY DEF WorkerRemove
  <2> QED
    BY <1>1, <1>2, <1>3, <1>4, <1>5, <1>6, <2>1, <2>2 DEF IrpStep

-----------------------------------------------------------------------------
(* The inductive invariant: what the initial states satisfy and every step *)
(* keeps.                                                                  *)
THEOREM InductiveInvariant == Spec => []IInv
<1>1. Init => IInv
  <2> SUFFICES ASSUME Init PROVE IInv
    OBVIOUS
  <2>1. Shape
    <3>1. list \in Seq(Irps)
      BY EmptySeq DEF Init
    <3>2. InSize \in Nat /\ OutSize \in Nat
      BY StreamAssumption DEF StreamAssumption
    <3>3. /\ status \in [Irps -> {"idle", "pending", "success", "cancelled"}]
          /\ information \in [Irps -> Nat]
      BY DEF Init
    <3>4. /\ event \in BOOLEAN /\ alerted \in BOOLEAN /\ wakeup \in BOOLEAN
          /\ signal \in BOOLEAN /\ shared \in BOOLEAN
      BY DEF Init
    <3>5. /\ held \in Irps \union {None} /\ cancel \subseteq Irps
          /\ overtaken \subseteq Irps
          /\ references \in 0 .. 2
          /\ input \in 0 .. InSize /\ output \in 0 .. OutSize
          /\ worker \in WorkerStates /\ destroy \in DestroyStates
      BY <3>2 DEF Init, WorkerStates, DestroyStates
    <3>6. TypeOK
      BY <3>1, <3>3, <3>4, <3>5, Zenon DEF TypeOK
    <3> QED
      BY <3>6 DEF Init, Shape, WorkerHolds, ReferencesCounted, WakeupRegistered
  <2>2. Len(list) = 0
    BY DEF Init
  <2>3. IrpAccounted /\ CancelNotParked /\ CancelInPast
    BY <2>2, StreamAssumption
       DEF Init, IrpAccounted, ListDistinct, CancelNotParked, CancelInPast,
           StreamAssumption
  <2>4. TransferReady /\ WaitJustified /\ NoLostWakeup /\ Transferred
    BY DEF Init, TransferReady, WaitJustified, NoLostWakeup, Transferred,
           Asleep
  <2> QED
    BY <2>1, <2>3, <2>4 DEF IInv
<1>2. IInv /\ [Next]_vars => IInv'
  BY ShapeStep, AccountedStep, CancelStep, WaitStep, TransferStep DEF IInv
<1> QED
  BY <1>1, <1>2, PTL DEF Spec

(* Type correctness, for any number of IRPs and any console. *)
THEOREM TypeCorrect == Spec => []TypeOK
<1>1. IInv => TypeOK
  BY DEF IInv, Shape
<1> QED
  BY <1>1, InductiveInvariant, PTL

(* No IRP is lost or completed twice by stream.c. *)
THEOREM IrpsAccounted == Spec => []IrpAccounted
<1>1. IInv => IrpAccounted
  BY DEF IInv
<1> QED
  BY <1>1, InductiveInvariant, PTL

(* A cancellation that meets the worker is not forgotten. *)
THEOREM CancelsNotParked == Spec => []CancelNotParked
<1>1. IInv => CancelNotParked
  BY DEF IInv
<1> QED
  BY <1>1, InductiveInvariant, PTL

(* The event protocol of the worker loses no wake-up. *)
THEOREM WakeupsNotLost == Spec => []NoLostWakeup
<1>1. IInv => NoLostWakeup
  BY DEF IInv
<1> QED
  BY <1>1, InductiveInvariant, PTL

(* Whatever the worker and the backend do, a request for something does    *)
(* not succeed with nothing; only another stream's overtaking makes one    *)
(* do so.                                                                  *)
THEOREM TransfersNotEmpty == Spec => []NoEmptyTransfer
<1>1. IInv => NoEmptyTransfer
  BY DEF IInv, Shape, NoEmptyTransfer
<1> QED
  BY <1>1, InductiveInvariant, PTL

(* StreamDestroy frees nothing that the worker or the I/O manager can      *)
(* still reach.                                                            *)
THEOREM FreedSafely == Spec => []NoUseAfterFree
<1>1. IInv => NoUseAfterFree
  <2> SUFFICES ASSUME IInv PROVE NoUseAfterFree
    OBVIOUS
  <2>1. destroy \in {"drain", "freed"} => worker = "terminated" /\ references = 0
    BY DEF IInv, Shape, ReferencesCounted
  <2>2. ASSUME destroy = "freed", NEW i \in Irps PROVE status[i] # "pending"
    <3>1. worker = "terminated" /\ list = << >>
      BY <2>2 DEF IInv, Shape, ReferencesCounted
    <3>2. held = None /\ Len(list) = 0
      BY <3>1 DEF IInv, Shape, WorkerHolds
    <3> QED
      BY <3>2, StreamAssumption DEF IInv, IrpAccounted, StreamAssumption
  <2> QED
    BY <2>1, <2>2 DEF NoUseAfterFree
<1> QED
  BY <1>1, InductiveInvariant, PTL

-----------------------------------------------------------------------------
(* The refinement.  The abstract queue's order is the IRP in the worker's  *)
(* hands, if any, followed by the list.                                    *)
LEMMA OrderType ==
  ASSUME Shape
  PROVE  /\ order \in Seq(Irps)
         /\ held = None => order = list
         /\ held # None => /\ order = <<held>> \o list
                           /\ order # << >>
                           /\ Head(order) = held
                           /\ Tail(order) = list
<1>0. list \in Seq(Irps) /\ held \in Irps \union {None}
  BY DEF Shape, TypeOK
<1>1. CASE held = None
  BY <1>0, <1>1, ConcatEmptySeq DEF order
<1>2. CASE held # None
  <2>1. held \in Irps
    BY <1>0, <1>2
  <2>2. order = <<held>> \o list
    BY <1>2 DEF order
  <2> QED
    BY <1>0, <1>2, <2>1, <2>2, PrependElements, EmptySeq
<1> QED
  BY <1>1, <1>2

(* Taking an IRP off the list while the worker holds another takes it out  *)
(* of the order one place further on.                                      *)
LEMMA RemoveBehindHead ==
  ASSUME NEW S, NEW s \in Seq(S), NEW e \in S, NEW k \in 1 .. Len(s)
  PROVE  /\ k + 1 \in 1 .. Len(<<e>> \o s)
         /\ (<<e>> \o s)[k + 1] = s[k]
         /\ RemoveAt(<<e>> \o s, k + 1) = <<e>> \o RemoveAt(s, k)
<1> DEFINE t == <<e>> \o s
           u == RemoveAt(t, k + 1)
           v == RemoveAt(s, k)
           w == <<e>> \o v
<1>1. /\ t \in Seq(S) /\ Len(t) = Len(s) + 1 /\ t[1] = e
      /\ \A j \in 2 .. Len(s) + 1 : t[j] = s[j - 1]
  BY PrependElements
<1>2. /\ v \in Seq(S) /\ Len(v) = Len(s) - 1
      /\ \A j \in 1 .. Len(s) - 1 : v[j] = IF j < k THEN s[j] ELSE s[j + 1]
  BY RemoveAtElements
<1> HIDE DEF t, v
<1>3. k + 1 \in 1 .. Len(t) /\ t[k + 1] = s[k] /\ Len(s) \in Nat /\ k \in Nat
  BY <1>1
<1>4. /\ u \in Seq(S) /\ Len(u) = Len(t) - 1
      /\ \A j \in 1 .. Len(t) - 1 : u[j] = IF j < k + 1 THEN t[j] ELSE t[j + 1]
  BY <1>1, <1>3, RemoveAtElements
<1>5. /\ w \in Seq(S) /\ Len(w) = Len(v) + 1 /\ w[1] = e
      /\ \A j \in 2 .. Len(v) + 1 : w[j] = v[j - 1]
  BY <1>2, PrependElements
<1> HIDE DEF u, w
<1>6. ASSUME NEW j \in 1 .. Len(u) PROVE u[j] = w[j]
  <2>1. j \in 1 .. Len(s) /\ j \in 1 .. Len(t) - 1 /\ j \in Nat
    BY <1>1, <1>3, <1>4
  <2>2. CASE j = 1
    BY <1>1, <1>3, <1>4, <1>5, <2>1, <2>2
  <2>3. CASE j # 1
    <3>1. /\ j - 1 \in 1 .. Len(s) - 1 /\ j \in 2 .. Len(s) + 1
          /\ j + 1 \in 2 .. Len(s) + 1 /\ (j - 1) + 1 = j /\ (j + 1) - 1 = j
      BY <1>3, <2>1, <2>3
    <3>2. w[j] = v[j - 1] /\ v[j - 1] = IF j - 1 < k THEN s[j - 1] ELSE s[j]
      BY <1>2, <1>3, <1>5, <3>1
    <3>3. t[j] = s[j - 1] /\ t[j + 1] = s[j]
      BY <1>1, <3>1
    <3>4. u[j] = IF j < k + 1 THEN t[j] ELSE t[j + 1]
      BY <1>4, <2>1
    <3> QED
      BY <1>3, <2>1, <3>2, <3>3, <3>4
  <2> QED
    BY <2>2, <2>3
<1>7. Len(u) = Len(w)
  BY <1>1, <1>2, <1>3, <1>4, <1>5
<1>8. u = w
  BY <1>4, <1>5, <1>6, <1>7, SeqEqual
<1> QED
  BY <1>3, <1>8 DEF t, u, v, w

(* Every step of the stream is a step of the abstract queue or leaves what *)
(* the queue shows as it was.                                              *)
LEMMA RefinementStep ==
  IInv /\ [Next]_vars => [Abstract!QNext]_(Abstract!qvars)
<1> SUFFICES ASSUME IInv, [Next]_vars
             PROVE  Abstract!QNext \/ UNCHANGED <<order, status, phase>>
  BY DEF Abstract!qvars
<1> USE DEF irpVars, threadVars, consoleVars
<1>0. /\ Shape
      /\ list \in Seq(Irps) /\ Len(list) \in Nat
      /\ \A j \in 1 .. Len(list) : list[j] \in Irps
      /\ order \in Seq(Irps)
      /\ held \in Irps \union {None} /\ None \notin Irps
  BY OrderType, LenProperties, ElementOfSeq, StreamAssumption
     DEF IInv, Shape, TypeOK, StreamAssumption
<1>a. /\ held = None => order = list
      /\ held # None => /\ order = <<held>> \o list
                        /\ order # << >>
                        /\ Head(order) = held
                        /\ Tail(order) = list
  BY <1>0, OrderType
<1>b. ASSUME list # << >> \/ held # None PROVE destroy # "freed"
  BY <1>0, <1>b DEF Shape, ReferencesCounted, WorkerHolds
<1>c. ASSUME held' = None, list' \in Seq(Irps) PROVE order' = list'
  BY <1>c, ConcatEmptySeq DEF order
<1>1. ASSUME NEW i \in Irps, StreamPutQueue(i) PROVE Abstract!QNext
  <2>1. /\ destroy \in {"none", "wake", "join"} /\ destroy' = destroy
        /\ held' = held
        /\ status[i] = "idle" /\ list' = Append(list, i)
        /\ status' = [status EXCEPT ![i] = "pending"]
    BY <1>1 DEF StreamPutQueue
  <2>2. order' = Append(order, i)
    <3>1. CASE held = None
      <4>1. Append(list, i) \in Seq(Irps)
        BY <1>0
      <4> QED
        BY <1>a, <1>c, <2>1, <3>1, <4>1
    <3>2. CASE held # None
      <4>1. order' = <<held>> \o (list \o <<i>>)
        BY <1>0, <2>1, <3>2, AppendIsConcat DEF order
      <4>2. <<held>> \o (list \o <<i>>) = (<<held>> \o list) \o <<i>>
        <5>1. <<held>> \in Seq(Irps) /\ <<i>> \in Seq(Irps)
          BY <1>0, <3>2
        <5> QED
          BY <1>0, <5>1, ConcatAssociative
      <4> QED
        BY <1>0, <1>a, <3>2, <4>1, <4>2, AppendIsConcat
    <3> QED
      BY <3>1, <3>2
  <2>3. Abstract!QSubmit(i)
    BY <2>1, <2>2 DEF Abstract!QSubmit, phase
  <2> QED
    BY <2>3 DEF Abstract!QNext
<1>2. ASSUME NEW k \in 1 .. Len(list), CancelQueued(k) PROVE Abstract!QNext
  <2>1. /\ destroy' = destroy /\ held' = held
        /\ list' = RemoveAt(list, k)
        /\ status' = [status EXCEPT ![list[k]] = "cancelled"]
    BY <1>2 DEF CancelQueued
  <2>2. destroy # "freed"
    <3>1. list # << >>
      BY <1>0, EmptySeq
    <3> QED
      BY <1>b, <3>1
  <2>3. \E m \in 1 .. Len(order) : order[m] = list[k] /\ order' = RemoveAt(order, m)
    <3>1. CASE held = None
      <4>1. RemoveAt(list, k) \in Seq(Irps)
        BY <1>0, RemoveAtElements
      <4> QED
        BY <1>a, <1>c, <2>1, <3>1, <4>1
    <3>2. CASE held # None
      <4>1. order' = <<held>> \o RemoveAt(list, k)
        BY <2>1, <3>2 DEF order
      <4>2. /\ k + 1 \in 1 .. Len(order) /\ order[k + 1] = list[k]
            /\ RemoveAt(order, k + 1) = <<held>> \o RemoveAt(list, k)
        <5>1. held \in Irps
          BY <1>0, <3>2
        <5>2. /\ k + 1 \in 1 .. Len(<<held>> \o list)
              /\ (<<held>> \o list)[k + 1] = list[k]
              /\ RemoveAt(<<held>> \o list, k + 1) = <<held>> \o RemoveAt(list, k)
          BY <1>0, <5>1, RemoveBehindHead
        <5>3. order = <<held>> \o list
          BY <1>a, <3>2
        <5> QED
          BY <5>2, <5>3
      <4> QED
        BY <4>1, <4>2
    <3> QED
      BY <3>1, <3>2
  <2>4. PICK m \in 1 .. Len(order) :
          order[m] = list[k] /\ order' = RemoveAt(order, m)
    BY <2>3
  <2>5. phase # "closed" /\ phase' = phase
    BY <2>1, <2>2 DEF phase
  <2>6. status' = [status EXCEPT ![order[m]] = "cancelled"]
    BY <2>1, <2>4
  <2>7. Abstract!QCancel(m)
    BY <2>4, <2>5, <2>6 DEF Abstract!QCancel, Abstract!RemoveAt, RemoveAt
  <2> QED
    BY <2>7 DEF Abstract!QNext
<1>3. CASE WorkerRemove
  <2>1. /\ held = None /\ held' = Head(list) /\ list' = Tail(list)
        /\ list # << >> /\ status' = status /\ destroy' = destroy
    BY <1>0, <1>3 DEF WorkerRemove, WorkerGoes, Shape, WorkerHolds
  <2>2. Head(list) \in Irps /\ <<Head(list)>> \o Tail(list) = list
    <3>1. Head(list) \in Irps /\ Tail(list) \in Seq(Irps)
      BY <1>0, <2>1, TailElements
    <3> QED
      BY <1>0, <2>1, <3>1
  <2>3. order' = order
    BY <1>0, <1>a, <2>1, <2>2 DEF order
  <2> QED
    BY <2>1, <2>3 DEF phase
<1>4. CASE WorkerTransfer
  <2>1. /\ held # None /\ held' = None /\ list' = list /\ destroy' = destroy
        /\ status' = [status EXCEPT ![held] = "success"]
    BY <1>0, <1>4 DEF WorkerTransfer, WorkerGoes, Shape, WorkerHolds
  <2>2. Abstract!QSucceed
    BY <1>0, <1>a, <1>b, <1>c, <2>1 DEF Abstract!QSucceed, phase
  <2> QED
    BY <2>2 DEF Abstract!QNext
<1>5. CASE WorkerReinsert
  <2>1. /\ held # None /\ held' = None /\ destroy' = destroy
    BY <1>0, <1>5 DEF WorkerReinsert, WorkerGoes, Shape, WorkerHolds
  <2>2. CASE held \in cancel
    <3>1. list' = list /\ status' = [status EXCEPT ![held] = "cancelled"]
      BY <1>5, <2>2 DEF WorkerReinsert
    <3>2. /\ 1 \in 1 .. Len(order) /\ order[1] = held
          /\ RemoveAt(order, 1) = list
      BY <1>0, <1>a, <2>1, RemoveFirstIsTail
    <3>3. order' = list
      BY <1>0, <1>c, <2>1, <3>1
    <3>4. phase # "closed" /\ phase' = phase
      BY <1>b, <2>1 DEF phase
    <3>5. status' = [status EXCEPT ![order[1]] = "cancelled"]
      BY <3>1, <3>2
    <3>6. Abstract!QCancel(1)
      BY <3>2, <3>3, <3>4, <3>5 DEF Abstract!QCancel, Abstract!RemoveAt, RemoveAt
    <3> QED
      BY <3>2, <3>6 DEF Abstract!QNext
  <2>3. CASE held \notin cancel
    <3>1. list' = <<held>> \o list /\ status' = status
      BY <1>5, <2>3 DEF WorkerReinsert
    <3>2. <<held>> \o list \in Seq(Irps)
      BY <1>0, <2>1, PrependElements
    <3> QED
      BY <1>a, <1>c, <2>1, <3>1, <3>2 DEF phase
  <2> QED
    BY <2>2, <2>3
<1>6. CASE DestroyDrain
  <2>1. /\ list # << >> /\ held' = held /\ list' = Tail(list)
        /\ status' = [status EXCEPT ![Head(list)] = "cancelled"]
        /\ destroy = "drain" /\ destroy' = destroy
    BY <1>6 DEF DestroyDrain
  <2>2. held = None
    BY <1>0, <2>1 DEF Shape, ReferencesCounted, WorkerHolds
  <2>3. /\ 1 \in 1 .. Len(list) /\ list[1] = Head(list)
        /\ RemoveAt(list, 1) = Tail(list) /\ Tail(list) \in Seq(Irps)
    BY <1>0, <2>1, RemoveFirstIsTail, TailElements
  <2>4. order = list /\ order' = Tail(list)
    BY <1>a, <1>c, <2>1, <2>2, <2>3
  <2>5. phase # "closed" /\ phase' = phase
    BY <2>1 DEF phase
  <2>6. status' = [status EXCEPT ![order[1]] = "cancelled"]
    BY <2>1, <2>3, <2>4
  <2>7. Abstract!QCancel(1)
    BY <2>3, <2>4, <2>5, <2>6 DEF Abstract!QCancel, Abstract!RemoveAt, RemoveAt
  <2> QED
    BY <2>3, <2>4, <2>7 DEF Abstract!QNext
<1>7. CASE DestroyAlert
  <2>1. /\ UNCHANGED <<list, held, status>>
        /\ destroy = "none" /\ destroy' = "wake"
    BY <1>7 DEF DestroyAlert, DestroyGoes
  <2>2. Abstract!QShut
    BY <2>1 DEF Abstract!QShut, phase, order
  <2> QED
    BY <2>2 DEF Abstract!QNext
<1>8. CASE DestroyFree
  <2>1. /\ UNCHANGED <<list, held, status>> /\ list = << >>
        /\ destroy = "drain" /\ destroy' = "freed"
    BY <1>8 DEF DestroyFree, DestroyGoes
  <2>2. held = None
    BY <1>0, <2>1 DEF Shape, ReferencesCounted, WorkerHolds
  <2>3. order = << >> /\ order' = order
    BY <1>a, <2>1, <2>2 DEF order
  <2>4. Abstract!QClose
    BY <2>1, <2>3 DEF Abstract!QClose, phase
  <2> QED
    BY <2>4 DEF Abstract!QNext
<1>9. CASE /\ UNCHANGED <<list, held, status>>
           /\ phase' = phase
  BY <1>9 DEF order
<1> QED
  <2>1. [Next]_vars => \/ IrpStep \/ DestroyAlert \/ DestroyFree
                       \/ UNCHANGED <<list, held, status>> /\ phase' = phase
    BY DEF vars, Next, IoManager, Worker, StreamDestroy, Environment, IrpStep,
           CancelHeld, WorkerStart, WorkerWait, WorkerClear, WorkerCheck,
           WorkerDrained, WorkerPoll, WorkerLeave, WorkerExit, DestroyWake,
           DestroyJoin, DestroyGoes, BackendSends, BackendTakes, OtherStreams,
           ConsoleSignal, phase
  <2> QED
    BY <1>1, <1>2, <1>3, <1>4, <1>5, <1>6, <1>7, <1>8, <1>9, <2>1 DEF IrpStep

(* A stream is an implementation of the queue of module IrpQueue: its      *)
(* clients see requests accepted, served oldest first, cancelled at most   *)
(* once, and none left when it is closed.                                  *)
THEOREM StreamRefinesIrpQueue == Spec => ImplementsIrpQueue
<1>1. Init => Abstract!QInit
  <2> SUFFICES ASSUME Init PROVE Abstract!QInit
    OBVIOUS
  <2>1. order = << >> /\ phase = "open"
    BY DEF Init, order, phase
  <2> QED
    BY <2>1 DEF Init, Abstract!QInit
<1>2. IInv /\ [Next]_vars => [Abstract!QNext]_(Abstract!qvars)
  BY RefinementStep
<1> QED
  BY <1>1, <1>2, InductiveInvariant, PTL
     DEF Spec, ImplementsIrpQueue, Abstract!QSpec
=============================================================================
