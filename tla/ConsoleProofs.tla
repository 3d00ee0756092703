---------------------------- MODULE ConsoleProofs ----------------------------
(***************************************************************************)
(* Proofs about module Console, for any files, any IRPs on them and any    *)
(* number of power-downs: until a handle is used after it was given up,    *)
(* what is on the console's list is alive, no IRP that was accepted is     *)
(* forgotten, and each stream is used as module IrpQueue lets it be used,  *)
(* from one inductive invariant.                                           *)
(***************************************************************************)
EXTENDS Console, SequenceFacts

(* A handle someone can still find: on the list, or awaiting its turn.     *)
On(f) == Contains(list, f) \/ Contains(swept, f)

(* A handle is on one list at most, once, from its insertion until someone *)
(* takes it off to destroy it.                                             *)
ListsKept ==
  /\ IsInjective(list) /\ IsInjective(swept)
  /\ \A f \in Files :
       /\ ~(Contains(list, f) /\ Contains(swept, f))
       /\ On(f) => /\ phase[f] = "open"
                   /\ f # popped
                   /\ file[f] \in {"open", "remove", "closed"}
       /\ f = popped => file[f] \notin {"new", "opening", "failed"}
       /\ file[f] = "new" => phase[f] = "none"
       /\ file[f] = "opening" => phase[f] = "open"

(* A handle has one destroyer at most, and none while it is on a list.     *)
UseKept ==
  \A f \in Files :
    /\ destroyers[f] \in {{}, {"close"}, {"power"}}
    /\ On(f) \/ file[f] \in {"new", "opening"} => destroyers[f] = {}

(* A stream owns IRPs of its own file. *)
OrdersKept == order \in [Files -> Seq(Irps)]
              /\ \A f \in Files : \A i \in Irps : Contains(order[f], i) => FileOf[i] = f

IInv == /\ TypeOK /\ OrdersKept /\ NoLostIrp
        /\ ~ruined => ListsKept /\ UseKept

-----------------------------------------------------------------------------
(* Nothing is open at first. *)
LEMMA IInvInit == Init => IInv
<1> SUFFICES ASSUME Init PROVE IInv
  OBVIOUS
<1>1. /\ << >> \in Seq(Files) /\ << >> \in Seq(Irps)
      /\ \A x : ~Contains(<< >>, x)
      /\ IsInjective(<< >>)
  BY EmptyMembers
<1> QED
  <2> USE <1>1, ConsoleAssumption DEF Init
  <2>1. TypeOK
    <3>1. list \in Seq(Files) /\ swept \in Seq(Files)
      OBVIOUS
    <3>2. order \in [Files -> Seq(Irps)]
      OBVIOUS
    <3>3. file \in [Files -> {"new", "failed", "opening", "open", "remove",
                           "destroy", "closed"}]
      OBVIOUS
    <3>6. /\ phase \in [Files -> {"none", "allocated", "open", "closing",
                               "drained", "closed"}]
          /\ status \in [Irps -> {"idle", "found", "pending", "failed",
                               "success", "cancelled"}]
      OBVIOUS
    <3>4. destroyers \in [Files -> SUBSET {"close", "power"}]
      OBVIOUS
    <3>5. ruined \in BOOLEAN
      OBVIOUS
    <3>7. MaxSleeps \in Nat /\ sleeps = 0
      BY DEF ConsoleAssumption
    <3>8. sleeps \in 0 .. MaxSleeps
      BY ONLY <3>7
    <3> QED
      BY <3>1, <3>2, <3>3, <3>4, <3>5, <3>6, <3>8 DEF TypeOK
  <2>2. ListsKept /\ UseKept
    BY DEF ListsKept, UseKept, On
  <2>3. OrdersKept /\ NoLostIrp
    BY DEF OrdersKept, NoLostIrp
  <2> QED
    BY <2>1, <2>2, <2>3 DEF IInv

(* Every step that changes something keeps the invariant. *)
LEMMA IInvNext == IInv /\ Next => IInv'
<1> SUFFICES ASSUME IInv, Next PROVE IInv'
  OBVIOUS
<1> ~ruined /\ ListsKept /\ UseKept
  BY DEF IInv, Next
<1> USE ConsoleAssumption DEF IInv, TypeOK, handleVars, irpVars, powerVars
<1>0. /\ \A x : ~Contains(<< >>, x)
      /\ IsInjective(<< >>) /\ << >> \in Seq(Files) /\ << >> \in Seq(Irps)
  BY EmptyMembers
<1>1. ASSUME NEW f \in Files, OpenNoMemory(f) PROVE IInv'
  <2>1. TypeOK'
    BY <1>0, <1>1 DEF OpenNoMemory
  <2>2. ~ruined' => ListsKept'
    BY <1>0, <1>1 DEF OpenNoMemory, ListsKept, On
  <2>3. ~ruined' => UseKept'
    BY <1>0, <1>1 DEF OpenNoMemory, UseKept, On, ListsKept
  <2>4. OrdersKept'
    BY <1>0, <1>1 DEF OpenNoMemory, OrdersKept
  <2>5. NoLostIrp'
    BY <1>0, <1>1 DEF OpenNoMemory, NoLostIrp, On, UseKept, ListsKept, IrpsOf
  <2> QED
    BY <2>1, <2>2, <2>3, <2>4, <2>5
<1>2. ASSUME NEW f \in Files, OpenNoStream(f) PROVE IInv'
  <2>1. TypeOK'
    BY <1>0, <1>2 DEF OpenNoStream
  <2>2. ~ruined' => ListsKept'
    BY <1>0, <1>2 DEF OpenNoStream, ListsKept, On
  <2>3. ~ruined' => UseKept'
    BY <1>0, <1>2 DEF OpenNoStream, UseKept, On, ListsKept
  <2>4. OrdersKept'
    BY <1>0, <1>2 DEF OpenNoStream, OrdersKept
  <2>5. NoLostIrp'
    BY <1>0, <1>2 DEF OpenNoStream, NoLostIrp, On, UseKept, ListsKept, IrpsOf
  <2> QED
    BY <2>1, <2>2, <2>3, <2>4, <2>5
<1>3. ASSUME NEW f \in Files, OpenCreate(f) PROVE IInv'
  <2>1. TypeOK'
    BY <1>0, <1>3 DEF OpenCreate
  <2>2. ~ruined' => ListsKept'
    BY <1>0, <1>3 DEF OpenCreate, ListsKept, On
  <2>3. ~ruined' => UseKept'
    BY <1>0, <1>3 DEF OpenCreate, UseKept, On, ListsKept
  <2>4. OrdersKept'
    BY <1>0, <1>3 DEF OpenCreate, OrdersKept
  <2>5. NoLostIrp'
    BY <1>0, <1>3 DEF OpenCreate, NoLostIrp, On, UseKept, ListsKept, IrpsOf
  <2> QED
    BY <2>1, <2>2, <2>3, <2>4, <2>5
<1>4. ASSUME NEW f \in Files, OpenInsert(f) PROVE IInv'
  <2>a. /\ ~Contains(list, f) /\ ~Contains(swept, f)
    BY <1>4 DEF OpenInsert, ListsKept, On
  <2>b. /\ Append(list, f) \in Seq(Files)
        /\ \A x : Contains(Append(list, f), x) <=> Contains(list, x) \/ x = f
        /\ IsInjective(list) => IsInjective(Append(list, f))
    BY <2>a, AppendMembers
  <2>1. TypeOK'
    BY <1>0, <1>4, <2>a, <2>b DEF OpenInsert
  <2>2. ~ruined' => ListsKept'
    BY <1>0, <1>4, <2>a, <2>b DEF OpenInsert, ListsKept, On
  <2>3. ~ruined' => UseKept'
    BY <1>0, <1>4, <2>a, <2>b DEF OpenInsert, UseKept, On, ListsKept
  <2>4. OrdersKept'
    BY <1>0, <1>4, <2>a, <2>b DEF OpenInsert, OrdersKept
  <2>5. NoLostIrp'
    BY <1>0, <1>4, <2>a, <2>b
       DEF OpenInsert, NoLostIrp, On, UseKept, ListsKept, IrpsOf
  <2> QED
    BY <2>1, <2>2, <2>3, <2>4, <2>5
<1>5. ASSUME NEW i \in Irps, ReadWriteFind(i) PROVE IInv'
  <2>1. TypeOK'
    BY <1>0, <1>5 DEF ReadWriteFind, Listed
  <2>2. ~ruined' => ListsKept'
    BY <1>0, <1>5 DEF ReadWriteFind, Listed, ListsKept, On
  <2>3. ~ruined' => UseKept'
    BY <1>0, <1>5 DEF ReadWriteFind, Listed, UseKept, On, ListsKept
  <2>4. OrdersKept'
    BY <1>0, <1>5 DEF ReadWriteFind, Listed, OrdersKept
  <2>5. NoLostIrp'
    BY <1>0, <1>5 DEF ReadWriteFind, Listed, NoLostIrp, On, UseKept, ListsKept, IrpsOf
  <2> QED
    BY <2>1, <2>2, <2>3, <2>4, <2>5
<1>6. ASSUME NEW i \in Irps, ReadWritePut(i) PROVE IInv'
  <2>a. FileOf[i] \in Files /\ order[FileOf[i]] \in Seq(Irps)
    OBVIOUS
  <2>b. /\ Append(order[FileOf[i]], i) \in Seq(Irps)
        /\ \A x : Contains(Append(order[FileOf[i]], i), x)
                   <=> Contains(order[FileOf[i]], x) \/ x = i
    BY <2>a, AppendMembers
  <2>c. /\ status' = [status EXCEPT ![i] = "pending"]
        /\ UNCHANGED <<list, file, phase, destroyers, swept, popped, power, sleeps>>
    BY <1>6 DEF ReadWritePut
  <2>d. CASE /\ phase[FileOf[i]] \in {"open", "closing"}
             /\ order' = [order EXCEPT ![FileOf[i]] = Append(@, i)]
             /\ ruined' = ruined
    <3>0. order' \in [Files -> Seq(Irps)]
      BY <2>a, <2>b, <2>d
    <3>1. TypeOK'
      BY <1>0, <3>0, <2>c, <2>d
    <3>2. ~ruined' => ListsKept'
      BY <1>0, <2>c, <2>d DEF ListsKept, On
    <3>3. ~ruined' => UseKept'
      BY <1>0, <2>c, <2>d DEF UseKept, On, ListsKept
    <3>4. OrdersKept'
      BY <1>0, <3>0, <2>a, <2>b, <2>d DEF OrdersKept
    <3>5. NoLostIrp'
      BY <1>0, <2>a, <2>b, <2>c, <2>d
         DEF NoLostIrp, On, UseKept, ListsKept, IrpsOf
    <3> QED
      BY <3>1, <3>2, <3>3, <3>4, <3>5
  <2>e. CASE order' = order /\ ruined' = TRUE
    <3>1. TypeOK'
      BY <1>0, <2>c, <2>e
    <3>2. OrdersKept'
      BY <1>0, <2>e DEF OrdersKept
    <3>3. NoLostIrp'
      BY <2>e DEF NoLostIrp
    <3> QED
      BY <3>1, <3>2, <3>3, <2>e
  <2> QED
    BY <1>6, <2>d, <2>e DEF ReadWritePut
<1>7. ASSUME NEW f \in Files, StreamSucceed(f) PROVE IInv'
  <2>a. order[f] \in Seq(Irps) /\ order[f] # << >>
    BY <1>7 DEF StreamSucceed
  <2>b. /\ Tail(order[f]) \in Seq(Irps) /\ Head(order[f]) \in Irps
        /\ \A x : /\ Contains(Tail(order[f]), x) => Contains(order[f], x)
                  /\ Contains(order[f], x) /\ x # Head(order[f])
                       => Contains(Tail(order[f]), x)
    BY <2>a, TailMembers
  <2>1. TypeOK'
    BY <1>0, <1>7, <2>a, <2>b DEF StreamSucceed
  <2>2. ~ruined' => ListsKept'
    BY <1>0, <1>7, <2>a, <2>b DEF StreamSucceed, ListsKept, On
  <2>3. ~ruined' => UseKept'
    BY <1>0, <1>7, <2>a, <2>b DEF StreamSucceed, UseKept, On, ListsKept
  <2>4. OrdersKept'
    BY <1>0, <1>7, <2>a, <2>b DEF StreamSucceed, OrdersKept
  <2>5. NoLostIrp'
    BY <1>0, <1>7, <2>a, <2>b
       DEF StreamSucceed, NoLostIrp, On, UseKept, ListsKept, IrpsOf
  <2> QED
    BY <2>1, <2>2, <2>3, <2>4, <2>5
<1>8. ASSUME NEW f \in Files, NEW k \in 1 .. Len(order[f]), StreamCancel(f, k) PROVE IInv'
  <2>a. order[f] \in Seq(Irps)
    OBVIOUS
  <2>b. /\ RemoveAt(order[f], k) \in Seq(Irps) /\ order[f][k] \in Irps
        /\ \A x : /\ Contains(RemoveAt(order[f], k), x) => Contains(order[f], x)
                  /\ Contains(order[f], x) /\ x # order[f][k]
                       => Contains(RemoveAt(order[f], k), x)
    BY <2>a, RemoveAtMembers
  <2>1. TypeOK'
    BY <1>0, <1>8, <2>a, <2>b DEF StreamCancel
  <2>2. ~ruined' => ListsKept'
    BY <1>0, <1>8, <2>a, <2>b DEF StreamCancel, ListsKept, On
  <2>3. ~ruined' => UseKept'
    BY <1>0, <1>8, <2>a, <2>b DEF StreamCancel, UseKept, On, ListsKept
  <2>4. OrdersKept'
    BY <1>0, <1>8, <2>a, <2>b DEF StreamCancel, OrdersKept
  <2>5. NoLostIrp'
    BY <1>0, <1>8, <2>a, <2>b
       DEF StreamCancel, NoLostIrp, On, UseKept, ListsKept, IrpsOf
  <2> QED
    BY <2>1, <2>2, <2>3, <2>4, <2>5
<1>9. ASSUME NEW f \in Files, StreamDrained(f) PROVE IInv'
  <2>1. TypeOK'
    BY <1>0, <1>9 DEF StreamDrained
  <2>2. ~ruined' => ListsKept'
    BY <1>0, <1>9 DEF StreamDrained, ListsKept, On
  <2>3. ~ruined' => UseKept'
    BY <1>0, <1>9 DEF StreamDrained, UseKept, On, ListsKept
  <2>4. OrdersKept'
    BY <1>0, <1>9 DEF StreamDrained, OrdersKept
  <2>5. NoLostIrp'
    BY <1>0, <1>9 DEF StreamDrained, NoLostIrp, On, UseKept, ListsKept, IrpsOf
  <2> QED
    BY <2>1, <2>2, <2>3, <2>4, <2>5
<1>10. ASSUME NEW f \in Files, StreamFree(f) PROVE IInv'
  <2>1. TypeOK'
    BY <1>0, <1>10 DEF StreamFree
  <2>2. ~ruined' => ListsKept'
    BY <1>0, <1>10 DEF StreamFree, ListsKept, On
  <2>3. ~ruined' => UseKept'
    BY <1>0, <1>10 DEF StreamFree, UseKept, On, ListsKept
  <2>4. OrdersKept'
    BY <1>0, <1>10 DEF StreamFree, OrdersKept
  <2>5. NoLostIrp'
    BY <1>0, <1>10 DEF StreamFree, NoLostIrp, On, UseKept, ListsKept, IrpsOf
  <2> QED
    BY <2>1, <2>2, <2>3, <2>4, <2>5
<1>11. ASSUME NEW f \in Files, CloseFind(f) PROVE IInv'
  <2>1. TypeOK'
    BY <1>0, <1>11 DEF CloseFind, Listed, IrpsOf
  <2>2. ~ruined' => ListsKept'
    BY <1>0, <1>11 DEF CloseFind, Listed, IrpsOf, ListsKept, On
  <2>3. ~ruined' => UseKept'
    BY <1>0, <1>11 DEF CloseFind, Listed, IrpsOf, UseKept, On, ListsKept
  <2>4. OrdersKept'
    BY <1>0, <1>11 DEF CloseFind, Listed, IrpsOf, OrdersKept
  <2>5. NoLostIrp'
    BY <1>0, <1>11
       DEF CloseFind, Listed, IrpsOf, NoLostIrp, On, UseKept, ListsKept, IrpsOf
  <2> QED
    BY <2>1, <2>2, <2>3, <2>4, <2>5
<1>12. ASSUME NEW f \in Files, CloseRemove(f) PROVE IInv'
  <2>b. ASSUME NEW s \in Seq(Files)
        PROVE  /\ RemoveFirst(s, f) \in Seq(Files)
               /\ \A x : /\ Contains(RemoveFirst(s, f), x) => Contains(s, x)
                         /\ Contains(s, x) /\ x # f => Contains(RemoveFirst(s, f), x)
               /\ IsInjective(s) => /\ IsInjective(RemoveFirst(s, f))
                                    /\ ~Contains(RemoveFirst(s, f), f)
    BY RemoveFirstMembers
  <2>c. swept = << >> => RemoveFirst(swept, f) = << >>
    BY <1>0, <2>b, EmptyMembers
  <2>1. TypeOK'
    BY <1>0, <1>12, <2>b, <2>c DEF CloseRemove, DestroyHandle, Without
  <2>2. ~ruined' => ListsKept'
    BY <1>0, <1>12, <2>b, <2>c DEF CloseRemove, DestroyHandle, Without, ListsKept, On
  <2>3. ~ruined' => UseKept'
    <3> SUFFICES ASSUME ~ruined' PROVE UseKept'
      OBVIOUS
    <3>1. destroyers[f] = {} /\ file[f] = "remove"
      BY <1>12 DEF CloseRemove, Listed, UseKept, On
    <3>2. destroyers' = [destroyers EXCEPT ![f] = {"close"}]
      BY <1>12, <3>1 DEF CloseRemove, DestroyHandle
    <3>3. \A g \in Files : On(g)' => On(g) /\ g # f
      BY <1>12, <2>b DEF CloseRemove, Without, On, ListsKept
    <3>4. file' = [file EXCEPT ![f] = "destroy"]
      BY <1>12 DEF CloseRemove
    <3> QED
      BY <3>1, <3>2, <3>3, <3>4 DEF UseKept
  <2>4. OrdersKept'
    BY <1>0, <1>12, <2>b, <2>c DEF CloseRemove, DestroyHandle, Without, OrdersKept
  <2>5. NoLostIrp'
    BY <1>0, <1>12, <2>b, <2>c
       DEF CloseRemove, DestroyHandle, Without, NoLostIrp, On, UseKept, ListsKept,
           IrpsOf
  <2> QED
    BY <2>1, <2>2, <2>3, <2>4, <2>5
<1>13. ASSUME NEW f \in Files, CloseReturn(f) PROVE IInv'
  <2>1. TypeOK'
    BY <1>0, <1>13 DEF CloseReturn
  <2>2. ~ruined' => ListsKept'
    BY <1>0, <1>13 DEF CloseReturn, ListsKept, On
  <2>3. ~ruined' => UseKept'
    BY <1>0, <1>13 DEF CloseReturn, UseKept, On, ListsKept
  <2>4. OrdersKept'
    BY <1>0, <1>13 DEF CloseReturn, OrdersKept
  <2>5. NoLostIrp'
    BY <1>0, <1>13 DEF CloseReturn, NoLostIrp, On, UseKept, ListsKept, IrpsOf
  <2> QED
    BY <2>1, <2>2, <2>3, <2>4, <2>5
<1>14. CASE SleepSweep
  <2>1. TypeOK'
    BY <1>0, <1>14 DEF SleepSweep
  <2>2. ~ruined' => ListsKept'
    BY <1>0, <1>14 DEF SleepSweep, ListsKept, On
  <2>3. ~ruined' => UseKept'
    BY <1>0, <1>14 DEF SleepSweep, UseKept, On, ListsKept
  <2>4. OrdersKept'
    BY <1>0, <1>14 DEF SleepSweep, OrdersKept
  <2>5. NoLostIrp'
    BY <1>0, <1>14 DEF SleepSweep, NoLostIrp, On, UseKept, ListsKept, IrpsOf
  <2> QED
    BY <2>1, <2>2, <2>3, <2>4, <2>5
<1>15. CASE SleepPop
  <2>b. /\ Tail(swept) \in Seq(Files) /\ Head(swept) \in Files
        /\ Contains(swept, Head(swept))
        /\ \A x : /\ Contains(Tail(swept), x) => Contains(swept, x)
                  /\ Contains(swept, x) /\ x # Head(swept) => Contains(Tail(swept), x)
        /\ IsInjective(swept) => /\ IsInjective(Tail(swept))
                                 /\ ~Contains(Tail(swept), Head(swept))
    BY <1>15, TailMembers DEF SleepPop
  <2>1. TypeOK'
    BY <1>0, <1>15, <2>b DEF SleepPop, DestroyHandle
  <2>2. ~ruined' => ListsKept'
    BY <1>0, <1>15, <2>b DEF SleepPop, DestroyHandle, ListsKept, On
  <2>3. ~ruined' => UseKept'
    <3> SUFFICES ASSUME ~ruined' PROVE UseKept'
      OBVIOUS
    <3> DEFINE h == Head(swept)
    <3>1. h \in Files /\ On(h) /\ destroyers[h] = {}
      BY <1>15, <2>b DEF UseKept, On
    <3>2. destroyers' = [destroyers EXCEPT ![h] = {"power"}]
      BY <1>15, <3>1 DEF SleepPop, DestroyHandle
    <3>3. \A g \in Files : On(g)' => On(g) /\ g # h
      BY <1>15, <2>b DEF SleepPop, On, ListsKept
    <3>4. file' = file
      BY <1>15 DEF SleepPop
    <3>5. file[h] \notin {"new", "opening"}
      BY <3>1 DEF ListsKept
    <3> QED
      BY <3>1, <3>2, <3>3, <3>4, <3>5 DEF UseKept
  <2>4. OrdersKept'
    BY <1>0, <1>15, <2>b DEF SleepPop, DestroyHandle, OrdersKept
  <2>5. NoLostIrp'
    BY <1>0, <1>15, <2>b
       DEF SleepPop, DestroyHandle, NoLostIrp, On, UseKept, ListsKept, IrpsOf
  <2> QED
    BY <2>1, <2>2, <2>3, <2>4, <2>5
<1>16. CASE SleepPopped
  <2>1. TypeOK'
    BY <1>0, <1>16 DEF SleepPopped
  <2>2. ~ruined' => ListsKept'
    BY <1>0, <1>16 DEF SleepPopped, ListsKept, On
  <2>3. ~ruined' => UseKept'
    BY <1>0, <1>16 DEF SleepPopped, UseKept, On, ListsKept
  <2>4. OrdersKept'
    BY <1>0, <1>16 DEF SleepPopped, OrdersKept
  <2>5. NoLostIrp'
    BY <1>0, <1>16 DEF SleepPopped, NoLostIrp, On, UseKept, ListsKept, IrpsOf
  <2> QED
    BY <2>1, <2>2, <2>3, <2>4, <2>5
<1>17. CASE SleepDone
  <2>1. TypeOK'
    BY <1>0, <1>17 DEF SleepDone
  <2>2. ~ruined' => ListsKept'
    BY <1>0, <1>17 DEF SleepDone, ListsKept, On
  <2>3. ~ruined' => UseKept'
    BY <1>0, <1>17 DEF SleepDone, UseKept, On, ListsKept
  <2>4. OrdersKept'
    BY <1>0, <1>17 DEF SleepDone, OrdersKept
  <2>5. NoLostIrp'
    BY <1>0, <1>17 DEF SleepDone, NoLostIrp, On, UseKept, ListsKept, IrpsOf
  <2> QED
    BY <2>1, <2>2, <2>3, <2>4, <2>5
<1>18. CASE Wake
  <2>1. TypeOK'
    BY <1>0, <1>18 DEF Wake
  <2>2. ~ruined' => ListsKept'
    BY <1>0, <1>18 DEF Wake, ListsKept, On
  <2>3. ~ruined' => UseKept'
    BY <1>0, <1>18 DEF Wake, UseKept, On, ListsKept
  <2>4. OrdersKept'
    BY <1>0, <1>18 DEF Wake, OrdersKept
  <2>5. NoLostIrp'
    BY <1>0, <1>18 DEF Wake, NoLostIrp, On, UseKept, ListsKept, IrpsOf
  <2> QED
    BY <2>1, <2>2, <2>3, <2>4, <2>5
<1> QED
  BY <1>1, <1>2, <1>3, <1>4, <1>5, <1>6, <1>7, <1>8, <1>9, <1>10,
     <1>11, <1>12, <1>13, <1>14, <1>15, <1>16, <1>17, <1>18
     DEF Next, Open, Close, ReadWrite, Stream, Power

(* And so does one that changes nothing. *)
LEMMA IInvStep == IInv /\ [Next]_vars => IInv'
<1> SUFFICES ASSUME IInv, [Next]_vars PROVE IInv'
  OBVIOUS
<1>1. CASE Next
  BY <1>1, IInvNext
<1>2. CASE UNCHANGED vars
  <2> USE <1>2 DEF vars, handleVars, irpVars, powerVars
  <2>1. TypeOK'
    BY DEF IInv, TypeOK
  <2>2. ~ruined' => ListsKept'
    BY DEF IInv, ListsKept, On
  <2>3. ~ruined' => UseKept'
    BY DEF IInv, UseKept, On
  <2>4. OrdersKept'
    BY DEF IInv, OrdersKept
  <2>5. NoLostIrp'
    BY DEF IInv, NoLostIrp
  <2> QED
    BY <2>1, <2>2, <2>3, <2>4, <2>5 DEF IInv
<1> QED
  BY <1>1, <1>2

-----------------------------------------------------------------------------
(* The invariant holds in every reachable state.                           *)
THEOREM Invariance == Spec => []IInv
<1> QED
  BY IInvInit, IInvStep, PTL DEF Spec

(* Every variable of the console keeps its type.                           *)
THEOREM TypeCorrect == Spec => []TypeOK
<1>1. IInv => TypeOK
  BY DEF IInv
<1> QED
  BY <1>1, Invariance, PTL

(* Whatever calls meet, and until a handle is used after it was given up:  *)
(* one that __ConsoleFindHandle can return is one nobody has begun to      *)
(* destroy, and no handle is destroyed twice.                              *)
THEOREM ConsoleListsTheLiving == Spec => []ListedLive
<1>1. IInv => ListedLive
  <2> SUFFICES ASSUME IInv PROVE ListedLive
    OBVIOUS
  <2> USE DEF IInv
  <2>1. TypeOK
    OBVIOUS
  <2> SUFFICES ASSUME ~ruined
               PROVE  /\ LET on == list \o swept
                         IN  /\ IsInjective(on)
                             /\ \A k \in 1 .. Len(on) : /\ phase[on[k]] = "open"
                                                       /\ on[k] # popped
                      /\ \A f \in Files : Cardinality(destroyers[f]) <= 1
    BY <2>1 DEF ListedLive
  <2> DEFINE on == list \o swept
  <2>2. list \in Seq(Files) /\ swept \in Seq(Files)
    BY DEF TypeOK
  <2>3. /\ on \in Seq(Files)
        /\ \A f : Contains(on, f) => Contains(list, f) \/ Contains(swept, f)
        /\ IsInjective(on)
    <3>1. \A f : Contains(list, f) => f \in Files
      BY <2>2, ElementOfSeq DEF Contains
    <3>2. \A f : ~(Contains(list, f) /\ Contains(swept, f))
      BY <3>1 DEF ListsKept
    <3> QED
      BY <2>2, <3>2, ConcatMembers DEF ListsKept
  <2>4. ASSUME NEW k \in 1 .. Len(on)
        PROVE  phase[on[k]] = "open" /\ on[k] # popped
    <3>1. on[k] \in Files /\ Contains(on, on[k])
      BY <2>3, ElementOfSeq DEF Contains
    <3> QED
      BY <2>3, <3>1 DEF ListsKept, On
  <2>5. ASSUME NEW f \in Files PROVE Cardinality(destroyers[f]) <= 1
    <3>1. destroyers[f] \in {{}, {"close"}, {"power"}}
      BY <2>5 DEF UseKept
    <3>2. /\ Cardinality({}) = 0
          /\ Cardinality({"close"}) = 1 /\ Cardinality({"power"}) = 1
      BY FS_EmptySet, FS_Singleton
    <3> QED
      BY <3>1, <3>2
  <2> QED
    BY <2>3, <2>4, <2>5
<1> QED
  BY <1>1, Invariance, PTL

(* Until a handle is used after it was given up, an IRP the console has    *)
(* accepted is in its own stream's queue until it is completed.            *)
THEOREM ConsoleKeepsIrps == Spec => []NoLostIrp
<1>1. IInv => NoLostIrp
  BY DEF IInv
<1> QED
  BY <1>1, Invariance, PTL

-----------------------------------------------------------------------------
(* Every step of the console that does not use a handle given up is one    *)
(* that IrpQueue allows the watched stream, or leaves what it shows as it  *)
(* was.                                                                    *)
LEMMA UsesStreamsStep ==
  ASSUME IInv, [Next]_vars, ~ruined'
  PROVE  [Queue!QNext]_(Queue!qvars)
<1> USE DEF IInv, handleVars, irpVars, powerVars
<1> ListsKept /\ UseKept /\ ~ruined
  BY DEF Next, vars
<1> DEFINE w == Watched
           seen == [i \in IrpsOf(Watched) |-> Accepted(i)]
           Kept == /\ order[w]' = order[w] /\ seen' = seen
                   /\ QueuePhase(w)' = QueuePhase(w)
<1> SUFFICES Queue!QNext \/ Kept
  BY DEF Queue!qvars
<1>0. /\ w \in Files /\ TypeOK /\ order[w] \in Seq(Irps)
      /\ \A i \in IrpsOf(w) : i \in Irps /\ FileOf[i] = w
      /\ \A k \in 1 .. Len(order[w]) : order[w][k] \in IrpsOf(w)
  <2>1. w \in Files /\ TypeOK /\ order[w] \in Seq(Irps)
    BY ConsoleAssumption DEF OrdersKept
  <2>2. ASSUME NEW k \in 1 .. Len(order[w]) PROVE order[w][k] \in IrpsOf(w)
    <3>1. order[w][k] \in Irps /\ Contains(order[w], order[w][k])
      BY <2>1, ElementOfSeq DEF Contains
    <3> QED
      BY <2>1, <3>1 DEF OrdersKept, IrpsOf
  <2> QED
    BY <2>1, <2>2 DEF IrpsOf
<1> HIDE DEF w
<1>a. ASSUME phase' = phase PROVE QueuePhase(w)' = QueuePhase(w)
  BY <1>a DEF QueuePhase, w
<1>b. ASSUME status' = status PROVE seen' = seen
  BY <1>b DEF Accepted
<1>c. ASSUME NEW f \in Files, DestroyHandle(f, "close") \/ DestroyHandle(f, "power"),
             order' = order, status' = status
      PROVE  Queue!QNext \/ Kept
  <2>1. CASE f = w /\ phase[w] = "open"
    <3>1. QueuePhase(w) = "open" /\ QueuePhase(w)' = "closing"
      BY <1>0, <1>c, <2>1 DEF DestroyHandle, QueuePhase, TypeOK, w
    <3>2. Queue!QShut
      BY <1>b, <1>c, <3>1 DEF Queue!QShut, w
    <3> QED
      BY <3>2 DEF Queue!QNext
  <2>2. CASE ~(f = w /\ phase[w] = "open")
    <3>1. phase'[w] = phase[w]
      BY <1>0, <1>c, <2>2 DEF DestroyHandle, TypeOK
    <3> QED
      BY <1>b, <1>c, <3>1 DEF QueuePhase, w
  <2> QED
    BY <2>1, <2>2
<1>1. ASSUME NEW f \in Files, Open(f)
      PROVE  Kept
  <2>1. order' = order /\ status' = status
    BY <1>1 DEF Open, OpenNoMemory, OpenNoStream, OpenCreate, OpenInsert
  <2>2. \/ phase'[w] = phase[w]
        \/ phase[w] = "none" /\ phase'[w] \in {"allocated", "open"}
    BY <1>0, <1>1 DEF Open, OpenNoMemory, OpenNoStream, OpenCreate, OpenInsert,
                      ListsKept, TypeOK
  <2>3. QueuePhase(w)' = QueuePhase(w)
    BY <2>2 DEF QueuePhase, w
  <2> QED
    BY <1>b, <2>1, <2>3 DEF w
<1>2. ASSUME NEW i \in Irps, ReadWriteFind(i)
      PROVE  Kept
  <2>1. \A j \in IrpsOf(w) : Accepted(j)' = Accepted(j)
    BY <1>0, <1>2 DEF ReadWriteFind, Accepted, TypeOK
  <2>2. order' = order /\ phase' = phase
    BY <1>2 DEF ReadWriteFind
  <2> QED
    BY <1>a, <2>1, <2>2 DEF w
<1>3. ASSUME NEW i \in Irps, ReadWritePut(i)
      PROVE  Queue!QNext \/ Kept
  <2>1. /\ status[i] = "found" /\ FileOf[i] \in Files
        /\ phase[FileOf[i]] \in {"open", "closing"}
        /\ status' = [status EXCEPT ![i] = "pending"]
        /\ order' = [order EXCEPT ![FileOf[i]] = Append(@, i)]
        /\ phase' = phase
    BY <1>3, ConsoleAssumption DEF ReadWritePut
  <2>2. CASE FileOf[i] = w
    <3>1. i \in IrpsOf(w)
      BY <2>2 DEF IrpsOf
    <3>2. seen' = [seen EXCEPT ![i] = "pending"] /\ seen[i] = "idle"
      <4>1. \A j \in IrpsOf(w) :
              Accepted(j)' = IF j = i THEN "pending" ELSE Accepted(j)
        BY <1>0, <2>1 DEF Accepted, TypeOK
      <4> QED
        BY <2>1, <3>1, <4>1 DEF Accepted, w
    <3>3. order[w]' = Append(order[w], i) /\ QueuePhase(w) # "closed"
      BY <1>0, <2>1, <2>2 DEF TypeOK, QueuePhase, w
    <3>4. Queue!QSubmit(i)
      BY <1>a, <2>1, <3>1, <3>2, <3>3 DEF Queue!QSubmit, w
    <3> QED
      BY <3>1, <3>4 DEF Queue!QNext, w
  <2>3. CASE FileOf[i] # w
    <3>1. order'[w] = order[w]
      BY <1>0, <2>1, <2>3 DEF TypeOK
    <3>2. \A j \in IrpsOf(w) : Accepted(j)' = Accepted(j)
      BY <1>0, <2>1, <2>3 DEF Accepted, TypeOK
    <3> QED
      BY <1>a, <2>1, <3>1, <3>2 DEF w
  <2> QED
    BY <2>2, <2>3
<1>4. ASSUME NEW f \in Files, StreamSucceed(f)
      PROVE  Queue!QNext \/ Kept
  <2>1. /\ phase[f] \in {"open", "closing"} /\ order[f] # << >> /\ phase' = phase
        /\ status' = [status EXCEPT ![Head(order[f])] = "success"]
        /\ order' = [order EXCEPT ![f] = Tail(@)]
    BY <1>4 DEF StreamSucceed
  <2>2. CASE f = w
    <3>1. Head(order[w]) \in IrpsOf(w)
      <4>1. 1 \in 1 .. Len(order[w]) /\ order[w][1] = Head(order[w])
        BY <1>0, <2>1, <2>2, RemoveFirstIsTail
      <4> QED
        BY <1>0, <4>1
    <3>2. seen' = [seen EXCEPT ![Head(order[w])] = "success"]
      <4>1. \A j \in IrpsOf(w) :
              Accepted(j)' = IF j = Head(order[w]) THEN "success" ELSE Accepted(j)
        BY <1>0, <2>1, <2>2 DEF Accepted, TypeOK
      <4> QED
        BY <3>1, <4>1 DEF w
    <3>3. order[w]' = Tail(order[w]) /\ QueuePhase(w) # "closed"
      BY <1>0, <2>1, <2>2 DEF TypeOK, QueuePhase, w
    <3>4. Queue!QSucceed
      BY <1>a, <2>1, <2>2, <3>2, <3>3 DEF Queue!QSucceed, w
    <3> QED
      BY <3>4 DEF Queue!QNext
  <2>3. CASE f # w
    <3>1. order'[w] = order[w]
      BY <1>0, <2>1, <2>3 DEF TypeOK
    <3>2. Head(order[f]) \notin IrpsOf(w)
      <4>1. /\ order[f] \in Seq(Irps) /\ Head(order[f]) \in Irps
            /\ Contains(order[f], Head(order[f]))
        BY <1>0, <2>1, TailMembers DEF TypeOK
      <4> QED
        BY <1>0, <2>3, <4>1 DEF OrdersKept
    <3>3. \A j \in IrpsOf(w) : Accepted(j)' = Accepted(j)
      BY <1>0, <2>1, <3>2 DEF Accepted, TypeOK
    <3> QED
      BY <1>a, <2>1, <3>1, <3>3 DEF w
  <2> QED
    BY <2>2, <2>3
<1>5. ASSUME NEW f \in Files, NEW k \in 1 .. Len(order[f]), StreamCancel(f, k)
      PROVE  Queue!QNext \/ Kept
  <2>1. /\ phase[f] \in {"open", "closing"} /\ phase' = phase
        /\ status' = [status EXCEPT ![order[f][k]] = "cancelled"]
        /\ order' = [order EXCEPT ![f] = RemoveAt(@, k)]
    BY <1>5 DEF StreamCancel
  <2>2. CASE f = w
    <3>1. order[w][k] \in IrpsOf(w)
      BY <1>0, <2>2
    <3>2. seen' = [seen EXCEPT ![order[w][k]] = "cancelled"]
      <4>1. \A j \in IrpsOf(w) :
              Accepted(j)' = IF j = order[w][k] THEN "cancelled" ELSE Accepted(j)
        BY <1>0, <2>1, <2>2 DEF Accepted, TypeOK
      <4> QED
        BY <3>1, <4>1 DEF w
    <3>3. order[w]' = RemoveAt(order[w], k) /\ QueuePhase(w) # "closed"
      BY <1>0, <2>1, <2>2 DEF TypeOK, QueuePhase, w
    <3>4. Queue!QCancel(k)
      BY <1>a, <2>1, <2>2, <3>2, <3>3
         DEF Queue!QCancel, Queue!RemoveAt, RemoveAt, w
    <3> QED
      BY <2>2, <3>4 DEF Queue!QNext, w
  <2>3. CASE f # w
    <3>1. order'[w] = order[w]
      BY <1>0, <2>1, <2>3 DEF TypeOK
    <3>2. order[f][k] \notin IrpsOf(w)
      <4>1. order[f] \in Seq(Irps) /\ order[f][k] \in Irps
            /\ Contains(order[f], order[f][k])
        BY <1>0, RemoveAtMembers DEF TypeOK
      <4> QED
        BY <1>0, <2>3, <4>1 DEF OrdersKept
    <3>3. \A j \in IrpsOf(w) : Accepted(j)' = Accepted(j)
      BY <1>0, <2>1, <3>2 DEF Accepted, TypeOK
    <3> QED
      BY <1>a, <2>1, <3>1, <3>3 DEF w
  <2> QED
    BY <2>2, <2>3
<1>6. ASSUME NEW f \in Files, StreamDrained(f)
      PROVE  Kept
  <2>1. phase'[w] = phase[w] \/ (phase[w] = "closing" /\ phase'[w] = "drained")
    <3>1. phase[f] = "closing" /\ phase' = [phase EXCEPT ![f] = "drained"]
      BY <1>6 DEF StreamDrained
    <3> QED
      BY <1>0, <3>1 DEF TypeOK
  <2> QED
    BY <1>b, <1>6, <2>1 DEF StreamDrained, QueuePhase, w
<1>7. ASSUME NEW f \in Files, StreamFree(f)
      PROVE  Queue!QNext \/ Kept
  <2>1. /\ phase[f] = "drained" /\ phase' = [phase EXCEPT ![f] = "closed"]
        /\ order[f] = << >> /\ order'[w] = order[w] /\ status' = status
    BY <1>0, <1>7 DEF StreamFree, NoLostIrp, TypeOK
  <2>2. CASE f = w
    <3>1. QueuePhase(w) = "closing" /\ QueuePhase(w)' = "closed"
      BY <1>0, <2>1, <2>2 DEF QueuePhase, TypeOK, w
    <3>2. Queue!QClose
      BY <1>b, <2>1, <2>2, <3>1 DEF Queue!QClose, w
    <3> QED
      BY <3>2 DEF Queue!QNext
  <2>3. CASE f # w
    BY <1>0, <1>b, <2>1, <2>3 DEF QueuePhase, TypeOK, w
  <2> QED
    BY <2>2, <2>3
<1>8. ASSUME NEW f \in Files, Close(f)
      PROVE  Queue!QNext \/ Kept
  <2>1. CASE CloseRemove(f)
    BY <1>c, <2>1 DEF CloseRemove
  <2>2. CASE CloseFind(f) \/ CloseReturn(f)
    BY <1>a, <1>b, <2>2 DEF CloseFind, CloseReturn, w
  <2> QED
    BY <1>8, <2>1, <2>2 DEF Close
<1>9. ASSUME Power
      PROVE  Queue!QNext \/ Kept
  <2>1. CASE SleepPop
    <3>1. Head(swept) \in Files
      BY <1>0, <2>1, TailMembers DEF SleepPop, TypeOK
    <3> QED
      BY <1>c, <2>1, <3>1 DEF SleepPop
  <2>2. CASE SleepSweep \/ SleepPopped \/ SleepDone \/ Wake
    BY <1>a, <1>b, <2>2 DEF SleepSweep, SleepPopped, SleepDone, Wake, w
  <2> QED
    BY <1>9, <2>1, <2>2 DEF Power
<1>10. CASE UNCHANGED vars
  BY <1>a, <1>b, <1>10 DEF vars, w
<1> QED
  BY <1>1, <1>2, <1>3, <1>4, <1>5, <1>6, <1>7, <1>8, <1>9, <1>10
     DEF Next, Stream, ReadWrite

(* The console uses its streams as module IrpQueue allows.                 *)
THEOREM ConsoleUsesStreams == Spec => UsesStreams
<1>1. IInv /\ [Next]_vars => [~ruined' => [Queue!QNext]_(Queue!qvars)]_vars
  BY UsesStreamsStep
<1> QED
  BY <1>1, Invariance, PTL DEF Spec, UsesStreams
=============================================================================
