----------------------------- MODULE PowerThread -----------------------------
(***************************************************************************)
(* A thread of src/xencons/thread.c as the devices use it for their power  *)
(* IRPs: FdoSystemPower, FdoDevicePower, PdoSystemPower and PdoDevicePower *)
(* are one loop, around what each does with an IRP.  The loop takes IRPs   *)
(* from a slot of its device that the dispatch routine fills; it rests on  *)
(* an event, and ends when it has been alerted.  What becomes of an IRP in *)
(* the thread's hand is for module Power to say.                           *)
(***************************************************************************)
EXTENDS Integers

CONSTANTS Threads,      \* the threads
          None          \* no IRP

VARIABLES references,   \* Thread->References; 0 when it is not allocated
          held,         \* whether the device holds the thread
          event,        \* Thread->Event
          alerted,      \* Thread->Alerted
          at,           \* where the thread function is
          slot,         \* the device's DevicePowerIrp or SystemPowerIrp
          irp           \* the IRP in the thread's hand

threadVars == <<references, held, event, alerted, at, slot, irp>>

Loop == {"look", "wait", "test", "empty", "return"}

ThreadInit == /\ references = [t \in Threads |-> 0]
              /\ held = [t \in Threads |-> FALSE]
              /\ event = [t \in Threads |-> FALSE]
              /\ alerted = [t \in Threads |-> FALSE]
              /\ at = [t \in Threads |-> "none"]
              /\ slot = [t \in Threads |-> None]
              /\ irp = [t \in Threads |-> None]

(* ThreadCreate; when it fails before the thread runs it leaves nothing.   *)
Creates(t) ==
  /\ references' = [references EXCEPT ![t] = 2]
  /\ held' = [held EXCEPT ![t] = TRUE]
  /\ event' = [event EXCEPT ![t] = FALSE]
  /\ alerted' = [alerted EXCEPT ![t] = FALSE]
  /\ at' = [at EXCEPT ![t] = "look"]

(* ThreadCreate, when the thread runs but cannot be referenced: it is      *)
(* alerted, and left to itself.                                            *)
Abandons(t) ==
  /\ references' = [references EXCEPT ![t] = 1]
  /\ UNCHANGED held
  /\ event' = [event EXCEPT ![t] = TRUE]
  /\ alerted' = [alerted EXCEPT ![t] = TRUE]
  /\ at' = [at EXCEPT ![t] = "look"]

ThreadWake(t) == event' = [event EXCEPT ![t] = TRUE]

ThreadAlert(t) == /\ alerted' = [alerted EXCEPT ![t] = TRUE]
                  /\ ThreadWake(t)

(* ThreadJoin frees the thread once it has terminated. *)
ThreadJoin(t) ==
  /\ at[t] = "exited"
  /\ references' = [references EXCEPT ![t] = references[t] - 1]
  /\ held' = [held EXCEPT ![t] = FALSE]
  /\ at' = [at EXCEPT ![t] = "none"]

-----------------------------------------------------------------------------
(* The loop.                                                               *)

Goes(t, from, to) == /\ at[t] = from
                     /\ at' = [at EXCEPT ![t] = to]

Look(t) ==
  /\ Goes(t, "look", IF slot[t] = None THEN "wait" ELSE "test")
  /\ UNCHANGED <<references, held, event, alerted, slot, irp>>

(* The wait returns, and the event is cleared; what comes in between is as *)
(* if it had come before.                                                  *)
Wait(t) ==
  /\ event[t]
  /\ Goes(t, "wait", "test")
  /\ event' = [event EXCEPT ![t] = FALSE]
  /\ UNCHANGED <<references, held, alerted, slot, irp>>

Alerted(t) ==
  /\ alerted[t]
  /\ Goes(t, "test", "return")
  /\ UNCHANGED <<references, held, event, alerted, slot, irp>>

(* Mutation of Take: the IRP is not compared with NULL. *)
TakeUntested(t) ==
  /\ ~alerted[t]
  /\ Goes(t, "test", "empty")
  /\ irp' = [irp EXCEPT ![t] = slot[t]]
  /\ UNCHANGED <<references, held, event, alerted, slot>>

Take(t) ==
  /\ ~alerted[t]
  /\ Goes(t, "test", IF slot[t] = None THEN "look" ELSE "empty")
  /\ irp' = [irp EXCEPT ![t] = slot[t]]
  /\ UNCHANGED <<references, held, event, alerted, slot>>

Empty(t) ==
  /\ Goes(t, "empty", "handle")
  /\ slot' = [slot EXCEPT ![t] = None]
  /\ UNCHANGED <<references, held, event, alerted, irp>>

(* ThreadFunction drops its reference, and frees the thread if it was the  *)
(* last.                                                                   *)
Return(t) ==
  /\ Goes(t, "return", IF held[t] THEN "exited" ELSE "none")
  /\ references' = [references EXCEPT ![t] = references[t] - 1]
  /\ UNCHANGED <<held, event, alerted, slot, irp>>

Runs(t) == \/ Look(t) \/ Wait(t) \/ Alerted(t)
           \/ Take(t) \/ Empty(t) \/ Return(t)

(* The IRP in the thread's hand has been completed or passed down. *)
Handled(t) == /\ at' = [at EXCEPT ![t] = "look"]
              /\ irp' = [irp EXCEPT ![t] = None]
=============================================================================
