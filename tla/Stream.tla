------------------------------- MODULE Stream -------------------------------
(***************************************************************************)
(* One stream of the default console (src/xencons/stream.c): a list of     *)
(* read and write IRPs served by a worker thread (src/xencons/thread.c)    *)
(* from the console that the xenbus driver provides.  The I/O manager      *)
(* submits and cancels IRPs, the backend fills and drains the console and  *)
(* signals an event channel, other streams of the same console may use the *)
(* same input and output, and the owner of the stream destroys it, all of  *)
(* them concurrently with the worker.                                      *)
(*                                                                         *)
(* An IRP may be submitted until StreamDestroy has joined the worker: there *)
(* is no thread left to wake after that, and what happens to a use that    *)
(* comes so late is the subject of module Console.                         *)
(***************************************************************************)
EXTENDS Naturals, Sequences, SequencesExt

CONSTANTS Irps,         \* the IRPs that may be submitted
          Reads,        \* those that are IRP_MJ_READ, the others IRP_MJ_WRITE
          Length,       \* what each IRP asks for, which may be nothing
          None,         \* no IRP
          InSize,       \* capacity of the console's input
          OutSize       \* capacity of the console's output

ASSUME StreamAssumption == /\ Reads \subseteq Irps
                           /\ Length \in [Irps -> Nat]
                           /\ None \notin Irps
                           /\ InSize \in Nat \ {0}
                           /\ OutSize \in Nat \ {0}

VARIABLES list,         \* Stream->List, head first
          held,         \* the IRP the worker has taken off the list
          status,       \* what the I/O manager sees of each IRP
          cancel,       \* the IRPs whose Cancel flag is set
          information,  \* IoStatus.Information of each completed IRP
          overtaken,    \* IRPs that other streams left nothing for after
                        \* the worker had asked (history)
          event,        \* Thread->Event, a notification event
          alerted,      \* Thread->Alerted
          references,   \* Thread->References
          worker,       \* where StreamWorker is
          wakeup,       \* whether the event is registered by WakeupAdd
          input,        \* characters the backend has sent, not yet read
          output,       \* characters written, not yet taken by the backend
          signal,       \* an event channel interrupt not yet delivered
          shared,       \* whether other streams use the console (constant)
          destroy       \* where StreamDestroy is

irpVars     == <<list, held, status, cancel, information, overtaken>>
threadVars  == <<event, alerted, references, worker, wakeup>>
consoleVars == <<input, output, signal, shared>>
vars        == <<irpVars, threadVars, consoleVars, destroy>>

WorkerStates  == {"start", "wait", "clear", "check", "drain", "poll",
                  "transfer", "reinsert", "leave", "exit", "terminated"}
DestroyStates == {"none", "wake", "join", "drain", "freed"}

(* StreamCreate: the list is empty, ThreadCreate has started the worker    *)
(* with one reference for the owner and one for the thread function.       *)
Init == /\ list = << >>
        /\ held = None
        /\ status = [i \in Irps |-> "idle"]
        /\ cancel = {}
        /\ information = [i \in Irps |-> 0]
        /\ overtaken = {}
        /\ event = FALSE
        /\ alerted = FALSE
        /\ references = 2
        /\ worker = "start"
        /\ wakeup = FALSE
        /\ input = 0
        /\ output = 0
        /\ signal = FALSE
        /\ shared \in BOOLEAN
        /\ destroy = "none"

(* What the xenbus console has for a read or room for in a write, and what *)
(* CanRead and CanWrite say of it.                                         *)
Available(i) == IF i \in Reads THEN input ELSE OutSize - output

Ready(i) == Available(i) > 0

ThreadWake == event' = TRUE

-----------------------------------------------------------------------------
(* The I/O manager.                                                        *)

(* The insertion and the wake-up happen under the list's spin lock. *)
StreamPutQueue(i) ==
  /\ destroy \in {"none", "wake", "join"}
  /\ status[i] = "idle"
  /\ status' = [status EXCEPT ![i] = "pending"]
  /\ list' = Append(list, i)
  /\ ThreadWake
  /\ UNCHANGED <<held, cancel, information, overtaken, alerted, references,
                 worker, wakeup, consoleVars, destroy>>

(* IoCancelIrp: a queued IRP has a cancel routine, which takes it off the  *)
(* list and completes it; one the worker holds has none, and only its      *)
(* Cancel flag is set.                                                     *)
CancelQueued(k) ==
  /\ status' = [status EXCEPT ![list[k]] = "cancelled"]
  /\ cancel' = cancel \union {list[k]}
  /\ list' = RemoveAt(list, k)
  /\ UNCHANGED <<held, information, overtaken, threadVars, consoleVars,
                 destroy>>

CancelHeld ==
  /\ held # None
  /\ held \notin cancel
  /\ cancel' = cancel \union {held}
  /\ UNCHANGED <<list, held, status, information, overtaken, threadVars,
                 consoleVars, destroy>>

-----------------------------------------------------------------------------
(* The worker thread.                                                      *)

WorkerGoes(from, to) == worker = from /\ worker' = to

(* The console interface is acquired and the thread's event registered; if *)
(* either fails the worker returns at once.                                *)
WorkerStart ==
  /\ \/ WorkerGoes("start", "wait") /\ wakeup' = TRUE
     \/ WorkerGoes("start", "exit") /\ UNCHANGED wakeup
  /\ UNCHANGED <<irpVars, event, alerted, references, consoleVars, destroy>>

WorkerWait ==
  /\ event
  /\ WorkerGoes("wait", "clear")
  /\ UNCHANGED <<irpVars, event, alerted, references, wakeup, consoleVars,
                 destroy>>

WorkerClear ==
  /\ WorkerGoes("clear", "check")
  /\ event' = FALSE
  /\ UNCHANGED <<irpVars, alerted, references, wakeup, consoleVars, destroy>>

WorkerCheck ==
  /\ WorkerGoes("check", IF alerted THEN "leave" ELSE "drain")
  /\ UNCHANGED <<irpVars, event, alerted, references, wakeup, consoleVars,
                 destroy>>

WorkerRemove ==
  /\ list # << >>
  /\ WorkerGoes("drain", "poll")
  /\ held' = Head(list)
  /\ list' = Tail(list)
  /\ UNCHANGED <<status, cancel, information, overtaken, event, alerted,
                 references, wakeup, consoleVars, destroy>>

WorkerDrained ==
  /\ list = << >>
  /\ WorkerGoes("drain", "wait")
  /\ UNCHANGED <<irpVars, event, alerted, references, wakeup, consoleVars,
                 destroy>>

(* Mutation of WorkerPoll: the transfer is tried without asking.           *)
WorkerPollAssumes ==
  /\ WorkerGoes("poll", "transfer")
  /\ UNCHANGED <<irpVars, event, alerted, references, wakeup, consoleVars,
                 destroy>>

WorkerPoll ==
  /\ WorkerGoes("poll", IF Ready(held) THEN "transfer" ELSE "reinsert")
  /\ UNCHANGED <<irpVars, event, alerted, references, wakeup, consoleVars,
                 destroy>>

(* The console moves at most what it has or has room for and at most what  *)
(* the IRP asks for, and at least one character if neither is nothing.     *)
(* The IRP succeeds with what was moved, nothing included.                 *)
WorkerTransfer ==
  /\ WorkerGoes("transfer", "drain")
  /\ \E n \in 0 .. Length[held] :
       /\ n <= Available(held)
       /\ n = 0 => ~Ready(held) \/ Length[held] = 0
       /\ information' = [information EXCEPT ![held] = n]
       /\ input'  = IF held \in Reads THEN input - n ELSE input
       /\ output' = IF held \in Reads THEN output ELSE output + n
  /\ status' = [status EXCEPT ![held] = "success"]
  /\ held' = None
  /\ UNCHANGED <<list, cancel, overtaken, event, alerted, references, wakeup,
                 signal, shared, destroy>>

(* Mutations of WorkerReinsert: the IRP is dropped; its Cancel flag is not *)
(* looked at; it goes to the tail of the list; the event is cleared before *)
(* the wait.                                                               *)
WorkerReinsertDrops ==
  /\ WorkerGoes("reinsert", "wait")
  /\ held' = None
  /\ UNCHANGED <<list, status, cancel, information, overtaken, event, alerted,
                 references, wakeup, consoleVars, destroy>>

WorkerReinsertParks ==
  /\ WorkerGoes("reinsert", "wait")
  /\ list' = <<held>> \o list
  /\ held' = None
  /\ UNCHANGED <<status, cancel, information, overtaken, event, alerted,
                 references, wakeup, consoleVars, destroy>>

WorkerReinsertTail ==
  /\ WorkerGoes("reinsert", "wait")
  /\ IF held \in cancel
     THEN /\ status' = [status EXCEPT ![held] = "cancelled"]
          /\ UNCHANGED list
     ELSE /\ list' = Append(list, held)
          /\ UNCHANGED status
  /\ held' = None
  /\ UNCHANGED <<cancel, information, overtaken, event, alerted, references,
                 wakeup, consoleVars, destroy>>

WorkerReinsertClears ==
  /\ WorkerGoes("reinsert", "wait")
  /\ IF held \in cancel
     THEN /\ status' = [status EXCEPT ![held] = "cancelled"]
          /\ UNCHANGED list
     ELSE /\ list' = <<held>> \o list
          /\ UNCHANGED status
  /\ held' = None
  /\ event' = FALSE
  /\ UNCHANGED <<cancel, information, overtaken, alerted, references, wakeup,
                 consoleVars, destroy>>

(* A blocked IRP goes back to the head of the list, without a wake-up, and *)
(* the worker waits.  Inserting an IRP whose Cancel flag is set completes  *)
(* it as cancelled instead.                                                *)
WorkerReinsert ==
  /\ WorkerGoes("reinsert", "wait")
  /\ IF held \in cancel
     THEN /\ status' = [status EXCEPT ![held] = "cancelled"]
          /\ UNCHANGED list
     ELSE /\ list' = <<held>> \o list
          /\ UNCHANGED status
  /\ held' = None
  /\ UNCHANGED <<cancel, information, overtaken, event, alerted, references,
                 wakeup, consoleVars, destroy>>

WorkerLeave ==
  /\ WorkerGoes("leave", "exit")
  /\ wakeup' = FALSE
  /\ UNCHANGED <<irpVars, event, alerted, references, consoleVars, destroy>>

(* ThreadFunction drops the thread's own reference and terminates. *)
WorkerExit ==
  /\ WorkerGoes("exit", "terminated")
  /\ references' = references - 1
  /\ UNCHANGED <<irpVars, event, alerted, wakeup, consoleVars, destroy>>

Worker == \/ WorkerStart    \/ WorkerWait  \/ WorkerClear \/ WorkerCheck
          \/ WorkerRemove   \/ WorkerDrained \/ WorkerPoll
          \/ WorkerTransfer \/ WorkerReinsert
          \/ WorkerLeave    \/ WorkerExit

-----------------------------------------------------------------------------
(* StreamDestroy: alert the worker, wait until it has terminated, cancel   *)
(* what is left on the list.                                               *)

DestroyGoes(from, to) == destroy = from /\ destroy' = to

DestroyAlert ==
  /\ DestroyGoes("none", "wake")
  /\ alerted' = TRUE
  /\ UNCHANGED <<irpVars, event, references, worker, wakeup, consoleVars>>

(* Mutation of DestroyWake: the thread is alerted but not woken.           *)
DestroyWakeForgets ==
  /\ DestroyGoes("wake", "join")
  /\ UNCHANGED <<irpVars, threadVars, consoleVars>>

DestroyWake ==
  /\ DestroyGoes("wake", "join")
  /\ ThreadWake
  /\ UNCHANGED <<irpVars, alerted, references, worker, wakeup, consoleVars>>

(* Mutation of DestroyJoin: the stream does not wait for the thread.       *)
DestroyJoinEarly ==
  /\ DestroyGoes("join", "drain")
  /\ references' = references - 1
  /\ UNCHANGED <<irpVars, event, alerted, worker, wakeup, consoleVars>>

DestroyJoin ==
  /\ worker = "terminated"
  /\ DestroyGoes("join", "drain")
  /\ references' = references - 1
  /\ UNCHANGED <<irpVars, event, alerted, worker, wakeup, consoleVars>>

DestroyDrain ==
  /\ destroy = "drain"
  /\ list # << >>
  /\ status' = [status EXCEPT ![Head(list)] = "cancelled"]
  /\ list' = Tail(list)
  /\ UNCHANGED <<held, cancel, information, overtaken, threadVars, consoleVars,
                 destroy>>

DestroyFree ==
  /\ list = << >>
  /\ DestroyGoes("drain", "freed")
  /\ UNCHANGED <<irpVars, threadVars, consoleVars>>

StreamDestroy == \/ DestroyAlert \/ DestroyWake \/ DestroyJoin
                 \/ DestroyDrain \/ DestroyFree

-----------------------------------------------------------------------------
(* The xenbus console and its users outside the stream.                    *)

BackendSends ==
  /\ input < InSize
  /\ input' \in input + 1 .. InSize
  /\ signal' = TRUE
  /\ UNCHANGED <<irpVars, threadVars, output, shared, destroy>>

BackendTakes ==
  /\ output > 0
  /\ output' \in 0 .. output - 1
  /\ signal' = TRUE
  /\ UNCHANGED <<irpVars, threadVars, input, shared, destroy>>

(* They may take what the worker has just been told of. *)
OtherStreams ==
  /\ shared
  /\ \/ input > 0 /\ input' \in 0 .. input - 1 /\ UNCHANGED output
     \/ output < OutSize /\ output' \in output + 1 .. OutSize /\ UNCHANGED input
  /\ UNCHANGED <<list, held, status, cancel, information, threadVars, signal,
                 shared, destroy>>
  /\ overtaken' = IF worker = "transfer" /\ ~Ready(held)'
                  THEN overtaken \union {held} ELSE overtaken

(* The event channel interrupt sets the events registered by WakeupAdd. *)
ConsoleSignal ==
  /\ signal
  /\ signal' = FALSE
  /\ event' = (event \/ wakeup)
  /\ UNCHANGED <<irpVars, alerted, references, worker, wakeup, input, output,
                 shared, destroy>>

-----------------------------------------------------------------------------
IoManager == \/ \E i \in Irps : StreamPutQueue(i)
             \/ \E k \in 1 .. Len(list) : CancelQueued(k)
             \/ CancelHeld

Environment == BackendSends \/ BackendTakes \/ OtherStreams \/ ConsoleSignal

Next == IoManager \/ Worker \/ StreamDestroy \/ Environment

Spec == Init /\ [][Next]_vars

(* The kernel schedules the worker and a thread that has begun to destroy  *)
(* the stream, and delivers interrupts.  Nothing is assumed of the backend *)
(* or of the users.                                                        *)
Fairness == /\ WF_vars(Worker)
            /\ WF_vars(DestroyWake \/ DestroyJoin \/ DestroyDrain \/ DestroyFree)
            /\ WF_vars(ConsoleSignal)

FairSpec == Spec /\ Fairness

-----------------------------------------------------------------------------
(* Every variable keeps its type. *)
TypeOK ==
  /\ list \in Seq(Irps)
  /\ held \in Irps \union {None}
  /\ status \in [Irps -> {"idle", "pending", "success", "cancelled"}]
  /\ cancel \subseteq Irps
  /\ information \in [Irps -> Nat]
  /\ overtaken \subseteq Irps
  /\ event \in BOOLEAN
  /\ alerted \in BOOLEAN
  /\ references \in 0 .. 2
  /\ worker \in WorkerStates
  /\ wakeup \in BOOLEAN
  /\ input \in 0 .. InSize
  /\ output \in 0 .. OutSize
  /\ signal \in BOOLEAN
  /\ shared \in BOOLEAN
  /\ destroy \in DestroyStates

(* The list holds no IRP twice, and none that the worker holds. *)
ListDistinct ==
  /\ \A j, k \in 1 .. Len(list) : list[j] = list[k] => j = k
  /\ \A k \in 1 .. Len(list) : list[k] # held

(* The stream owns exactly the pending IRPs, each once, on the list or in  *)
(* the worker's hands: none is lost when it goes back to the list, when a  *)
(* cancellation meets the worker or when the stream is destroyed, and none *)
(* is still there to be completed a second time.                           *)
IrpAccounted ==
  /\ ListDistinct
  /\ \A i \in Irps : status[i] = "pending"
       <=> i = held \/ \E k \in 1 .. Len(list) : list[k] = i

(* An IRP whose cancellation has been requested is never parked on the     *)
(* list, where nothing would cancel it again: one that is cancelled while  *)
(* the worker holds it is completed when the worker is done with it.       *)
CancelNotParked == \A k \in 1 .. Len(list) : list[k] \notin cancel

(* The worker is asleep and nothing is on its way to wake it. *)
Asleep == worker = "wait" /\ ~event /\ ~signal

SameFunction(i, j) == (i \in Reads) = (j \in Reads)

(* No wake-up is lost: a worker that sleeps while the console could serve  *)
(* the first IRP of the list can only have been left behind by the         *)
(* cancellation of an IRP of the other function, which StreamCsqRemoveIrp  *)
(* does not follow with a wake-up.                                         *)
NoLostWakeup ==
  Asleep /\ list # << >> /\ Ready(Head(list))
    => \E i \in cancel : ~SameFunction(i, Head(list))

(* An IRP that asks for something and succeeds with nothing has lost it to *)
(* another stream, between the CanRead or CanWrite that said there was     *)
(* something and the transfer.  The worker's own doing, and the backend's, *)
(* never leaves a reader with an empty success, which it would take for    *)
(* the end of its input.                                                   *)
Transferred ==
  \A i \in Irps : status[i] = "success"
    => /\ information[i] <= Length[i]
       /\ information[i] > 0 \/ Length[i] = 0 \/ i \in overtaken

(* A transfer of StreamWorker is for no more than was asked for, and not   *)
(* for nothing but as above; and it takes no more than there is, and fills *)
(* no more than there is room for, as the types of the console say.        *)
NoEmptyTransfer == TypeOK /\ Transferred

(* The stream's memory is not given up while the worker may still use it,  *)
(* nor its thread's, and no IRP is left pending in a stream that is gone.  *)
NoUseAfterFree ==
  /\ destroy \in {"drain", "freed"} => worker = "terminated" /\ references = 0
  /\ destroy = "freed" => \A i \in Irps : status[i] # "pending"

-----------------------------------------------------------------------------
(* The stream implements the queue that module IrpQueue promises: the IRP  *)
(* the worker holds is still the oldest one, so that taking it and putting *)
(* it back changes nothing for the I/O manager.                            *)
order == (IF held = None THEN << >> ELSE <<held>>) \o list

phase == CASE destroy = "none"  -> "open"
           [] destroy = "freed" -> "closed"
           [] OTHER             -> "closing"

Abstract == INSTANCE IrpQueue

ImplementsIrpQueue == Abstract!QSpec

(* An IRP that is the oldest of a live stream and that the console can     *)
(* serve is completed, when the console has one stream, unless the worker  *)
(* never started or has been told to leave, or a cancelled IRP of the      *)
(* other function left it behind.                                          *)
FirstIrpServed ==
  \A i \in Irps :
    (~shared /\ order # << >> /\ Head(order) = i /\ Ready(i))
      ~> \/ status[i] # "pending"
         \/ worker = "terminated"
         \/ \E j \in cancel : ~SameFunction(i, j)

(* Whatever the worker is doing and the backend is not, a stream that is   *)
(* being destroyed is destroyed.                                           *)
DestroyCompletes == destroy # "none" ~> destroy = "freed"
=============================================================================
