------------------------------ MODULE IrpQueue ------------------------------
(***************************************************************************)
(* What a console queue promises to the I/O manager, independent of the    *)
(* thread or DPC that serves it.  A request (IRP) accepted by the queue is *)
(* owned by it until it is completed, it is completed once, either with    *)
(* success or as cancelled, requests succeed in the order in which they    *)
(* were accepted, and a closed queue owns none.  One that is closing may   *)
(* still accept a request, and completes it like the others.  Module       *)
(* Stream implements this specification.                                   *)
(***************************************************************************)
EXTENDS Sequences, SequencesExt

CONSTANT Irps           \* the requests that may be submitted

VARIABLES order,        \* the requests owned by the queue, oldest first
          status,       \* what each request's owner sees of it
          phase         \* whether the queue serves, is closing, or is gone

qvars == <<order, status, phase>>

Statuses == {"idle", "pending", "success", "cancelled"}
Phases   == {"open", "closing", "closed"}

QInit == /\ order = << >>
         /\ status = [i \in Irps |-> "idle"]
         /\ phase = "open"

-----------------------------------------------------------------------------
(* A request is accepted at the end of the queue. *)
QSubmit(i) == /\ phase # "closed"
              /\ status[i] = "idle"
              /\ status' = [status EXCEPT ![i] = "pending"]
              /\ order' = Append(order, i)
              /\ UNCHANGED phase

(* Only the oldest request can succeed. *)
QSucceed == /\ phase # "closed"
            /\ order # << >>
            /\ status' = [status EXCEPT ![Head(order)] = "success"]
            /\ order' = Tail(order)
            /\ UNCHANGED phase

(* Any request can be cancelled while the queue owns it. *)
QCancel(k) == /\ phase # "closed"
              /\ status' = [status EXCEPT ![order[k]] = "cancelled"]
              /\ order' = RemoveAt(order, k)
              /\ UNCHANGED phase

QShut  == /\ phase = "open"
          /\ phase' = "closing"
          /\ UNCHANGED <<order, status>>

QClose == /\ phase = "closing"
          /\ order = << >>
          /\ phase' = "closed"
          /\ UNCHANGED <<order, status>>

QNext == \/ \E i \in Irps : QSubmit(i)
         \/ QSucceed
         \/ \E k \in 1 .. Len(order) : QCancel(k)
         \/ QShut
         \/ QClose

QSpec == QInit /\ [][QNext]_qvars
=============================================================================
