------------------------------ MODULE RingFifo ------------------------------
(***************************************************************************)
(* What one direction of a shared console ring promises: a queue of        *)
(* characters of bounded length.  The producer appends, the consumer takes *)
(* from the front, and no character is lost, duplicated or reordered while *)
(* the ring stays connected.  One end is the driver, which moves the       *)
(* characters of one request in a step; the other is the backend.          *)
(***************************************************************************)
EXTENDS Naturals, Sequences

CONSTANT Capacity       \* the size of the ring

VARIABLES queue,        \* the characters in the ring, oldest first
          moved         \* what the last step moved for a request

Prefix(s, t) == Len(s) <= Len(t) /\ SubSeq(t, 1, Len(s)) = s

(* What is in the ring is dropped when it is disconnected. *)
Reset == moved' = << >> /\ queue' = << >>

(* The driver consumes what the backend produces. *)
InNext == \/ queue = moved' \o queue'
          \/ moved' = << >> /\ Prefix(queue, queue') /\ Len(queue') <= Capacity
          \/ Reset

(* The driver produces what the backend consumes. *)
OutNext == \/ queue' = queue \o moved' /\ Len(queue') <= Capacity
           \/ moved' = << >> /\ \E n \in 0 .. Len(queue) :
                                  queue' = SubSeq(queue, n + 1, Len(queue))
           \/ Reset
=============================================================================
