-------------------------------- MODULE Ring --------------------------------
(***************************************************************************)
(* The ring of a console other than the default one (src/xencons/ring.c):  *)
(* a page shared with the backend that holds one ring of characters for    *)
(* each direction, two cancel-safe queues of IRPs, and the DPC that moves  *)
(* characters between them.  The DPC is queued by whoever submits an IRP,  *)
(* by the event channel and by RingEnable; nothing keeps it from running   *)
(* while its ring is disconnected, while a file is being closed, or on two *)
(* processors at once, and RingPoll is called without the ring's lock.     *)
(*                                                                         *)
(* IRPs and files are slots that are used again and again, the indices are *)
(* counted modulo IdxMod as the code counts them modulo 2^32, and the ring *)
(* may be connected any number of times, so that no bound is needed.       *)
(***************************************************************************)
EXTENDS Naturals, FiniteSets, Sequences, SequencesExt

CONSTANTS Files,        \* the file objects
          Irps,         \* the read and write IRPs
          Reads,        \* those that are IRP_MJ_READ
          FileOf,       \* the file object of each IRP
          Length,       \* how many characters each IRP is for
          Cpus,         \* the processors
          Boot,         \* the one that runs the DPC if only one does
          None,         \* no IRP
          InSize,       \* sizeof(Shared->in)
          OutSize,      \* sizeof(Shared->out)
          IdxMod,       \* XENCONS_RING_IDX: 2^32
          Cases         \* what may overlap what: see Races

(* "dpc": the DPC runs on two processors at once.  "close": RingClose runs *)
(* during the DPC.  "disconnect": the ring is disabled and disconnected    *)
(* during the DPC.  "early": an IRP is submitted to a ring that is not     *)
(* connected.  Each property says which of them it depends on.             *)
Races == {"dpc", "close", "disconnect", "early"}

ASSUME RingAssumption ==
  /\ Cases \subseteq SUBSET Races
  /\ Reads \subseteq Irps
  /\ FileOf \in [Irps -> Files]
  /\ Length \in [Irps -> Nat]
  /\ Boot \in Cpus
  /\ None \notin Irps
  /\ InSize \in Nat \ {0} /\ OutSize \in Nat \ {0} /\ IdxMod \in Nat
  /\ IdxMod % InSize = 0 /\ IdxMod % OutSize = 0
  /\ IdxMod > InSize /\ IdxMod > OutSize

VARIABLES queue,        \* Read.List and Write.List
          status,       \* what the I/O manager sees of each IRP
          cancel,       \* the IRPs whose Cancel flag is set
          moved,        \* the characters the last step moved for an IRP
          file,         \* where RingClose is with each file object
          queued,       \* whether Ring->Dpc is queued
          pc,           \* where RingDpc is on each processor
          held,         \* the IRP it has taken off a queue there
          snap,         \* the indices it has read there
          connected,    \* Ring->Connected: there are a page and a channel
          enabled,      \* Ring->Enabled
          in, in_prod, in_cons,         \* the shared page: characters
          out, out_prod, out_cons,      \* and free-running indices
          pending,      \* an event on the channel, not yet delivered
          masked,       \* whether the channel is masked
          left,         \* what the DPC has left behind: a queue
                        \* at an IRP for no characters, or an event
          races         \* what may overlap what (constant)

irpVars    == <<queue, status, cancel>>
dpcVars    == <<pc, held, snap>>
stateVars  == <<connected, enabled>>
inVars     == <<in, in_prod, in_cons>>
outVars    == <<out, out_prod, out_cons>>
eventVars  == <<pending, masked>>
leftVars   == <<left, races>>
vars       == <<irpVars, moved, file, queued, dpcVars, stateVars, inVars, outVars,
                eventVars, leftVars>>

Kind(i) == IF i \in Reads THEN "read" ELSE "write"

NoSnap == [prod |-> 0, cons |-> 0]

Nothing == [q \in {"read", "write"} |-> << >>]

Init == /\ queue = [q \in {"read", "write"} |-> << >>]
        /\ status = [i \in Irps |-> "idle"]
        /\ cancel = {}
        /\ moved = Nothing
        /\ file = [f \in Files |-> "open"]
        /\ queued = FALSE
        /\ pc = [c \in Cpus |-> "idle"]
        /\ held = [c \in Cpus |-> None]
        /\ snap = [c \in Cpus |-> NoSnap]
        /\ connected = FALSE
        /\ enabled = FALSE
        /\ in = [k \in 0 .. InSize - 1 |-> 0] /\ in_prod = 0 /\ in_cons = 0
        /\ out = [k \in 0 .. OutSize - 1 |-> 0] /\ out_prod = 0 /\ out_cons = 0
        /\ pending = FALSE
        /\ masked = TRUE
        /\ left = {}
        /\ races \in Cases

Less(a, b) == (a + IdxMod - b) % IdxMod

InAvailable(prod, cons)  == Less(prod, cons)

OutAvailable(prod, cons) == Less((cons + OutSize) % IdxMod, prod)

-----------------------------------------------------------------------------
(* The I/O manager.                                                        *)

(* RingPutQueue: the IRP goes to the tail of its queue, and the DPC is     *)
(* queued at once.                                                         *)
RingPutQueue(i) ==
  /\ file[FileOf[i]] = "open"
  /\ status[i] # "pending"
  /\ connected \/ "early" \in races
  /\ status' = [status EXCEPT ![i] = "pending"]
  /\ queue' = [queue EXCEPT ![Kind(i)] = Append(@, i)]
  /\ queued' = TRUE
  /\ UNCHANGED <<cancel, file, dpcVars, stateVars, inVars, outVars, eventVars,
                 leftVars>>

(* An IRP leaves its queue to be completed as cancelled. *)
CancelNth(q, k) ==
  /\ status' = [status EXCEPT ![queue[q][k]] = "idle"]
  /\ queue' = [queue EXCEPT ![q] = RemoveAt(@, k)]

CancelQueued(q, k) ==
  /\ CancelNth(q, k)
  /\ UNCHANGED <<cancel, file, queued, dpcVars, stateVars, inVars,
                 outVars, eventVars, leftVars>>

CancelHeld(c) ==
  /\ held[c] # None
  /\ held[c] \notin cancel
  /\ cancel' = cancel \union {held[c]}
  /\ UNCHANGED <<queue, status, file, queued, dpcVars, stateVars,
                 inVars, outVars, eventVars, leftVars>>

(* RingClose, on cleanup of the last handle of a file: the file's reads    *)
(* are cancelled one by one, then its writes.                              *)
CloseBegin(f) ==
  /\ file[f] = "open"
  /\ "close" \in races \/ \A c \in Cpus : pc[c] = "idle"
  /\ file' = [file EXCEPT ![f] = "reads"]
  /\ UNCHANGED <<irpVars, queued, dpcVars, stateVars, inVars, outVars,
                 eventVars, leftVars>>

(* RingCsqPeekNextIrp: the first IRP of the file on a queue, from k on. *)
First(q, f, k) == /\ k \in 1 .. Len(queue[q])
                  /\ FileOf[queue[q][k]] = f
                  /\ \A j \in 1 .. k - 1 : FileOf[queue[q][j]] # f

CloseLoop(f, q, stage, following) ==
  /\ file[f] = stage
  /\ \/ \E k \in 1 .. Len(queue[q]) : First(q, f, k) /\ CancelNth(q, k)
        /\ UNCHANGED file
     \/ /\ \A k \in 1 .. Len(queue[q]) : FileOf[queue[q][k]] # f
        /\ file' = [file EXCEPT ![f] = following]
        /\ UNCHANGED <<queue, status>>
  /\ UNCHANGED <<cancel, queued, dpcVars, stateVars, inVars, outVars,
                 eventVars, leftVars>>

CloseReads(f)  == CloseLoop(f, "read", "reads", "writes")

(* Mutation of CloseWrites: the reads are looked at again.                 *)
CloseWritesAgain(f) == CloseLoop(f, "read", "writes", "closed")

CloseWrites(f) == CloseLoop(f, "write", "writes", "closed")

(* RingOpen keeps no state: the slot stands for another file object. *)
RingOpen(f) ==
  /\ file[f] = "closed"
  /\ \A i \in Irps : FileOf[i] = f => status[i] # "pending"
  /\ file' = [file EXCEPT ![f] = "open"]
  /\ UNCHANGED <<irpVars, queued, dpcVars, stateVars, inVars, outVars,
                 eventVars, leftVars>>

-----------------------------------------------------------------------------
(* RingDpc.                                                                *)

Goes(c, from, to) == pc[c] = from /\ pc' = [pc EXCEPT ![c] = to]

DpcStart(c) ==
  /\ queued
  /\ "dpc" \in races \/ c = Boot
  /\ "close" \in races \/ \A f \in Files : file[f] \in {"open", "closed"}
  /\ queued' = FALSE
  /\ Goes(c, "idle", "check")
  /\ UNCHANGED <<irpVars, file, held, snap, stateVars, inVars, outVars,
                 eventVars, leftVars>>

(* Mutation of DpcCheck: the ring is polled whether or not it is enabled.  *)
DpcCheckSkips(c) ==
  /\ Goes(c, "check", "read")
  /\ UNCHANGED <<irpVars, file, queued, held, snap, stateVars, inVars,
                 outVars, eventVars, leftVars>>

DpcCheck(c) ==
  /\ Goes(c, "check", IF enabled THEN "read" ELSE "unmask")
  /\ UNCHANGED <<irpVars, file, queued, held, snap, stateVars, inVars,
                 outVars, eventVars, leftVars>>

(* Mutation of PollRemove: the IRP is looked at but stays on the queue.    *)
PollRemovePeeks(c, q, following) ==
  /\ held[c] = None
  /\ IF queue[q] = << >>
     THEN /\ Goes(c, q, following)
          /\ UNCHANGED held
     ELSE /\ Goes(c, q, IF q = "read" THEN "copyin" ELSE "copyout")
          /\ held' = [held EXCEPT ![c] = Head(queue[q])]
  /\ left' = left \ {q}
  /\ UNCHANGED <<queue, status, cancel, file, queued, snap, stateVars, inVars,
                 outVars, eventVars, races>>

(* RingPoll takes the first IRP of a queue, or goes on if it is empty. *)
PollRemove(c, q, following) ==
  /\ held[c] = None
  /\ IF queue[q] = << >>
     THEN /\ Goes(c, q, following)
          /\ UNCHANGED <<queue, held>>
     ELSE /\ Goes(c, q, IF q = "read" THEN "copyin" ELSE "copyout")
          /\ held' = [held EXCEPT ![c] = Head(queue[q])]
          /\ queue' = [queue EXCEPT ![q] = Tail(@)]
  /\ left' = left \ {q}
  /\ UNCHANGED <<status, cancel, file, queued, snap, stateVars, inVars, outVars,
                 eventVars, races>>

(* The indices are read once, before any character is copied. *)
CopySnap(c, at, copying, prod, cons) ==
  /\ Goes(c, at, copying)
  /\ snap' = [snap EXCEPT ![c] = [prod |-> prod, cons |-> cons]]
  /\ UNCHANGED <<irpVars, file, queued, held, stateVars, inVars, outVars,
                 eventVars, leftVars>>

(* The slots of a ring that the copy loop visits: at each turn what is     *)
(* wanted, what there is, and what is left before the end of the ring,     *)
(* whichever is least.                                                     *)
Least(a, b) == IF a < b THEN a ELSE b

Slots(from, available, length, size) ==
  LET total == Least(available, length)
      Loop[done \in 0 .. total] ==
        LET index == ((from + done) % IdxMod) % size
            m     == Least(total - done, size - index)
        IN  IF done = total THEN << >>
            ELSE [k \in 1 .. m |-> index + k - 1] \o Loop[done + m]
  IN  Loop[0]

(* What becomes of the IRP the DPC holds, of which s has been copied: it   *)
(* succeeds, or goes back to the head of its queue to end the loop, or is  *)
(* completed as cancelled by the attempt to put it back.  One for no       *)
(* characters is always put back, and ends the loop whatever waits behind. *)
Settle(c, q, s, following) ==
  LET i    == held[c]
      back == s = << >> /\ i \notin cancel
  IN  /\ held' = [held EXCEPT ![c] = None]
      /\ snap' = [snap EXCEPT ![c] = NoSnap]
      /\ pc' = [pc EXCEPT ![c] = IF s = << >> THEN following ELSE q]
      /\ queue' = IF back THEN [queue EXCEPT ![q] = <<i>> \o @] ELSE queue
      /\ status' = IF back THEN status ELSE [status EXCEPT ![i] = "idle"]
      /\ moved' = [Nothing EXCEPT ![q] = s]
      /\ cancel' = cancel \ {i}
      /\ left' = IF Length[i] = 0 THEN left \union {q} ELSE left
      /\ UNCHANGED <<file, queued, stateVars, eventVars, races>>

(* The second halves of RingCopyFromRead and RingCopyToWrite.  A page that *)
(* is gone by now takes no index with it.  The characters sent and written *)
(* are numbered by the index they are meant for, so that those in a ring   *)
(* all differ.                                                             *)
ReadSlots(c) == Slots(snap[c].cons, InAvailable(snap[c].prod, snap[c].cons),
                      Length[held[c]], InSize)

ReadFrom(c) == [k \in DOMAIN ReadSlots(c) |-> in[ReadSlots(c)[k]]]

(* Mutation of CopyIn: all there is counts as read, whatever was asked.    *)
CopyInSkips(c) ==
  /\ pc[c] = "copyingin"
  /\ Settle(c, "read", ReadFrom(c), "write")
  /\ in_cons' = IF connected THEN snap[c].prod ELSE in_cons
  /\ UNCHANGED <<in, in_prod, outVars>>

CopyIn(c) ==
  /\ pc[c] = "copyingin"
  /\ Settle(c, "read", ReadFrom(c), "write")
  /\ in_cons' = IF connected
                THEN (snap[c].cons + Len(ReadSlots(c))) % IdxMod
                ELSE in_cons
  /\ UNCHANGED <<in, in_prod, outVars>>

WriteSlots(c) == Slots(snap[c].prod, OutAvailable(snap[c].prod, snap[c].cons),
                       Length[held[c]], OutSize)

Written(c) == [k \in DOMAIN WriteSlots(c) |-> (snap[c].prod + k - 1) % IdxMod]

CopyOut(c) ==
  LET slots == WriteSlots(c)
  IN  /\ pc[c] = "copyingout"
      /\ Settle(c, "write", Written(c), "unmask")
      /\ out' = IF connected
                THEN [x \in DOMAIN out |->
                        IF \E k \in DOMAIN slots : slots[k] = x
                        THEN Written(c)[CHOOSE k \in DOMAIN slots : slots[k] = x]
                        ELSE out[x]]
                ELSE out
      /\ out_prod' = IF connected THEN (snap[c].prod + Len(slots)) % IdxMod
                                  ELSE out_prod
      /\ UNCHANGED <<out_cons, inVars>>

(* Mutation of DpcUnmask: the channel stays masked.                        *)
DpcUnmaskForgets(c) ==
  /\ Goes(c, "unmask", "idle")
  /\ UNCHANGED <<irpVars, file, queued, held, snap, stateVars, inVars, outVars,
                 eventVars, leftVars>>

(* Without Force the unmask may not complete if an event is pending; that  *)
(* it did not is what Unmask returns, and RingDpc does not look at it.     *)
DpcUnmask(c) ==
  /\ Goes(c, "unmask", "idle")
  /\ \/ masked' = (masked /\ ~connected) /\ left' = left \ {"event"}
     \/ /\ connected /\ masked /\ pending
        /\ masked' = masked
        /\ left' = left \union {"event"}
  /\ UNCHANGED <<irpVars, file, queued, held, snap, stateVars, inVars, outVars,
                 pending, races>>

RingDpc(c) ==
  \/ /\ \/ DpcCheck(c)
        \/ PollRemove(c, "read", "write")
        \/ CopySnap(c, "copyin", "copyingin", in_prod, in_cons)
        \/ PollRemove(c, "write", "unmask")
        \/ CopySnap(c, "copyout", "copyingout", out_prod, out_cons)
        \/ DpcUnmask(c)
     /\ moved' = Nothing
  \/ CopyIn(c)
  \/ CopyOut(c)

-----------------------------------------------------------------------------
(* The frontend connects, enables, disables and disconnects the ring.      *)

(* A new page is zero and a new channel is unmasked, with Force. *)
RingConnect ==
  /\ ~connected
  /\ connected' = TRUE
  /\ masked' = FALSE
  /\ UNCHANGED <<irpVars, file, queued, dpcVars, enabled, inVars, outVars,
                 pending, leftVars>>

(* Mutation of RingEnable: the DPC is not queued.                          *)
RingEnableForgets ==
  /\ connected
  /\ ~enabled
  /\ enabled' = TRUE
  /\ UNCHANGED <<irpVars, file, queued, dpcVars, connected, inVars, outVars,
                 eventVars, leftVars>>

RingEnable ==
  /\ connected
  /\ ~enabled
  /\ enabled' = TRUE
  /\ queued' = TRUE
  /\ UNCHANGED <<irpVars, file, dpcVars, connected, inVars, outVars,
                 eventVars, leftVars>>

Polling(c) == pc[c] \notin {"idle", "check", "unmask"}

RingDisable ==
  /\ enabled
  /\ "disconnect" \in races \/ \A c \in Cpus : pc[c] = "idle"
  /\ enabled' = FALSE
  /\ UNCHANGED <<irpVars, file, queued, dpcVars, connected, inVars, outVars,
                 eventVars, leftVars>>

(* The channel is closed, the page is zeroed and freed. *)
RingDisconnect ==
  /\ connected
  /\ ~enabled
  /\ "disconnect" \in races \/ (~queued /\ \A c \in Cpus : pc[c] = "idle")
  /\ connected' = FALSE
  /\ in' = [k \in DOMAIN in |-> 0] /\ in_prod' = 0 /\ in_cons' = 0
  /\ out' = [k \in DOMAIN out |-> 0] /\ out_prod' = 0 /\ out_cons' = 0
  /\ pending' = FALSE
  /\ masked' = TRUE
  /\ left' = left \ {"event"}
  /\ UNCHANGED <<irpVars, file, queued, dpcVars, enabled, races>>

Frontend == RingConnect \/ RingEnable \/ RingDisable \/ RingDisconnect

-----------------------------------------------------------------------------
(* The backend, and the event channel.                                     *)

BackendSends ==
  /\ connected
  /\ Less(in_prod, in_cons) < InSize
  /\ in' = [in EXCEPT ![in_prod % InSize] = in_prod]
  /\ in_prod' = (in_prod + 1) % IdxMod
  /\ pending' = TRUE
  /\ UNCHANGED <<irpVars, file, queued, dpcVars, stateVars, in_cons, outVars,
                 masked, leftVars>>

BackendTakes ==
  /\ connected
  /\ out_prod # out_cons
  /\ out_cons' = (out_cons + 1) % IdxMod
  /\ pending' = TRUE
  /\ UNCHANGED <<irpVars, file, queued, dpcVars, stateVars, inVars, out,
                 out_prod, masked, leftVars>>

(* The channel is masked while its event is being served. *)
RingEvtchnCallback ==
  /\ pending
  /\ ~masked
  /\ pending' = FALSE
  /\ masked' = TRUE
  /\ queued' = TRUE
  /\ UNCHANGED <<irpVars, file, dpcVars, stateVars, inVars, outVars, leftVars>>

-----------------------------------------------------------------------------
IoManager == \/ \E i \in Irps : RingPutQueue(i)
             \/ \E q \in DOMAIN queue : \E k \in 1 .. Len(queue[q]) :
                  CancelQueued(q, k)
             \/ \E c \in Cpus : CancelHeld(c)
             \/ \E f \in Files : CloseBegin(f) \/ RingOpen(f)

DpcRuns    == DpcStart(Boot) /\ moved' = Nothing
Interrupts == RingEvtchnCallback /\ moved' = Nothing

RingClose(f) == (CloseReads(f) \/ CloseWrites(f)) /\ moved' = Nothing

Others == \/ IoManager
          \/ Frontend
          \/ BackendSends \/ BackendTakes
          \/ \E c \in Cpus \ {Boot} : DpcStart(c)

Next == \/ Others /\ moved' = Nothing
        \/ DpcRuns
        \/ Interrupts
        \/ \E f \in Files : RingClose(f)
        \/ \E c \in Cpus : RingDpc(c)

Spec == Init /\ [][Next]_vars

(* A queued DPC runs, however often cleanups are assumed to keep it from   *)
(* running; a running one goes on, an unmasked event is delivered, and a   *)
(* cleanup goes on.                                                        *)
Fairness == /\ \A c \in Cpus : WF_vars(RingDpc(c))
            /\ SF_vars(DpcRuns)
            /\ WF_vars(Interrupts)
            /\ \A f \in Files : WF_vars(RingClose(f))

FairSpec == Spec /\ Fairness

-----------------------------------------------------------------------------
(* Every variable keeps its type, and what the DPC takes off a queue is of *)
(* the function it asserts.                                                *)
TypeOK ==
  /\ queue \in [{"read", "write"} -> Seq(Irps)]
  /\ status \in [Irps -> {"idle", "pending"}]
  /\ cancel \subseteq Irps
  /\ \A q \in DOMAIN moved :
       moved[q] # << >> => \E i \in Irps : Kind(i) = q /\ Len(moved[q]) <= Length[i]
  /\ file \in [Files -> {"open", "reads", "writes", "closed"}]
  /\ pc \in [Cpus -> {"idle", "check", "read", "copyin", "copyingin", "write",
                      "copyout", "copyingout", "unmask"}]
  /\ held \in [Cpus -> Irps \union {None}]
  /\ \A c \in Cpus : /\ snap[c] \in [prod : 0 .. IdxMod - 1, cons : 0 .. IdxMod - 1]
                     /\ pc[c] \in {"copyin", "copyingin"} => held[c] \in Reads
                     /\ pc[c] \in {"copyout", "copyingout"} => held[c] \in Irps \ Reads
  /\ \A b \in {queued, connected, enabled, pending, masked} : b \in BOOLEAN
  /\ left \subseteq {"read", "write", "event"}
  /\ {in_prod, in_cons, out_prod, out_cons} \subseteq 0 .. IdxMod - 1

(* Whatever overlaps, each pending IRP is in one place: once on the queue  *)
(* of its kind, or with the DPC on one processor; and only pending ones    *)
(* are.  None is lost or completed twice, nor parked on a queue when its   *)
(* cancellation was requested while the DPC held it.                       *)
OnQueue(q, i) == {q} \X {k \in 1 .. Len(queue[q]) : queue[q][k] = i}

Places(i) == OnQueue("read", i) \union OnQueue("write", i)
               \union ({"dpc"} \X {c \in Cpus : held[c] = i})

IrpAccounted ==
  /\ \A i \in Irps : Cardinality(Places(i)) = IF status[i] = "pending" THEN 1 ELSE 0
  /\ \A q \in DOMAIN queue : \A k \in 1 .. Len(queue[q]) :
       Kind(queue[q][k]) = q /\ queue[q][k] \notin cancel

(* RingClose leaves the file without a pending IRP, unless the DPC ran at  *)
(* the same time and put back what it held.                                *)
CloseCancels ==
  "close" \notin races =>
    \A i \in Irps : file[FileOf[i]] = "closed" => status[i] # "pending"

(* The DPC reads and writes the shared page, and unmasks the channel, only *)
(* while they exist, unless the ring is disconnected around it or an IRP   *)
(* that is submitted before it is connected queues it.                     *)
NoUseAfterDisconnect ==
  /\ "disconnect" \notin races => \A c \in Cpus : Polling(c) => connected
  /\ races \intersect {"disconnect", "early"} = {}
       => \A c \in Cpus : pc[c] = "unmask" => connected

(* Everything is at rest. *)
AtRest == /\ \A c \in Cpus : pc[c] = "idle"
          /\ ~queued
          /\ ~(pending /\ ~masked)

(* No wake-up is lost while the DPC runs on one processor at a time: when  *)
(* all is at rest in an enabled ring, a read that waits has nothing to     *)
(* read, and a write no room, however often IRPs are cancelled, queues     *)
(* emptied and the ring connected again.  Two things undo this and are     *)
(* excepted: an unmask that did not complete, until one does, and an IRP   *)
(* for no characters in that queue, until the DPC looks at it again.       *)
NoLostWakeup ==
  /\ TypeOK
  /\ ("dpc" \notin races /\ AtRest /\ connected /\ enabled
       /\ "event" \notin left) =>
       /\ (queue["read"] # << >> /\ "read" \notin left)
            => InAvailable(in_prod, in_cons) = 0
       /\ (queue["write"] # << >> /\ "write" \notin left)
            => OutAvailable(out_prod, out_cons) = 0

(* Both directions are the queues of characters that RingFifo promises, as *)
(* long as neither two processors nor a disconnection meet in the copy.    *)
Content(ring, from, n, size) == [k \in 1 .. n |-> ring[(from + k - 1) % size]]

InFifo == INSTANCE RingFifo
            WITH Capacity <- InSize,
                 queue <- Content(in, in_cons, Less(in_prod, in_cons), InSize),
                 moved <- moved["read"]

OutFifo == INSTANCE RingFifo
             WITH Capacity <- OutSize,
                  queue <- Content(out, out_cons, Less(out_prod, out_cons),
                                   OutSize),
                  moved <- moved["write"]

Undisturbed == races \intersect {"dpc", "disconnect"} = {}

ImplementsFifos == [][Undisturbed => InFifo!InNext /\ OutFifo!OutNext]_vars

(* The oldest read of an enabled ring that has characters for it is        *)
(* completed, unless the ring is disabled first or writes succeed for      *)
(* ever: RingPoll leaves a queue only when it is empty or blocked.  It may *)
(* wait longer after an unmask that did not complete, or when an IRP for   *)
(* no characters has ended the loop.                                       *)
OldestRead(i) ==
  IF \E c \in Cpus : held[c] \in Reads
  THEN \E c \in Cpus : held[c] = i
  ELSE queue["read"] # << >> /\ Head(queue["read"]) = i

FirstReadServed ==
  \/ []<>(moved["write"] # << >>)
  \/ \A i \in Reads :
       (races = {} /\ enabled /\ OldestRead(i) /\ in_prod # in_cons)
         ~> \/ status[i] # "pending" \/ ~enabled
            \/ left \intersect {"event", "read"} # {}
=============================================================================
