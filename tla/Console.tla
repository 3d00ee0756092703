------------------------------ MODULE Console -------------------------------
(***************************************************************************)
(* The default console of the FDO (src/xencons/console.c) as the dispatch  *)
(* routines of the PDO use it (src/xencons/pdo.c): a list of handles, one  *)
(* per open file object, each owning a stream.  Opening, cleaning up,      *)
(* reading and writing, and the power-down that destroys every handle, run *)
(* concurrently; the list's spin lock is held only around the look-up, the *)
(* insertion, the removal and the sweep, never around the use of a handle. *)
(*                                                                         *)
(* A stream is what module IrpQueue promises, which module Stream is shown *)
(* to implement: order[f] and status are its requests, phase[f] how far    *)
(* StreamDestroy is.                                                       *)
(*                                                                         *)
(* A call that has found a handle may come to use it when another has      *)
(* taken it off the list, is destroying it or has freed it.  Where that    *)
(* touches memory that has been given up, the variable ruined records it:  *)
(* anything may happen from there on, and no property speaks of it, so     *)
(* that the model ends there.                                              *)
(***************************************************************************)
EXTENDS Naturals, FiniteSets, Sequences, SequencesExt

CONSTANTS Files,        \* the file objects that may be opened
          Irps,         \* the read and write IRPs
          FileOf,       \* the file object of each IRP
          Watched,      \* the one whose stream is compared with IrpQueue
          None,         \* no file object
          MaxSleeps     \* bound: how often the device goes to D3

ASSUME ConsoleAssumption == /\ FileOf \in [Irps -> Files]
                            /\ Watched \in Files
                            /\ None \notin Files
                            /\ MaxSleeps \in Nat

VARIABLES list,         \* Console->List: the files whose handles are on it
          swept,        \* the local list of ConsoleD0ToD3
          popped,       \* the handle ConsoleD0ToD3 is destroying
          file,         \* where each file object is in its life
          phase,        \* how far each handle and its stream are
          destroyers,   \* who has called __ConsoleDestroyHandle on each
          order,        \* the IRPs each stream owns, oldest first
          status,       \* what the I/O manager sees of each IRP
          power,        \* where ConsoleD3ToD0 and ConsoleD0ToD3 are
          sleeps,       \* how often ConsoleD0ToD3 has been called
          ruined        \* memory has been used after it was given up

handleVars == <<phase, destroyers>>
irpVars    == <<order, status>>
powerVars  == <<swept, popped, power, sleeps>>
vars       == <<list, file, handleVars, irpVars, powerVars, ruined>>

IrpsOf(f) == {i \in Irps : FileOf[i] = f}

Listed(f) == Contains(list, f)

Without(s, f) == RemoveFirst(s, f)

Init == /\ list = << >>
        /\ swept = << >>
        /\ popped = None
        /\ file = [f \in Files |-> "new"]
        /\ phase = [f \in Files |-> "none"]
        /\ destroyers = [f \in Files |-> {}]
        /\ order = [f \in Files |-> << >>]
        /\ status = [i \in Irps |-> "idle"]
        /\ power = "D0"
        /\ sleeps = 0
        /\ ruined = FALSE

-----------------------------------------------------------------------------
(* PdoDispatchCreate: ConsoleOpen, in any power state.                     *)

(* No memory for the handle: the create fails and leaves nothing. *)
OpenNoMemory(f) ==
  /\ file[f] = "new"
  /\ file' = [file EXCEPT ![f] = "failed"]
  /\ UNCHANGED <<list, handleVars, irpVars, powerVars, ruined>>

(* No stream: __ConsoleCreateHandle frees its own argument, the address of *)
(* a variable of ConsoleOpen, and the handle it has allocated stays behind. *)
OpenNoStream(f) ==
  /\ file[f] = "new"
  /\ file' = [file EXCEPT ![f] = "failed"]
  /\ phase' = [phase EXCEPT ![f] = "allocated"]
  /\ ruined' = TRUE
  /\ UNCHANGED <<list, destroyers, irpVars, powerVars>>

OpenCreate(f) ==
  /\ file[f] = "new"
  /\ file' = [file EXCEPT ![f] = "opening"]
  /\ phase' = [phase EXCEPT ![f] = "open"]
  /\ UNCHANGED <<list, destroyers, irpVars, powerVars, ruined>>

OpenInsert(f) ==
  /\ file[f] = "opening"
  /\ file' = [file EXCEPT ![f] = "open"]
  /\ list' = Append(list, f)
  /\ UNCHANGED <<handleVars, irpVars, powerVars, ruined>>

-----------------------------------------------------------------------------
(* PdoDispatchReadWriteControl: the handle is found under the lock and its *)
(* stream used without it.                                                 *)

ReadWriteFind(i) ==
  /\ file[FileOf[i]] = "open"
  /\ status[i] = "idle"
  /\ status' = [status EXCEPT ![i] = IF Listed(FileOf[i]) THEN "found"
                                                          ELSE "failed"]
  /\ UNCHANGED <<list, file, handleVars, order, powerVars, ruined>>

(* Mutation of ReadWritePut: the IRP goes before the others.               *)
ReadWritePutFirst(i) ==
  /\ status[i] = "found"
  /\ phase[FileOf[i]] = "open"
  /\ status' = [status EXCEPT ![i] = "pending"]
  /\ order' = [order EXCEPT ![FileOf[i]] = <<i>> \o @]
  /\ UNCHANGED <<list, file, handleVars, powerVars, ruined>>

(* A stream that is being destroyed still takes the IRP if its thread has  *)
(* not been joined, and has no thread to wake afterwards; one that has     *)
(* been emptied is about to be freed, or has been.                         *)
ReadWritePut(i) ==
  /\ status[i] = "found"
  /\ status' = [status EXCEPT ![i] = "pending"]
  /\ LET p == phase[FileOf[i]]
     IN  \/ /\ p \in {"open", "closing"}
            /\ order' = [order EXCEPT ![FileOf[i]] = Append(@, i)]
            /\ UNCHANGED ruined
         \/ /\ p # "open"
            /\ ruined' = TRUE
            /\ UNCHANGED order
  /\ UNCHANGED <<list, file, handleVars, powerVars>>

-----------------------------------------------------------------------------
(* What a stream does to its IRPs, after module IrpQueue.                  *)

StreamSucceed(f) ==
  /\ phase[f] \in {"open", "closing"}
  /\ order[f] # << >>
  /\ status' = [status EXCEPT ![Head(order[f])] = "success"]
  /\ order' = [order EXCEPT ![f] = Tail(@)]
  /\ UNCHANGED <<list, file, handleVars, powerVars, ruined>>

StreamCancel(f, k) ==
  /\ phase[f] \in {"open", "closing"}
  /\ status' = [status EXCEPT ![order[f][k]] = "cancelled"]
  /\ order' = [order EXCEPT ![f] = RemoveAt(@, k)]
  /\ UNCHANGED <<list, file, handleVars, powerVars, ruined>>

(* Mutation of StreamDrained: what is left on the list is not cancelled.   *)
StreamDrainedEarly(f) ==
  /\ phase[f] = "closing"
  /\ phase' = [phase EXCEPT ![f] = "drained"]
  /\ UNCHANGED <<list, file, destroyers, irpVars, powerVars, ruined>>

(* StreamDestroy, called by whoever destroys the handle: the stream stops, *)
(* its drain loop finds the list empty, and it is freed.                   *)
StreamDrained(f) ==
  /\ phase[f] = "closing"
  /\ order[f] = << >>
  /\ phase' = [phase EXCEPT ![f] = "drained"]
  /\ UNCHANGED <<list, file, destroyers, irpVars, powerVars, ruined>>

StreamFree(f) ==
  /\ phase[f] = "drained"
  /\ phase' = [phase EXCEPT ![f] = "closed"]
  /\ order' = [order EXCEPT ![f] = << >>]
  /\ UNCHANGED <<list, file, destroyers, status, powerVars, ruined>>

(* __ConsoleDestroyHandle. *)
DestroyHandle(f, who) ==
  /\ destroyers' = [destroyers EXCEPT ![f] = @ \union {who}]
  /\ phase' = [phase EXCEPT ![f] = IF @ = "open" THEN "closing" ELSE @]

-----------------------------------------------------------------------------
(* PdoDispatchCleanup: ConsoleClose.                                       *)

CloseFind(f) ==
  /\ file[f] = "open"
  /\ file' = [file EXCEPT ![f] = IF Listed(f) THEN "remove" ELSE "closed"]
  /\ UNCHANGED <<list, handleVars, irpVars, powerVars, ruined>>

(* Mutation of CloseRemove: the handle is destroyed but stays listed.      *)
CloseRemoveForgets(f) ==
  /\ file[f] = "remove"
  /\ file' = [file EXCEPT ![f] = "destroy"]
  /\ DestroyHandle(f, "close")
  /\ UNCHANGED <<list, irpVars, powerVars, ruined>>

(* RemoveEntryList takes the handle off whichever list it is on by now.    *)
(* The sweep takes handles off its own list without the lock: the removal  *)
(* from there goes well if the sweep leaves the list alone meanwhile.  A   *)
(* handle on neither list has been taken by the sweep, its links have been *)
(* zeroed, and it may have been freed.                                     *)
CloseRemove(f) ==
  /\ file[f] = "remove"
  /\ file' = [file EXCEPT ![f] = "destroy"]
  /\ list' = Without(list, f)
  /\ swept' = Without(swept, f)
  /\ DestroyHandle(f, "close")
  /\ \/ (Listed(f) \/ Contains(swept, f)) /\ UNCHANGED ruined
     \/ ~Listed(f) /\ ruined' = TRUE
  /\ UNCHANGED <<irpVars, popped, power, sleeps>>

CloseReturn(f) ==
  /\ file[f] = "destroy"
  /\ phase[f] = "closed"
  /\ file' = [file EXCEPT ![f] = "closed"]
  /\ UNCHANGED <<list, handleVars, irpVars, powerVars, ruined>>

-----------------------------------------------------------------------------
(* PdoD3ToD0 and PdoD0ToD3: ConsoleD3ToD0 does nothing, ConsoleD0ToD3      *)
(* takes every handle off the list and destroys them one by one.           *)

SleepSweep ==
  /\ power = "D0"
  /\ sleeps < MaxSleeps
  /\ power' = "sweep"
  /\ sleeps' = sleeps + 1
  /\ swept' = list
  /\ list' = << >>
  /\ UNCHANGED <<file, handleVars, irpVars, popped, ruined>>

SleepPop ==
  /\ power = "sweep"
  /\ popped = None
  /\ swept # << >>
  /\ popped' = Head(swept)
  /\ swept' = Tail(swept)
  /\ DestroyHandle(Head(swept), "power")
  /\ UNCHANGED <<list, file, irpVars, power, sleeps, ruined>>

SleepPopped ==
  /\ popped # None
  /\ phase[popped] = "closed"
  /\ popped' = None
  /\ UNCHANGED <<list, file, handleVars, irpVars, swept, power, sleeps,
                 ruined>>

(* Mutation of SleepDone: only the first handle is destroyed.              *)
SleepDoneEarly ==
  /\ power = "sweep"
  /\ popped = None
  /\ power' = "D3"
  /\ UNCHANGED <<list, file, handleVars, irpVars, swept, popped, sleeps,
                 ruined>>

SleepDone ==
  /\ power = "sweep"
  /\ popped = None
  /\ swept = << >>
  /\ power' = "D3"
  /\ UNCHANGED <<list, file, handleVars, irpVars, swept, popped, sleeps,
                 ruined>>

Wake ==
  /\ power = "D3"
  /\ power' = "D0"
  /\ UNCHANGED <<list, file, handleVars, irpVars, swept, popped, sleeps,
                 ruined>>

-----------------------------------------------------------------------------
Open(f) == OpenNoMemory(f) \/ OpenNoStream(f) \/ OpenCreate(f) \/ OpenInsert(f)

Close(f) == CloseFind(f) \/ CloseRemove(f) \/ CloseReturn(f)

ReadWrite(i) == ReadWriteFind(i) \/ ReadWritePut(i)

Stream(f) == \/ StreamSucceed(f)
             \/ \E k \in 1 .. Len(order[f]) : StreamCancel(f, k)
             \/ StreamDrained(f)
             \/ StreamFree(f)

Power == SleepSweep \/ SleepPop \/ SleepPopped \/ SleepDone \/ Wake

(* The model ends where memory is used after it was given up. *)
Next == /\ ~ruined
        /\ \/ \E f \in Files : Open(f) \/ Close(f) \/ Stream(f)
           \/ \E i \in Irps : ReadWrite(i)
           \/ Power

Spec == Init /\ [][Next]_vars

(* Calls that have begun go on, and a stream that is being destroyed comes *)
(* to its end: Stream's DestroyCompletes.                                  *)
Fairness ==
  /\ \A f \in Files :
       /\ WF_vars(~ruined /\ OpenInsert(f))
       /\ WF_vars(~ruined /\ (CloseRemove(f) \/ CloseReturn(f)))
       /\ WF_vars(~ruined /\ phase[f] # "open" /\ Stream(f))
  /\ \A i \in Irps : WF_vars(~ruined /\ ReadWritePut(i))
  /\ WF_vars(~ruined /\ (SleepPop \/ SleepPopped \/ SleepDone))

FairSpec == Spec /\ Fairness

-----------------------------------------------------------------------------
(* Every variable keeps its type, and the sweep's local list does not      *)
(* outlive the call it belongs to.                                         *)
TypeOK ==
  /\ list \in Seq(Files)
  /\ swept \in Seq(Files)
  /\ popped \in Files \union {None}
  /\ file \in [Files -> {"new", "failed", "opening", "open", "remove",
                         "destroy", "closed"}]
  /\ phase \in [Files -> {"none", "allocated", "open", "closing", "drained",
                          "closed"}]
  /\ destroyers \in [Files -> SUBSET {"close", "power"}]
  /\ order \in [Files -> Seq(Irps)]
  /\ status \in [Irps -> {"idle", "found", "pending", "failed", "success",
                          "cancelled"}]
  /\ power \in {"D0", "sweep", "D3"}
  /\ sleeps \in 0 .. MaxSleeps
  /\ ruined \in BOOLEAN
  /\ power # "sweep" => swept = << >> /\ popped = None

(* Until a handle is used after it was given up, one that is on the        *)
(* console's list or on the sweep's is on one of them only, once, and is   *)
(* one nobody has begun to destroy: what __ConsoleFindHandle returns is    *)
(* alive at the time it returns it, and cleanup and power-down, which may  *)
(* meet at any point, never both destroy a handle that neither lost to the *)
(* other.                                                                  *)
ListedLive ==
  /\ TypeOK
  /\ ~ruined =>
       /\ LET on == list \o swept
          IN  /\ IsInjective(on)
              /\ \A k \in 1 .. Len(on) : /\ phase[on[k]] = "open"
                                         /\ on[k] # popped
       /\ \A f \in Files : Cardinality(destroyers[f]) <= 1

(* Nor is an IRP that was accepted ever forgotten, even one that a stream  *)
(* takes while it is being destroyed: each pending IRP is in the queue of  *)
(* its own file's stream, and a stream that has been emptied and freed     *)
(* owns none; it stays empty, as StreamDestroy asserts.                    *)
NoLostIrp ==
  ~ruined =>
    /\ \A i \in Irps : status[i] = "pending"
         => /\ Contains(order[FileOf[i]], i)
            /\ phase[FileOf[i]] \in {"open", "closing"}
    /\ \A f \in Files : phase[f] = "drained" => order[f] = << >>

(* The console uses a stream, whichever it is, as module Stream assumes:   *)
(* the steps of its queue are those of IrpQueue, in which a request may    *)
(* come after the queue has been shut, is served in its turn, and none is  *)
(* left when the queue is closed.                                          *)
QueuePhase(f) == CASE phase[f] \in {"none", "allocated", "open"} -> "open"
                   [] phase[f] \in {"closing", "drained"}        -> "closing"
                   [] OTHER                                      -> "closed"

Accepted(i) == IF status[i] \in {"found", "failed"} THEN "idle" ELSE status[i]

Queue == INSTANCE IrpQueue
           WITH Irps   <- IrpsOf(Watched),
                order  <- order[Watched],
                status <- [i \in IrpsOf(Watched) |-> Accepted(i)],
                phase  <- QueuePhase(Watched)

UsesStreams == [][~ruined' => [Queue!QNext]_(Queue!qvars)]_vars

(* Closing the last handle of a file, or powering the device down while it *)
(* is open, completes what was read and written through it; a power-down   *)
(* ends, and so does every handle that it found open; and a cleanup that   *)
(* found its handle ends with the handle gone, whether the file was opened *)
(* before a power-down, during it or after it.  All this until a handle is *)
(* used after it was given up.                                             *)
DestructionCompletes ==
  /\ \A i \in Irps :
       (status[i] = "pending" /\ phase[FileOf[i]] # "open")
         ~> (status[i] # "pending" \/ ruined)
  /\ power = "sweep" ~> (power = "D3" \/ ruined)
  /\ \A f \in Files :
       /\ (Contains(swept, f) \/ popped = f) ~> (phase[f] = "closed" \/ ruined)
       /\ file[f] = "remove"
            ~> (file[f] = "closed" /\ phase[f] = "closed") \/ ruined
=============================================================================
