# The xencons driver in TLA+

This directory specifies `win-xencons`, the Windows driver for the consoles that
Xen gives a guest, and the two user-mode programs beside it. Its modules are
translated from the sources in `src/`; TLC checks them on small instances, and
TLAPS proves the safety of all of them for every value of the constants.
`PROJECT.json` lists the components, the runs, the lines each definition
models, the hazards, the findings, the theorems, and, for each property, a
mutant of the model that breaks it.

- [The system](#the-system)
- [The modules and the code](#the-modules-and-the-code)
- [Runs](#runs)
- [Fairness](#fairness)
- [Proofs](#proofs)
- [What the checks found](#what-the-checks-found)
- [What is not modelled](#what-is-not-modelled)
- [Plan](#plan)

## The system

XENBUS, another driver, presents a bus. On it xencons creates a *function device
object* (FDO, `fdo.c`), and the FDO has children, *physical device objects*
(PDOs, `pdo.c`): one for the guest's **default console**, made with the FDO, and
one for each **other console** the toolstack names in the store's
`device/console` directory. A program opens a PDO, reads and writes. A table of
methods (`console_abi.h`) hides which kind of console is behind it:

    program --- open/cleanup/read/write IRPs ---> pdo.c
                                                    |  XENCONS_CONSOLE_ABI
                    default console                 |            other consoles
            console.c: a list of handles  <---------+--------->  frontend.c: states,
                |                                                 handshake, eject
            stream.c: queue + worker thread                          |
                |                                                ring.c: 2 queues + DPC
            XENBUS_CONSOLE (shared by all streams)                   |
                |                                                shared page, event channel
              backend                                              backend

| component | state | operations | interacts by |
|---|---|---|---|
| `thread.c` | event, alert flag, references | create, wake, alert, join | an event and a flag |
| `stream.c` | cancel-safe list of IRPs, thread | create, destroy, put; worker; CSQ callbacks | IRPs, `XENBUS_CONSOLE`, wake-up event |
| `console.c` | list of handles, references | open, close, read/write, D3ToD0, D0ToD3, acquire, release | calls from `pdo.c`, streams |
| `ring.c` | two lists, page, indices, enabled, DPC | connect, enable, put, close, DPC, event channel | page and channel shared with the backend |
| `frontend.c` | state, online, backend path, watch | SetState, acquire, release, eject thread | store nodes, ring, PDO |
| `fdo.c` | PnP and power state, list, references, scan thread | PnP and power IRPs, scan | mutex, events, PDOs |
| `pdo.c` | PnP and power state, missing, eject | PnP and power IRPs, dispatch | FDO's mutex, ABI |
| `driver.c`, `registry.c` | none that changes | dispatch; registry access | calls |
| `monitor.c` | list of consoles, each with threads, pipes, a process | device events, service control | events, pipes, device |
| `tty.c` | terminal, a line, a shell | login, copy in, copy out | pipe, handles |

What makes it hard, and what must hold nevertheless:

- **IRPs.** The I/O manager may cancel an IRP at any time, also while a worker or
  a DPC has it in its hands. Each must be owned in one place and completed once;
  none may be parked after its cancellation.
- **Wake-ups.** The stream's worker and the ring's DPC look, find nothing to do,
  and rest. Whatever arrives between the look and the rest must wake them.
- **Lock scopes.** `console.c` holds its lock for a look-up and not for the use of
  what was found; `fdo.c` holds its mutex for its list but not together with its
  power state; `RingPoll` holds no lock at all.
- **Sharing with the backend.** Ring indices run freely over 2^32; the page must
  not be freed while the backend maps it.
- **The other end fails or leaves.** A backend closes, or does not answer; the
  toolstack removes it; devices come and go in the directory in the middle of
  PnP operations; memory runs out half-way.
- **Power.** A system power IRP of a device becomes a device power IRP of another
  of its threads, for the bus and for each console; the slots through which IRPs
  reach the threads hold one each and have no lock.
- **The service.** Devices come and go on the control handler's thread while the
  main thread enumerates them or destroys their consoles.
- **Termination.** A stream's destruction, a power-down, a query of the bus, a
  removal and the stop of the service each wait for a thread that must still answer.

## The modules and the code

An action is a step of a thread, DPC, callback or IRP between two points where
others can see or change shared state. What is done under one lock is one action
(`Fdo->Mutex`, `Console->Lock`, the queue's lock); a call made without one is
split. Data is abstract: characters are counted or numbered, names are model
values. The I/O manager's cancel-safe queues, the PnP manager, the interfaces of
XENBUS, the backend and the toolstack are not in this repository; their actions
say what the driver relies on, and are marked external in the map.

**`IrpQueue`** is the abstract queue: requests are accepted at the end, also after it
has been shut, the oldest succeeds, any may be cancelled, a closed queue holds none.

**`Stream`** (`stream.c`, `thread.c`). `worker` follows `StreamWorker`: wait, clear
the event, look at the alert flag, then drain, poll (`CanRead`, `CanWrite`),
transfer, or reinsert the blocked IRP at the head and wait. `held` is the IRP
between `IoCsqRemoveNextIrp` and its completion. `CancelQueued` is a cancellation
that finds the IRP on the list, `CancelHeld` one that does not, after which
`IoCsqInsertIrpEx` completes the IRP at its reinsertion. `destroy` follows
`StreamDestroy`: alert, join, drain, free. `shared` says whether other streams
use the same XENBUS console. `information` is what an IRP was completed with: a
transfer moves what there is up to `Length`, which is 0 for some IRPs, as
`pdo.c:1790` filters nothing; `overtaken` has the IRPs for which another stream took
what `CanRead` or `CanWrite` had found. A worker that cannot acquire the interface goes from
"start" to "exit". A stream implements `IrpQueue`: an IRP in the worker's hands
is still the oldest.

**`Console`** (`console.c`, dispatch of `pdo.c`). Per file object `file` says where
create and cleanup are, `phase` how far its handle and stream. `CloseFind` and
`CloseRemove` are apart because the lock is dropped between them, as are
`ReadWriteFind` and `ReadWritePut`. `SleepSweep` moves the list to the local one of
`ConsoleD0ToD3`, which is then popped handle by handle. Streams are replaced by
what `IrpQueue` promises; `UsesStreams` checks that they are used as `Stream`
assumes, for one file, `Watched`, that may be any. Nothing keeps a call that has found a
handle from using it when another call has taken it off the list, is destroying it
or has freed it, and the model has all of these meetings. A handle on the local list of the
power-down may be unlinked from there by a cleanup (`CloseRemove`), an IRP may reach a stream
that is being destroyed and be completed by it (`ReadWritePut`). Where a call may instead
touch memory that has been given up, such as a list entry that the sweep has popped and
zeroed or a stream that has been emptied, `ruined` is set: anything may happen in the code
from there, so the model ends, and the properties promise nothing.

**`Ring`**, **`RingFifo`** (`ring.c`). Indices are modulo `IdxMod` as the code's are
modulo 2^32, characters are numbered by the index at which they were sent, and
IRPs, files and connections are used over and over, so that nothing is bounded but the sizes.
An IRP may be for no characters: it is never completed by a copy and ends the loop over its queue, as in the code. `pc[c]`
is where `RingDpc` is on processor `c`: the check of `Enabled`, then for each
queue the removal, the reading of the indices (`snap`), the copy, completion or
reinsertion, then the unmasking. `Cases` lists what may overlap the DPC: a second
processor ("dpc"), `RingClose` ("close"), a disconnection ("disconnect"), a
submission to an unconnected ring ("early"). The code excludes none of them; each
property names those it needs to be absent. The unmask may not complete when an event is
pending (`DpcUnmask`), in which case the channel stays masked and the event undelivered. `left`
says what the DPC has left behind: a queue at an IRP for no characters ("read", "write"), or such
an event ("event"), until the DPC next looks at the queue, or unmasks the channel. `RingFifo` is the abstract promise
for a direction: characters move in order, none lost or duplicated.
`RingPutQueue`'s insertion and queueing of the DPC are one action.

**`Frontend`** (`frontend.c`). `pc` follows `FrontendSetState` through
`FrontendPrepare`, `FrontendConnect` and `FrontendClose`; every step that can fail
may fail. `store`, `path`, `watch` and `ring` are what is acquired. The lock is
held throughout a call, so one call is in progress and the eject thread looks at
the state only between calls (`LockFree`). `setting`, which a behaviour keeps, says which states are asked
for and which threads acquire and release the frontend; in the code at hand the calls with targets other than `FRONTEND_UNKNOWN` are commented out
(`frontend.c:1416`, `1429`). `abi` is where each thread is in `FrontendAbiAcquire` or
`FrontendAbiRelease`: it clears the eject event, wakes the eject thread and waits for the event, which all
callers share. The last release (`frontend.c:1389`) and a first acquisition that fails (`1357`) call
`FrontendSetState` with the lock held: `spinning` says that one of them waits for the lock it holds itself, after
which nothing that needs the lock goes on. The backend follows the protocol of `xenbus.h`; the
toolstack may take it offline, remove it and make it anew. A request to eject is
forgotten (`EjectHandled`) only while the toolstack wants the backend.

**`Pnp`** (`fdo.c`, `pdo.c`). `fdoState`, `state` and their previous states are the
`DevicePnpState`s; `list`, `references`, `missing`, `eject` as in the code; `refs` counts
what `PdoResume` and `PdoSuspend` acquire and release. The scan thread has four
steps: wait, check the state, read the directory, enumerate under the mutex. The
PnP manager has one IRP in progress (`pnp`), and keeps its rules: it queries the
relations again before other operations once they have been invalidated; it
stops or removes the FDO when no child is started; a device that is no longer
reported gets a surprise removal, if it was started, and a removal. `ejecting` is
how far the PnP manager is with the eject of each PDO. The children's power IRPs are
merged with those of the FDO in `Sleep` and `WakeResume`. `races` selects which of the code's
hazards a behaviour may contain: "gap", the scan enumerates between the two
halves of a power change; "missing", a power-down with a missing PDO on the
list; "query", the scan thread is woken while a query of the FDO is unanswered;
"memory", allocations fail; "directory", `device/console` cannot be read. `DevnodesListed` and `OneDevicePerName` hold in all of
them; the others name those they exclude, and what happens in those is either a
finding or explained under hazards.

**`PowerThread`**, **`Power`** (`thread.c`, `fdo.c`, `pdo.c`). `PowerThread` is the loop that
`FdoSystemPower`, `FdoDevicePower` and their counterparts in `pdo.c` have in common, with the thread
under it: `at` is where the loop is, `slot` the device's `SystemPowerIrp` or `DevicePowerIrp`, `irp`
the local variable, `references`, `event` and `alerted` as in `thread.c`. `Take` reads the
slot and `Empty` clears it in a step of its own. `Power` has two threads for each device, creates and
destroys them in the order of the code (`life`), and says what becomes of an
IRP: `SystemRequest`, `FdoSystemUp` and `FdoSystemQuery` send a device IRP and wait at
"requested"; `DeviceMove` begins a change of power, whose steps are in `move`.
`drivers` is the store's directory that `FdoSetDistribution` (`FdoFindIndex`, then
`FdoWriteIndex`) and `FdoClearDistribution` (`FdoList`, `FdoClear`) share with
other drivers. Each call to the store about it may fail ("calls"): the directory is not listed or not parsed, an
entry is not read or not removed, and nothing reports it; `left` has the entries of the FDO that a
failed call has left. `owed` counts the IRPs sent and not completed. Windows is taken to send
system power IRPs to started devices only, to children before the bus on the way down and
after it on the way up, in one transition at a time, during which devices are not
started, stopped, made or destroyed. `faults` selects the failures a
behaviour may contain. `PowerTree` is what the threads are to bring about: a device is awake
only while its bus is.

**`Service`** (`monitor.c`). `main` is where `MonitorMain` is, from the registration for
device notifications to `MonitorRemoveAll` and the end; `handler` what
`MonitorCtrlHandlerEx` has in hand. The registration of the control handler, the first report, the
creation of the stop event and the registration for notifications are steps of their own
(`MainRegister` to `MainNotify`), as a control may come between them: a stop that finds no stop event is
`lost`. `MonitorAdd` and `MonitorRemove` are two steps each: a
console is created, then put on the list; found and taken off it, then
destroyed. `lock` says whether the list and its critical section exist; a use
when they do not sets `undefined`, after which nothing is promised. Windows'
part is `notices`: arrivals are notified from the registration on, removals to each open
handle; closing a handle or unregistering withdraws what was to be told (`Keep`).
`twice`, `missed`, `failed` and `asked` remember what the properties have to except.

**`Tty`** (`tty.c`). `GetLine` takes reads of any length (`sequence`) and handles a character at a
time (`Stored`, `Deleted`), keeping `line` (the buffer) and `columns` (what its echo takes of the
console), which `LineEdited` compares with `Edited` and `Columns` of all that was typed. A
character stands for its kind. `session` follows the program through name,
password, logon, elevation and the shell, whose exit ends it as the end of
either copying thread does.

**`MonitorConsole`** (`monitor.c`). `owner` follows `ConsoleCreate`, its unwinding, and
`ConsoleDestroy`; `device`, `server`, `exec` and `conn` the four kinds of threads; `events`
are the three manual-reset events; `list` is `ListHead`. A client that connects before the server thread
listens is not noticed ("deaf"), and a connection's thread handle is stored after the thread has been
created ("creating"), so that `ConsoleWaitForPipes` may find none (`Thread`). The device thread holds the
critical section ("writing") while it writes to the connections of `todo`; the other
critical sections are single actions. `snapshot` is what `ConsoleWaitForPipes`
copies under the lock; between that and the wait (`WaitBegin`) a connection
may close its handle, and the wait be `refused`. `FreedUnused` says which threads
nevertheless never outlive the console: connections that were on the list, if the wait
is not refused, and always the device thread and the executable's.

## Runs

| run | what it checks | instance |
|---|---|---|
| `stream` | accounting of IRPs, cancellation, wake-ups, transfers, destruction, refinement of `IrpQueue` | 2 reads (lengths 1 and 0), 1 write (length 2), input of 2, output of 1 |
| `console` | handles and their IRPs under open, cleanup, I/O and two power-downs, which may all meet; each stream is used as `IrpQueue` is | 2 files, 3 IRPs |
| `ring` | order and completeness of data (refinement of two `RingFifo`s), wake-ups, service of reads; nothing overlaps the DPC | 2 reads (lengths 2 and 0), 1 write (length 2), input ring of 2, output ring of 1, indices modulo 4 |
| `ring_races` | accounting, cancellation, cleanup and use of the page with each overlap in turn | 3 IRPs, one of length 0, 2 files, 2 processors, rings of 1, indices modulo 2 |
| `frontend` | resources, the page, eject, termination of `FrontendSetState`, of acquisitions and of releases | any target; or `UNKNOWN` and `ENABLED`, 1 caller; or `UNKNOWN`, 3 callers; 2 references |
| `pnp` | lists, references, names through any PnP sequence | default console, 1 name, 2 slots, 1 power-down |
| `pnp_live` | devices appear, removal ends | as `pnp`; the only power-downs are those of a removal |
| `pnp_released` | expected violation, see [findings](#what-the-checks-found) | as `pnp` |
| `monitor` | the device thread's use of connections, what outlives a console, termination of its destruction | 2 clients, a wait takes 2 objects |
| `power` | power IRPs and their threads, transitions, the store's `drivers`, refinement of `PowerTree`; no deadlock | the bus and 1 console, 2 indices, states S0 and S3 |
| `service` | ownership of consoles, devices and consoles match, the service stops | 2 devices, 3 handles, 3 changes of what is there |
| `tty` | the line editor against its definition, and what it returns | lines of 5, reads of up to 3, 7 characters |

Why the bounds suffice. Two reads and a write give a queue with a head, a
follower of the same function and one of the other, which is what cancellation,
blocking and order distinguish. A ring of two characters and indices modulo four
wrap in the ring and in the index; a read of two characters may be split by
the wrap, and a write of two by want of room; the data is told apart by its number. A read of no characters may come before or
behind another. Two processors and two files are what
the overlaps need. Two PDOs for one name make it possible to create the second
while the first is being removed; with a second name the state space grows
without a new interaction, as the code compares names and nothing else. One
power-down, which may come at any point and be undone, shows each of the gaps.
In `monitor` two clients suffice for one to be listed, one late, or for both and the
server thread to be more than a wait takes; a client does not come back, as a
second connection of one shares nothing with the first.
In `frontend` three callers let one clear the shared event after it was set for a second and while a third waits.
In `power` one console suffices to order it and the bus; a second one shares nothing with the
first but the bus. `PowerSystemSleeping3` stands for the states other than working: the
code compares states with what the device is in, and the maps send each to D0 or D3.
Two indices let the driver find the first taken, find none free, and have its entry written
over. Failures are taken one kind at a time, but those of the calls to the store, which are taken together with other
drivers and the failure of `WatchAdd`; creation and the store, while
the system works, as the number of states is otherwise beyond reach.
In `service` two devices let one be in the enumeration's hands and another in the
handler's; three handles, that one device has two consoles; three changes, that
one leaves, comes back and leaves. Seven characters in `tty` fill a line of five after a
deletion, in any division into reads.

`CHECK_DEADLOCK FALSE` is said where the system stops: a destroyed stream, closed
files, memory used after it was given up, a removed FDO, a freed console, one-shot IRPs, a frontend that waits for its own lock, a stopped service,
an ended session. `power` checks deadlock, which shows that a transition
does not get stuck, as nothing can happen before it ends but for the threads that carry it out and,
where they are considered, other drivers.

## Fairness

- `Stream`: the worker is scheduled, a destruction that has begun goes on, event
  channel interrupts are delivered. Backend and users owe nothing.
- `Console`: calls that have begun go on; a stream that is being destroyed comes to
  its end (which is `DestroyCompletes` of `Stream`).
- `Ring`: a queued DPC runs, a running one goes on, an unmasked event is delivered.
  The DPC's start has strong fairness only because the run forbids overlaps,
  so that a cleanup disables it for a while. An unmask need not complete, ever.
- `Frontend`: the call goes on, as do those who acquire and release the frontend; the eject thread is scheduled
  and gets the lock in the end if it is free again and again (strong, as it is taken and released). Nothing is
  assumed of backend and toolstack: that the backend follows the protocol is a premise of `SetStateReturns` and of no other property.
- `MonitorConsole`: every thread that can go on does, the device completes writes, a
  thread that asks for the critical section gets it (strong, for a connection and for `ConsoleWaitForPipes`, as the device thread takes
  it again and again). Each client reads in the end what there is, or leaves: the code
  does not see to it, and without it the destruction need not end (a hazard).
- `Service`: both threads run when they can. That a console's creation and destruction end is
  what `MonitorConsole` is about.
- `Pnp`: the scan thread is scheduled, an operation in progress is carried on, a query
  is answered, and a PDO that must go is removed in the end (strong, as other IRPs come
  between).

## Proofs

Each proof module states theorems about specifications, for every value of their
constants: any sets of IRPs, files, clients, names, consoles or processors, any sizes, any number of
power-downs, and each selection of the hazards. The assumptions are those that the models name
(`StreamAssumption`, `ConsoleAssumption`, ...): the type of each constant, that sets which are
counted are finite, that a model value for "nothing" is not one of the values; for `Ring`, that the
sizes of the rings divide the range of the indices and are less (powers of two and 2^32 in
`xen/public/io/console.h`); for `Power`, that the lower device is in D0 or D3 in each system state and in D0
in the working one. TLC evaluates them in the runs. `MonitorProofs` is about three modules, which
share no name but those of the library: the two programs in user mode, of which the monitor has two
modules. In each module an inductive invariant (`IInv`, `ServiceIInv`, `TtyIInv`) is shown to hold at
first and to be kept by every step, and the properties of the runs follow from it; TLC checked each on
the instance of a run before it was proved.

| module | proves of every behaviour | refinement |
|---|---|---|
| `StreamProofs` | `TypeOK`, `IrpAccounted`, `CancelNotParked`, `NoLostWakeup`, `NoEmptyTransfer`, `NoUseAfterFree` | `Stream` implements `IrpQueue` |
| `ConsoleProofs` | `TypeOK`, `ListedLive`, `NoLostIrp` | the stream of any file is used as `IrpQueue` lets it be |
| `RingProofs` | `TypeOK`, `IrpAccounted`, `CloseCancels`, `NoUseAfterDisconnect`, `NoLostWakeup` | `Ring` implements two `RingFifo`s |
| `FrontendProofs` | `TypeOK`, `ResourcesMatch`, `PageOutlivesMapping` | |
| `PnpProofs` | `TypeOK`, `DevnodesListed`, `OneDevicePerName`, `AbiBalanced` | |
| `PowerProofs` | `TypeOK`, `IrpsHeld`, `NoUseAfterFree`, `Settled`, `OneDistribution` | `Power` implements `PowerTree` |
| `MonitorProofs`, of `MonitorConsole` | `TypeOK`, `WritesListed`, `FreedUnused` | |
| `MonitorProofs`, of `Service` | `OwnedOnce` (with `TypeOK`), `ConsolesMatch` | |
| `MonitorProofs`, of `Tty` | `LineEdited` (with `TypeOK`) | |

`SequenceFacts` has the lemmas about sequences that several of them cite: which elements a sequence
has after an append, a prepend, a tail, a removal by place (`RemoveAt`) or by value (`RemoveFirst`), and
that it stays without repetitions. It also has what is needed of induction. The library's induction
theorems take the property as an operator, which the provers cannot instantiate, but a set in its
place will do: `LeastElement` is the library's fact that `<` on the naturals is well-founded,
`RangeInduction` follows for any set of places, and `RangeRecursion` shows that a function defined by
recursion along `0..n` exists, `SolutionsAgree` that two such functions agree as far as
their steps do. So what a recursive function computes for every input can be proved, where a step
of the recursion has a simple form: `Keep` of `Service`, `Edited` and `Columns` of `Tty` are
written as functions of the length of a prefix for that reason.

What the invariants add to the properties, and why they need it:

- **Stream.** Where everything is: the worker holds an IRP exactly between taking it and deciding
  about it (`WorkerHolds`); only submitted IRPs are cancelled (`CancelInPast`, without which one could be
  submitted cancelled, and parked); the answer of `CanRead` still holds at the transfer
  (`TransferReady`) unless another stream has overtaken it; and what the worker knows on its way to a wait (`WaitJustified`), without
  which the wake-up could be lost in the step that goes to sleep. The refinement maps the queue to
  `held` followed by `list`, so removing behind a prepended head is removing one place earlier.
- **Console.** As long as nothing is ruined, a handle is on one of `list` and `swept` at most, once, from its insertion until someone
  takes it off to destroy it (`ListsKept`), and has no destroyer until then and one afterwards (`UseKept`); the IRPs of a stream are those of its file
  (`OrdersKept`). The proof has no premise about what overlaps: a
  call that meets a destruction either finds the handle where a list still has it, or ruins the state.
- **Ring.** Each DPC is in one place with at most one IRP, of the function it copies for
  (`DpcType`, `Accounted`); what a cleanup has removed does not come back (`Closing`); what will
  bring the DPC back when it rests on work (`WakeupToCome`); and that what it has read
  of the indices is still true enough (`Indices`: the producer's index can only have
  grown, the consumer's is the DPC's own). The refinement rests on lemmas about remainders: `%` is
  taken apart by its quotient (`ModUnique`), so that `Less`, the slots of a copy and the content of a
  ring (`Content`) can be followed over a wrap of the ring and of the index, for any `IdxMod` that
  both sizes divide.
- **Frontend.** What is held at each place of `FrontendSetState` (`HeldAt`); which
  backends can have the page mapped (`MappedWhen`); that a backend only goes forward from the state that
  was read (`SeenPast`); and where it cannot have mapped yet (`Unmapped`).
- **Pnp.** Which FDO state goes with each operation in progress and with the scan thread (`FdoAt`,
  `ScanAt`); which states a PDO on the list may have (`PdoAt`), that only one is asked to
  stop or go at a time (`Asked`), that the PnP manager knows of no deleted one (`Known`), and that from
  its removal on the FDO makes none (`Removal`). The count of references is the cardinality
  of the list and one (`Counted`), by the library's facts on finite sets.
- **Power.** From the reading of a slot to its emptying the slot and the hand have the same IRP
  (`HandKept`). That the slot is empty when it is filled needs to know who sends: the
  power manager one IRP for each device and transition, a system thread one for each it has (`IrpsKept`), of the
  same content (`ContentsKept`), and only to started devices, whose owner holds both
  threads (`LivesKept`). `Settled` needs how far each device is in a transition
  (`Underway`: at rest in the old state, on its way with its IRP at "requested", at rest in
  the new one) and which IRP or PnP operation each change of power belongs to (`MoveKept`);
  `OneDistribution`, that a clearing has listed all the entries there are but those that `left` has, and that an entry
  leaves `left` only with its removal (`DriversKept`). The refinement needs the order of
  the IRPs (`OrderKept`) besides: a console that moves up was started after its bus,
  or has its IRP when the bus is done with its own (`BusFirst`), and conversely (`BusLast`).
- **MonitorConsole.** A connection is on the list once, exactly while its thread is between insertion
  and removal, and the list stays as it is while the device thread goes through it
  (`ListKept`); what has been created and joined at each place of the owner (`ThreadsKept`), and what a
  wait that was not refused has seen end (`PipesOver`).
- **Service.** What the threads hold at each place, and that Windows notifies arrivals exactly between the registration and its end (`Kept`), and that a console is on the list or held
  until it is destroyed (`Owned`), give `OwnedOnce`. `ConsolesMatch` is about a moment when nothing is left to be
  done; at any other, a device is still to be enumerated, or its arrival is notified, or it has a console not
  about to go (`Covered`); a console whose device left is told so or is being destroyed (`Noticed`, `Told`). That
  a device has one console (`Single`) depends on order: an arrival is notified once, and after
  the removal of the console the device had (`Once`, `After`), so what the delivery of the first
  notification, a filter by `Keep` and an addition at the end do to the order of two notifications is what the lemmas
  (`TailOrder`, `KeepOrder`, `ConcatOrder`, `AppendOrder`) are about; and `KeepPlaces`, that a filter takes
  its elements from increasing places, is the induction they rest on.
- **Tty.** The line is `Edited` of what was typed, and its columns are `Columns` of it (`Typing`): a character read
  is one more step of both recursions (`EditedAppend`, `ColumnsAppend`), and a DEL undoes the last step of `Columns`.
  A line still read has room and has not ended (`Open`), which is what keeps one end in it and its length
  within the buffer.

An attempt at a proof showed `Pnp` to be wrong where TLC could not, for its instance has one
name: with two, the PnP manager's eject could remove another PDO than the one that was asked for. It now keeps for
each PDO how far its eject is (`ejecting`), and only the PDO that has been removed is ejected.

Only model-checked:

- Liveness: `FirstIrpServed`, `DestroyCompletes` (of streams and of the monitor's consoles),
  `DestructionCompletes`, `FirstReadServed`, `SetStateReturns`, `OfflineEjected`, `AbiReturns`, `DevicesAppear`,
  `RemovalCompletes`, `Stops`, and that `Power` does not deadlock. Fairness and `ENABLED` are
  beyond the prover.

## What the checks found

One run shows a disagreement of the code with itself:

- `pnp_released`: a PDO that is missing at a power-down is not suspended, and its
  console is destroyed with a reference left (`fdo.c:1421`, `console.c:597`).

The rest is what the properties had to except; a reader of the code should know of it.

- `console.c:247` uses a handle after dropping the lock under which it was found:
  an IRP can be put on a stream's queue that `StreamDestroy` has emptied
  (`stream.c:433` asserts otherwise) or that is freed; and `ConsoleClose` (`console.c:221`) unlinks and destroys a handle that the
  power-down may have popped, zeroed and freed, as it pops its list without the lock (`417`). The properties of `console`
  hold up to the first such use (`ruined`); a use that meets a destruction earlier does no harm, which is what they show.
- `__ConsoleCreateHandle` frees the address of its caller's variable when there is no
  stream (`console.c:106`), and leaks the handle (`OpenNoStream`, which ruins).
- A stream completes a zero-length IRP with success and nothing moved, when the console has something to read or room to
  write; `ring.c` takes one as blocked: it stays at the head of its queue until it is cancelled or its file is
  closed, whatever is behind it (`ring.c:490`, `526`).
- The last `FrontendAbiRelease`, and a first acquisition that fails, acquire a spin lock twice (`frontend.c:1389`, `1357`):
  they never return, and nothing that needs the lock does. What the properties of `Frontend` say of a call is said of the suspend
  callback's, or excepts a lock that is never given up.
- A backend that does not answer keeps `FrontendSetState` waiting for as long as it does not (`frontend.c:594`).
- The scan thread may use the store interface after a power-down has released it, past the
  point from which a comment takes that to be safe (`fdo.c:926`). A wake-up that it takes
  while the FDO has an unanswered query is dropped. An FDO whose start failed keeps its PDOs at removal.
- An unsupported device hides those whose names are prefixes of its own: `fdo.c:974` compares as many
  characters as the device's name has.
- `RingDpc` unmasks without `Force` and discards the result (`ring.c:589`) by which, as `evtchn_interface.h:147`
  says, it learns that an event is still pending: an event that arrives while the DPC runs may stay
  undelivered, with no DPC queued and the channel masked, until the next IRP.
- As long as the backend supplies characters and readers their buffers, `RingPoll`'s loop over the reads does not
  end, at `DISPATCH_LEVEL`, and no write is looked at (`ring.c:474`).
- An IRP sent to a ring that is not connected unmasks a channel that does not exist (`ring.c:589`); neither
  copy sends the backend an event.
- A power thread that `ThreadCreate` abandons (`thread.c:170`) may outlive its device. A wake
  that fails in `WatchAdd` leaves the FDO's entry in `drivers` until the next clearing
  (`fdo.c:1238`), and so does a clearing that cannot list, parse, read or remove it (`fdo.c:1093`, `1109`, `1113`), of which
  nobody is told: the next wake adds a second. Two drivers may take the same free index, and write over each other's entry. When the lower driver fails to
  wake, the FDO keeps its old system state.
- A console's threads may outlive it: connections made while the list is being copied, and all
  threads when the wait is refused, for more handles than it takes or one that was closed
  (`monitor.c:1099`).
- The service's list and lock are used before they are made when a device arrives between the
  registration and `InitializeCriticalSection` (`monitor.c:1481`), and after their deletion; a device
  that comes while the service starts may get two consoles; one that leaves while the enumeration has its console in hand
  keeps it; a console closed for a removal that is then cancelled is not opened again;
  `INTERROGATE` is answered with "running" in every state; after one that comes before the stop event is made, the service manager
  may send a stop that the handler sets no event for (`monitor.c:1387`): it is lost, and the service starts.
- A client that connects between the creation of its pipe and `ConnectNamedPipe` is not served until the service stops (`monitor.c:485`).
- `GetLine` drops what follows the end of a line in the same read; a line that fills the buffer has no end, and the
  search for it goes beyond the buffer; the last output of the shell may be lost at its exit.

## What is not modelled

- `driver.c`, `registry.c`, the headers, the build and the installation, of the service too: no
  behaviour of their own that outlives a call.
- What happens after memory has been used that was given up (`ruined` of `Console`, `undefined` of `Service`), and
  the store of a connection's handle in a connection that is freed already (`monitor.c:506`), which is taken to do no harm.
- Queries of ids, text, capabilities, resources and interfaces, `IRP_MJ_DEVICE_CONTROL`
  and the debug callbacks: they change no state.
- `StreamCreate` and `RingCreate` are initial states, `RingDestroy` and `FdoDestroy`
  the end (the threads of `FdoDestroy` are in `Power`); the failure of a stream's creation is in `Console`.
- The wording of `XenbusState` nodes, the contents of the store but for states,
  `online`, `drivers` and the directory; the registry value `Enumerate`, which turns
  the enumeration off, and the list of unsupported devices.
- In `Pnp`, a failure to start the FDO leaves everything as it was and is no action (`Power` has
  it); a bus query whose forwarding fails after the list was made is not modelled.
- `Pnp` and `Power` each have the changes of power that concern them: `Pnp` in the middle of any PnP
  operation of the children, with what they do to the consoles' references; `Power` with the
  threads that carry them out, and PnP operations only in between. Their product is beyond TLC.
- Power IRPs while a device is starting or being removed, and two transitions at a time: `Power` relies
  on Windows for their absence.
- The processes `tty.c` and `monitor.c` start; the terminal's escape sequences.

## Plan

Done: `Stream` with `IrpQueue`, `Console` over `IrpQueue`, `Ring` over `RingFifo`, `Frontend`, `Pnp`,
`MonitorConsole`, `Power` over `PowerThread` and `PowerTree`, `Service`, `Tty`; the safety of each proved,
and the refinements.

What is left:

1. action properties of the proved modules that their invariants already carry;
2. the registry value `Enumerate` and the bus query that fails half-way, in `Pnp`.
