--------------------------- MODULE MonitorConsole ---------------------------
(***************************************************************************)
(* One console of the monitor service (src/monitor/monitor.c), from        *)
(* ConsoleCreate to ConsoleDestroy.  A device thread copies what the       *)
(* device outputs to the clients; a server thread accepts the clients of a *)
(* named pipe and makes a thread for each, which copies from the client to *)
(* the device; another thread keeps a process running.  The service takes  *)
(* the console off its list before it destroys it, so that one thread      *)
(* does.  Each client of Conns connects at most once.                      *)
(*                                                                         *)
(* A named pipe holds what one write has put in it until the client reads  *)
(* it: a further write, and FlushFileBuffers, wait for that.  The values   *)
(* of closed handles are taken not to be used again, one that is not       *)
(* stored yet to be none, and what is stored in a connection that has been *)
(* freed (monitor.c 506, when its thread has ended already) to do no harm. *)
(***************************************************************************)
EXTENDS Naturals, Sequences, FiniteSets, SequencesExt

CONSTANTS Conns,                \* the clients and their connections
          None,                 \* no client
          MAXIMUM_WAIT_OBJECTS  \* what WaitForMultipleObjects accepts

ASSUME MonitorAssumption == /\ None \notin Conns
                            /\ MAXIMUM_WAIT_OBJECTS \in Nat \ {0}

VARIABLES owner,        \* where ConsoleCreate or ConsoleDestroy is
          snapshot,     \* the connections whose threads are waited for;
                        \* None for one whose handle was not stored yet
          refused,      \* whether the wait for them has failed
          events,       \* which of the three threads' events are set
          device,       \* where DeviceThread is
          todo,         \* the connections it has still to write to
          server,       \* where ServerThread is
          pipe,         \* the client of ServerThread's pipe
          exec,         \* where ExecutableThread is
          conn,         \* where each ConnectionThread is
          list,         \* Console->ListHead
          client,       \* each client
          unread        \* the clients with something to read

ownerVars  == <<owner, snapshot, refused, events>>
deviceVars == <<device, todo>>
serverVars == <<server, pipe>>
connVars   == <<conn, list>>
clientVars == <<client, unread>>
vars == <<ownerVars, deviceVars, serverVars, exec, connVars, clientVars>>

Init == /\ owner = "create device"
        /\ snapshot = {}
        /\ refused = FALSE
        /\ events = {}
        /\ device = "none"
        /\ todo = << >>
        /\ server = "none"
        /\ pipe = None
        /\ exec = "none"
        /\ conn = [c \in Conns |-> "none"]
        /\ list = << >>
        /\ client = [c \in Conns |-> "away"]
        /\ unread = {}

Goes(var, from, to) == var = from /\ var' = to

(* Console->CriticalSection, which DeviceThread keeps while it writes. *)
Unlocked == device # "writing"

-----------------------------------------------------------------------------
(* ConsoleCreate: a thread that cannot be created unwinds those before it. *)

CreateDevice ==
  /\ \/ Goes(owner, "create device", "create server") /\ device' = "start"
     \/ Goes(owner, "create device", "freed") /\ UNCHANGED device
  /\ UNCHANGED <<snapshot, refused, events, todo, serverVars, exec, connVars,
                 clientVars>>

CreateServer ==
  /\ \/ Goes(owner, "create server", "create exec") /\ server' = "start"
     \/ Goes(owner, "create server", "stop device") /\ UNCHANGED server
  /\ UNCHANGED <<snapshot, refused, events, deviceVars, pipe, exec, connVars,
                 clientVars>>

CreateExec ==
  /\ \/ Goes(owner, "create exec", "live") /\ exec' = "start"
     \/ Goes(owner, "create exec", "signal") /\ UNCHANGED exec
  /\ UNCHANGED <<snapshot, refused, events, deviceVars, serverVars, connVars,
                 clientVars>>

(* ConsoleDestroy. *)
StopExec ==
  /\ Goes(owner, "live", "join exec")
  /\ events' = events \union {"exec"}
  /\ UNCHANGED <<snapshot, refused, deviceVars, serverVars, exec, connVars,
                 clientVars>>

JoinExec ==
  /\ exec = "ended"
  /\ Goes(owner, "join exec", "snapshot")
  /\ UNCHANGED <<snapshot, refused, events, deviceVars, serverVars, exec,
                 connVars, clientVars>>

(* Connection->Thread. *)
Thread(c) == IF server = "creating" /\ pipe = c THEN None ELSE c

(* ConsoleWaitForPipes: without memory only the server is waited for. *)
Snapshot ==
  /\ Unlocked
  /\ Goes(owner, "snapshot", "signal")
  /\ snapshot' \in {{Thread(c) : c \in ToSet(list)}, {}}
  /\ UNCHANGED <<refused, events, deviceVars, serverVars, exec, connVars,
                 clientVars>>

SignalServer ==
  /\ Goes(owner, "signal", "wait")
  /\ events' = events \union {"server"}
  /\ UNCHANGED <<snapshot, refused, deviceVars, serverVars, exec, connVars,
                 clientVars>>

Ended(c) == conn[c] \in {"ended", "leaked"}

Closed(c) == conn[c] \in {"closed", "ended"}

(* A wait for too many threads, or for a handle that is not stored or that *)
(* its thread has closed already, fails at once; nothing looks at its      *)
(* result.                                                                 *)
WaitBegin ==
  /\ owner = "wait"
  /\ refused' = (\/ Cardinality(snapshot) + 1 > MAXIMUM_WAIT_OBJECTS
                 \/ \E c \in snapshot : c = None \/ Closed(c))
  /\ owner' = IF refused' THEN "stop device" ELSE "waiting"
  /\ UNCHANGED <<snapshot, events, deviceVars, serverVars, exec, connVars,
                 clientVars>>

(* Mutation of WaitEnd: the wait is for any of the threads.                *)
WaitEndAny ==
  /\ Goes(owner, "waiting", "stop device")
  /\ server = "ended" \/ \E c \in snapshot : Ended(c)
  /\ UNCHANGED <<snapshot, refused, events, deviceVars, serverVars, exec,
                 connVars, clientVars>>

WaitEnd ==
  /\ Goes(owner, "waiting", "stop device")
  /\ server = "ended" /\ \A c \in snapshot : Ended(c)
  /\ UNCHANGED <<snapshot, refused, events, deviceVars, serverVars, exec,
                 connVars, clientVars>>

StopDevice ==
  /\ Goes(owner, "stop device", "join device")
  /\ events' = events \union {"device"}
  /\ UNCHANGED <<snapshot, refused, deviceVars, serverVars, exec, connVars,
                 clientVars>>

JoinDevice ==
  /\ device = "ended"
  /\ Goes(owner, "join device", "freed")
  /\ UNCHANGED <<snapshot, refused, events, deviceVars, serverVars, exec,
                 connVars, clientVars>>

Create == CreateDevice \/ CreateServer \/ CreateExec

Destroy == \/ JoinExec \/ SignalServer \/ WaitBegin \/ WaitEnd
           \/ StopDevice \/ JoinDevice
-----------------------------------------------------------------------------
(* DeviceThread.                                                           *)

(* The device cannot be opened, or a read fails. *)
DeviceFails ==
  /\ device \in {"start", "reading"}
  /\ device' = "ended"
  /\ UNCHANGED <<ownerVars, todo, serverVars, exec, connVars, clientVars>>

DeviceStart ==
  /\ Goes(device, "start", "reading")
  /\ UNCHANGED <<ownerVars, todo, serverVars, exec, connVars, clientVars>>

(* Its event comes before the end of a read. *)
DeviceStops ==
  /\ "device" \in events
  /\ Goes(device, "reading", "ended")
  /\ UNCHANGED <<ownerVars, todo, serverVars, exec, connVars, clientVars>>

(* The list is gone through from where it is when the lock is taken, which *)
(* no other thread keeps: the end of the read and the lock are one step.   *)
DeviceReads ==
  /\ "device" \notin events
  /\ Goes(device, "reading", "writing")
  /\ todo' = list
  /\ UNCHANGED <<ownerVars, serverVars, exec, connVars, clientVars>>

(* A write to a client that has left fails. *)
DeviceWrites ==
  /\ device = "writing"
  /\ todo # << >>
  /\ todo' = Tail(todo)
  /\ LET c == Head(todo)
     IN  IF client[c] = "gone" THEN UNCHANGED unread
         ELSE c \notin unread /\ unread' = unread \union {c}
  /\ UNCHANGED <<ownerVars, device, serverVars, exec, connVars, client>>

DeviceUnlocks ==
  /\ todo = << >>
  /\ Goes(device, "writing", "reading")
  /\ UNCHANGED <<ownerVars, todo, serverVars, exec, connVars, clientVars>>

Device == \/ DeviceFails \/ DeviceStart \/ DeviceStops \/ DeviceReads
          \/ DeviceWrites \/ DeviceUnlocks

-----------------------------------------------------------------------------
(* ServerThread.                                                           *)

(* An event or the pipe cannot be created. *)
ServerFails ==
  /\ Goes(server, "start", "ended")
  /\ UNCHANGED <<ownerVars, deviceVars, pipe, exec, connVars, clientVars>>

ServerStart ==
  /\ Goes(server, "start", "listen")
  /\ UNCHANGED <<ownerVars, deviceVars, pipe, exec, connVars, clientVars>>

(* What a client has not read goes with it.                                *)
Leave(c) == /\ client' = IF c = None THEN client ELSE [client EXCEPT ![c] = "gone"]
            /\ unread' = unread \ {c}

(* Its event comes before a client, who is sent away. *)
ServerStops ==
  /\ "server" \in events
  /\ server \in {"listen", "deaf"} /\ server' = "ended"
  /\ Leave(pipe)
  /\ pipe' = None
  /\ UNCHANGED <<ownerVars, deviceVars, exec, connVars>>

ServerAccepts ==
  /\ "server" \notin events
  /\ pipe # None
  /\ Goes(server, "listen", "accepted")
  /\ UNCHANGED <<ownerVars, deviceVars, pipe, exec, connVars, clientVars>>

(* The thread is created, and runs; or there is no memory or no thread for *)
(* the client.                                                             *)
ServerCreates ==
  /\ \/ /\ Goes(server, "accepted", "creating")
        /\ conn' = [conn EXCEPT ![pipe] = "start"]
        /\ UNCHANGED <<clientVars, pipe>>
     \/ /\ Goes(server, "accepted", "ended")
        /\ Leave(pipe)
        /\ pipe' = None
        /\ UNCHANGED conn
  /\ UNCHANGED <<ownerVars, deviceVars, exec, list>>

(* Its handle is stored when CreateThread has returned, and the next pipe  *)
(* made, or not.                                                           *)
ServerStores ==
  /\ server = "creating" /\ server' \in {"listen", "ended"}
  /\ pipe' = None
  /\ UNCHANGED <<ownerVars, deviceVars, exec, connVars, clientVars>>

Server == \/ ServerFails \/ ServerStart \/ ServerStops
          \/ ServerAccepts \/ ServerCreates \/ ServerStores

-----------------------------------------------------------------------------
(* ExecutableThread.                                                       *)

(* There is no executable, or no process can be created. *)
ExecFails ==
  /\ Goes(exec, "start", "ended")
  /\ UNCHANGED <<ownerVars, deviceVars, serverVars, connVars, clientVars>>

ExecStart ==
  /\ Goes(exec, "start", "running")
  /\ UNCHANGED <<ownerVars, deviceVars, serverVars, connVars, clientVars>>

(* The process ends by itself and is started again. *)
ExecAgain ==
  /\ "exec" \notin events
  /\ Goes(exec, "running", "start")
  /\ UNCHANGED <<ownerVars, deviceVars, serverVars, connVars, clientVars>>

(* The event, which is reset, comes before the process, which is killed. *)
ExecStops ==
  /\ "exec" \in events
  /\ events' = events \ {"exec"}
  /\ Goes(exec, "running", "ended")
  /\ UNCHANGED <<owner, snapshot, refused, deviceVars, serverVars, connVars,
                 clientVars>>

Exec == ExecFails \/ ExecStart \/ ExecAgain \/ ExecStops

-----------------------------------------------------------------------------
(* ConnectionThread.                                                       *)

ConnGoes(c, from, to) == conn[c] = from /\ conn' = [conn EXCEPT ![c] = to]

(* Without an event the thread returns, and leaves everything as it is. *)
ConnFails(c) ==
  /\ ConnGoes(c, "start", "leaked")
  /\ UNCHANGED <<ownerVars, deviceVars, serverVars, exec, list, clientVars>>

ConnInsert(c) ==
  /\ Unlocked
  /\ ConnGoes(c, "start", "reading")
  /\ list' = Append(list, c)
  /\ UNCHANGED <<ownerVars, deviceVars, serverVars, exec, clientVars>>

(* The client has sent something: the thread writes it to the device. *)
ConnReads(c) ==
  /\ client[c] = "here"
  /\ "server" \notin events
  /\ ConnGoes(c, "reading", "forward")
  /\ UNCHANGED <<ownerVars, deviceVars, serverVars, exec, list, clientVars>>

ConnForwards(c) ==
  /\ ConnGoes(c, "forward", "reading")
  /\ UNCHANGED <<ownerVars, deviceVars, serverVars, exec, list, clientVars>>

(* Mutation of ConnStops: only the client ends the loop.                   *)
ConnStopsClient(c) ==
  /\ client[c] = "gone"
  /\ ConnGoes(c, "reading", "stop")
  /\ UNCHANGED <<ownerVars, deviceVars, serverVars, exec, list, clientVars>>

(* The server's event, the client's departure or a message longer than the *)
(* buffer end the loop.                                                    *)
ConnStops(c) ==
  /\ ConnGoes(c, "reading", "stop")
  /\ UNCHANGED <<ownerVars, deviceVars, serverVars, exec, list, clientVars>>

(* Mutation of ConnRemove: the list is not locked.                         *)
ConnRemoveUnlocked(c) ==
  /\ ConnGoes(c, "stop", "flush")
  /\ list' = RemoveFirst(list, c)
  /\ UNCHANGED <<ownerVars, deviceVars, serverVars, exec, clientVars>>

ConnRemove(c) ==
  /\ Unlocked
  /\ ConnGoes(c, "stop", "flush")
  /\ list' = RemoveFirst(list, c)
  /\ UNCHANGED <<ownerVars, deviceVars, serverVars, exec, clientVars>>

(* The pipe and the thread's own handle are closed. *)
ConnCloses(c) ==
  /\ c \notin unread
  /\ ConnGoes(c, "flush", "closed")
  /\ Leave(c)
  /\ UNCHANGED <<ownerVars, deviceVars, serverVars, exec, list>>

(* Only now has the thread used the console, whose name it logs, for the   *)
(* last time.  What a thread finds in a console that has been freed is     *)
(* taken to be what was there.                                             *)
ConnEnds(c) ==
  /\ ConnGoes(c, "closed", "ended")
  /\ UNCHANGED <<ownerVars, deviceVars, serverVars, exec, list, clientVars>>

Connection(c) == \/ ConnFails(c)    \/ ConnInsert(c) \/ ConnReads(c)
                 \/ ConnForwards(c) \/ ConnStops(c)  \/ ConnRemove(c)
                 \/ ConnCloses(c)   \/ ConnEnds(c)

-----------------------------------------------------------------------------
(* The clients.                                                            *)

(* A client that connects before ConnectNamedPipe is called (monitor.c     *)
(* 485) is told of in its result, which is dropped, and not by the event   *)
(* that the server waits for.                                              *)
ClientConnects(c) ==
  /\ client[c] = "away"
  /\ server = "listen" /\ server' \in {"listen", "deaf"}
  /\ pipe = None
  /\ client' = [client EXCEPT ![c] = "here"]
  /\ pipe' = c
  /\ UNCHANGED <<ownerVars, deviceVars, exec, connVars, unread>>

ClientReads(c) ==
  /\ client[c] = "here"
  /\ c \in unread
  /\ unread' = unread \ {c}
  /\ UNCHANGED <<ownerVars, deviceVars, serverVars, exec, connVars, client>>

ClientLeaves(c) ==
  /\ client[c] = "here"
  /\ Leave(c)
  /\ UNCHANGED <<ownerVars, deviceVars, serverVars, exec, connVars>>

Client(c) == ClientConnects(c) \/ ClientReads(c) \/ ClientLeaves(c)

-----------------------------------------------------------------------------
Next == \/ Create \/ StopExec \/ Snapshot \/ Destroy
        \/ Device \/ Server \/ Exec
        \/ \E c \in Conns : Connection(c) \/ Client(c)

Spec == Init /\ [][Next]_vars

(* Every thread that can go on does; the device completes the writes to    *)
(* it; who asks for the critical section gets it though DeviceThread takes *)
(* it again and again.  Every client reads in the end what is there for    *)
(* it, or leaves: a client that does neither stops DeviceThread while it   *)
(* holds the lock, or its own thread in FlushFileBuffers, and the service  *)
(* with them.  Nothing is assumed of the process or of the service.        *)
Fairness == /\ SF_vars(Snapshot \/ Destroy)
            /\ WF_vars(Device) /\ WF_vars(Server) /\ WF_vars(Exec)
            /\ \A c \in Conns : SF_vars(Connection(c)) /\ WF_vars(ClientReads(c))

FairSpec == Spec /\ Fairness

-----------------------------------------------------------------------------
(* Every variable keeps its type, and a pipe has a client only while the   *)
(* server thread has something to do for it.                               *)
TypeOK ==
  /\ owner \in {"create device", "create server", "create exec", "live",
                "join exec", "snapshot", "signal", "wait", "waiting",
                "stop device", "join device", "freed"}
  /\ snapshot \subseteq Conns \union {None}
  /\ refused \in BOOLEAN
  /\ events \subseteq {"exec", "server", "device"}
  /\ device \in {"none", "start", "reading", "writing", "ended"}
  /\ todo \in Seq(Conns) /\ (todo # << >> => device = "writing")
  /\ server \in {"none", "start", "listen", "deaf", "accepted", "creating", "ended"}
  /\ pipe \in Conns \union {None}
  /\ pipe # None => server \in {"listen", "deaf", "accepted", "creating"}
  /\ exec \in {"none", "start", "running", "ended"}
  /\ conn \in [Conns -> {"none", "start", "leaked", "reading", "forward",
                         "stop", "flush", "closed", "ended"}]
  /\ list \in Seq(Conns)
  /\ client \in [Conns -> {"away", "here", "gone"}]
  /\ unread \subseteq Conns

(* DeviceThread writes only to pipes whose connection is on the list, each *)
(* once, while it is there: a connection that ends meanwhile keeps its     *)
(* pipe and its memory until the list has been gone through.               *)
WritesListed ==
  /\ TypeOK
  /\ ToSet(list) = {c \in Conns : conn[c] \in {"reading", "forward", "stop"}}
  /\ Len(list) = Cardinality(ToSet(list))
  /\ ToSet(todo) \subseteq ToSet(list)

Over == {"none", "ended"}

Using(c) == conn[c] \in {"start", "reading", "forward", "stop", "flush", "closed"}

(* No thread uses a console that has been freed, and no process is left of *)
(* it, but for what ConsoleWaitForPipes does not wait for: a connection    *)
(* that was not on the list when the list was read (or could not be), and  *)
(* the server and all connections when the wait is refused (for too many   *)
(* threads, or for a handle closed already or not stored yet).             *)
FreedUnused ==
  owner = "freed" =>
    /\ device \in Over /\ exec \in Over
    /\ ~refused => server \in Over /\ \A c \in snapshot : ~Using(c)

(* A console whose destruction or unwinding has begun is freed, whatever   *)
(* the device outputs, the clients send and the process does.              *)
Destroying == owner \in {"join exec", "snapshot", "signal", "wait", "waiting",
                         "stop device", "join device"}

DestroyCompletes == Destroying ~> owner = "freed"
=============================================================================
