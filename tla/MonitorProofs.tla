--------------------------- MODULE MonitorProofs ---------------------------
(***************************************************************************)
(* Proofs about the programs in user mode.                                 *)
(*                                                                         *)
(* Module MonitorConsole, for any clients and whatever number of objects a *)
(* wait accepts: the device thread writes only to connections that are on  *)
(* the console's list, and a console that has been freed is used only by   *)
(* what ConsoleWaitForPipes does not wait for.                             *)
(*                                                                         *)
(* Module Service, for any devices and handles: a console is destroyed by  *)
(* one thread, none is lost, and devices and consoles match when the       *)
(* service waits.                                                          *)
(*                                                                         *)
(* Module Tty, for any sizes: GetLine edits a line as it is to be, the     *)
(* console shows it, and what is returned or sent is one line that fits.   *)
(***************************************************************************)
EXTENDS MonitorConsole, Service, Tty, SequenceFacts

(* The types of TypeOK, of the owner, of its threads and of the connections. *)
OwnerType ==
  /\ owner \in {"create device", "create server", "create exec", "live",
                "join exec", "snapshot", "signal", "wait", "waiting",
                "stop device", "join device", "freed"}
  /\ snapshot \subseteq Conns \union {None}
  /\ refused \in BOOLEAN
  /\ events \subseteq {"exec", "server", "device"}

ThreadType ==
  /\ device \in {"none", "start", "reading", "writing", "ended"}
  /\ todo \in Seq(Conns) /\ (todo # << >> => device = "writing")
  /\ server \in {"none", "start", "listen", "deaf", "accepted", "creating", "ended"}
  /\ pipe \in Conns \union {None}
  /\ pipe # None => server \in {"listen", "deaf", "accepted", "creating"}
  /\ exec \in {"none", "start", "running", "ended"}

ConnType ==
  /\ conn \in [Conns -> {"none", "start", "leaked", "reading", "forward",
                         "stop", "flush", "closed", "ended"}]
  /\ list \in Seq(Conns)
  /\ client \in [Conns -> {"away", "here", "gone"}]
  /\ unread \subseteq Conns

(* A connection is on the list once, from its insertion to its removal, and *)
(* the list does not change while the device thread goes through it.        *)
OnList == {"reading", "forward", "stop"}

ListKept ==
  /\ IsInjective(list)
  /\ \A c \in Conns : Contains(list, c) <=> conn[c] \in OnList
  /\ \A c \in Conns : Contains(todo, c) => Contains(list, c)

(* A client's thread is created once, after the client has been accepted.   *)
ClientsNew ==
  /\ pipe # None /\ server # "creating" => conn[pipe] = "none"
  /\ \A c \in Conns : client[c] = "away" => conn[c] = "none" /\ pipe # c

(* What ConsoleCreate has created and what ConsoleDestroy has joined, at    *)
(* each place of theirs.                                                    *)
ThreadsKept ==
  /\ owner = "create device" => device = "none"
  /\ owner = "freed" => device \in Over
  /\ owner \in {"create device", "create server"} => server = "none"
  /\ owner \in {"create device", "create server", "create exec"} => exec = "none"
  /\ owner \in {"snapshot", "signal", "wait", "waiting", "stop device",
                "join device", "freed"} => exec \in Over
  /\ owner \in {"create device", "create server", "create exec", "live",
                "join exec", "snapshot"} => snapshot = {}
  /\ refused => owner \in {"stop device", "join device", "freed"}

(* The wait for the server and the connections of the snapshot is over.     *)
PipesOver ==
  /\ owner = "waiting" => None \notin snapshot
  /\ owner \in {"stop device", "join device", "freed"} /\ ~refused =>
       /\ server \in Over /\ None \notin snapshot
       /\ \A c \in snapshot : conn[c] \in {"ended", "leaked"}

IInv == /\ OwnerType /\ ThreadType /\ ConnType
        /\ ListKept /\ ClientsNew /\ ThreadsKept /\ PipesOver

-----------------------------------------------------------------------------
(* There is nothing but the owner at first. *)
LEMMA IInvInit == Init => IInv
<1> SUFFICES ASSUME Init PROVE IInv
  OBVIOUS
<1>1. /\ << >> \in Seq(Conns)
      /\ \A x : ~Contains(<< >>, x)
      /\ IsInjective(<< >>)
  BY EmptyMembers
<1> QED
  BY <1>1, MonitorAssumption
     DEF Init, IInv, OwnerType, ThreadType, ConnType, ListKept, ClientsNew,
         ThreadsKept, PipesOver, Over,
         OnList

(* Every step keeps the invariant. *)
LEMMA IInvStep == IInv /\ [Next]_vars => IInv'
<1> SUFFICES ASSUME IInv, [Next]_vars PROVE IInv'
  OBVIOUS
<1> USE MonitorAssumption
    DEF IInv, ownerVars, deviceVars, serverVars, connVars, clientVars
<1>0. \A x : ~Contains(<< >>, x)
  BY EmptyMembers
<1>1. CASE CreateDevice
  <2>1. OwnerType'
    BY <1>0, <1>1 DEF CreateDevice, Goes, OwnerType
  <2>2. ThreadType'
    BY <1>0, <1>1 DEF CreateDevice, Goes, ThreadType, ThreadsKept, ConnType
  <2>3. ConnType'
    BY <1>0, <1>1 DEF CreateDevice, Goes, ConnType, ThreadType
  <2>4. ListKept'
    BY <1>0, <1>1 DEF CreateDevice, Goes, ListKept, ConnType, ThreadType
  <2>5. ClientsNew'
    BY <1>0, <1>1 DEF CreateDevice, Goes, ClientsNew, ConnType, ThreadType
  <2>6. ThreadsKept'
    BY <1>0, <1>1 DEF CreateDevice, Goes, ThreadsKept, Over, OwnerType, ThreadType
  <2>7. PipesOver'
    BY <1>0, <1>1
       DEF CreateDevice, Goes, PipesOver, ThreadsKept, Over, OwnerType, ConnType,
           ThreadType
  <2> QED
    BY <2>1, <2>2, <2>3, <2>4, <2>5, <2>6, <2>7
<1>2. CASE CreateServer
  <2>1. OwnerType'
    BY <1>0, <1>2 DEF CreateServer, Goes, OwnerType
  <2>2. ThreadType'
    BY <1>0, <1>2 DEF CreateServer, Goes, ThreadType, ThreadsKept, ConnType
  <2>3. ConnType'
    BY <1>0, <1>2 DEF CreateServer, Goes, ConnType, ThreadType
  <2>4. ListKept'
    BY <1>0, <1>2 DEF CreateServer, Goes, ListKept, ConnType, ThreadType
  <2>5. ClientsNew'
    BY <1>0, <1>2 DEF CreateServer, Goes, ClientsNew, ConnType, ThreadType, ThreadsKept
  <2>6. ThreadsKept'
    BY <1>0, <1>2 DEF CreateServer, Goes, ThreadsKept, Over, OwnerType, ThreadType
  <2>7. PipesOver'
    BY <1>0, <1>2
       DEF CreateServer, Goes, PipesOver, ThreadsKept, Over, OwnerType, ConnType,
           ThreadType
  <2> QED
    BY <2>1, <2>2, <2>3, <2>4, <2>5, <2>6, <2>7
<1>3. CASE CreateExec
  <2>1. OwnerType'
    BY <1>0, <1>3 DEF CreateExec, Goes, OwnerType
  <2>2. ThreadType'
    BY <1>0, <1>3 DEF CreateExec, Goes, ThreadType, ThreadsKept, ConnType
  <2>3. ConnType'
    BY <1>0, <1>3 DEF CreateExec, Goes, ConnType, ThreadType
  <2>4. ListKept'
    BY <1>0, <1>3 DEF CreateExec, Goes, ListKept, ConnType, ThreadType
  <2>5. ClientsNew'
    BY <1>0, <1>3 DEF CreateExec, Goes, ClientsNew, ConnType, ThreadType
  <2>6. ThreadsKept'
    BY <1>0, <1>3 DEF CreateExec, Goes, ThreadsKept, Over, OwnerType, ThreadType
  <2>7. PipesOver'
    BY <1>0, <1>3
       DEF CreateExec, Goes, PipesOver, ThreadsKept, Over, OwnerType, ConnType,
           ThreadType
  <2> QED
    BY <2>1, <2>2, <2>3, <2>4, <2>5, <2>6, <2>7
<1>4. CASE StopExec
  <2>1. OwnerType'
    BY <1>0, <1>4 DEF StopExec, Goes, OwnerType
  <2>2. ThreadType'
    BY <1>0, <1>4 DEF StopExec, Goes, ThreadType, ThreadsKept, ConnType
  <2>3. ConnType'
    BY <1>0, <1>4 DEF StopExec, Goes, ConnType, ThreadType
  <2>4. ListKept'
    BY <1>0, <1>4 DEF StopExec, Goes, ListKept, ConnType, ThreadType
  <2>5. ClientsNew'
    BY <1>0, <1>4 DEF StopExec, Goes, ClientsNew, ConnType, ThreadType
  <2>6. ThreadsKept'
    BY <1>0, <1>4 DEF StopExec, Goes, ThreadsKept, Over, OwnerType, ThreadType
  <2>7. PipesOver'
    BY <1>0, <1>4
       DEF StopExec, Goes, PipesOver, ThreadsKept, Over, OwnerType, ConnType,
           ThreadType
  <2> QED
    BY <2>1, <2>2, <2>3, <2>4, <2>5, <2>6, <2>7
<1>5. CASE JoinExec
  <2>1. OwnerType'
    BY <1>0, <1>5 DEF JoinExec, Goes, OwnerType
  <2>2. ThreadType'
    BY <1>0, <1>5 DEF JoinExec, Goes, ThreadType, ThreadsKept, ConnType
  <2>3. ConnType'
    BY <1>0, <1>5 DEF JoinExec, Goes, ConnType, ThreadType
  <2>4. ListKept'
    BY <1>0, <1>5 DEF JoinExec, Goes, ListKept, ConnType, ThreadType
  <2>5. ClientsNew'
    BY <1>0, <1>5 DEF JoinExec, Goes, ClientsNew, ConnType, ThreadType
  <2>6. ThreadsKept'
    BY <1>0, <1>5 DEF JoinExec, Goes, ThreadsKept, Over, OwnerType, ThreadType
  <2>7. PipesOver'
    BY <1>0, <1>5
       DEF JoinExec, Goes, PipesOver, ThreadsKept, Over, OwnerType, ConnType,
           ThreadType
  <2> QED
    BY <2>1, <2>2, <2>3, <2>4, <2>5, <2>6, <2>7
<1>6. CASE Snapshot
  <2>a. ToSet(list) \subseteq Conns
    BY SetMembers DEF ConnType
  <2>1. OwnerType'
    BY <1>0, <1>6, <2>a DEF Snapshot, Thread, Goes, OwnerType
  <2>2. ThreadType'
    BY <1>0, <1>6, <2>a DEF Snapshot, Goes, ThreadType, ThreadsKept, ConnType
  <2>3. ConnType'
    BY <1>0, <1>6, <2>a DEF Snapshot, Goes, ConnType, ThreadType
  <2>4. ListKept'
    BY <1>0, <1>6, <2>a DEF Snapshot, Goes, ListKept, ConnType, ThreadType
  <2>5. ClientsNew'
    BY <1>0, <1>6, <2>a DEF Snapshot, Goes, ClientsNew, ConnType, ThreadType
  <2>6. ThreadsKept'
    BY <1>0, <1>6, <2>a DEF Snapshot, Goes, ThreadsKept, Over, OwnerType, ThreadType
  <2>7. PipesOver'
    BY <1>0, <1>6, <2>a
       DEF Snapshot, Goes, PipesOver, ThreadsKept, Over, OwnerType, ConnType,
           ThreadType
  <2> QED
    BY <2>1, <2>2, <2>3, <2>4, <2>5, <2>6, <2>7
<1>7. CASE SignalServer
  <2>1. OwnerType'
    BY <1>0, <1>7 DEF SignalServer, Goes, OwnerType
  <2>2. ThreadType'
    BY <1>0, <1>7 DEF SignalServer, Goes, ThreadType, ThreadsKept, ConnType
  <2>3. ConnType'
    BY <1>0, <1>7 DEF SignalServer, Goes, ConnType, ThreadType
  <2>4. ListKept'
    BY <1>0, <1>7 DEF SignalServer, Goes, ListKept, ConnType, ThreadType
  <2>5. ClientsNew'
    BY <1>0, <1>7 DEF SignalServer, Goes, ClientsNew, ConnType, ThreadType
  <2>6. ThreadsKept'
    BY <1>0, <1>7 DEF SignalServer, Goes, ThreadsKept, Over, OwnerType, ThreadType
  <2>7. PipesOver'
    BY <1>0, <1>7
       DEF SignalServer, Goes, PipesOver, ThreadsKept, Over, OwnerType, ConnType,
           ThreadType
  <2> QED
    BY <2>1, <2>2, <2>3, <2>4, <2>5, <2>6, <2>7
<1>8. CASE WaitBegin
  <2>1. OwnerType'
    BY <1>0, <1>8 DEF WaitBegin, Goes, OwnerType
  <2>2. ThreadType'
    BY <1>0, <1>8 DEF WaitBegin, Goes, ThreadType, ThreadsKept, ConnType
  <2>3. ConnType'
    BY <1>0, <1>8 DEF WaitBegin, Goes, ConnType, ThreadType
  <2>4. ListKept'
    BY <1>0, <1>8 DEF WaitBegin, Goes, ListKept, ConnType, ThreadType
  <2>5. ClientsNew'
    BY <1>0, <1>8 DEF WaitBegin, Goes, ClientsNew, ConnType, ThreadType
  <2>6. ThreadsKept'
    BY <1>0, <1>8 DEF WaitBegin, Goes, ThreadsKept, Over, OwnerType, ThreadType
  <2>7. PipesOver'
    BY <1>0, <1>8
       DEF WaitBegin, Goes, PipesOver, ThreadsKept, Over, OwnerType, ConnType,
           ThreadType
  <2> QED
    BY <2>1, <2>2, <2>3, <2>4, <2>5, <2>6, <2>7
<1>9. CASE WaitEnd
  <2>1. OwnerType'
    BY <1>0, <1>9 DEF WaitEnd, Ended, Goes, OwnerType
  <2>2. ThreadType'
    BY <1>0, <1>9 DEF WaitEnd, Ended, Goes, ThreadType, ThreadsKept, ConnType
  <2>3. ConnType'
    BY <1>0, <1>9 DEF WaitEnd, Ended, Goes, ConnType, ThreadType
  <2>4. ListKept'
    BY <1>0, <1>9 DEF WaitEnd, Ended, Goes, ListKept, ConnType, ThreadType
  <2>5. ClientsNew'
    BY <1>0, <1>9 DEF WaitEnd, Ended, Goes, ClientsNew, ConnType, ThreadType
  <2>6. ThreadsKept'
    BY <1>0, <1>9 DEF WaitEnd, Ended, Goes, ThreadsKept, Over, OwnerType, ThreadType
  <2>7. PipesOver'
    BY <1>0, <1>9
       DEF WaitEnd, Ended, Goes, PipesOver, ThreadsKept, Over, OwnerType, ConnType,
           ThreadType
  <2> QED
    BY <2>1, <2>2, <2>3, <2>4, <2>5, <2>6, <2>7
<1>10. CASE StopDevice
  <2>1. OwnerType'
    BY <1>0, <1>10 DEF StopDevice, Goes, OwnerType
  <2>2. ThreadType'
    BY <1>0, <1>10 DEF StopDevice, Goes, ThreadType, ThreadsKept, ConnType
  <2>3. ConnType'
    BY <1>0, <1>10 DEF StopDevice, Goes, ConnType, ThreadType
  <2>4. ListKept'
    BY <1>0, <1>10 DEF StopDevice, Goes, ListKept, ConnType, ThreadType
  <2>5. ClientsNew'
    BY <1>0, <1>10 DEF StopDevice, Goes, ClientsNew, ConnType, ThreadType
  <2>6. ThreadsKept'
    BY <1>0, <1>10 DEF StopDevice, Goes, ThreadsKept, Over, OwnerType, ThreadType
  <2>7. PipesOver'
    BY <1>0, <1>10
       DEF StopDevice, Goes, PipesOver, ThreadsKept, Over, OwnerType, ConnType,
           ThreadType
  <2> QED
    BY <2>1, <2>2, <2>3, <2>4, <2>5, <2>6, <2>7
<1>11. CASE JoinDevice
  <2>1. OwnerType'
    BY <1>0, <1>11 DEF JoinDevice, Goes, OwnerType
  <2>2. ThreadType'
    BY <1>0, <1>11 DEF JoinDevice, Goes, ThreadType, ThreadsKept, ConnType
  <2>3. ConnType'
    BY <1>0, <1>11 DEF JoinDevice, Goes, ConnType, ThreadType
  <2>4. ListKept'
    BY <1>0, <1>11 DEF JoinDevice, Goes, ListKept, ConnType, ThreadType
  <2>5. ClientsNew'
    BY <1>0, <1>11 DEF JoinDevice, Goes, ClientsNew, ConnType, ThreadType
  <2>6. ThreadsKept'
    BY <1>0, <1>11 DEF JoinDevice, Goes, ThreadsKept, Over, OwnerType, ThreadType
  <2>7. PipesOver'
    BY <1>0, <1>11
       DEF JoinDevice, Goes, PipesOver, ThreadsKept, Over, OwnerType, ConnType,
           ThreadType
  <2> QED
    BY <2>1, <2>2, <2>3, <2>4, <2>5, <2>6, <2>7
<1>12. CASE DeviceFails
  <2>1. OwnerType'
    BY <1>0, <1>12 DEF DeviceFails, Goes, OwnerType
  <2>2. ThreadType'
    BY <1>0, <1>12 DEF DeviceFails, Goes, ThreadType, ThreadsKept, ConnType
  <2>3. ConnType'
    BY <1>0, <1>12 DEF DeviceFails, Goes, ConnType, ThreadType
  <2>4. ListKept'
    BY <1>0, <1>12 DEF DeviceFails, Goes, ListKept, ConnType, ThreadType
  <2>5. ClientsNew'
    BY <1>0, <1>12 DEF DeviceFails, Goes, ClientsNew, ConnType, ThreadType
  <2>6. ThreadsKept'
    BY <1>0, <1>12 DEF DeviceFails, Goes, ThreadsKept, Over, OwnerType, ThreadType
  <2>7. PipesOver'
    BY <1>0, <1>12
       DEF DeviceFails, Goes, PipesOver, ThreadsKept, Over, OwnerType, ConnType,
           ThreadType
  <2> QED
    BY <2>1, <2>2, <2>3, <2>4, <2>5, <2>6, <2>7
<1>13. CASE DeviceStart
  <2>1. OwnerType'
    BY <1>0, <1>13 DEF DeviceStart, Goes, OwnerType
  <2>2. ThreadType'
    BY <1>0, <1>13 DEF DeviceStart, Goes, ThreadType, ThreadsKept, ConnType
  <2>3. ConnType'
    BY <1>0, <1>13 DEF DeviceStart, Goes, ConnType, ThreadType
  <2>4. ListKept'
    BY <1>0, <1>13 DEF DeviceStart, Goes, ListKept, ConnType, ThreadType
  <2>5. ClientsNew'
    BY <1>0, <1>13 DEF DeviceStart, Goes, ClientsNew, ConnType, ThreadType
  <2>6. ThreadsKept'
    BY <1>0, <1>13 DEF DeviceStart, Goes, ThreadsKept, Over, OwnerType, ThreadType
  <2>7. PipesOver'
    BY <1>0, <1>13
       DEF DeviceStart, Goes, PipesOver, ThreadsKept, Over, OwnerType, ConnType,
           ThreadType
  <2> QED
    BY <2>1, <2>2, <2>3, <2>4, <2>5, <2>6, <2>7
<1>14. CASE DeviceStops
  <2>1. OwnerType'
    BY <1>0, <1>14 DEF DeviceStops, Goes, OwnerType
  <2>2. ThreadType'
    BY <1>0, <1>14 DEF DeviceStops, Goes, ThreadType, ThreadsKept, ConnType
  <2>3. ConnType'
    BY <1>0, <1>14 DEF DeviceStops, Goes, ConnType, ThreadType
  <2>4. ListKept'
    BY <1>0, <1>14 DEF DeviceStops, Goes, ListKept, ConnType, ThreadType
  <2>5. ClientsNew'
    BY <1>0, <1>14 DEF DeviceStops, Goes, ClientsNew, ConnType, ThreadType
  <2>6. ThreadsKept'
    BY <1>0, <1>14 DEF DeviceStops, Goes, ThreadsKept, Over, OwnerType, ThreadType
  <2>7. PipesOver'
    BY <1>0, <1>14
       DEF DeviceStops, Goes, PipesOver, ThreadsKept, Over, OwnerType, ConnType,
           ThreadType
  <2> QED
    BY <2>1, <2>2, <2>3, <2>4, <2>5, <2>6, <2>7
<1>15. CASE DeviceReads
  <2>1. OwnerType'
    BY <1>0, <1>15 DEF DeviceReads, Goes, OwnerType
  <2>2. ThreadType'
    BY <1>0, <1>15 DEF DeviceReads, Goes, ThreadType, ThreadsKept, ConnType
  <2>3. ConnType'
    BY <1>0, <1>15 DEF DeviceReads, Goes, ConnType, ThreadType
  <2>4. ListKept'
    BY <1>0, <1>15 DEF DeviceReads, Goes, ListKept, ConnType, ThreadType
  <2>5. ClientsNew'
    BY <1>0, <1>15 DEF DeviceReads, Goes, ClientsNew, ConnType, ThreadType
  <2>6. ThreadsKept'
    BY <1>0, <1>15 DEF DeviceReads, Goes, ThreadsKept, Over, OwnerType, ThreadType
  <2>7. PipesOver'
    BY <1>0, <1>15
       DEF DeviceReads, Goes, PipesOver, ThreadsKept, Over, OwnerType, ConnType,
           ThreadType
  <2> QED
    BY <2>1, <2>2, <2>3, <2>4, <2>5, <2>6, <2>7
<1>16. CASE DeviceWrites
  <2>a. /\ Tail(todo) \in Seq(Conns) /\ Head(todo) \in Conns
        /\ \A x : Contains(Tail(todo), x) => Contains(todo, x)
    BY <1>16, TailMembers DEF DeviceWrites, ThreadType
  <2>1. OwnerType'
    BY <1>0, <1>16, <2>a DEF DeviceWrites, OwnerType
  <2>2. ThreadType'
    BY <1>0, <1>16, <2>a DEF DeviceWrites, ThreadType, ThreadsKept, ConnType
  <2>3. ConnType'
    BY <1>0, <1>16, <2>a DEF DeviceWrites, ConnType, ThreadType
  <2>4. ListKept'
    BY <1>0, <1>16, <2>a DEF DeviceWrites, ListKept, ConnType, ThreadType
  <2>5. ClientsNew'
    BY <1>0, <1>16, <2>a DEF DeviceWrites, ClientsNew, ConnType, ThreadType
  <2>6. ThreadsKept'
    BY <1>0, <1>16, <2>a DEF DeviceWrites, ThreadsKept, Over, OwnerType, ThreadType
  <2>7. PipesOver'
    BY <1>0, <1>16, <2>a
       DEF DeviceWrites, PipesOver, ThreadsKept, Over, OwnerType, ConnType,
           ThreadType
  <2> QED
    BY <2>1, <2>2, <2>3, <2>4, <2>5, <2>6, <2>7
<1>17. CASE DeviceUnlocks
  <2>1. OwnerType'
    BY <1>0, <1>17 DEF DeviceUnlocks, Goes, OwnerType
  <2>2. ThreadType'
    BY <1>0, <1>17 DEF DeviceUnlocks, Goes, ThreadType, ThreadsKept, ConnType
  <2>3. ConnType'
    BY <1>0, <1>17 DEF DeviceUnlocks, Goes, ConnType, ThreadType
  <2>4. ListKept'
    BY <1>0, <1>17 DEF DeviceUnlocks, Goes, ListKept, ConnType, ThreadType
  <2>5. ClientsNew'
    BY <1>0, <1>17 DEF DeviceUnlocks, Goes, ClientsNew, ConnType, ThreadType
  <2>6. ThreadsKept'
    BY <1>0, <1>17 DEF DeviceUnlocks, Goes, ThreadsKept, Over, OwnerType, ThreadType
  <2>7. PipesOver'
    BY <1>0, <1>17
       DEF DeviceUnlocks, Goes, PipesOver, ThreadsKept, Over, OwnerType, ConnType,
           ThreadType
  <2> QED
    BY <2>1, <2>2, <2>3, <2>4, <2>5, <2>6, <2>7
<1>18. CASE ServerFails
  <2>1. OwnerType'
    BY <1>0, <1>18 DEF ServerFails, Goes, OwnerType
  <2>2. ThreadType'
    BY <1>0, <1>18 DEF ServerFails, Goes, ThreadType, ThreadsKept, ConnType
  <2>3. ConnType'
    BY <1>0, <1>18 DEF ServerFails, Goes, ConnType, ThreadType
  <2>4. ListKept'
    BY <1>0, <1>18 DEF ServerFails, Goes, ListKept, ConnType, ThreadType
  <2>5. ClientsNew'
    BY <1>0, <1>18 DEF ServerFails, Goes, ClientsNew, ConnType, ThreadType
  <2>6. ThreadsKept'
    BY <1>0, <1>18 DEF ServerFails, Goes, ThreadsKept, Over, OwnerType, ThreadType
  <2>7. PipesOver'
    BY <1>0, <1>18
       DEF ServerFails, Goes, PipesOver, ThreadsKept, Over, OwnerType, ConnType,
           ThreadType
  <2> QED
    BY <2>1, <2>2, <2>3, <2>4, <2>5, <2>6, <2>7
<1>19. CASE ServerStart
  <2>1. OwnerType'
    BY <1>0, <1>19 DEF ServerStart, Goes, OwnerType
  <2>2. ThreadType'
    BY <1>0, <1>19 DEF ServerStart, Goes, ThreadType, ThreadsKept, ConnType
  <2>3. ConnType'
    BY <1>0, <1>19 DEF ServerStart, Goes, ConnType, ThreadType
  <2>4. ListKept'
    BY <1>0, <1>19 DEF ServerStart, Goes, ListKept, ConnType, ThreadType
  <2>5. ClientsNew'
    BY <1>0, <1>19 DEF ServerStart, Goes, ClientsNew, ConnType, ThreadType
  <2>6. ThreadsKept'
    BY <1>0, <1>19 DEF ServerStart, Goes, ThreadsKept, Over, OwnerType, ThreadType
  <2>7. PipesOver'
    BY <1>0, <1>19
       DEF ServerStart, Goes, PipesOver, ThreadsKept, Over, OwnerType, ConnType,
           ThreadType
  <2> QED
    BY <2>1, <2>2, <2>3, <2>4, <2>5, <2>6, <2>7
<1>20. CASE ServerStops
  <2>1. OwnerType'
    BY <1>0, <1>20 DEF ServerStops, Goes, Leave, OwnerType
  <2>2. ThreadType'
    BY <1>0, <1>20 DEF ServerStops, Goes, Leave, ThreadType, ThreadsKept, ConnType
  <2>3. ConnType'
    BY <1>0, <1>20 DEF ServerStops, Goes, Leave, ConnType, ThreadType
  <2>4. ListKept'
    BY <1>0, <1>20 DEF ServerStops, Goes, Leave, ListKept, ConnType, ThreadType
  <2>5. ClientsNew'
    BY <1>0, <1>20 DEF ServerStops, Goes, Leave, ClientsNew, ConnType, ThreadType
  <2>6. ThreadsKept'
    BY <1>0, <1>20
       DEF ServerStops, Goes, Leave, ThreadsKept, Over, OwnerType, ThreadType
  <2>7. PipesOver'
    BY <1>0, <1>20
       DEF ServerStops, Goes, Leave, PipesOver, ThreadsKept, Over, OwnerType,
           ConnType, ThreadType
  <2> QED
    BY <2>1, <2>2, <2>3, <2>4, <2>5, <2>6, <2>7
<1>21. CASE ServerAccepts
  <2>1. OwnerType'
    BY <1>0, <1>21 DEF ServerAccepts, Goes, OwnerType
  <2>2. ThreadType'
    BY <1>0, <1>21 DEF ServerAccepts, Goes, ThreadType, ThreadsKept, ConnType
  <2>3. ConnType'
    BY <1>0, <1>21 DEF ServerAccepts, Goes, ConnType, ThreadType
  <2>4. ListKept'
    BY <1>0, <1>21 DEF ServerAccepts, Goes, ListKept, ConnType, ThreadType
  <2>5. ClientsNew'
    BY <1>0, <1>21 DEF ServerAccepts, Goes, ClientsNew, ConnType, ThreadType
  <2>6. ThreadsKept'
    BY <1>0, <1>21 DEF ServerAccepts, Goes, ThreadsKept, Over, OwnerType, ThreadType
  <2>7. PipesOver'
    BY <1>0, <1>21
       DEF ServerAccepts, Goes, PipesOver, ThreadsKept, Over, OwnerType, ConnType,
           ThreadType
  <2> QED
    BY <2>1, <2>2, <2>3, <2>4, <2>5, <2>6, <2>7
<1>22. CASE ServerCreates
  <2>1. OwnerType'
    BY <1>0, <1>22 DEF ServerCreates, Goes, Leave, OwnerType
  <2>2. ThreadType'
    BY <1>0, <1>22 DEF ServerCreates, Goes, Leave, ThreadType, ThreadsKept, ConnType
  <2>3. ConnType'
    BY <1>0, <1>22 DEF ServerCreates, Goes, Leave, ConnType, ThreadType
  <2>4. ListKept'
    BY <1>0, <1>22
       DEF ServerCreates, Goes, Leave, ListKept, ConnType, ThreadType, ClientsNew, OnList
  <2>5. ClientsNew'
    BY <1>0, <1>22 DEF ServerCreates, Goes, Leave, ClientsNew, ConnType, ThreadType
  <2>6. ThreadsKept'
    BY <1>0, <1>22 DEF ServerCreates, Goes, Leave, ThreadsKept, Over, OwnerType, ThreadType
  <2>7. PipesOver'
    BY <1>0, <1>22
       DEF ServerCreates, Goes, Leave, PipesOver, ThreadsKept, Over, OwnerType, ConnType,
           ThreadType
  <2> QED
    BY <2>1, <2>2, <2>3, <2>4, <2>5, <2>6, <2>7
<1>39. CASE ServerStores
  <2>1. OwnerType'
    BY <1>0, <1>39 DEF ServerStores, OwnerType
  <2>2. ThreadType'
    BY <1>0, <1>39 DEF ServerStores, ThreadType, ThreadsKept, ConnType
  <2>3. ConnType'
    BY <1>0, <1>39 DEF ServerStores, ConnType, ThreadType
  <2>4. ListKept'
    BY <1>0, <1>39
       DEF ServerStores, ListKept, ConnType, ThreadType, ClientsNew, OnList
  <2>5. ClientsNew'
    BY <1>0, <1>39 DEF ServerStores, ClientsNew, ConnType, ThreadType
  <2>6. ThreadsKept'
    BY <1>0, <1>39 DEF ServerStores, ThreadsKept, Over, OwnerType, ThreadType
  <2>7. PipesOver'
    BY <1>0, <1>39
       DEF ServerStores, PipesOver, ThreadsKept, Over, OwnerType, ConnType,
           ThreadType
  <2> QED
    BY <2>1, <2>2, <2>3, <2>4, <2>5, <2>6, <2>7
<1>23. CASE ExecFails
  <2>1. OwnerType'
    BY <1>0, <1>23 DEF ExecFails, Goes, OwnerType
  <2>2. ThreadType'
    BY <1>0, <1>23 DEF ExecFails, Goes, ThreadType, ThreadsKept, ConnType
  <2>3. ConnType'
    BY <1>0, <1>23 DEF ExecFails, Goes, ConnType, ThreadType
  <2>4. ListKept'
    BY <1>0, <1>23 DEF ExecFails, Goes, ListKept, ConnType, ThreadType
  <2>5. ClientsNew'
    BY <1>0, <1>23 DEF ExecFails, Goes, ClientsNew, ConnType, ThreadType
  <2>6. ThreadsKept'
    BY <1>0, <1>23 DEF ExecFails, Goes, ThreadsKept, Over, OwnerType, ThreadType
  <2>7. PipesOver'
    BY <1>0, <1>23
       DEF ExecFails, Goes, PipesOver, ThreadsKept, Over, OwnerType, ConnType,
           ThreadType
  <2> QED
    BY <2>1, <2>2, <2>3, <2>4, <2>5, <2>6, <2>7
<1>24. CASE ExecStart
  <2>1. OwnerType'
    BY <1>0, <1>24 DEF ExecStart, Goes, OwnerType
  <2>2. ThreadType'
    BY <1>0, <1>24 DEF ExecStart, Goes, ThreadType, ThreadsKept, ConnType
  <2>3. ConnType'
    BY <1>0, <1>24 DEF ExecStart, Goes, ConnType, ThreadType
  <2>4. ListKept'
    BY <1>0, <1>24 DEF ExecStart, Goes, ListKept, ConnType, ThreadType
  <2>5. ClientsNew'
    BY <1>0, <1>24 DEF ExecStart, Goes, ClientsNew, ConnType, ThreadType
  <2>6. ThreadsKept'
    BY <1>0, <1>24 DEF ExecStart, Goes, ThreadsKept, Over, OwnerType, ThreadType
  <2>7. PipesOver'
    BY <1>0, <1>24
       DEF ExecStart, Goes, PipesOver, ThreadsKept, Over, OwnerType, ConnType,
           ThreadType
  <2> QED
    BY <2>1, <2>2, <2>3, <2>4, <2>5, <2>6, <2>7
<1>25. CASE ExecAgain
  <2>1. OwnerType'
    BY <1>0, <1>25 DEF ExecAgain, Goes, OwnerType
  <2>2. ThreadType'
    BY <1>0, <1>25 DEF ExecAgain, Goes, ThreadType, ThreadsKept, ConnType
  <2>3. ConnType'
    BY <1>0, <1>25 DEF ExecAgain, Goes, ConnType, ThreadType
  <2>4. ListKept'
    BY <1>0, <1>25 DEF ExecAgain, Goes, ListKept, ConnType, ThreadType
  <2>5. ClientsNew'
    BY <1>0, <1>25 DEF ExecAgain, Goes, ClientsNew, ConnType, ThreadType
  <2>6. ThreadsKept'
    BY <1>0, <1>25 DEF ExecAgain, Goes, ThreadsKept, Over, OwnerType, ThreadType
  <2>7. PipesOver'
    BY <1>0, <1>25
       DEF ExecAgain, Goes, PipesOver, ThreadsKept, Over, OwnerType, ConnType,
           ThreadType
  <2> QED
    BY <2>1, <2>2, <2>3, <2>4, <2>5, <2>6, <2>7
<1>26. CASE ExecStops
  <2>1. OwnerType'
    BY <1>0, <1>26 DEF ExecStops, Goes, OwnerType
  <2>2. ThreadType'
    BY <1>0, <1>26 DEF ExecStops, Goes, ThreadType, ThreadsKept, ConnType
  <2>3. ConnType'
    BY <1>0, <1>26 DEF ExecStops, Goes, ConnType, ThreadType
  <2>4. ListKept'
    BY <1>0, <1>26 DEF ExecStops, Goes, ListKept, ConnType, ThreadType
  <2>5. ClientsNew'
    BY <1>0, <1>26 DEF ExecStops, Goes, ClientsNew, ConnType, ThreadType
  <2>6. ThreadsKept'
    BY <1>0, <1>26 DEF ExecStops, Goes, ThreadsKept, Over, OwnerType, ThreadType
  <2>7. PipesOver'
    BY <1>0, <1>26
       DEF ExecStops, Goes, PipesOver, ThreadsKept, Over, OwnerType, ConnType,
           ThreadType
  <2> QED
    BY <2>1, <2>2, <2>3, <2>4, <2>5, <2>6, <2>7
<1>27. ASSUME NEW c \in Conns, ConnFails(c)
      PROVE  IInv'
  <2>1. OwnerType'
    BY <1>0, <1>27 DEF ConnFails, ConnGoes, OwnerType
  <2>2. ThreadType'
    BY <1>0, <1>27 DEF ConnFails, ConnGoes, ThreadType, ThreadsKept, ConnType
  <2>3. ConnType'
    BY <1>0, <1>27 DEF ConnFails, ConnGoes, ConnType, ThreadType
  <2>4. ListKept'
    BY <1>0, <1>27 DEF ConnFails, ConnGoes, ListKept, ConnType, ThreadType, OnList
  <2>5. ClientsNew'
    BY <1>0, <1>27 DEF ConnFails, ConnGoes, ClientsNew, ConnType, ThreadType
  <2>6. ThreadsKept'
    BY <1>0, <1>27 DEF ConnFails, ConnGoes, ThreadsKept, Over, OwnerType, ThreadType
  <2>7. PipesOver'
    BY <1>0, <1>27
       DEF ConnFails, ConnGoes, PipesOver, ThreadsKept, Over, OwnerType, ConnType,
           ThreadType
  <2> QED
    BY <2>1, <2>2, <2>3, <2>4, <2>5, <2>6, <2>7
<1>28. ASSUME NEW c \in Conns, ConnInsert(c)
      PROVE  IInv'
  <2>a. ~Contains(list, c) /\ todo = << >>
    BY <1>28 DEF ConnInsert, ConnGoes, Unlocked, ListKept, OnList, ThreadType
  <2>b. /\ Append(list, c) \in Seq(Conns)
        /\ \A x : Contains(Append(list, c), x) <=> Contains(list, x) \/ x = c
        /\ IsInjective(list) => IsInjective(Append(list, c))
    BY <2>a, AppendMembers DEF ConnType
  <2>1. OwnerType'
    BY <1>0, <1>28, <2>a, <2>b DEF ConnInsert, ConnGoes, OwnerType
  <2>2. ThreadType'
    BY <1>0, <1>28, <2>a, <2>b
       DEF ConnInsert, ConnGoes, ThreadType, ThreadsKept, ConnType
  <2>3. ConnType'
    BY <1>0, <1>28, <2>a, <2>b DEF ConnInsert, ConnGoes, ConnType, ThreadType
  <2>4. ListKept'
    BY <1>0, <1>28, <2>a, <2>b
       DEF ConnInsert, ConnGoes, ListKept, ConnType, ThreadType, OnList
  <2>5. ClientsNew'
    BY <1>0, <1>28, <2>a, <2>b
       DEF ConnInsert, ConnGoes, ClientsNew, ConnType, ThreadType
  <2>6. ThreadsKept'
    BY <1>0, <1>28, <2>a, <2>b
       DEF ConnInsert, ConnGoes, ThreadsKept, Over, OwnerType, ThreadType
  <2>7. PipesOver'
    BY <1>0, <1>28, <2>a, <2>b
       DEF ConnInsert, ConnGoes, PipesOver, ThreadsKept, Over, OwnerType, ConnType,
           ThreadType
  <2> QED
    BY <2>1, <2>2, <2>3, <2>4, <2>5, <2>6, <2>7
<1>29. ASSUME NEW c \in Conns, ConnReads(c)
      PROVE  IInv'
  <2>1. OwnerType'
    BY <1>0, <1>29 DEF ConnReads, ConnGoes, OwnerType
  <2>2. ThreadType'
    BY <1>0, <1>29 DEF ConnReads, ConnGoes, ThreadType, ThreadsKept, ConnType
  <2>3. ConnType'
    BY <1>0, <1>29 DEF ConnReads, ConnGoes, ConnType, ThreadType
  <2>4. ListKept'
    BY <1>0, <1>29 DEF ConnReads, ConnGoes, ListKept, ConnType, ThreadType, OnList
  <2>5. ClientsNew'
    BY <1>0, <1>29 DEF ConnReads, ConnGoes, ClientsNew, ConnType, ThreadType
  <2>6. ThreadsKept'
    BY <1>0, <1>29 DEF ConnReads, ConnGoes, ThreadsKept, Over, OwnerType, ThreadType
  <2>7. PipesOver'
    BY <1>0, <1>29
       DEF ConnReads, ConnGoes, PipesOver, ThreadsKept, Over, OwnerType, ConnType,
           ThreadType
  <2> QED
    BY <2>1, <2>2, <2>3, <2>4, <2>5, <2>6, <2>7
<1>30. ASSUME NEW c \in Conns, ConnForwards(c)
      PROVE  IInv'
  <2>1. OwnerType'
    BY <1>0, <1>30 DEF ConnForwards, ConnGoes, OwnerType
  <2>2. ThreadType'
    BY <1>0, <1>30 DEF ConnForwards, ConnGoes, ThreadType, ThreadsKept, ConnType
  <2>3. ConnType'
    BY <1>0, <1>30 DEF ConnForwards, ConnGoes, ConnType, ThreadType
  <2>4. ListKept'
    BY <1>0, <1>30 DEF ConnForwards, ConnGoes, ListKept, ConnType, ThreadType, OnList
  <2>5. ClientsNew'
    BY <1>0, <1>30 DEF ConnForwards, ConnGoes, ClientsNew, ConnType, ThreadType
  <2>6. ThreadsKept'
    BY <1>0, <1>30
       DEF ConnForwards, ConnGoes, ThreadsKept, Over, OwnerType, ThreadType
  <2>7. PipesOver'
    BY <1>0, <1>30
       DEF ConnForwards, ConnGoes, PipesOver, ThreadsKept, Over, OwnerType,
           ConnType, ThreadType
  <2> QED
    BY <2>1, <2>2, <2>3, <2>4, <2>5, <2>6, <2>7
<1>31. ASSUME NEW c \in Conns, ConnStops(c)
      PROVE  IInv'
  <2>1. OwnerType'
    BY <1>0, <1>31 DEF ConnStops, ConnGoes, OwnerType
  <2>2. ThreadType'
    BY <1>0, <1>31 DEF ConnStops, ConnGoes, ThreadType, ThreadsKept, ConnType
  <2>3. ConnType'
    BY <1>0, <1>31 DEF ConnStops, ConnGoes, ConnType, ThreadType
  <2>4. ListKept'
    BY <1>0, <1>31 DEF ConnStops, ConnGoes, ListKept, ConnType, ThreadType, OnList
  <2>5. ClientsNew'
    BY <1>0, <1>31 DEF ConnStops, ConnGoes, ClientsNew, ConnType, ThreadType
  <2>6. ThreadsKept'
    BY <1>0, <1>31 DEF ConnStops, ConnGoes, ThreadsKept, Over, OwnerType, ThreadType
  <2>7. PipesOver'
    BY <1>0, <1>31
       DEF ConnStops, ConnGoes, PipesOver, ThreadsKept, Over, OwnerType, ConnType,
           ThreadType
  <2> QED
    BY <2>1, <2>2, <2>3, <2>4, <2>5, <2>6, <2>7
<1>32. ASSUME NEW c \in Conns, ConnRemove(c)
      PROVE  IInv'
  <2>a. todo = << >>
    BY <1>32 DEF ConnRemove, Unlocked, ThreadType
  <2>b. /\ RemoveFirst(list, c) \in Seq(Conns)
        /\ \A x : /\ Contains(RemoveFirst(list, c), x) => Contains(list, x)
                  /\ Contains(list, x) /\ x # c => Contains(RemoveFirst(list, c), x)
        /\ IsInjective(list) => /\ IsInjective(RemoveFirst(list, c))
                                /\ ~Contains(RemoveFirst(list, c), c)
    BY RemoveFirstMembers DEF ConnType
  <2>1. OwnerType'
    BY <1>0, <1>32, <2>a, <2>b DEF ConnRemove, ConnGoes, OwnerType
  <2>2. ThreadType'
    BY <1>0, <1>32, <2>a, <2>b
       DEF ConnRemove, ConnGoes, ThreadType, ThreadsKept, ConnType
  <2>3. ConnType'
    BY <1>0, <1>32, <2>a, <2>b DEF ConnRemove, ConnGoes, ConnType, ThreadType
  <2>4. ListKept'
    BY <1>0, <1>32, <2>a, <2>b
       DEF ConnRemove, ConnGoes, ListKept, ConnType, ThreadType, OnList
  <2>5. ClientsNew'
    BY <1>0, <1>32, <2>a, <2>b
       DEF ConnRemove, ConnGoes, ClientsNew, ConnType, ThreadType
  <2>6. ThreadsKept'
    BY <1>0, <1>32, <2>a, <2>b
       DEF ConnRemove, ConnGoes, ThreadsKept, Over, OwnerType, ThreadType
  <2>7. PipesOver'
    BY <1>0, <1>32, <2>a, <2>b
       DEF ConnRemove, ConnGoes, PipesOver, ThreadsKept, Over, OwnerType, ConnType,
           ThreadType
  <2> QED
    BY <2>1, <2>2, <2>3, <2>4, <2>5, <2>6, <2>7
<1>33. ASSUME NEW c \in Conns, ConnCloses(c)
      PROVE  IInv'
  <2>1. OwnerType'
    BY <1>0, <1>33 DEF ConnCloses, ConnGoes, Leave, OwnerType
  <2>2. ThreadType'
    BY <1>0, <1>33 DEF ConnCloses, ConnGoes, Leave, ThreadType, ThreadsKept, ConnType
  <2>3. ConnType'
    BY <1>0, <1>33 DEF ConnCloses, ConnGoes, Leave, ConnType, ThreadType
  <2>4. ListKept'
    BY <1>0, <1>33
       DEF ConnCloses, ConnGoes, Leave, ListKept, ConnType, ThreadType, OnList
  <2>5. ClientsNew'
    BY <1>0, <1>33 DEF ConnCloses, ConnGoes, Leave, ClientsNew, ConnType, ThreadType
  <2>6. ThreadsKept'
    BY <1>0, <1>33
       DEF ConnCloses, ConnGoes, Leave, ThreadsKept, Over, OwnerType, ThreadType
  <2>7. PipesOver'
    BY <1>0, <1>33
       DEF ConnCloses, ConnGoes, Leave, PipesOver, ThreadsKept, Over, OwnerType,
           ConnType, ThreadType
  <2> QED
    BY <2>1, <2>2, <2>3, <2>4, <2>5, <2>6, <2>7
<1>34. ASSUME NEW c \in Conns, ConnEnds(c)
      PROVE  IInv'
  <2>1. OwnerType'
    BY <1>0, <1>34 DEF ConnEnds, ConnGoes, OwnerType
  <2>2. ThreadType'
    BY <1>0, <1>34 DEF ConnEnds, ConnGoes, ThreadType, ThreadsKept, ConnType
  <2>3. ConnType'
    BY <1>0, <1>34 DEF ConnEnds, ConnGoes, ConnType, ThreadType
  <2>4. ListKept'
    BY <1>0, <1>34 DEF ConnEnds, ConnGoes, ListKept, ConnType, ThreadType, OnList
  <2>5. ClientsNew'
    BY <1>0, <1>34 DEF ConnEnds, ConnGoes, ClientsNew, ConnType, ThreadType
  <2>6. ThreadsKept'
    BY <1>0, <1>34 DEF ConnEnds, ConnGoes, ThreadsKept, Over, OwnerType, ThreadType
  <2>7. PipesOver'
    BY <1>0, <1>34
       DEF ConnEnds, ConnGoes, PipesOver, ThreadsKept, Over, OwnerType, ConnType,
           ThreadType
  <2> QED
    BY <2>1, <2>2, <2>3, <2>4, <2>5, <2>6, <2>7
<1>35. ASSUME NEW c \in Conns, ClientConnects(c)
      PROVE  IInv'
  <2>1. OwnerType'
    BY <1>0, <1>35 DEF ClientConnects, Leave, OwnerType
  <2>2. ThreadType'
    BY <1>0, <1>35 DEF ClientConnects, Leave, ThreadType, ThreadsKept, ConnType
  <2>3. ConnType'
    BY <1>0, <1>35 DEF ClientConnects, Leave, ConnType, ThreadType
  <2>4. ListKept'
    BY <1>0, <1>35 DEF ClientConnects, Leave, ListKept, ConnType, ThreadType
  <2>5. ClientsNew'
    BY <1>0, <1>35 DEF ClientConnects, Leave, ClientsNew, ConnType, ThreadType
  <2>6. ThreadsKept'
    BY <1>0, <1>35 DEF ClientConnects, Leave, ThreadsKept, Over, OwnerType, ThreadType
  <2>7. PipesOver'
    BY <1>0, <1>35
       DEF ClientConnects, Leave, PipesOver, ThreadsKept, Over, OwnerType, ConnType,
           ThreadType
  <2> QED
    BY <2>1, <2>2, <2>3, <2>4, <2>5, <2>6, <2>7
<1>36. ASSUME NEW c \in Conns, ClientReads(c)
      PROVE  IInv'
  <2>1. OwnerType'
    BY <1>0, <1>36 DEF ClientReads, Leave, OwnerType
  <2>2. ThreadType'
    BY <1>0, <1>36 DEF ClientReads, Leave, ThreadType, ThreadsKept, ConnType
  <2>3. ConnType'
    BY <1>0, <1>36 DEF ClientReads, Leave, ConnType, ThreadType
  <2>4. ListKept'
    BY <1>0, <1>36 DEF ClientReads, Leave, ListKept, ConnType, ThreadType
  <2>5. ClientsNew'
    BY <1>0, <1>36 DEF ClientReads, Leave, ClientsNew, ConnType, ThreadType
  <2>6. ThreadsKept'
    BY <1>0, <1>36 DEF ClientReads, Leave, ThreadsKept, Over, OwnerType, ThreadType
  <2>7. PipesOver'
    BY <1>0, <1>36
       DEF ClientReads, Leave, PipesOver, ThreadsKept, Over, OwnerType, ConnType,
           ThreadType
  <2> QED
    BY <2>1, <2>2, <2>3, <2>4, <2>5, <2>6, <2>7
<1>37. ASSUME NEW c \in Conns, ClientLeaves(c)
      PROVE  IInv'
  <2>1. OwnerType'
    BY <1>0, <1>37 DEF ClientLeaves, Leave, OwnerType
  <2>2. ThreadType'
    BY <1>0, <1>37 DEF ClientLeaves, Leave, ThreadType, ThreadsKept, ConnType
  <2>3. ConnType'
    BY <1>0, <1>37 DEF ClientLeaves, Leave, ConnType, ThreadType
  <2>4. ListKept'
    BY <1>0, <1>37 DEF ClientLeaves, Leave, ListKept, ConnType, ThreadType
  <2>5. ClientsNew'
    BY <1>0, <1>37 DEF ClientLeaves, Leave, ClientsNew, ConnType, ThreadType
  <2>6. ThreadsKept'
    BY <1>0, <1>37 DEF ClientLeaves, Leave, ThreadsKept, Over, OwnerType, ThreadType
  <2>7. PipesOver'
    BY <1>0, <1>37
       DEF ClientLeaves, Leave, PipesOver, ThreadsKept, Over, OwnerType, ConnType,
           ThreadType
  <2> QED
    BY <2>1, <2>2, <2>3, <2>4, <2>5, <2>6, <2>7
<1>38. CASE UNCHANGED vars
  <2>1. OwnerType'
    BY <1>0, <1>38 DEF vars, OwnerType
  <2>2. ThreadType'
    BY <1>0, <1>38 DEF vars, ThreadType, ThreadsKept, ConnType
  <2>3. ConnType'
    BY <1>0, <1>38 DEF vars, ConnType, ThreadType
  <2>4. ListKept'
    BY <1>0, <1>38 DEF vars, ListKept, ConnType, ThreadType
  <2>5. ClientsNew'
    BY <1>0, <1>38 DEF vars, ClientsNew, ConnType, ThreadType
  <2>6. ThreadsKept'
    BY <1>0, <1>38 DEF vars, ThreadsKept, Over, OwnerType, ThreadType
  <2>7. PipesOver'
    BY <1>0, <1>38
       DEF vars, PipesOver, ThreadsKept, Over, OwnerType, ConnType, ThreadType
  <2> QED
    BY <2>1, <2>2, <2>3, <2>4, <2>5, <2>6, <2>7
<1> QED
  BY <1>1, <1>2, <1>3, <1>4, <1>5, <1>6, <1>7, <1>8, <1>9, <1>10, <1>11, <1>12,
     <1>13, <1>14, <1>15, <1>16, <1>17, <1>18, <1>19, <1>20, <1>21, <1>22, <1>23, <1>24,
     <1>25, <1>26, <1>27, <1>28, <1>29, <1>30, <1>31, <1>32, <1>33, <1>34, <1>35, <1>36,
     <1>37, <1>38, <1>39
     DEF Next, Create, Destroy, Device, Server, Exec, Connection, Client

-----------------------------------------------------------------------------
(* The invariant holds in every reachable state.                           *)
THEOREM Invariance == Spec => []IInv
<1> QED
  BY IInvInit, IInvStep, PTL DEF Spec

(* Every variable of a console of the monitor keeps its type.              *)
THEOREM TypeCorrect == Spec => []TypeOK
<1>1. IInv => TypeOK
  BY DEF IInv, TypeOK, OwnerType, ThreadType, ConnType
<1> QED
  BY <1>1, Invariance, PTL

(* The device thread has nothing left to write to but connections on the   *)
(* console's list, each of which is there once while its thread needs it.  *)
THEOREM WritesToTheListed == Spec => []WritesListed
<1>1. IInv => WritesListed
  <2> SUFFICES ASSUME IInv PROVE WritesListed
    OBVIOUS
  <2>1. TypeOK /\ list \in Seq(Conns) /\ todo \in Seq(Conns) /\ IsInjective(list)
    BY DEF IInv, TypeOK, OwnerType, ThreadType, ConnType, ListKept
  <2>2. /\ ToSet(list) \subseteq Conns /\ Cardinality(ToSet(list)) = Len(list)
        /\ \A x : x \in ToSet(list) <=> Contains(list, x)
    BY <2>1, SetMembers
  <2>3. ToSet(todo) \subseteq Conns /\ \A x : x \in ToSet(todo) <=> Contains(todo, x)
    BY <2>1, SetMembers
  <2> QED
    BY <2>1, <2>2, <2>3 DEF IInv, ListKept, OnList, WritesListed
<1> QED
  BY <1>1, Invariance, PTL

(* Of a console that has been freed nothing runs but what                  *)
(* ConsoleWaitForPipes did not wait for.                                   *)
THEOREM FreedIsOver == Spec => []FreedUnused
<1>1. IInv => FreedUnused
  BY DEF IInv, ThreadsKept, PipesOver, FreedUnused, Using
<1> QED
  BY <1>1, Invariance, PTL

-----------------------------------------------------------------------------
(***************************************************************************)
(* The service, module Service, for any devices and handles.               *)
(***************************************************************************)
(* Where MonitorMain is before it waits; what the threads hold, and what   *)
(* has been set up, at each place of theirs.                               *)
Early == {"begin", "report", "event", "notify"}
Starting == Early \cup {"running", "init", "enumerate", "create", "insert"}

Kept ==
  /\ mine # Null <=> main \in {"insert", "destroy"}
  /\ handler.with # Null <=> handler.does # "idle"
  /\ main \in Early \cup {"running", "init"} => lock = "none"
  /\ main \in {"enumerate", "create", "insert", "wait", "remove", "destroy", "delete"}
       <=> lock = "ready"
  /\ lock = "none" => consoles = << >>
  /\ registered <=> main \notin Early \cup {"stopped"}

(* A console is on the list or held by one thread; from its creation to    *)
(* its destruction it is somewhere, until the list is deleted.             *)
Held(h) == Contains(consoles, h) \/ (h # Null /\ (h = mine \/ h = handler.with))

Owned ==
  /\ IsInjective(consoles)
  /\ mine # Null => mine # handler.with
  /\ \A h \in Handles : Contains(consoles, h) => h # mine /\ h # handler.with
  /\ \A h \in Handles : Held(h) => open[h] # Null
  /\ lock # "deleted" /\ ~undefined => \A h \in Handles : open[h] # Null => Held(h)

(* A removal is only notified to an open handle.                           *)
Told == \A h \in Handles : Contains(notices, Removal(h)) => open[h] # Null

Destroys(h) == handler = [does |-> "destroy", with |-> h]

(* A device is still to be enumerated, or its arrival to be delivered, or  *)
(* it has a console that is not about to go.                               *)
NotYet(d) == \/ main \in Early \cup {"running", "init", "enumerate"}
             \/ main \in {"create", "insert"} /\ d \in left

ToCome(d) == NotYet(d) \/ Contains(notices, Arrival(d))

Covered ==
  ~undefined /\ main \in Starting \cup {"wait"} =>
    \A d \in present \ (failed \cup asked) :
      \/ ToCome(d)
      \/ \E h \in Handles : /\ open[h] = d
                            /\ ~Contains(notices, Removal(h)) /\ ~Destroys(h)

(* A console whose device has left is told so, or is being destroyed.      *)
Noticed ==
  ~undefined =>
    \A h \in Handles \ missed :
      open[h] # Null => open[h] \in present \/ Contains(notices, Removal(h))
           \/ Destroys(h)

(* An arrival is notified once, and after a removal.                       *)
Once(s, d) ==
  \A i, j \in 1 .. Len(s) : s[i] = Arrival(d) /\ s[j] = Arrival(d) => i = j
After(s, h, d) == \A i \in 1 .. Len(s) : s[i] = Arrival(d) =>
                    \E j \in 1 .. Len(s) : j < i /\ s[j] = Removal(h)

(* A device has one console.  It gets another only when its arrival is     *)
(* delivered, and by then the one it had is told that it left, or is being *)
(* destroyed; so what must be known is the order in which the two are      *)
(* notified.                                                               *)
SingleOf(d) ==
  /\ \A g, h \in Handles \ missed : open[g] = d /\ open[h] = d => g = h
  /\ Once(notices, d)
  /\ \A h \in Handles \ missed : open[h] = d => After(notices, h, d) \/ Destroys(h)
  /\ main \in Starting => ~Contains(notices, Arrival(d))
  /\ NotYet(d) => \A h \in Handles : open[h] # d

Single ==
  ~undefined /\ main \in Starting \cup {"wait"}
       => \A d \in Devices \ twice : SingleOf(d)

ServiceIInv == /\ ServiceTypeOK
               /\ Kept /\ Owned /\ Told /\ Covered /\ Noticed /\ Single

(* The notifications of arrivals and of removals are different things.     *)
LEMMA Notices ==
  /\ \A d : Arrival(d).type = "arrival" /\ Arrival(d).of = d
  /\ \A h : Removal(h).type = "remove" /\ Removal(h).of = h
  /\ \A d, h : Arrival(d) # Removal(h)
  /\ \A d, e : Arrival(d) = Arrival(e) => d = e
  /\ \A g, h : Removal(g) = Removal(h) => g = h
  /\ \A d \in Devices : Arrival(d) \in Events
  /\ \A h \in Handles : Removal(h) \in Events
  /\ \A e \in Events : \/ \E d \in Devices : e = Arrival(d)
                       \/ \E h \in Handles : e = Removal(h)
BY DEF Arrival, Removal, Events

(* What is delivered.                                                      *)
LEMMA Delivery ==
  ASSUME NEW s \in Seq(Events), s # << >>
  PROVE  /\ Head(s).type = "arrival" => /\ Head(s).of \in Devices
                                        /\ Head(s) = Arrival(Head(s).of)
         /\ Head(s).type = "remove" => /\ Head(s).of \in Handles
                                       /\ Head(s) = Removal(Head(s).of)
         /\ Head(s) = s[1] /\ Len(s) \in Nat \ {0} /\ Tail(s) \in Seq(Events)
         /\ Len(Tail(s)) = Len(s) - 1
         /\ \A j \in 1 .. Len(s) - 1 : Tail(s)[j] = s[j + 1]
         /\ \A x : /\ Contains(Tail(s), x) => Contains(s, x)
                   /\ Contains(s, x) /\ x # Head(s) => Contains(Tail(s), x)
<1>1. Head(s) \in Events
  BY TailElements
<1>2. /\ Head(s).type = "arrival" => /\ Head(s).of \in Devices
                                     /\ Head(s) = Arrival(Head(s).of)
      /\ Head(s).type = "remove" => /\ Head(s).of \in Handles
                                    /\ Head(s) = Removal(Head(s).of)
  BY <1>1, Notices
<1>3. /\ Head(s) = s[1] /\ Len(s) \in Nat \ {0} /\ Tail(s) \in Seq(Events)
      /\ Len(Tail(s)) = Len(s) - 1
      /\ \A j \in 1 .. Len(s) - 1 : Tail(s)[j] = s[j + 1]
  BY TailElements
<1>4. \A x : /\ Contains(Tail(s), x) => Contains(s, x)
             /\ Contains(s, x) /\ x # Head(s) => Contains(Tail(s), x)
  BY TailMembers
<1> QED
  BY <1>2, <1>3, <1>4

(* The notifications of a device's removal: one for each handle open on it. *)
LEMMA RemovesMembers ==
  ASSUME NEW d
  PROVE  /\ Removes(d) \in Seq(Events)
         /\ \A x : Contains(Removes(d), x)
              <=> \E h \in Handles : open[h] = d /\ x = Removal(h)
<1> DEFINE S == {Removal(h) : h \in On(d)}
<1>1. IsFiniteSet(On(d)) /\ On(d) \subseteq Handles
  BY FS_Subset, ServiceAssumption DEF On
<1>2. IsFiniteSet(S)
  <2> DEFINE f == [h \in On(d) |-> Removal(h)]
  <2>1. f \in Surjection(On(d), S)
    BY DEF Surjection
  <2> HIDE DEF f, S
  <2> QED
    BY <1>1, <2>1, FS_Surjection
<1>3. S \subseteq Events
  BY <1>1, Notices
<1>4. \A x : x \in S <=> \E h \in Handles : open[h] = d /\ x = Removal(h)
  BY DEF On
<1>5. Removes(d) = SetToSeq(S)
  BY DEF Removes
<1> HIDE DEF S
<1>6. SetToSeq(S) \in Seq(S) /\ \A x : Contains(SetToSeq(S), x) <=> x \in S
  BY <1>2, SetToSeqMembers
<1>7. SetToSeq(S) \in Seq(Events)
  BY <1>3, <1>6
<1> QED
  BY <1>4, <1>5, <1>6, <1>7


(* at: which places the first n elements are kept from *)
Places(t, at, s, set, n) ==
  /\ t \in Seq(set) /\ at \in [1 .. Len(t) -> 1 .. n]
  /\ \A i, j \in 1 .. Len(t) : i < j => at[i] < at[j]
  /\ \A i \in 1 .. Len(t) : t[i] = s[at[i]]
  /\ \A k \in 1 .. n : s[k] \in set => \E i \in 1 .. Len(t) : at[i] = k

(* What Keep keeps comes from increasing places of the sequence, and all   *)
(* that is to be kept has one: by induction along the recursion.           *)
LEMMA KeepPlaces ==
  ASSUME NEW S, NEW s \in Seq(S), NEW set \in SUBSET S
  PROVE  \E at : Places(Keep(s, set), at, s, set, Len(s))
<1> DEFINE Step(a, k) == IF s[k] \in set THEN Append(a, s[k]) ELSE a
           kept == CHOOSE f : f = [n \in 0 .. Len(s) |->
                                     IF n = 0 THEN << >> ELSE Step(f[n - 1], n)]
<1>1. Len(s) \in Nat /\ \A k \in 1 .. Len(s) : s[k] \in S
  BY LenProperties, ElementOfSeq
<1>2. Keep(s, set) = kept[Len(s)]
  BY Zenon DEF Keep
<1>3. kept = [n \in 0 .. Len(s) |-> IF n = 0 THEN << >> ELSE Step(kept[n - 1], n)]
  <2> DEFINE step == [p \in Seq(S) \X (1 .. Len(s)) |-> Step(p[1], p[2])]
  <2>1. step \in [Seq(S) \X (1 .. Len(s)) -> Seq(S)]
    BY <1>1
  <2>2. << >> \in Seq(S)
    OBVIOUS
  <2> HIDE DEF step
  <2>5. PICK f : Solves(f, Len(s), Seq(S), << >>, step)
    BY <1>1, <2>1, <2>2, RangeRecursion
  <2>3. /\ f \in [0 .. Len(s) -> Seq(S)] /\ f[0] = << >>
        /\ \A n \in 1 .. Len(s) : f[n] = step[<<f[n - 1], n>>]
    BY <2>5 DEF Solves
  <2>4. ASSUME NEW n \in 1 .. Len(s) PROVE step[<<f[n - 1], n>>] = Step(f[n - 1], n)
    <3>1. n - 1 \in 0 .. Len(s)
      BY <1>1
    <3>2. f[n - 1] \in Seq(S)
      BY <2>3, <3>1
    <3> QED
      BY <3>2 DEF step
  <2>6. f = [n \in 0 .. Len(s) |-> IF n = 0 THEN << >> ELSE Step(f[n - 1], n)]
    <3> HIDE DEF Step
    <3>1. \A n \in 0 .. Len(s) : n # 0 => n \in 1 .. Len(s)
      BY <1>1
    <3> QED
      BY <2>3, <2>4, <3>1
  <2> QED
    BY <2>6
<1> HIDE DEF kept
<1> DEFINE T == {n \in 0 .. Len(s) : \E at : Places(kept[n], at, s, set, n)}
<1>4. 0 \in T
  <2>1. kept[0] = << >>
    BY <1>1, <1>3
  <2>2. Places(<< >>, << >>, s, set, 0)
    BY DEF Places
  <2> QED
    BY <1>1, <2>1, <2>2
<1>5. ASSUME NEW n \in 1 .. Len(s), n - 1 \in T PROVE n \in T
  <2>1. PICK at : Places(kept[n - 1], at, s, set, n - 1)
    BY <1>5
  <2>2. kept[n] = Step(kept[n - 1], n)
    <3>1. n \in 0 .. Len(s) /\ n # 0
      BY <1>1
    <3> HIDE DEF Step
    <3> QED
      BY <1>3, <3>1
  <2> DEFINE t == kept[n - 1]
  <2>3. t \in Seq(set) /\ Len(t) \in Nat /\ n \in Nat /\ n - 1 \in Nat
    BY <1>1, <2>1 DEF Places
  <2>4. CASE s[n] \notin set
    <3>1. kept[n] = t
      BY <2>2, <2>4
    <3>2. Places(t, at, s, set, n)
      BY <2>1, <2>3, <2>4 DEF Places
    <3> QED
      BY <3>1, <3>2
  <2>5. CASE s[n] \in set
    <3> DEFINE u == Append(t, s[n])
               to == [i \in 1 .. Len(u) |-> IF i = Len(u) THEN n ELSE at[i]]
    <3> HIDE DEF t
    <3>1. /\ u \in Seq(set) /\ Len(u) = Len(t) + 1 /\ u[Len(u)] = s[n]
          /\ \A i \in 1 .. Len(t) : u[i] = t[i]
      BY <2>3, <2>5, AppendProperties
    <3> HIDE DEF u
    <3>2. /\ at \in [1 .. Len(t) -> 1 .. n - 1]
          /\ \A i, j \in 1 .. Len(t) : i < j => at[i] < at[j]
          /\ \A i \in 1 .. Len(t) : t[i] = s[at[i]]
          /\ \A k \in 1 .. n - 1 : s[k] \in set => \E i \in 1 .. Len(t) : at[i] = k
      BY <2>1 DEF Places, t
    <3>3. /\ to \in [1 .. Len(u) -> 1 .. n] /\ to[Len(u)] = n
          /\ \A i \in 1 .. Len(t) : to[i] = at[i] /\ to[i] \in 1 .. n - 1
      <4>1. Len(u) \in 1 .. Len(u) /\ to[Len(u)] = n
        BY <2>3, <3>1
      <4>2. ASSUME NEW i \in 1 .. Len(t)
            PROVE  i \in 1 .. Len(u) /\ to[i] = at[i] /\ at[i] \in 1 .. n - 1
        <5>1. i \in 1 .. Len(u) /\ i # Len(u)
          BY <2>3, <3>1
        <5>2. at[i] \in 1 .. n - 1
          BY <3>2
        <5> QED
          BY <5>1, <5>2
      <4>3. \A i \in 1 .. Len(u) : i = Len(u) \/ i \in 1 .. Len(t)
        BY <2>3, <3>1
      <4>4. \A k : k \in 1 .. n - 1 \/ k = n => k \in 1 .. n
        BY <2>3
      <4>5. ASSUME NEW i \in 1 .. Len(u) PROVE to[i] \in 1 .. n
        <5> HIDE DEF to
        <5> QED
          BY <4>1, <4>2, <4>3, <4>4
      <4>6. to \in [1 .. Len(u) -> 1 .. n]
        <5>1. to = [i \in 1 .. Len(u) |-> to[i]]
          OBVIOUS
        <5> HIDE DEF to
        <5> QED
          BY <4>5, <5>1
      <4> QED
        BY <4>1, <4>2, <4>6
    <3> HIDE DEF to
    <3>4. \A i, j \in 1 .. Len(u) : i < j => to[i] < to[j]
      <4>1. \A i, j \in 1 .. Len(u) : i < j => i \in 1 .. Len(t)
        BY <2>3, <3>1
      <4>2. \A j \in 1 .. Len(u) : j = Len(u) \/ j \in 1 .. Len(t)
        BY <2>3, <3>1
      <4> QED
        BY <2>3, <3>2, <3>3, <4>1, <4>2
    <3>5. \A i \in 1 .. Len(u) : u[i] = s[to[i]]
      <4>1. \A i \in 1 .. Len(u) : i = Len(u) \/ i \in 1 .. Len(t)
        BY <2>3, <3>1
      <4> QED
        BY <3>1, <3>2, <3>3, <4>1
    <3>6. \A k \in 1 .. n : s[k] \in set => \E i \in 1 .. Len(u) : to[i] = k
      <4>1. ASSUME NEW k \in 1 .. n, s[k] \in set, k # n
            PROVE  \E i \in 1 .. Len(t) : at[i] = k
        <5>1. k \in 1 .. n - 1
          BY <2>3, <4>1
        <5> QED
          BY <3>2, <4>1, <5>1
      <4>2. Len(u) \in 1 .. Len(u) /\ \A i \in 1 .. Len(t) : i \in 1 .. Len(u)
        BY <2>3, <3>1
      <4> QED
        BY <3>3, <4>1, <4>2
    <3>7. Places(u, to, s, set, n)
      BY <3>1, <3>3, <3>4, <3>5, <3>6 DEF Places
    <3>8. kept[n] = u
      BY <2>2, <2>5 DEF u, t
    <3> QED
      BY <3>7, <3>8
  <2> QED
    BY <2>4, <2>5
<1>6. Len(s) \in T
  <2> HIDE DEF T
  <2>1. 0 .. Len(s) \subseteq T
    BY <1>1, <1>4, <1>5, RangeInduction
  <2> QED
    BY <1>1, <2>1
<1> QED
  BY <1>2, <1>6

(* Removing the notifications of one handle's removal, or those of all     *)
(* arrivals.                                                               *)
LEMMA KeepMembers ==
  ASSUME NEW S, NEW s \in Seq(S), NEW set \in SUBSET S
  PROVE  /\ Keep(s, set) \in Seq(S)
         /\ \A x : Contains(Keep(s, set), x) <=> Contains(s, x) /\ x \in set
<1> DEFINE t == Keep(s, set)
<1>1. PICK at : Places(t, at, s, set, Len(s))
  BY KeepPlaces
<1> HIDE DEF t
<1>2. /\ t \in Seq(set) /\ Len(t) \in Nat /\ \A i \in 1 .. Len(t) : t[i] \in set
      /\ \A i \in 1 .. Len(t) : at[i] \in 1 .. Len(s) /\ t[i] = s[at[i]]
      /\ \A k \in 1 .. Len(s) : s[k] \in set => \E i \in 1 .. Len(t) : at[i] = k
  <2>1. t \in Seq(set)
    BY <1>1 DEF Places
  <2>2. Len(t) \in Nat /\ \A i \in 1 .. Len(t) : t[i] \in set
    BY <2>1, LenProperties, ElementOfSeq
  <2> QED
    BY <1>1, <2>1, <2>2 DEF Places
<1>3. t \in Seq(S)
  BY <1>2
<1>4. ASSUME NEW x PROVE Contains(t, x) <=> Contains(s, x) /\ x \in set
  <2>1. Contains(t, x) => Contains(s, x) /\ x \in set
    BY <1>2 DEF Contains
  <2>2. ASSUME Contains(s, x), x \in set PROVE Contains(t, x)
    <3>1. PICK k \in 1 .. Len(s) : s[k] = x
      BY <2>2 DEF Contains
    <3>2. PICK i \in 1 .. Len(t) : at[i] = k
      BY <1>2, <2>2, <3>1
    <3> QED
      BY <1>2, <3>1, <3>2 DEF Contains
  <2> QED
    BY <2>1, <2>2
<1> QED
  BY <1>3, <1>4 DEF t

(* Withdrawing the removals told to one handle leaves the others before    *)
(* the arrivals they were before.                                          *)
LEMMA KeepOrder ==
  ASSUME NEW s \in Seq(Events), NEW g, NEW h, NEW d
  PROVE  LET t == Keep(s, Events \ {Removal(g)})
         IN  /\ Once(s, d) => Once(t, d)
             /\ After(s, h, d) /\ h # g => After(t, h, d)
<1> DEFINE set == Events \ {Removal(g)}
           t == Keep(s, set)
<1>1. PICK at : Places(t, at, s, set, Len(s))
  BY KeepPlaces
<1> HIDE DEF t, set
<1>2. /\ t \in Seq(set) /\ Len(t) \in Nat /\ at \in [1 .. Len(t) -> 1 .. Len(s)]
      /\ \A i, j \in 1 .. Len(t) : i < j => at[i] < at[j]
      /\ \A i \in 1 .. Len(t) : t[i] = s[at[i]]
      /\ \A k \in 1 .. Len(s) : s[k] \in set => \E i \in 1 .. Len(t) : at[i] = k
  <2>1. t \in Seq(set)
    BY <1>1 DEF Places
  <2> QED
    BY <1>1, <2>1, LenProperties DEF Places
<1>3. \A i, j \in 1 .. Len(t) : at[i] = at[j] => i = j
  <2> SUFFICES ASSUME NEW i \in 1 .. Len(t), NEW j \in 1 .. Len(t), at[i] = at[j], i # j
               PROVE  FALSE
    OBVIOUS
  <2>1. i < j \/ j < i
    BY <1>2
  <2>2. at[i] \in 1 .. Len(s) /\ at[j] \in 1 .. Len(s)
    BY <1>2
  <2> QED
    BY <1>2, <2>1, <2>2
<1>4. ASSUME Once(s, d) PROVE Once(t, d)
  BY <1>2, <1>3, <1>4 DEF Once
<1>5. ASSUME After(s, h, d), h # g PROVE After(t, h, d)
  <2> SUFFICES ASSUME NEW i \in 1 .. Len(t), t[i] = Arrival(d)
               PROVE  \E j \in 1 .. Len(t) : j < i /\ t[j] = Removal(h)
    BY DEF After
  <2>1. at[i] \in 1 .. Len(s) /\ s[at[i]] = Arrival(d)
    BY <1>2
  <2>2. PICK k \in 1 .. Len(s) : k < at[i] /\ s[k] = Removal(h)
    BY <1>5, <2>1 DEF After
  <2>3. s[k] \in set
    BY <1>5, <2>2, ElementOfSeq, Notices DEF set
  <2>4. PICK j \in 1 .. Len(t) : at[j] = k
    BY <1>2, <2>3
  <2>5. j < i
    <3>1. ~(i < j) /\ i # j
      BY <1>2, <2>1, <2>2, <2>4
    <3> QED
      BY <3>1
  <2> QED
    BY <1>2, <2>2, <2>4, <2>5
<1> QED
  BY <1>4, <1>5 DEF t, set

(* Delivering the first.                                                   *)
LEMMA TailOrder ==
  ASSUME NEW s \in Seq(Events), s # << >>, NEW h, NEW d
  PROVE  /\ Once(s, d) => Once(Tail(s), d)
         /\ Once(s, d) /\ Head(s) = Arrival(d) => ~Contains(Tail(s), Arrival(d))
         /\ After(s, h, d) => Head(s) # Arrival(d)
         /\ After(s, h, d) /\ Head(s) # Removal(h) => After(Tail(s), h, d)
<1>1. /\ Head(s) = s[1] /\ Len(s) \in Nat \ {0} /\ Tail(s) \in Seq(Events)
      /\ Len(Tail(s)) = Len(s) - 1
      /\ \A j \in 1 .. Len(s) - 1 : Tail(s)[j] = s[j + 1] /\ j + 1 \in 1 .. Len(s)
  BY TailElements
<1> DEFINE t == Tail(s)
<1> HIDE DEF t
<1>2. Once(s, d) => Once(t, d)
  BY <1>1 DEF Once, t
<1>3. ASSUME Once(s, d), s[1] = Arrival(d), Contains(t, Arrival(d)) PROVE FALSE
  <2>1. PICK j \in 1 .. Len(t) : t[j] = Arrival(d)
    BY <1>3 DEF Contains
  <2>2. j + 1 \in 1 .. Len(s) /\ s[j + 1] = Arrival(d) /\ 1 \in 1 .. Len(s)
       /\ j + 1 # 1
    BY <1>1, <2>1 DEF t
  <2> QED
    BY <1>3, <2>2 DEF Once
<1>4. ASSUME After(s, h, d) PROVE s[1] # Arrival(d)
  BY <1>1, <1>4 DEF After
<1>5. ASSUME After(s, h, d), s[1] # Removal(h) PROVE After(t, h, d)
  <2> SUFFICES ASSUME NEW i \in 1 .. Len(t), t[i] = Arrival(d)
               PROVE  \E j \in 1 .. Len(t) : j < i /\ t[j] = Removal(h)
    BY DEF After
  <2>1. i + 1 \in 1 .. Len(s) /\ s[i + 1] = Arrival(d)
    BY <1>1 DEF t
  <2>2. PICK k \in 1 .. Len(s) : k < i + 1 /\ s[k] = Removal(h)
    BY <1>5, <2>1 DEF After
  <2>3. k # 1
    BY <1>5, <2>2
  <2>4. k - 1 \in 1 .. Len(t) /\ k - 1 < i /\ (k - 1) + 1 = k
    BY <1>1, <2>2, <2>3 DEF t
  <2>5. t[k - 1] = s[k]
    BY <1>1, <2>4 DEF t
  <2> QED
    BY <2>2, <2>4, <2>5
<1> QED
  BY <1>1, <1>2, <1>3, <1>4, <1>5 DEF t

(* Notifying further removals.                                             *)
LEMMA ConcatOrder ==
  ASSUME NEW s \in Seq(Events), NEW t \in Seq(Events), NEW h, NEW d,
         ~Contains(t, Arrival(d))
  PROVE  /\ Once(s, d) => Once(s \o t, d)
         /\ After(s, h, d) => After(s \o t, h, d)
<1> DEFINE u == s \o t
<1>1. /\ Len(s) \in Nat /\ Len(t) \in Nat /\ Len(u) = Len(s) + Len(t)
      /\ \A i \in 1 .. Len(s) : u[i] = s[i]
      /\ \A i \in 1 .. Len(u) : i \notin 1 .. Len(s) =>
           i - Len(s) \in 1 .. Len(t) /\ u[i] = t[i - Len(s)]
  BY ConcatProperties
<1> HIDE DEF u
<1>2. \A i \in 1 .. Len(s) : i \in 1 .. Len(u)
  BY <1>1
<1>3. \A i \in 1 .. Len(u) : u[i] = Arrival(d)
     => i \in 1 .. Len(s) /\ s[i] = Arrival(d)
  BY <1>1 DEF Contains
<1>4. Once(s, d) => Once(u, d)
  BY <1>3 DEF Once
<1>5. After(s, h, d) => After(u, h, d)
  BY <1>1, <1>2, <1>3 DEF After
<1> QED
  BY <1>4, <1>5 DEF u

(* Notifying an arrival.                                                   *)
LEMMA AppendOrder ==
  ASSUME NEW s \in Seq(Events), NEW e \in Devices, NEW h, NEW d
  PROVE  /\ d # e => /\ Once(s, d) => Once(Append(s, Arrival(e)), d)
                     /\ After(s, h, d) => After(Append(s, Arrival(e)), h, d)
         /\ ~Contains(s, Arrival(e)) => Once(Append(s, Arrival(e)), e)
         /\ ~Contains(s, Arrival(e)) /\ Contains(s, Removal(h)) =>
              After(Append(s, Arrival(e)), h, e)
<1> DEFINE u == Append(s, Arrival(e))
<1>1. /\ Len(s) \in Nat /\ Len(u) = Len(s) + 1 /\ u[Len(u)] = Arrival(e)
      /\ \A i \in 1 .. Len(s) : u[i] = s[i]
  BY AppendProperties, Notices
<1> HIDE DEF u
<1>2. /\ \A i \in 1 .. Len(s) : i \in 1 .. Len(u) /\ i < Len(u)
      /\ \A i \in 1 .. Len(u) : i = Len(u) \/ i \in 1 .. Len(s)
  BY <1>1
<1>3. ASSUME d # e
      PROVE  \A i \in 1 .. Len(u) : u[i] = Arrival(d) =>
               i \in 1 .. Len(s) /\ s[i] = Arrival(d)
  BY <1>1, <1>2, <1>3, Notices
<1>4. d # e => (Once(s, d) => Once(u, d))
  BY <1>3 DEF Once
<1>5. d # e => (After(s, h, d) => After(u, h, d))
  BY <1>1, <1>2, <1>3 DEF After
<1>6. ASSUME ~Contains(s, Arrival(e))
      PROVE  \A i \in 1 .. Len(u) : u[i] = Arrival(e) => i = Len(u)
  BY <1>1, <1>2, <1>6 DEF Contains
<1>7. ~Contains(s, Arrival(e)) => Once(u, e)
  BY <1>6 DEF Once
<1>8. ASSUME ~Contains(s, Arrival(e)), Contains(s, Removal(h))
      PROVE After(u, h, e)
  <2>1. PICK j \in 1 .. Len(s) : s[j] = Removal(h)
    BY <1>8 DEF Contains
  <2> QED
    BY <1>1, <1>2, <1>6, <1>8, <2>1 DEF After
<1> QED
  BY <1>4, <1>5, <1>7, <1>8 DEF u

(* Every variable keeps its type.                                          *)
LEMMA TypeStep == ServiceTypeOK /\ Kept /\ [ServiceNext]_serviceVars
     => ServiceTypeOK'
<1> SUFFICES ASSUME ServiceTypeOK, Kept, [ServiceNext]_serviceVars
             PROVE ServiceTypeOK'
  OBVIOUS
<1> USE DEF world, shared, history, Early
<1> DEFINE Hands == [does : {"idle", "insert", "destroy"}, with : Handles \cup {Null}]
<1>0. /\ Idle \in Hands
      /\ \A h \in Handles : /\ [does |-> "insert", with |-> h] \in Hands
                            /\ [does |-> "destroy", with |-> h] \in Hands
      /\ handler \in Hands
  BY DEF Idle, ServiceTypeOK
<1>a. ASSUME NEW d \in Devices, NEW h \in Handles, Created(d, h)
      PROVE  open' \in [Handles -> Devices \cup {Null}] /\ failed' = failed
  BY <1>a DEF Created, ServiceTypeOK
<1>b. ASSUME NEW h \in Handles, Destroyed(h)
      PROVE  /\ open' \in [Handles -> Devices \cup {Null}]
             /\ notices' \in Seq(Events) /\ missed' \subseteq Handles
  <2>1. Keep(notices, Events \ {Removal(h)}) \in Seq(Events)
    BY KeepMembers DEF ServiceTypeOK
  <2> QED
    BY <1>b, <2>1 DEF Destroyed, ServiceTypeOK
<1>c. ASSUME NEW h \in Handles, Inserted(h)
      PROVE  consoles' \in Seq(Handles) /\ undefined' \in BOOLEAN
  <2>1. Append(consoles, h) \in Seq(Handles)
    BY AppendMembers DEF ServiceTypeOK
  <2> QED
    BY <1>c, <2>1 DEF Inserted, ServiceTypeOK
<1>d. \A d \in Devices : Removes(d) \in Seq(Events)
     /\ notices \o Removes(d) \in Seq(Events)
  BY RemovesMembers, ConcatMembers DEF ServiceTypeOK
<1>e. ASSUME NEW type \in {"arrival", "remove"}, Delivered(type)
      PROVE  /\ notices' \in Seq(Events)
             /\ type = "arrival" => Head(notices).of \in Devices
             /\ type = "remove" => Head(notices).of \in Handles
  BY <1>e, Delivery DEF Delivered, ServiceTypeOK
<1>f. /\ << >> \in Seq(Handles)
      /\ consoles # << >> => Tail(consoles) \in Seq(Handles)
           /\ Head(consoles) \in Handles
      /\ \A h : RemoveFirst(consoles, h) \in Seq(Handles)
  BY EmptyMembers, TailMembers, RemoveFirstMembers DEF ServiceTypeOK
<1>1. ASSUME NEW d \in Devices, Arrives(d) PROVE ServiceTypeOK'
  <2>1. Append(notices, Arrival(d)) \in Seq(Events)
    BY Notices, AppendMembers DEF ServiceTypeOK
  <2>2. notices' \in Seq(Events)
    BY <1>1, <2>1 DEF Arrives, ServiceTypeOK
  <2>3. changes' \in 0 .. MaxChanges
    BY <1>1, ServiceAssumption DEF Arrives, Changes, ServiceTypeOK
  <2>4. twice' \subseteq Devices
    BY <1>1 DEF Arrives, ServiceTypeOK
  <2> QED
    BY <1>1, <2>2, <2>3, <2>4 DEF Arrives, ServiceTypeOK
<1>2. ASSUME NEW d \in Devices, Leaves(d) \/ IsAsked(d) PROVE ServiceTypeOK'
  <2>1. changes' \in 0 .. MaxChanges
    BY <1>2, ServiceAssumption DEF Leaves, IsAsked, Changes, ServiceTypeOK
  <2>2. notices' \in Seq(Events)
    BY <1>2, <1>d DEF Leaves, IsAsked
  <2>3. present' \subseteq Devices /\ asked' \subseteq Devices
    BY <1>2 DEF Leaves, IsAsked, ServiceTypeOK
  <2> QED
    BY <1>2, <2>1, <2>2, <2>3 DEF Leaves, IsAsked, ServiceTypeOK
<1>3. CASE MonitorAdd
  <2>1. Head(notices).of \in Devices /\ notices' \in Seq(Events)
    BY <1>3, <1>e DEF MonitorAdd
  <2>2. CASE \E h \in Handles : /\ Created(Head(notices).of, h)
                                /\ handler' = [does |-> "insert", with |-> h]
    BY <1>0, <1>3, <1>a, <2>1, <2>2 DEF MonitorAdd, ServiceTypeOK
  <2>3. CASE NotCreated(Head(notices).of) /\ UNCHANGED handler
    BY <1>0, <1>3, <2>1, <2>3 DEF MonitorAdd, NotCreated, ServiceTypeOK
  <2> QED
    BY <1>3, <2>2, <2>3 DEF MonitorAdd
<1>4. CASE MonitorAdded
  <2>1. handler.with \in Handles
    BY <1>0, <1>4 DEF MonitorAdded, Kept
  <2> QED
    BY <1>0, <1>4, <1>c, <2>1 DEF MonitorAdded, ServiceTypeOK
<1>5. CASE MonitorRemove
  <2>1. Head(notices).of \in Handles /\ notices' \in Seq(Events)
    BY <1>5, <1>e DEF MonitorRemove
  <2>2. handler' \in Hands /\ missed' \subseteq Handles
    BY <1>0, <1>5, <2>1 DEF MonitorRemove, ServiceTypeOK
  <2>3. consoles' \in Seq(Handles) /\ undefined' \in BOOLEAN
    BY <1>5, <1>f DEF MonitorRemove, ServiceTypeOK
  <2> QED
    BY <1>5, <2>1, <2>2, <2>3 DEF MonitorRemove, ServiceTypeOK
<1>6. CASE MonitorRemoved
  <2>1. handler.with \in Handles
    BY <1>0, <1>6 DEF MonitorRemoved, Kept
  <2> QED
    BY <1>0, <1>6, <1>b, <2>1 DEF MonitorRemoved, ServiceTypeOK
<1>7. CASE ControlStop \/ ControlInterrogate
  <2>1. CASE ControlStop
    <3>1. status' = "STOP_PENDING" /\ stop' \in BOOLEAN /\ lost' \in BOOLEAN
      BY <2>1 DEF ControlStop, ServiceTypeOK
    <3>2. UNCHANGED <<world, shared, notices, registered, handler, main, mine, left,
                      twice, missed>>
      BY <2>1 DEF ControlStop
    <3> QED
      BY <3>1, <3>2 DEF ServiceTypeOK
  <2>2. CASE ControlInterrogate
    BY <2>2 DEF ControlInterrogate, ServiceTypeOK
  <2> QED
    BY <1>7, <2>1, <2>2
<1>8. CASE MainRegister \/ MainReport \/ MainEvent \/ MainNotify \/ MainRunning
  <2>1. CASE MainRegister
    BY <2>1 DEF MainRegister, MainGoes, ServiceTypeOK
  <2>2. CASE MainReport
    BY <2>2 DEF MainReport, MainGoes, ServiceTypeOK
  <2>3. CASE MainEvent
    BY <2>3 DEF MainEvent, MainGoes, ServiceTypeOK
  <2>4. CASE MainNotify
    <3>1. /\ main' \in {"running", "stopped"} /\ registered' \in BOOLEAN
          /\ status' \in {status, "STOPPED"}
      BY <2>4 DEF MainNotify, MainGoes, ServiceTypeOK
    <3>2. UNCHANGED <<world, shared, notices, handler, mine, left, stop, history>>
      BY <2>4 DEF MainNotify
    <3> QED
      BY <3>1, <3>2 DEF ServiceTypeOK
  <2>5. CASE MainRunning
    BY <2>5 DEF MainRunning, MainGoes, ServiceTypeOK
  <2> QED
    BY <1>8, <2>1, <2>2, <2>3, <2>4, <2>5
<1>9. CASE MainInit \/ MainEnumerate \/ MainWait
  <2>1. CASE MainInit
    BY <1>f, <2>1 DEF MainInit, MainGoes, ServiceTypeOK
  <2>2. CASE MainEnumerate
    BY <2>2 DEF MainEnumerate, MainGoes, ServiceTypeOK
  <2>3. CASE MainWait
    BY <2>3 DEF MainWait, MainGoes, ServiceTypeOK
  <2> QED
    BY <1>9, <2>1, <2>2, <2>3
<1>10. ASSUME NEW d \in Devices, MainCreate(d) PROVE ServiceTypeOK'
  <2>1. CASE \E h \in Handles : Created(d, h) /\ mine' = h
    BY <1>10, <1>a, <2>1 DEF MainCreate, MainGoes, ServiceTypeOK
  <2>2. CASE NotCreated(d) /\ UNCHANGED mine
    BY <1>10, <2>2 DEF MainCreate, MainGoes, NotCreated, ServiceTypeOK
  <2> QED
    BY <1>10, <2>1, <2>2 DEF MainCreate
<1>11. CASE MainInsert \/ MainDestroy
  <2>1. mine \in Handles
    BY <1>11 DEF MainInsert, MainDestroy, MainGoes, Kept, ServiceTypeOK
  <2> QED
    BY <1>11, <1>b, <1>c, <2>1
       DEF MainInsert, MainDestroy, MainGoes, ServiceTypeOK
<1>12. CASE MainStop \/ MainRemove
  <2>1. CASE MainStop
    BY <2>1 DEF MainStop, MainGoes, ServiceTypeOK
  <2>2. CASE MainRemove
    <3>1. /\ main' \in {"delete", "destroy"}
          /\ consoles' \in Seq(Handles) /\ mine' \in Handles \cup {Null}
      BY <1>f, <2>2 DEF MainRemove, MainGoes, ServiceTypeOK
    <3>2. UNCHANGED <<world, open, lock, undefined, failed, notices, registered, handler,
                      left, stop, status, history>>
      BY <2>2 DEF MainRemove
    <3> QED
      BY <3>1, <3>2 DEF ServiceTypeOK
  <2> QED
    BY <1>12, <2>1, <2>2
<1>13. CASE MainDelete
  BY <1>13, <1>f DEF MainDelete, MainGoes, ServiceTypeOK
<1>14. CASE MainStopped
  <2>1. Keep(notices, {Removal(h) : h \in Handles}) \in Seq(Events)
    BY KeepMembers DEF ServiceTypeOK, Events
  <2> QED
    BY <1>14, <2>1 DEF MainStopped, MainGoes, ServiceTypeOK
<1>15. CASE UNCHANGED serviceVars
  BY <1>15 DEF serviceVars, ServiceTypeOK
<1> QED
  BY <1>1, <1>2, <1>3, <1>4, <1>5, <1>6, <1>7, <1>8, <1>9, <1>10, <1>11, <1>12, <1>13,
     <1>14, <1>15
     DEF ServiceNext, MonitorMain, MonitorCtrlHandlerEx

(* Where the threads are agrees with what they hold.                       *)
LEMMA KeptStep == ServiceTypeOK /\ Kept /\ [ServiceNext]_serviceVars => Kept'
<1> SUFFICES ASSUME ServiceTypeOK, Kept, [ServiceNext]_serviceVars PROVE Kept'
  OBVIOUS
<1> USE DEF world, shared, history, Early
<1>0. /\ Null \notin Handles
      /\ Idle.does = "idle" /\ Idle.with = Null
      /\ \A h : /\ [does |-> "insert", with |-> h].does = "insert"
                /\ [does |-> "insert", with |-> h].with = h
                /\ [does |-> "destroy", with |-> h].does = "destroy"
                /\ [does |-> "destroy", with |-> h].with = h
  BY ServiceAssumption DEF Idle
<1>a. lock \in {"none", "ready", "deleted"} /\ (lock = "none" => consoles = << >>)
  BY DEF ServiceTypeOK, Kept
<1>b. ASSUME NEW h, Inserted(h) PROVE lock = "none" => consoles' = << >>
  BY <1>b, <1>a DEF Inserted
<1>1. ASSUME NEW d \in Devices, Arrives(d) \/ Leaves(d) \/ IsAsked(d)
      PROVE Kept'
  BY <1>1 DEF Arrives, Leaves, IsAsked, Kept
<1>2. CASE MonitorAdd
  BY <1>0, <1>2 DEF MonitorAdd, Kept
<1>3. CASE MonitorAdded
  BY <1>0, <1>3, <1>b DEF MonitorAdded, Kept
<1>4. CASE MonitorRemove
  <2>1. Head(notices).of \in Handles
    BY <1>4, Delivery DEF MonitorRemove, Delivered, ServiceTypeOK
  <2> QED
    BY <1>0, <1>4, <2>1 DEF MonitorRemove, Kept
<1>5. CASE MonitorRemoved
  BY <1>0, <1>5 DEF MonitorRemoved, Kept
<1>6. CASE ControlStop \/ ControlInterrogate
  BY <1>6 DEF ControlStop, ControlInterrogate, Kept
<1>7. CASE MainRegister \/ MainReport \/ MainEvent \/ MainNotify
     \/ MainRunning \/ MainInit \/ MainEnumerate
  BY <1>7
     DEF MainRegister, MainReport, MainEvent, MainNotify,
     MainRunning, MainInit, MainEnumerate,
         MainGoes, Kept
<1>8. ASSUME NEW d \in Devices, MainCreate(d) PROVE Kept'
  BY <1>0, <1>8 DEF MainCreate, MainGoes, Kept
<1>9. CASE MainInsert
  BY <1>9, <1>b DEF MainInsert, MainGoes, Kept
<1>10. CASE MainWait \/ MainStop \/ MainDestroy
  BY <1>10 DEF MainWait, MainStop, MainDestroy, MainGoes, Kept
<1>11. CASE MainRemove
  <2>1. consoles # << >> => Head(consoles) \in Handles
    BY TailMembers DEF ServiceTypeOK
  <2> QED
    BY <1>0, <1>11, <2>1 DEF MainRemove, MainGoes, Kept
<1>12. CASE MainDelete \/ MainStopped
  BY <1>12 DEF MainDelete, MainStopped, MainGoes, Kept
<1>13. CASE UNCHANGED serviceVars
  BY <1>13 DEF serviceVars, Kept
<1> QED
  BY <1>1, <1>2, <1>3, <1>4, <1>5, <1>6, <1>7, <1>8, <1>9, <1>10, <1>11, <1>12, <1>13
     DEF ServiceNext, MonitorMain, MonitorCtrlHandlerEx

(* A console stays in one place.                                           *)
LEMMA OwnedStep == ServiceTypeOK /\ Kept /\ Owned
     /\ [ServiceNext]_serviceVars => Owned'
<1> SUFFICES ASSUME ServiceTypeOK, Kept, Owned, [ServiceNext]_serviceVars
             PROVE Owned'
  OBVIOUS
<1> USE DEF world, shared, history, Early
<1> DEFINE same == UNCHANGED <<open, consoles, lock, undefined, handler, mine>>
<1>0. /\ Null \notin Handles /\ Null \notin Devices
      /\ Idle.does = "idle" /\ Idle.with = Null
      /\ \A h : /\ [does |-> "insert", with |-> h].does = "insert"
                /\ [does |-> "insert", with |-> h].with = h
                /\ [does |-> "destroy", with |-> h].does = "destroy"
                /\ [does |-> "destroy", with |-> h].with = h
  BY ServiceAssumption DEF Idle
<1>1. CASE same
  BY <1>1 DEF Owned, Held
<1>a. ASSUME NEW d \in Devices, NEW h \in Handles, Created(d, h)
      PROVE  /\ open[h] = Null /\ open'[h] = d /\ d # Null /\ h # Null
             /\ ~Contains(consoles, h) /\ h # mine /\ h # handler.with
             /\ \A g \in Handles : g # h => open'[g] = open[g]
  <2>1. open[h] = Null
    BY <1>a DEF Created, On
  <2>2. ~Held(h)
    BY <2>1 DEF Owned
  <2> QED
    <3>1. open'[h] = d /\ \A g \in Handles : g # h => open'[g] = open[g]
      BY <1>a DEF Created, ServiceTypeOK
    <3>2. ~Contains(consoles, h) /\ h # mine /\ h # handler.with
      BY <1>0, <2>2 DEF Held
    <3> QED
      BY <1>0, <2>1, <3>1, <3>2
<1>b. ASSUME NEW h \in Handles, Destroyed(h)
      PROVE  open'[h] = Null /\ \A g \in Handles : g # h => open'[g] = open[g]
  BY <1>b DEF Destroyed, ServiceTypeOK
<1>c. ASSUME NEW h \in Handles, Inserted(h), ~Contains(consoles, h)
      PROVE  /\ IsInjective(consoles')
             /\ \A g \in Handles : Contains(consoles', g)
                  => Contains(consoles, g) \/ g = h
             /\ ~undefined' => /\ \A g \in Handles : Contains(consoles, g)
                                    => Contains(consoles', g)
                               /\ Contains(consoles', h) /\ ~undefined
  <2>1. /\ IsInjective(consoles) /\ IsInjective(Append(consoles, h))
        /\ \A g : Contains(Append(consoles, h), g) <=> Contains(consoles, g) \/ g = h
    BY <1>c, AppendMembers DEF Owned, ServiceTypeOK
  <2> QED
    BY <1>c, <2>1 DEF Inserted
<1>2. CASE MonitorAdd
  <2>1. handler.with = Null
    BY <1>2, <1>0 DEF MonitorAdd, Delivered, HandlerFree
  <2>2. CASE NotCreated(Head(notices).of) /\ UNCHANGED handler
    BY <1>1, <1>2, <2>2 DEF MonitorAdd, NotCreated
  <2>3. CASE \E h \in Handles : /\ Created(Head(notices).of, h)
                                /\ handler' = [does |-> "insert", with |-> h]
    <3>1. PICK h \in Handles : /\ Created(Head(notices).of, h)
                               /\ handler' = [does |-> "insert", with |-> h]
      BY <2>3
    <3>2. Head(notices).of \in Devices
      BY <1>2, Delivery DEF MonitorAdd, Delivered, ServiceTypeOK
    <3>3. handler'.with = h /\ UNCHANGED <<consoles, lock, undefined, mine>>
      BY <1>0, <1>2, <3>1 DEF MonitorAdd
    <3> QED
      BY <1>a, <2>1, <3>1, <3>2, <3>3 DEF Owned, Held
  <2> QED
    BY <1>2, <2>2, <2>3 DEF MonitorAdd
<1>3. CASE MonitorAdded
  <2>1. handler.with \in Handles /\ handler'.with = Null
    BY <1>0, <1>3 DEF MonitorAdded, Kept, ServiceTypeOK
  <2>2. ~Contains(consoles, handler.with) /\ UNCHANGED <<open, lock, mine>>
    BY <1>3, <2>1 DEF MonitorAdded, Owned
  <2>3. Inserted(handler.with)
    BY <1>3 DEF MonitorAdded
  <2> QED
    BY <1>0, <1>c, <2>1, <2>2, <2>3 DEF Owned, Held
<1>4. CASE MonitorRemove
  <2> DEFINE h == Head(notices).of
  <2>1. handler.with = Null /\ h \in Handles /\ UNCHANGED <<open, lock, mine>>
    BY <1>0, <1>4, Delivery
       DEF MonitorRemove, Delivered, HandlerFree, ServiceTypeOK
  <2> HIDE DEF h
  <2>2. CASE lock # "ready" \/ ~Contains(consoles, h)
    <3>1. h \notin ToSet(consoles) \/ lock # "ready"
      BY <2>2, SetMembers DEF ServiceTypeOK
    <3>2. /\ consoles' = consoles /\ handler' = handler
          /\ undefined' = undefined \/ undefined'
      BY <1>4, <3>1 DEF MonitorRemove, h
    <3> QED
      BY <2>1, <3>2 DEF Owned, Held
  <2>3. CASE lock = "ready" /\ Contains(consoles, h)
    <3>1. h \in ToSet(consoles)
      BY <2>3, SetMembers DEF ServiceTypeOK
    <3>2. /\ consoles' = RemoveFirst(consoles, h) /\ handler'.with = h
          /\ undefined' = undefined
      BY <1>0, <1>4, <2>3, <3>1 DEF MonitorRemove, h
    <3>3. /\ IsInjective(consoles') /\ ~Contains(consoles', h)
          /\ \A g \in Handles : g # h
               => (Contains(consoles', g) <=> Contains(consoles, g))
      BY <3>2, RemoveFirstMembers DEF Owned, ServiceTypeOK
    <3> QED
      BY <1>0, <2>1, <2>3, <3>2, <3>3 DEF Owned, Held
  <2> QED
    BY <2>2, <2>3
<1>5. CASE MonitorRemoved
  <2>1. /\ handler.with \in Handles /\ handler'.with = Null
        /\ Destroyed(handler.with) /\ UNCHANGED <<consoles, lock, undefined, mine>>
    BY <1>0, <1>5 DEF MonitorRemoved, Kept, ServiceTypeOK
  <2> QED
    BY <1>0, <1>b, <2>1 DEF Owned, Held
<1>6. ASSUME NEW d \in Devices, MainCreate(d) PROVE Owned'
  <2>1. UNCHANGED <<consoles, lock, undefined, handler>> /\ mine = Null
    BY <1>6 DEF MainCreate, MainGoes, Kept
  <2>2. CASE NotCreated(d) /\ UNCHANGED mine
    BY <1>1, <2>1, <2>2 DEF NotCreated
  <2>3. ASSUME NEW h \in Handles, Created(d, h), mine' = h PROVE Owned'
    BY <1>a, <2>1, <2>3 DEF Owned, Held
  <2> QED
    BY <1>6, <2>2, <2>3 DEF MainCreate
<1>7. CASE MainInsert
  <2>1. mine \in Handles /\ mine' = Null /\ Inserted(mine)
    BY <1>7 DEF MainInsert, MainGoes, Kept, ServiceTypeOK
  <2>2. ~Contains(consoles, mine) /\ UNCHANGED <<open, lock, handler>>
    BY <1>7, <2>1 DEF MainInsert, Owned
  <2> QED
    BY <1>0, <1>c, <2>1, <2>2 DEF Owned, Held
<1>8. CASE MainRemove
  <2>1. CASE consoles = << >>
    BY <1>1, <1>8, <2>1 DEF MainRemove
  <2>2. CASE consoles # << >>
    <3>1. /\ mine = Null /\ mine' = Head(consoles) /\ consoles' = Tail(consoles)
          /\ UNCHANGED <<open, lock, undefined, handler>>
      BY <1>8, <2>2 DEF MainRemove, MainGoes, Kept
    <3>2. /\ Head(consoles) \in Handles /\ Contains(consoles, Head(consoles))
          /\ IsInjective(Tail(consoles)) /\ ~Contains(Tail(consoles), Head(consoles))
          /\ \A g \in Handles : g # Head(consoles)
               => (Contains(Tail(consoles), g) <=> Contains(consoles, g))
      BY <2>2, TailMembers DEF Owned, ServiceTypeOK
    <3> QED
      BY <1>0, <3>1, <3>2 DEF Owned, Held
  <2> QED
    BY <2>1, <2>2
<1>9. CASE MainDestroy
  <2>1. /\ mine \in Handles /\ mine' = Null /\ Destroyed(mine)
        /\ UNCHANGED <<consoles, lock, undefined, handler>>
    BY <1>9 DEF MainDestroy, MainGoes, Kept, ServiceTypeOK
  <2> QED
    BY <1>0, <1>b, <2>1 DEF Owned, Held
<1>10. CASE MainInit
  <2>1. consoles' = consoles /\ lock = "none" /\ lock' = "ready"
    BY <1>10 DEF MainInit, MainGoes, Kept
  <2> QED
    BY <1>10, <2>1 DEF MainInit, Owned, Held
<1>11. CASE MainDelete
  <2>1. /\ consoles' = << >> /\ lock' = "deleted"
        /\ UNCHANGED <<open, undefined, handler, mine>>
    BY <1>11 DEF MainDelete
  <2> QED
    BY <2>1, EmptyMembers DEF Owned, Held
<1> QED
  <2>1. [ServiceNext]_serviceVars =>
          \/ same \/ MonitorAdd \/ MonitorAdded \/ MonitorRemove
               \/ MonitorRemoved
          \/ \E d \in Devices : MainCreate(d)
          \/ MainInsert \/ MainRemove \/ MainDestroy \/ MainInit
               \/ MainDelete
    BY DEF ServiceNext, MonitorMain, MonitorCtrlHandlerEx, Arrives,
           Leaves, IsAsked, ControlStop, ControlInterrogate,
           MainRegister, MainReport, MainEvent, MainNotify,
           MainRunning, MainEnumerate, MainWait,
           MainStop, MainStopped, serviceVars
  <2> QED
    BY <1>1, <1>2, <1>3, <1>4, <1>5, <1>6, <1>7, <1>8, <1>9, <1>10, <1>11, <2>1

(* Closing a handle withdraws what it would have been told.                *)
LEMMA ToldStep == ServiceTypeOK /\ Kept /\ Owned /\ Told
     /\ [ServiceNext]_serviceVars => Told'
<1> SUFFICES ASSUME ServiceTypeOK, Kept, Owned, Told, [ServiceNext]_serviceVars
             PROVE Told'
  OBVIOUS
<1> USE DEF world, shared, history, Early
<1>0. Null \notin Handles /\ Null \notin Devices
  BY ServiceAssumption
<1>1. CASE UNCHANGED <<open, notices>>
  BY <1>1 DEF Told
<1>2. ASSUME NEW d \in Devices, Arrives(d) PROVE Told'
  <2>1. \A h \in Handles : Contains(notices', Removal(h))
       => Contains(notices, Removal(h))
    BY <1>2, AppendMembers, Notices DEF Arrives, ServiceTypeOK
  <2> QED
    BY <1>2, <2>1 DEF Arrives, Told
<1>3. ASSUME NEW d \in Devices, Leaves(d) \/ IsAsked(d) PROVE Told'
  <2>1. notices' = notices \o Removes(d) /\ open' = open
    BY <1>3 DEF Leaves, IsAsked
  <2>2. ASSUME NEW h \in Handles, Contains(notices', Removal(h))
        PROVE  Contains(notices, Removal(h)) \/ open[h] = d
    BY <2>1, <2>2, RemovesMembers, ConcatMembers, Notices DEF ServiceTypeOK
  <2> QED
    BY <1>0, <2>1, <2>2 DEF Told
<1>4. ASSUME NEW type, Delivered(type),
             open' = open \/ \E d \in Devices, h \in Handles : Created(d, h)
      PROVE Told'
  <2>1. \A x : Contains(notices', x) => Contains(notices, x)
    BY <1>4, TailMembers DEF Delivered, ServiceTypeOK
  <2>2. \A h \in Handles : open[h] # Null => open'[h] # Null
    BY <1>0, <1>4 DEF Created, ServiceTypeOK
  <2> QED
    BY <2>1, <2>2 DEF Told
<1>5. ASSUME NEW h \in Handles, Destroyed(h) PROVE Told'
  <2>1. /\ ~Contains(notices', Removal(h))
        /\ \A x : Contains(notices', x) => Contains(notices, x)
    BY <1>5, KeepMembers DEF Destroyed, ServiceTypeOK
  <2>2. \A g \in Handles : g # h => open'[g] = open[g]
    BY <1>5 DEF Destroyed, ServiceTypeOK
  <2> QED
    BY <2>1, <2>2 DEF Told
<1>6. ASSUME NEW d \in Devices, MainCreate(d) PROVE Told'
  <2>1. \A h \in Handles : open[h] # Null => open'[h] # Null
    BY <1>0, <1>6 DEF MainCreate, Created, NotCreated, ServiceTypeOK
  <2> QED
    BY <1>6, <2>1 DEF MainCreate, Told
<1>7. CASE MainStopped
  <2>1. \A x : Contains(notices', x) => Contains(notices, x)
    BY <1>7, KeepMembers DEF MainStopped, ServiceTypeOK, Events
  <2> QED
    BY <1>7, <2>1 DEF MainStopped, Told
<1> QED
  <2>1. MonitorAdd => Delivered("arrival")
       /\ (open' = open \/ \E d \in Devices, h \in Handles : Created(d, h))
    <3> SUFFICES ASSUME MonitorAdd
                 PROVE  /\ Delivered("arrival")
                        /\ open' = open
                             \/ \E d \in Devices, h \in Handles : Created(d, h)
      OBVIOUS
    <3>1. Delivered("arrival") /\ Head(notices).of \in Devices
      BY Delivery DEF MonitorAdd, Delivered, ServiceTypeOK
    <3> QED
      BY <3>1 DEF MonitorAdd, NotCreated
  <2>2. MonitorRemove => Delivered("remove") /\ open' = open
    BY DEF MonitorRemove
  <2>3. MonitorRemoved => handler.with \in Handles /\ Destroyed(handler.with)
    BY DEF MonitorRemoved, Kept, ServiceTypeOK
  <2>4. MainDestroy => mine \in Handles /\ Destroyed(mine)
    BY DEF MainDestroy, MainGoes, Kept, ServiceTypeOK
  <2>5. [ServiceNext]_serviceVars =>
          \/ \E d \in Devices : Arrives(d) \/ Leaves(d) \/ IsAsked(d)
               \/ MainCreate(d)
          \/ MonitorAdd \/ MonitorRemove \/ MonitorRemoved
               \/ MainDestroy \/ MainStopped
          \/ UNCHANGED <<open, notices>>
    BY DEF ServiceNext, MonitorMain, MonitorCtrlHandlerEx, MonitorAdded,
           ControlStop, ControlInterrogate, MainRegister, MainReport, MainEvent, MainNotify,
           MainRunning, MainInit, MainEnumerate, MainInsert,
           MainWait, MainStop, MainRemove, MainDelete, serviceVars
  <2> QED
    BY <1>1, <1>2, <1>3, <1>4, <1>5, <1>6, <1>7, <2>1, <2>2, <2>3, <2>4, <2>5

(* Creating a console opens a handle that was in no one's hands and had    *)
(* nothing to be told.                                                     *)
LEMMA Opens ==
  ASSUME ServiceTypeOK, Kept, Owned, Told, NEW d \in Devices,
         NEW h \in Handles, Created(d, h)
  PROVE  /\ open[h] = Null /\ open'[h] = d /\ d \in present /\ failed' = failed
         /\ \A g \in Handles : g # h => open'[g] = open[g]
         /\ \A g \in Handles : open[g] # Null => g # h
         /\ ~Contains(notices, Removal(h)) /\ h # handler.with
<1>1. Null \notin Handles /\ Null \notin Devices
  BY ServiceAssumption
<1>2. open[h] = Null /\ ~Held(h)
  BY <1>1 DEF Created, On, Owned
<1>3. h # handler.with /\ ~Contains(notices, Removal(h))
  BY <1>1, <1>2 DEF Held, Told
<1> QED
  BY <1>1, <1>2, <1>3 DEF Created, ServiceTypeOK

(* Destroying a console closes its handle and withdraws nothing but what   *)
(* that handle was to be told.                                             *)
LEMMA Closes ==
  ASSUME ServiceTypeOK, NEW h \in Handles, Destroyed(h)
  PROVE  /\ open'[h] = Null /\ missed' = missed \ {h}
         /\ \A g \in Handles : g # h => open'[g] = open[g]
         /\ notices' \in Seq(Events)
         /\ \A x : Contains(notices', x) => Contains(notices, x)
         /\ \A g : g # h /\ Contains(notices, Removal(g))
              => Contains(notices', Removal(g))
         /\ \A d : Contains(notices, Arrival(d))
              => Contains(notices', Arrival(d))
         /\ \A g, d : /\ Once(notices, d) => Once(notices', d)
                      /\ After(notices, g, d) /\ g # h => After(notices', g, d)
<1>1. notices' = Keep(notices, Events \ {Removal(h)})
     /\ notices \in Seq(Events)
  BY DEF Destroyed, ServiceTypeOK
<1>2. /\ notices' \in Seq(Events)
      /\ \A x : Contains(notices', x)
           <=> Contains(notices, x) /\ x \in Events \ {Removal(h)}
  BY <1>1, KeepMembers
<1>3. \A x : Contains(notices, x) => x \in Events
  BY <1>1, ElementOfSeq DEF Contains
<1>4. \A g, d : /\ Once(notices, d) => Once(notices', d)
                /\ After(notices, g, d) /\ g # h => After(notices', g, d)
  BY <1>1, KeepOrder
<1>5. /\ open'[h] = Null /\ missed' = missed \ {h}
      /\ \A g \in Handles : g # h => open'[g] = open[g]
  BY DEF Destroyed, ServiceTypeOK
<1>6. /\ \A g : g # h /\ Contains(notices, Removal(g))
           => Contains(notices', Removal(g))
      /\ \A d : Contains(notices, Arrival(d)) => Contains(notices', Arrival(d))
  BY <1>2, <1>3, Notices
<1> QED
  BY <1>2, <1>4, <1>5, <1>6

(* A device that leaves, or is asked to, is told of to each handle open on *)
(* it.                                                                     *)
LEMMA Leaving ==
  ASSUME ServiceTypeOK,
         NEW d \in Devices, Leaves(d) \/ IsAsked(d)
  PROVE  /\ notices' \in Seq(Events) /\ open' = open
         /\ \A x : Contains(notices, x) => Contains(notices', x)
         /\ \A h \in Handles : Contains(notices', Removal(h))
                                 <=> Contains(notices, Removal(h)) \/ open[h] = d
         /\ \A e : Contains(notices', Arrival(e))
              <=> Contains(notices, Arrival(e))
         /\ \A g, e : /\ Once(notices, e) => Once(notices', e)
                      /\ After(notices, g, e) => After(notices', g, e)
<1>1. notices' = notices \o Removes(d) /\ open' = open
     /\ notices \in Seq(Events)
  BY DEF Leaves, IsAsked, shared, ServiceTypeOK
<1>2. /\ Removes(d) \in Seq(Events)
      /\ \A x : Contains(Removes(d), x)
           <=> \E h \in Handles : open[h] = d /\ x = Removal(h)
  BY RemovesMembers
<1>3. /\ notices' \in Seq(Events)
      /\ \A x : Contains(notices', x)
           <=> Contains(notices, x) \/ Contains(Removes(d), x)
  BY <1>1, <1>2, ConcatMembers
<1>4. \A e : ~Contains(Removes(d), Arrival(e))
  BY <1>2, Notices
<1>5. \A g, e : /\ Once(notices, e) => Once(notices', e)
                /\ After(notices, g, e) => After(notices', g, e)
  BY <1>1, <1>2, <1>4, ConcatOrder
<1>6. \A h \in Handles : Contains(Removes(d), Removal(h)) <=> open[h] = d
  BY <1>2, Notices
<1> QED
  BY <1>1, <1>3, <1>4, <1>5, <1>6

(* A device is enumerated, its arrival is told, or it has a console.       *)
LEMMA CoveredStep ==
  ServiceTypeOK /\ Kept /\ Owned /\ Told /\ Covered
       /\ [ServiceNext]_serviceVars => Covered'
<1> SUFFICES ASSUME ServiceTypeOK, Kept, Owned, Told, Covered,
                    [ServiceNext]_serviceVars,
                    ~undefined', main' \in Starting \cup {"wait"}
             PROVE  \A d \in present' \ (failed' \cup asked') :
                      \/ ToCome(d)'
                      \/ \E h \in Handles : /\ open'[h] = d
                                            /\ ~Contains(notices', Removal(h))
                                                 /\ ~Destroys(h)'
  BY DEF Covered
<1> USE DEF world, shared, history, Early
<1> DEFINE Owns(d) == \E h \in Handles : /\ open[h] = d
                                         /\ ~Contains(notices, Removal(h))
                                              /\ ~Destroys(h)
           Goal == \A d \in present' \ (failed' \cup asked') : ToCome(d)' \/ Owns(d)'
<1> SUFFICES Goal
  OBVIOUS
<1>0. /\ Null \notin Handles /\ Null \notin Devices /\ notices \in Seq(Events)
      /\ Idle.does = "idle" /\ present \subseteq Devices
      /\ \A h : /\ [does |-> "insert", with |-> h].does = "insert"
                /\ [does |-> "destroy", with |-> h].does = "destroy"
                /\ [does |-> "destroy", with |-> h].with = h
  BY ServiceAssumption DEF Idle, ServiceTypeOK
<1>1. ~undefined /\ main \in Starting \cup {"wait"}
  <2>1. undefined => undefined'
    BY DEF ServiceNext, MonitorMain, MonitorCtrlHandlerEx, Arrives,
           Leaves, IsAsked, Changes, MonitorAdd, MonitorAdded,
           MonitorRemove, MonitorRemoved, Delivered, HandlerFree,
           ControlStop, ControlInterrogate, MainGoes, MainRegister, MainReport, MainEvent, MainNotify,
           MainRunning, MainInit, MainEnumerate, MainCreate,
           MainInsert, MainWait, MainStop, MainRemove,
           MainDestroy, MainDelete, MainStopped, serviceVars
  <2>2. main' \in Starting \cup {"wait"} => main \in Starting \cup {"wait"}
    BY DEF ServiceNext, MonitorMain, MonitorCtrlHandlerEx, Arrives,
           Leaves, IsAsked, MonitorAdd, MonitorAdded,
           MonitorRemove, MonitorRemoved, ControlStop,
           ControlInterrogate, MainGoes, MainRegister, MainReport, MainEvent, MainNotify,
           MainRunning,
           MainInit, MainEnumerate, MainCreate, MainInsert,
           MainWait, MainStop, MainRemove, MainDestroy,
           MainDelete, MainStopped, serviceVars, Starting
  <2> QED
    BY <2>1, <2>2
<1>2. \A d \in present \ (failed \cup asked) : ToCome(d) \/ Owns(d)
  BY <1>1 DEF Covered
<1> DEFINE same == UNCHANGED <<present, asked, failed, open, notices, left>>
           calm == \A h : Destroys(h)' => Destroys(h)
<1>3. CASE same /\ calm /\ main' = main
  BY <1>2, <1>3 DEF ToCome, NotYet
<1>4. ASSUME NEW d \in Devices, Arrives(d) PROVE Goal
  <2>1. /\ main' = main /\ left' = left /\ open' = open /\ handler' = handler
        /\ present' = present \cup {d} /\ asked' = asked \ {d} /\ failed' = failed \ {d}
    BY <1>4 DEF Arrives
  <2>2. registered \/ main \in Early
    BY <1>1 DEF Kept, Starting
  <2>3. \A x : Contains(Append(notices, Arrival(d)), x)
       <=> Contains(notices, x) \/ x = Arrival(d)
    BY <1>0, Notices, AppendMembers
  <2>4. /\ \A x : Contains(notices, x) => Contains(notices', x)
        /\ \A h : Contains(notices', Removal(h))
             => Contains(notices, Removal(h))
        /\ registered => Contains(notices', Arrival(d))
    BY <1>4, <2>3, Notices DEF Arrives
  <2>5. ToCome(d)'
    BY <2>1, <2>2, <2>4 DEF ToCome, NotYet
  <2>6. ASSUME NEW e \in present \ (failed \cup asked) PROVE ToCome(e)' \/ Owns(e)'
    BY <1>2, <2>1, <2>4 DEF ToCome, NotYet, Destroys
  <2> QED
    BY <2>1, <2>5, <2>6
<1>5. ASSUME NEW d \in Devices, Leaves(d) \/ IsAsked(d) PROVE Goal
  <2>1. /\ main' = main /\ left' = left /\ open' = open /\ handler' = handler
        /\ failed' = failed
        /\ \A e \in present' \ asked' : e # d /\ e \in present \ asked
    BY <1>5 DEF Leaves, IsAsked
  <2>2. /\ \A x : Contains(notices, x) => Contains(notices', x)
        /\ \A h \in Handles : Contains(notices', Removal(h)) =>
                                Contains(notices, Removal(h)) \/ open[h] = d
    BY <1>5, Leaving
  <2>3. ASSUME NEW e \in present' \ (failed' \cup asked') PROVE ToCome(e)' \/ Owns(e)'
    BY <1>2, <2>1, <2>2 DEF ToCome, NotYet, Destroys
  <2> QED
    BY <2>3
<1>6. CASE MonitorAdd
  <2>0. PICK d \in Devices : d = Head(notices).of
    BY <1>0, <1>6, Delivery DEF MonitorAdd, Delivered
  <2>1. /\ Head(notices) = Arrival(d) /\ handler.does = "idle"
        /\ notices' = Tail(notices) /\ notices # << >>
        /\ UNCHANGED <<present, asked, left, main>>
    BY <1>0, <1>6, <2>0, Delivery DEF MonitorAdd, Delivered, HandlerFree
  <2>2. /\ \A h : Contains(notices', Removal(h))
             => Contains(notices, Removal(h))
        /\ \A e : e # d /\ Contains(notices, Arrival(e))
             => Contains(notices', Arrival(e))
    BY <1>0, <2>1, Delivery, Notices
  <2>3. calm
    BY <1>0, <1>6, <2>1 DEF MonitorAdd, Destroys
  <2>4. CASE NotCreated(d)
    <3>1. open' = open /\ failed' = failed \cup {d}
      BY <2>4 DEF NotCreated
    <3>2. ASSUME NEW e \in present' \ (failed' \cup asked') PROVE ToCome(e)' \/ Owns(e)'
      BY <1>2, <2>1, <2>2, <2>3, <3>1 DEF ToCome, NotYet
    <3> QED
      BY <3>2
  <2>5. ASSUME NEW h \in Handles, Created(d, h) PROVE Goal
    <3>1. /\ open[h] = Null /\ open'[h] = d /\ failed' = failed
          /\ \A g \in Handles : open[g] # Null => open'[g] = open[g]
          /\ ~Contains(notices, Removal(h)) /\ h # handler.with
      BY <2>1, <2>5, Opens
    <3>2. ~Destroys(h)
      BY <1>0, <2>1 DEF Destroys
    <3>3. Owns(d)'
      BY <2>2, <2>3, <3>1, <3>2
    <3>4. ASSUME NEW e \in present' \ (failed' \cup asked'), e # d
          PROVE  ToCome(e)' \/ Owns(e)'
      <4>1. ToCome(e) => ToCome(e)'
        BY <2>1, <2>2, <3>4 DEF ToCome, NotYet
      <4>2. Owns(e) => Owns(e)'
        BY <1>0, <2>1, <2>2, <2>3, <3>1
      <4> QED
        BY <1>2, <2>1, <3>1, <4>1, <4>2
    <3> QED
      BY <3>3, <3>4
  <2> QED
    BY <1>6, <2>0, <2>4, <2>5 DEF MonitorAdd
<1>7. CASE MonitorRemove
  <2> DEFINE h == Head(notices).of
  <2>1. /\ h \in Handles /\ Head(notices) = Removal(h) /\ handler.does = "idle"
        /\ notices' = Tail(notices) /\ notices # << >>
        /\ UNCHANGED <<present, asked, failed, open, left, main>>
    BY <1>0, <1>7, Delivery DEF MonitorRemove, Delivered, HandlerFree
  <2>2. /\ \A x : Contains(notices', x) => Contains(notices, x)
        /\ \A e : Contains(notices, Arrival(e))
             => Contains(notices', Arrival(e))
        /\ Contains(notices, Removal(h))
    BY <1>0, <2>1, Delivery, Notices, TailMembers
  <2>3. \A g : Destroys(g)' => Destroys(g) \/ g = h
    BY <1>0, <1>7 DEF MonitorRemove, Destroys
  <2> HIDE DEF h
  <2>4. ASSUME NEW e \in present \ (failed \cup asked) PROVE ToCome(e)' \/ Owns(e)'
    BY <1>2, <2>1, <2>2, <2>3 DEF ToCome, NotYet
  <2> QED
    BY <2>1, <2>4
<1>8. CASE MonitorRemoved
  <2> DEFINE h == handler.with
  <2>1. /\ h \in Handles /\ Destroyed(h) /\ Destroys(h) /\ handler' = Idle
        /\ UNCHANGED <<present, asked, failed, left, main>>
    BY <1>8 DEF MonitorRemoved, Kept, ServiceTypeOK, Destroys
  <2> HIDE DEF h
  <2>2. /\ \A x : Contains(notices', x) => Contains(notices, x)
        /\ \A e : Contains(notices, Arrival(e))
             => Contains(notices', Arrival(e))
        /\ \A g \in Handles : g # h => open'[g] = open[g]
    BY <2>1, Closes
  <2>3. \A g : ~Destroys(g)'
    BY <1>0, <2>1 DEF Destroys
  <2>4. ASSUME NEW e \in present \ (failed \cup asked) PROVE ToCome(e)' \/ Owns(e)'
    BY <1>2, <2>1, <2>2, <2>3, <2>4 DEF ToCome, NotYet
  <2> QED
    BY <2>1, <2>4
<1>9. ASSUME NEW d \in Devices, MainCreate(d) PROVE Goal
  <2>1. /\ UNCHANGED <<present, asked, notices, handler>> /\ left' = left \ {d}
        /\ main = "create" /\ main' \in {"create", "insert"} /\ d \in left
    BY <1>9 DEF MainCreate, MainGoes
  <2>2. \A e : e # d /\ ToCome(e) => ToCome(e)'
    BY <2>1 DEF ToCome, NotYet
  <2>3. CASE NotCreated(d)
    BY <1>2, <2>1, <2>2, <2>3 DEF NotCreated, Destroys
  <2>4. ASSUME NEW h \in Handles, Created(d, h) PROVE Goal
    <3>1. /\ open[h] = Null /\ open'[h] = d /\ failed' = failed
          /\ \A g \in Handles : open[g] # Null => open'[g] = open[g]
          /\ ~Contains(notices, Removal(h)) /\ h # handler.with
      BY <2>4, Opens
    <3>2. Owns(d)'
      BY <1>0, <2>1, <3>1 DEF Destroys
    <3>3. ASSUME NEW e \in present' \ (failed' \cup asked'), e # d
          PROVE  ToCome(e)' \/ Owns(e)'
      <4>1. Owns(e) => Owns(e)'
        BY <1>0, <2>1, <3>1 DEF Destroys
      <4> QED
        BY <1>2, <2>1, <2>2, <3>1, <3>3, <4>1
    <3> QED
      BY <3>2, <3>3
  <2> QED
    BY <1>9, <2>3, <2>4 DEF MainCreate
<1>10. CASE MainEnumerate
  <2>1. UNCHANGED <<present, asked, notices, handler, open>>
    BY <1>10 DEF MainEnumerate
  <2>2. CASE left' = present /\ main' = "create"
    BY <2>1, <2>2 DEF ToCome, NotYet
  <2>3. CASE failed' = failed \cup present
    BY <2>1, <2>3
  <2> QED
    BY <1>10, <2>2, <2>3 DEF MainEnumerate, MainGoes
<1>11. CASE MainRegister \/ MainReport \/ MainEvent \/ MainNotify
     \/ MainRunning \/ MainInit \/ MainInsert
     \/ MainWait
  <2>1. same /\ handler' = handler
    BY <1>11
       DEF MainRegister, MainReport, MainEvent, MainNotify,
       MainRunning, MainInit, MainInsert,
           MainWait
  <2>2. \A d : ToCome(d) => ToCome(d)'
    BY <1>11, <2>1
       DEF ToCome, NotYet, MainGoes, MainRegister, MainReport, MainEvent, MainNotify,
       MainRunning,
           MainInit, MainInsert,
                       MainWait, Starting
  <2> QED
    BY <1>2, <2>1, <2>2 DEF Destroys
<1>12. CASE MonitorAdded
  <2>1. same /\ main' = main /\ handler' = Idle
    BY <1>12 DEF MonitorAdded
  <2> QED
    BY <1>0, <1>3, <2>1 DEF Destroys
<1>13. CASE ControlStop \/ ControlInterrogate \/ UNCHANGED serviceVars
  <2>1. same /\ main' = main /\ handler' = handler
    BY <1>13 DEF ControlStop, ControlInterrogate, serviceVars
  <2> QED
    BY <1>3, <2>1 DEF Destroys
<1>14. CASE MainStop \/ MainRemove \/ MainDestroy \/ MainDelete
     \/ MainStopped
  BY <1>14
     DEF MainStop, MainRemove, MainDestroy, MainDelete,
         MainStopped, MainGoes, Starting
<1> HIDE DEF Goal
<1> QED
  BY <1>4, <1>5, <1>6, <1>7, <1>8, <1>9, <1>10, <1>11, <1>12, <1>13, <1>14
     DEF ServiceNext, MonitorMain, MonitorCtrlHandlerEx

(* A console whose device has left is told so, is being destroyed, or has  *)
(* missed it.                                                              *)
LEMMA NoticedStep ==
  ServiceTypeOK /\ Kept /\ Owned /\ Told /\ Noticed
       /\ [ServiceNext]_serviceVars => Noticed'
<1> SUFFICES ASSUME ServiceTypeOK, Kept, Owned, Told, Noticed,
                    [ServiceNext]_serviceVars, ~undefined'
             PROVE  Noticed'
  BY DEF Noticed
<1> USE DEF world, shared, history, Early
<1>0. /\ Null \notin Handles /\ Null \notin Devices /\ notices \in Seq(Events)
      /\ Idle.does = "idle" /\ open \in [Handles -> Devices \cup {Null}]
      /\ \A h : /\ [does |-> "insert", with |-> h].does = "insert"
                /\ [does |-> "destroy", with |-> h].does = "destroy"
  BY ServiceAssumption DEF Idle, ServiceTypeOK
<1>1. ~undefined
  BY DEF ServiceNext, MonitorMain, MonitorCtrlHandlerEx, Arrives,
         Leaves, IsAsked, Changes, MonitorAdd, MonitorAdded,
         MonitorRemove, MonitorRemoved, Delivered, HandlerFree,
         ControlStop, ControlInterrogate, MainGoes, MainRegister, MainReport, MainEvent, MainNotify,
         MainRunning, MainInit, MainEnumerate, MainCreate,
         MainInsert, MainWait, MainStop, MainRemove,
         MainDestroy, MainDelete, MainStopped, serviceVars
<1>2. ASSUME NEW h \in Handles \ missed, open[h] # Null
      PROVE  open[h] \in present \/ Contains(notices, Removal(h)) \/ Destroys(h)
  BY <1>1, <1>2 DEF Noticed
<1>3. CASE /\ UNCHANGED <<present, open, missed>>
           /\ \A h \in Handles : /\ Contains(notices, Removal(h))
                                      => Contains(notices', Removal(h))
                                 /\ Destroys(h) => Destroys(h)'
  BY <1>2, <1>3 DEF Noticed
<1>4. ASSUME NEW d \in Devices, Arrives(d) PROVE Noticed'
  <2>1. \A x : Contains(notices, x) => Contains(notices', x)
    BY <1>0, <1>4, Notices, AppendMembers DEF Arrives
  <2>2. present \subseteq present' /\ UNCHANGED <<open, missed, handler>>
    BY <1>4 DEF Arrives
  <2> QED
    BY <1>2, <2>1, <2>2 DEF Noticed, Destroys
<1>5. ASSUME NEW d \in Devices, Leaves(d) \/ IsAsked(d) PROVE Noticed'
  <2>1. /\ \A e \in present : e = d \/ e \in present'
        /\ UNCHANGED <<open, missed, handler>>
    BY <1>5 DEF Leaves, IsAsked
  <2>2. \A h \in Handles : Contains(notices, Removal(h)) \/ open[h] = d
                             => Contains(notices', Removal(h))
    BY <1>5, Leaving
  <2> QED
    BY <1>2, <2>1, <2>2 DEF Noticed, Destroys
<1>6. ASSUME NEW d \in Devices, NEW h \in Handles, Created(d, h),
             UNCHANGED <<present, missed>>, \A g : ~Destroys(g) \/ Destroys(g)',
             \A g : Contains(notices, Removal(g))
                  => Contains(notices', Removal(g))
      PROVE  Noticed'
  <2>1. /\ open'[h] = d /\ d \in present
        /\ \A g \in Handles : g # h => open'[g] = open[g]
    BY <1>6, Opens
  <2> QED
    BY <1>2, <1>6, <2>1 DEF Noticed
<1>7. CASE MonitorAdd
  <2>0. PICK d \in Devices : d = Head(notices).of
    BY <1>0, <1>7, Delivery DEF MonitorAdd, Delivered
  <2>1. /\ Head(notices) = Arrival(d) /\ handler = Idle
        /\ notices' = Tail(notices) /\ notices # << >>
        /\ UNCHANGED <<present, missed>>
    BY <1>0, <1>7, <2>0, Delivery DEF MonitorAdd, Delivered, HandlerFree
  <2>2. \A g : Contains(notices, Removal(g)) => Contains(notices', Removal(g))
    BY <1>0, <2>1, Delivery, Notices
  <2>3. \A g : ~Destroys(g)
    BY <1>0, <2>1 DEF Destroys
  <2>4. CASE NotCreated(d)
    BY <1>3, <2>1, <2>2, <2>3, <2>4 DEF NotCreated
  <2> QED
    BY <1>6, <1>7, <2>0, <2>1, <2>2, <2>3, <2>4 DEF MonitorAdd
<1>8. ASSUME NEW d \in Devices, MainCreate(d) PROVE Noticed'
  <2>1. UNCHANGED <<present, missed, handler, notices>>
    BY <1>8 DEF MainCreate
  <2>2. CASE NotCreated(d)
    BY <1>3, <2>1, <2>2 DEF NotCreated, Destroys
  <2> QED
    BY <1>6, <1>8, <2>1, <2>2 DEF MainCreate, Destroys
<1>9. ASSUME NEW h \in Handles, Destroyed(h), UNCHANGED present,
             \A g : Destroys(g) => g = h \/ Destroys(g)'
      PROVE  Noticed'
  <2>1. /\ open'[h] = Null /\ missed' = missed \ {h}
        /\ \A g \in Handles : g # h => open'[g] = open[g]
        /\ \A g : g # h /\ Contains(notices, Removal(g))
             => Contains(notices', Removal(g))
    BY <1>9, Closes
  <2> QED
    BY <1>2, <1>9, <2>1 DEF Noticed
<1>10. CASE MonitorRemove
  <2>0. PICK h \in Handles : h = Head(notices).of
    BY <1>0, <1>10, Delivery DEF MonitorRemove, Delivered
  <2>1. /\ Head(notices) = Removal(h) /\ handler = Idle
        /\ notices' = Tail(notices) /\ notices # << >>
        /\ UNCHANGED <<present, open>>
    BY <1>0, <1>10, <2>0, Delivery
       DEF MonitorRemove, Delivered, HandlerFree
  <2>2. \A g : g # h /\ Contains(notices, Removal(g))
       => Contains(notices', Removal(g))
    BY <1>0, <2>1, Delivery, Notices
  <2>3. \A g : ~Destroys(g)
    BY <1>0, <2>1 DEF Destroys
  <2>4. /\ missed \subseteq missed'
        /\ h \in missed' \/ handler' = [does |-> "destroy", with |-> h]
    BY <1>10, <2>0 DEF MonitorRemove
  <2> QED
    BY <1>2, <2>1, <2>2, <2>3, <2>4 DEF Noticed, Destroys
<1>11. CASE MonitorRemoved
  <2>1. /\ handler.with \in Handles /\ Destroyed(handler.with) /\ present' = present
        /\ \A g : Destroys(g) => g = handler.with
    BY <1>11 DEF MonitorRemoved, Kept, ServiceTypeOK, Destroys
  <2> QED
    BY <1>9, <2>1
<1>12. CASE MainDestroy
  <2>1. mine \in Handles /\ Destroyed(mine) /\ UNCHANGED <<present, handler>>
    BY <1>12 DEF MainDestroy, MainGoes, Kept, ServiceTypeOK
  <2> QED
    BY <1>9, <2>1 DEF Destroys
<1>13. CASE MonitorAdded
  <2>1. handler.does = "insert" /\ UNCHANGED <<present, open, missed, notices>>
    BY <1>13 DEF MonitorAdded
  <2>2. \A g : ~Destroys(g)
    BY <1>0, <2>1 DEF Destroys
  <2> QED
    BY <1>3, <2>1, <2>2
<1>14. CASE MainStopped
  <2>1. \A h \in Handles : Contains(notices, Removal(h))
       => Contains(notices', Removal(h))
    BY <1>14, KeepMembers DEF MainStopped, ServiceTypeOK, Events
  <2>2. UNCHANGED <<present, open, missed, handler>>
    BY <1>14 DEF MainStopped
  <2> QED
    BY <1>3, <2>1, <2>2 DEF Destroys
<1>15. CASE UNCHANGED <<present, open, missed, notices, handler>>
  BY <1>3, <1>15 DEF Destroys
<1> QED
  <2>1. [ServiceNext]_serviceVars =>
          \/ \E d \in Devices : Arrives(d) \/ Leaves(d) \/ IsAsked(d)
               \/ MainCreate(d)
          \/ MonitorAdd \/ MonitorAdded \/ MonitorRemove
               \/ MonitorRemoved
          \/ MainDestroy \/ MainStopped
          \/ UNCHANGED <<present, open, missed, notices, handler>>
    BY DEF ServiceNext, MonitorMain, MonitorCtrlHandlerEx, ControlStop,
           ControlInterrogate, MainRegister, MainReport, MainEvent, MainNotify,
           MainRunning, MainInit,
           MainEnumerate, MainInsert, MainWait, MainStop,
           MainRemove, MainDelete, serviceVars
  <2> QED
    BY <1>4, <1>5, <1>7, <1>8, <1>10, <1>11, <1>12, <1>13, <1>14, <1>15, <2>1

(* A device has one console, and what is told of it keeps to that.         *)
LEMMA SingleStep ==
  ServiceTypeOK /\ Kept /\ Owned /\ Told /\ Noticed /\ Single
       /\ [ServiceNext]_serviceVars => Single'
<1> SUFFICES ASSUME ServiceTypeOK, Kept, Owned, Told, Noticed, Single,
                    [ServiceNext]_serviceVars,
                    ~undefined', main' \in Starting \cup {"wait"},
                    NEW d \in Devices \ twice'
             PROVE  SingleOf(d)'
  BY DEF Single
<1> USE DEF world, shared, history, Early
<1>0. /\ Null \notin Handles /\ Null \notin Devices /\ notices \in Seq(Events)
      /\ Idle.does = "idle" /\ open \in [Handles -> Devices \cup {Null}]
      /\ \A h : /\ [does |-> "insert", with |-> h].does = "insert"
                /\ [does |-> "destroy", with |-> h].does = "destroy"
  BY ServiceAssumption DEF Idle, ServiceTypeOK
<1>1. SingleOf(d)
  <2>1. undefined => undefined'
    BY DEF ServiceNext, MonitorMain, MonitorCtrlHandlerEx, Arrives,
           Leaves, IsAsked, Changes, MonitorAdd, MonitorAdded,
           MonitorRemove, MonitorRemoved, Delivered, HandlerFree,
           ControlStop, ControlInterrogate, MainGoes, MainRegister, MainReport, MainEvent, MainNotify,
           MainRunning, MainInit, MainEnumerate, MainCreate,
           MainInsert, MainWait, MainStop, MainRemove,
           MainDestroy, MainDelete, MainStopped, serviceVars
  <2>2. main' \in Starting \cup {"wait"} => main \in Starting \cup {"wait"}
    BY DEF ServiceNext, MonitorMain, MonitorCtrlHandlerEx, Arrives,
           Leaves, IsAsked, MonitorAdd, MonitorAdded,
           MonitorRemove, MonitorRemoved, ControlStop,
           ControlInterrogate, MainGoes, MainRegister, MainReport, MainEvent, MainNotify,
           MainRunning,
           MainInit, MainEnumerate, MainCreate, MainInsert,
           MainWait, MainStop, MainRemove, MainDestroy,
           MainDelete, MainStopped, serviceVars, Starting
  <2>3. twice \subseteq twice'
    BY DEF ServiceNext, MonitorMain, MonitorCtrlHandlerEx, Arrives,
           Leaves, IsAsked, MonitorAdd, MonitorAdded,
           MonitorRemove, MonitorRemoved, ControlStop,
           ControlInterrogate, MainRegister, MainReport, MainEvent, MainNotify,
           MainRunning, MainInit,
           MainEnumerate, MainCreate, MainInsert, MainWait,
           MainStop, MainRemove, MainDestroy, MainDelete,
           MainStopped, serviceVars
  <2> QED
    BY <2>1, <2>2, <2>3 DEF Single
<1>2. ASSUME UNCHANGED <<open, missed, notices>>, \A h : Destroys(h) => Destroys(h)',
             NotYet(d)' => NotYet(d), main' \in Starting => main \in Starting
      PROVE  SingleOf(d)'
  BY <1>1, <1>2 DEF SingleOf
<1>3. ASSUME UNCHANGED <<main, left>> PROVE NotYet(d)' <=> NotYet(d)
  BY <1>3 DEF NotYet
<1>4. ASSUME NEW e \in Devices, Arrives(e) PROVE SingleOf(d)'
  <2>1. UNCHANGED <<open, missed, handler, main, left>>
    BY <1>4 DEF Arrives
  <2>2. CASE notices' = notices
    BY <1>2, <1>3, <2>1, <2>2 DEF Destroys
  <2>3. CASE notices' = Append(notices, Arrival(e)) /\ d # e
    <3>1. /\ Once(notices, d) => Once(notices', d)
          /\ \A h : After(notices, h, d) => After(notices', h, d)
      BY <1>0, <2>3, AppendOrder
    <3>2. Contains(notices', Arrival(d)) => Contains(notices, Arrival(d))
      BY <1>0, <2>3, AppendMembers, Notices
    <3> QED
      BY <1>1, <1>3, <2>1, <3>1, <3>2 DEF SingleOf, Destroys
  <2>4. CASE notices' = Append(notices, Arrival(e)) /\ d = e
    <3>0. registered
      <4>1. Append(notices, Arrival(e)) # notices
        BY <1>0, Notices
      <4> QED
        BY <1>4, <2>4, <4>1 DEF Arrives
    <3>1. main \notin Starting /\ ~Contains(notices, Arrival(d)) /\ d \notin present
      <4>1. main \notin Early
        BY <3>0 DEF Kept
      <4>2. d \notin twice'
        OBVIOUS
      <4>3. /\ main \notin {"running", "init", "enumerate", "create", "insert"}
            /\ Arrival(d) \notin ToSet(notices)
        BY <1>4, <2>4, <4>2 DEF Arrives
      <4>4. ~Contains(notices, Arrival(d))
        BY <1>0, <4>3, SetMembers
      <4>5. d \notin present
        BY <1>4, <2>4 DEF Arrives
      <4> QED
        BY <4>1, <4>3, <4>4, <4>5 DEF Starting
    <3>2. Once(notices', d) /\ ~NotYet(d)'
      BY <1>0, <2>1, <2>4, <3>1, AppendOrder DEF NotYet, Starting
    <3>3. ASSUME NEW h \in Handles \ missed, open[h] = d
          PROVE  After(notices', h, d) \/ Destroys(h)
      <4>1. Contains(notices, Removal(h)) \/ Destroys(h)
        <5>1. ~undefined /\ open[h] # Null
          BY <1>0, <1>4, <3>3 DEF Arrives, Changes
        <5> QED
          BY <3>1, <3>3, <5>1 DEF Noticed
      <4> QED
        BY <1>0, <2>4, <3>1, <4>1, AppendOrder
    <3> QED
      BY <1>1, <2>1, <3>1, <3>2, <3>3 DEF SingleOf, Destroys
  <2> QED
    BY <1>4, <2>2, <2>3, <2>4 DEF Arrives
<1>5. ASSUME NEW e \in Devices, Leaves(e) \/ IsAsked(e) PROVE SingleOf(d)'
  <2>1. UNCHANGED <<open, missed, handler, main, left>>
    BY <1>5 DEF Leaves, IsAsked
  <2>2. /\ Once(notices, d) => Once(notices', d)
        /\ \A h : After(notices, h, d) => After(notices', h, d)
        /\ Contains(notices', Arrival(d)) => Contains(notices, Arrival(d))
    BY <1>5, Leaving
  <2> QED
    BY <1>1, <1>3, <2>1, <2>2 DEF SingleOf, Destroys
<1>6. CASE MonitorAdd
  <2>0. PICK e \in Devices : e = Head(notices).of
    BY <1>0, <1>6, Delivery DEF MonitorAdd, Delivered
  <2>1. /\ Head(notices) = Arrival(e) /\ handler = Idle
        /\ notices' = Tail(notices) /\ notices # << >>
        /\ UNCHANGED <<missed, main, left>>
    BY <1>0, <1>6, <2>0, Delivery DEF MonitorAdd, Delivered, HandlerFree
  <2>2. /\ Once(notices, d) => Once(notices', d)
        /\ Once(notices, d) /\ d = e => ~Contains(notices', Arrival(d))
        /\ \A h : After(notices, h, d) => After(notices', h, d) /\ d # e
        /\ Contains(notices', Arrival(d)) => Contains(notices, Arrival(d))
        /\ Contains(notices, Arrival(e))
    BY <1>0, <2>1, TailOrder, TailMembers, Notices
  <2>3. \A h : ~Destroys(h)
    BY <1>0, <2>1 DEF Destroys
  <2>4. CASE NotCreated(e)
    <3>1. open' = open
      BY <2>4 DEF NotCreated
    <3> QED
      BY <1>1, <1>3, <2>1, <2>2, <2>3, <3>1 DEF SingleOf
  <2>5. ASSUME NEW h \in Handles, Created(e, h) PROVE SingleOf(d)'
    <3>1. open'[h] = e /\ \A g \in Handles : g # h => open'[g] = open[g]
      BY <2>5, Opens
    <3>2. CASE d # e
      BY <1>1, <1>3, <2>1, <2>2, <2>3, <3>1, <3>2 DEF SingleOf
    <3>3. CASE d = e
      <4>1. \A g \in Handles \ missed : open[g] # d
        BY <1>1, <2>2, <2>3, <3>3 DEF SingleOf
      <4>2. main \notin Starting /\ ~NotYet(d)
        BY <1>1, <2>2, <3>3 DEF SingleOf, NotYet, Starting
      <4>3. Once(notices', d) /\ ~Contains(notices', Arrival(d))
        BY <1>1, <2>2, <3>3 DEF SingleOf
      <4>4. \A g : After(notices', g, d)
        BY <4>3 DEF After, Contains
      <4> QED
        BY <1>3, <2>1, <3>1, <4>1, <4>2, <4>3, <4>4 DEF SingleOf
    <3> QED
      BY <3>2, <3>3
  <2> QED
    BY <1>6, <2>0, <2>4, <2>5 DEF MonitorAdd
<1>7. CASE MonitorAdded
  <2>1. handler.does = "insert" /\ UNCHANGED <<open, missed, notices, main, left>>
    BY <1>7 DEF MonitorAdded
  <2>2. \A h : ~Destroys(h)
    BY <1>0, <2>1 DEF Destroys
  <2> QED
    BY <1>2, <1>3, <2>1, <2>2
<1>8. CASE MonitorRemove
  <2>0. PICK h \in Handles : h = Head(notices).of
    BY <1>0, <1>8, Delivery DEF MonitorRemove, Delivered
  <2>1. /\ Head(notices) = Removal(h) /\ handler = Idle
        /\ notices' = Tail(notices) /\ notices # << >>
        /\ UNCHANGED <<open, main, left>>
    BY <1>0, <1>8, <2>0, Delivery
       DEF MonitorRemove, Delivered, HandlerFree
  <2>2. /\ Once(notices, d) => Once(notices', d)
        /\ \A g : g # h /\ After(notices, g, d) => After(notices', g, d)
        /\ Contains(notices', Arrival(d)) => Contains(notices, Arrival(d))
    BY <1>0, <2>1, TailOrder, TailMembers, Notices
  <2>3. \A g : ~Destroys(g)
    BY <1>0, <2>1 DEF Destroys
  <2>4. /\ missed \subseteq missed'
        /\ h \in missed' \/ handler' = [does |-> "destroy", with |-> h]
    BY <1>8, <2>0 DEF MonitorRemove
  <2> QED
    BY <1>1, <1>3, <2>1, <2>2, <2>3, <2>4 DEF SingleOf, Destroys
<1>9. CASE MonitorRemoved
  <2>1. /\ handler.with \in Handles /\ Destroyed(handler.with)
             /\ UNCHANGED <<main, left>>
        /\ \A g : Destroys(g) => g = handler.with
    BY <1>9 DEF MonitorRemoved, Kept, ServiceTypeOK, Destroys
  <2>2. PICK h \in Handles : h = handler.with
    BY <2>1
  <2>3. /\ open'[h] = Null /\ missed' = missed \ {h}
        /\ \A g \in Handles : g # h => open'[g] = open[g]
        /\ Once(notices, d) => Once(notices', d)
        /\ \A g : After(notices, g, d) /\ g # h => After(notices', g, d)
        /\ Contains(notices', Arrival(d)) => Contains(notices, Arrival(d))
    BY <2>1, <2>2, Closes
  <2> QED
    BY <1>0, <1>1, <1>3, <2>1, <2>2, <2>3 DEF SingleOf
<1>10. ASSUME NEW e \in Devices, MainCreate(e) PROVE SingleOf(d)'
  <2>1. /\ UNCHANGED <<missed, notices, handler>> /\ left' = left \ {e} /\ e \in left
        /\ main = "create" /\ main' \in {"create", "insert"}
    BY <1>10 DEF MainCreate, MainGoes
  <2>2. /\ NotYet(d)' => NotYet(d) /\ d # e
        /\ main \in Starting /\ (d = e => NotYet(d))
    BY <2>1 DEF NotYet, Starting
  <2>3. CASE NotCreated(e)
    BY <1>2, <2>1, <2>2, <2>3 DEF NotCreated, Destroys
  <2>4. ASSUME NEW h \in Handles, Created(e, h) PROVE SingleOf(d)'
    <3>1. open'[h] = e /\ \A g \in Handles : g # h => open'[g] = open[g]
      BY <2>4, Opens
    <3>2. CASE d # e
      BY <1>1, <2>1, <2>2, <3>1, <3>2 DEF SingleOf, Destroys
    <3>3. CASE d = e
      <4>1. (\A g \in Handles : open[g] # d) /\ ~Contains(notices, Arrival(d))
        BY <1>1, <2>2, <3>3 DEF SingleOf
      <4>2. \A g : After(notices', g, d)
        BY <2>1, <4>1 DEF After, Contains
      <4> QED
        BY <1>1, <2>1, <2>2, <3>1, <3>3, <4>1, <4>2 DEF SingleOf
    <3> QED
      BY <3>2, <3>3
  <2> QED
    BY <1>10, <2>3, <2>4 DEF MainCreate
<1>11. CASE \/ MainRegister \/ MainReport \/ MainEvent \/ MainNotify
     \/ MainRunning \/ MainInit \/ MainEnumerate
                 \/ MainInsert
            \/ MainWait
  <2>1. UNCHANGED <<open, missed, notices, handler>>
    BY <1>11
       DEF MainRegister, MainReport, MainEvent, MainNotify,
       MainRunning, MainInit, MainEnumerate,
           MainInsert, MainWait
  <2>2. NotYet(d)' => NotYet(d)
    BY <1>11
       DEF NotYet, MainGoes, MainRegister, MainReport, MainEvent, MainNotify,
       MainRunning, MainInit,
           MainEnumerate,
                 MainInsert, MainWait
  <2>3. main \in Starting
    BY <1>11
       DEF MainGoes, MainRegister, MainReport, MainEvent, MainNotify,
       MainRunning, MainInit,
           MainEnumerate,
                 MainInsert, MainWait, Starting
  <2> QED
    BY <1>2, <2>1, <2>2, <2>3 DEF Destroys
<1>12. CASE ControlStop \/ ControlInterrogate \/ UNCHANGED serviceVars
  <2>1. UNCHANGED <<open, missed, notices, handler, main, left>>
    BY <1>12 DEF ControlStop, ControlInterrogate, serviceVars
  <2> QED
    BY <1>2, <1>3, <2>1 DEF Destroys
<1>13. CASE MainStop \/ MainRemove \/ MainDestroy \/ MainDelete
     \/ MainStopped
  BY <1>13
     DEF MainStop, MainRemove, MainDestroy, MainDelete,
         MainStopped, MainGoes, Starting
<1> QED
  BY <1>4, <1>5, <1>6, <1>7, <1>8, <1>9, <1>10, <1>11, <1>12, <1>13
     DEF ServiceNext, MonitorMain, MonitorCtrlHandlerEx

(* The service begins with no console, no notification and no handle open. *)
LEMMA ServiceIInvInit == ServiceInit => ServiceIInv
<1> SUFFICES ASSUME ServiceInit PROVE ServiceIInv
  OBVIOUS
<1> USE DEF ServiceInit
<1>0. /\ Null \notin Handles /\ Null \notin Devices
      /\ Idle.does = "idle" /\ Idle.with = Null /\ MaxChanges \in Nat
  BY ServiceAssumption DEF Idle
<1>1. /\ << >> \in Seq(Handles) /\ << >> \in Seq(Events)
      /\ IsInjective(<< >>) /\ \A x : ~Contains(<< >>, x)
  BY EmptyMembers
<1>2. ServiceTypeOK
  <2>1. /\ open \in [Handles -> Devices \cup {Null}]
        /\ consoles \in Seq(Handles) /\ notices \in Seq(Events)
    BY <1>1
  <2>2. handler \in [does : {"idle", "insert", "destroy"},
                     with : Handles \cup {Null}]
    BY DEF Idle
  <2>3. /\ present \subseteq Devices /\ changes \in 0..MaxChanges
        /\ failed \subseteq Devices /\ asked \subseteq Devices
             /\ twice \subseteq Devices
        /\ missed \subseteq Handles /\ left \subseteq Devices
             /\ mine \in Handles \cup {Null}
    BY <1>0
  <2> QED
    BY <2>1, <2>2, <2>3 DEF ServiceTypeOK
<1>3. Kept /\ Owned /\ Told
  BY <1>0, <1>1 DEF Kept, Owned, Held, Told, Early
<1>4. Covered /\ Noticed
  BY <1>0 DEF Covered, Noticed, ToCome, NotYet, Early
<1>5. Single
  <2>1. \A d, h : Once(notices, d) /\ After(notices, h, d)
    BY DEF Once, After
  <2> QED
    BY <1>0, <1>1, <2>1 DEF Single, SingleOf, NotYet
<1> QED
  BY <1>2, <1>3, <1>4, <1>5 DEF ServiceIInv

(* Every step of either thread, and every change of the devices, keeps the *)
(* invariant.                                                              *)
LEMMA ServiceIInvStep == ServiceIInv /\ [ServiceNext]_serviceVars => ServiceIInv'
BY TypeStep, KeptStep, OwnedStep, ToldStep, CoveredStep, NoticedStep, SingleStep
   DEF ServiceIInv

(* The invariant of the service holds in every reachable state.            *)
THEOREM ServiceInvariance == ServiceSpec => []ServiceIInv
<1> QED
  BY ServiceIInvInit, ServiceIInvStep, PTL DEF ServiceSpec

(* A console of the service is on its list or in the hands of one thread,  *)
(* MonitorMain or the control handler, which alone destroys it; while the  *)
(* list is in use none is lost (ConsoleDestroy after List removal, in      *)
(* MonitorRemove and MonitorRemoveAll).                                    *)
THEOREM OwnedOnceHolds == ServiceSpec => []OwnedOnce
<1>1. ServiceIInv => OwnedOnce
  <2> SUFFICES ASSUME ServiceIInv PROVE OwnedOnce
    OBVIOUS
  <2> USE DEF ServiceIInv
  <2> DEFINE held == {mine, handler.with} \ {Null}
  <2>1. \A h : h \in ToSet(consoles) <=> Contains(consoles, h)
    BY SetMembers DEF ServiceTypeOK
  <2>2. /\ \A h \in Handles : Contains(consoles, h) => h \notin held
        /\ ToSet(consoles) \subseteq Handles /\ held \subseteq Handles
    BY SetMembers DEF Owned, ServiceTypeOK
  <2>3. \A h \in Handles : Held(h) <=> h \in ToSet(consoles) \cup held
    BY <2>1, ServiceAssumption DEF Held
  <2>4. \A h \in ToSet(consoles) \cup held : open[h] # Null
    BY <2>2, <2>3 DEF Owned
  <2>5. ToSet(consoles) \cap held = {}
    BY <2>1, <2>2
  <2>6. lock = "ready" /\ ~undefined =>
          \A h \in Handles : open[h] # Null => h \in ToSet(consoles) \cup held
    BY <2>3 DEF Owned
  <2> QED
    BY <2>4, <2>5, <2>6 DEF OwnedOnce, Owned
<1> QED
  BY <1>1, ServiceInvariance, PTL

(* When MonitorMain waits and nothing is left to be done, a device that is *)
(* there has a console and a console has its device, one for each, but for *)
(* the devices and consoles that the history variables name: whatever the  *)
(* order in which MonitorEnumerate, MonitorAdd and MonitorRemove found     *)
(* them.                                                                   *)
THEOREM ConsolesMatchHolds == ServiceSpec => []ConsolesMatch
<1>1. ServiceIInv => ConsolesMatch
  <2> SUFFICES ASSUME ServiceIInv, main = "wait", ~stop,
                      handler = Idle, notices = << >>, ~undefined
               PROVE  /\ \A d \in present \ (failed \cup asked) : On(d) # {}
                      /\ \A h \in ToSet(consoles) \ missed : open[h] \in present
                      /\ \A d \in Devices \ twice : Cardinality(On(d) \ missed) <= 1
    BY DEF ConsolesMatch
  <2> USE DEF ServiceIInv
  <2>0. \A h : ~Destroys(h) /\ \A x : ~Contains(notices, x)
    BY EmptyMembers DEF Destroys, Idle
  <2>1. ASSUME NEW d \in present \ (failed \cup asked) PROVE On(d) # {}
    BY <2>0 DEF Covered, ToCome, NotYet, On, Early
  <2>2. ASSUME NEW h \in ToSet(consoles) \ missed PROVE open[h] \in present
    <3>1. h \in Handles /\ Contains(consoles, h)
      BY SetMembers DEF ServiceTypeOK
    <3> QED
      BY <2>0, <3>1 DEF Noticed, Owned, Held
  <2>3. ASSUME NEW d \in Devices \ twice PROVE Cardinality(On(d) \ missed) <= 1
    <3>1. \A g, h \in On(d) \ missed : g = h
      BY <2>0 DEF Single, SingleOf, On
    <3>2. CASE On(d) \ missed = {}
      <4>1. Cardinality({}) = 0
        BY FS_EmptySet
      <4> QED
        BY ONLY <3>2, <4>1
    <3>3. CASE On(d) \ missed # {}
      <4>1. PICK h : On(d) \ missed = {h}
        BY <3>1, <3>3
      <4>2. Cardinality({h}) = 1
        BY FS_Singleton
      <4> QED
        BY ONLY <4>1, <4>2
    <3> QED
      BY <3>2, <3>3
  <2> QED
    BY <2>1, <2>2, <2>3
<1> QED
  BY <1>1, ServiceInvariance, PTL

-----------------------------------------------------------------------------
(***************************************************************************)
(* The program at the console, module Tty, for any sizes.                  *)
(***************************************************************************)
(* Where the program is.                                                   *)
Sessions == Prompts \cup {"logon", "child", "ended"}

(* A line that is still read has room, and has not ended.                  *)
Open ==
  got = "reading" => /\ Len(line) < Size(session)
                     /\ \A i \in 1 .. Len(line) : line[i] \notin Ends

(* What is sent is a line that ended, with a line feed.                    *)
SentLine == Len(sent) <= MaxLine /\ (sent # << >> => Last(Front(sent)) = "^M")

(* The line is what has been typed, edited; the characters not looked at,  *)
(* those looked at, and the line fit what bounds them.                     *)
Typing ==
  /\ line \in Seq(Chars \ {"DEL"}) /\ Len(line) <= Size(session)
  /\ typed \in Seq(Chars) /\ sequence \in Seq(Chars) /\ Len(sequence) <= MaxRead
  /\ Len(typed) + Len(sequence) <= MaxTyped
  /\ got \in {"reading", "line", "failed"}
  /\ line = Edited(typed) /\ columns = Columns(line, NoEcho)
  /\ \A i \in 1 .. Len(line) - 1 : line[i] \notin Ends
  /\ got = "line" => /\ line # << >>
                     /\ Last(line) \in Ends \/ Len(line) = Size(session)

Outside ==
  /\ session \in Sessions
  /\ sent \in Seq((Chars \ {"DEL"}) \cup {"LF"})
  /\ output \in BOOLEAN

TtyIInv == Typing /\ Open /\ Outside /\ SentLine

(* The lines GetLine makes, and what a character does to one.              *)
Lines == Seq(Chars \ {"DEL"})

Edit(l, c) == IF c # "DEL" THEN Append(l, c) ELSE IF l = << >> THEN << >> ELSE Front(l)

Edits(s) == [p \in Lines \X (1 .. Len(s)) |-> Edit(p[1], s[p[2]])]

(* Editing makes lines of lines.                                           *)
LEMMA EditType ==
  ASSUME NEW l \in Lines, NEW c \in Chars
  PROVE  Edit(l, c) \in Lines
<1>1. CASE c # "DEL"
  BY <1>1, AppendProperties DEF Edit, Lines
<1>2. CASE c = "DEL" /\ l = << >>
  BY <1>2 DEF Edit
<1>3. CASE c = "DEL" /\ l # << >>
  BY <1>3, FrontLast DEF Edit, Lines
<1> QED
  BY <1>1, <1>2, <1>3

(* The recursion of Edited has a solution, which gives its value.          *)
LEMMA EditedSolves ==
  ASSUME NEW s \in Seq(Chars)
  PROVE  \E f : Solves(f, Len(s), Lines, << >>, Edits(s)) /\ Edited(s) = f[Len(s)]
<1> DEFINE f == CHOOSE f : f = [n \in 0 .. Len(s) |->
                   IF n = 0 THEN << >>
                   ELSE IF s[n] # "DEL" THEN Append(f[n - 1], s[n])
                   ELSE IF f[n - 1] = << >> THEN << >> ELSE Front(f[n - 1])]
<1>1. Len(s) \in Nat /\ \A k \in 1 .. Len(s) : s[k] \in Chars
  BY LenProperties, ElementOfSeq
<1>2. Edited(s) = f[Len(s)]
  BY Zenon DEF Edited, Front, Front
<1>3. << >> \in Lines /\ Edits(s) \in [Lines \X (1 .. Len(s)) -> Lines]
  <2>1. \A p \in Lines \X (1 .. Len(s)) : Edit(p[1], s[p[2]]) \in Lines
    BY <1>1, EditType
  <2> QED
    BY <2>1 DEF Edits, Lines
<1>4. PICK g : Solves(g, Len(s), Lines, << >>, Edits(s))
  BY <1>1, <1>3, RangeRecursion
<1>5. /\ g \in [0 .. Len(s) -> Lines] /\ g[0] = << >>
      /\ \A n \in 1 .. Len(s) : g[n] = Edits(s)[<<g[n - 1], n>>]
  BY <1>4 DEF Solves
<1>6. ASSUME NEW n \in 1 .. Len(s)
      PROVE  Edits(s)[<<g[n - 1], n>>] = Edit(g[n - 1], s[n])
  <2>1. n - 1 \in 0 .. Len(s)
    BY <1>1
  <2>2. g[n - 1] \in Lines
    BY <1>5, <2>1
  <2> QED
    BY <2>2 DEF Edits
<1>7. f = [n \in 0 .. Len(s) |-> IF n = 0 THEN << >> ELSE Edit(f[n - 1], s[n])]
  <2>1. g = [n \in 0 .. Len(s) |-> IF n = 0 THEN << >> ELSE Edit(g[n - 1], s[n])]
    <3>1. \A n \in 0 .. Len(s) : n # 0 => n \in 1 .. Len(s)
      BY <1>1
    <3> QED
      BY <1>5, <1>6, <3>1
  <2> QED
    BY <2>1 DEF Edit
<1> HIDE DEF f
<1>8. f \in [0 .. Len(s) -> Lines]
  <2> DEFINE T == {n \in 0 .. Len(s) : f[n] \in Lines}
  <2>1. 0 \in T
    BY <1>1, <1>3, <1>7
  <2>2. ASSUME NEW n \in 1 .. Len(s), n - 1 \in T PROVE n \in T
    BY <1>1, <1>7, <2>2, EditType
  <2> HIDE DEF T
  <2>3. 0 .. Len(s) \subseteq T
    BY <1>1, <2>1, <2>2, RangeInduction
  <2> QED
    BY <1>7, <2>3 DEF T
<1>9. Solves(f, Len(s), Lines, << >>, Edits(s))
  <2>1. f[0] = << >>
    BY <1>1, <1>7
  <2>2. ASSUME NEW n \in 1 .. Len(s) PROVE f[n] = Edits(s)[<<f[n - 1], n>>]
    <3>1. n \in 0 .. Len(s) /\ n # 0 /\ n - 1 \in 0 .. Len(s)
      BY <1>1
    <3>2. f[n] = Edit(f[n - 1], s[n])
      BY <1>7, <3>1
    <3> QED
      BY <1>8, <3>1, <3>2 DEF Edits
  <2> QED
    BY <1>8, <2>1, <2>2 DEF Solves
<1> QED
  BY <1>2, <1>9

(* What has been typed last is edited last.                                *)
LEMMA EditedAppend ==
  ASSUME NEW s \in Seq(Chars), NEW c \in Chars
  PROVE  Edited(s) \in Lines /\ Edited(Append(s, c)) = Edit(Edited(s), c)
<1> DEFINE t == Append(s, c)
           m == Len(s)
<1>1. /\ t \in Seq(Chars) /\ m \in Nat /\ Len(t) = m + 1 /\ t[m + 1] = c
      /\ \A k \in 1 .. m : t[k] = s[k]
  BY AppendProperties
<1> HIDE DEF t
<1>2. PICK f : Solves(f, m, Lines, << >>, Edits(s)) /\ Edited(s) = f[m]
  BY EditedSolves
<1>3. PICK g : Solves(g, m + 1, Lines, << >>, Edits(t)) /\ Edited(t) = g[m + 1]
  BY <1>1, EditedSolves
<1>4. \A l \in Lines : \A k \in 1 .. m : Edits(s)[<<l, k>>] = Edits(t)[<<l, k>>]
  BY <1>1 DEF Edits
<1>5. f[m] = g[m]
  <2>1. m \in Nat /\ m + 1 \in Nat /\ m <= m + 1
    BY <1>1
  <2> HIDE DEF m
  <2> QED
    BY <1>2, <1>3, <1>4, <2>1, SolutionsAgree
<1>6. f[m] \in Lines /\ g[m + 1] = Edits(t)[<<g[m], m + 1>>]
  <2>1. m \in 0 .. m /\ m + 1 \in 1 .. m + 1 /\ (m + 1) - 1 = m
    BY <1>1
  <2> QED
    BY <1>2, <1>3, <2>1 DEF Solves
<1>7. Edits(t)[<<g[m], m + 1>>] = Edit(g[m], t[m + 1])
  <2>1. m + 1 \in 1 .. Len(t) /\ g[m] \in Lines
    BY <1>1, <1>5, <1>6
  <2> QED
    BY <2>1 DEF Edits
<1> QED
  BY <1>1, <1>2, <1>3, <1>5, <1>6, <1>7 DEF t

(* What the characters of a line add to the columns it takes.              *)
Widths(l, h) == [p \in Nat \X (1 .. Len(l)) |-> p[1] + Width(l[p[2]], h)]

(* So has the recursion of Columns.                                        *)
LEMMA ColumnsSolves ==
  ASSUME NEW l \in Lines, NEW h
  PROVE  \E f : Solves(f, Len(l), Nat, 0, Widths(l, h)) /\ Columns(l, h) = f[Len(l)]
<1> DEFINE f == CHOOSE f : f = [n \in 0 .. Len(l) |->
                   IF n = 0 THEN 0 ELSE f[n - 1] + Width(l[n], h)]
<1>1. Len(l) \in Nat /\ \A c : Width(c, h) \in Nat
  BY LenProperties DEF Lines, Width
<1>2. Columns(l, h) = f[Len(l)]
  BY Zenon DEF Columns
<1>3. Widths(l, h) \in [Nat \X (1 .. Len(l)) -> Nat]
  BY <1>1 DEF Widths
<1>4. PICK g : Solves(g, Len(l), Nat, 0, Widths(l, h))
  BY <1>1, <1>3, RangeRecursion
<1>5. /\ g \in [0 .. Len(l) -> Nat] /\ g[0] = 0
      /\ \A n \in 1 .. Len(l) : g[n] = Widths(l, h)[<<g[n - 1], n>>]
  BY <1>4 DEF Solves
<1>6. ASSUME NEW n \in 1 .. Len(l)
      PROVE  Widths(l, h)[<<g[n - 1], n>>] = g[n - 1] + Width(l[n], h)
  <2>1. n - 1 \in 0 .. Len(l)
    BY <1>1
  <2>2. g[n - 1] \in Nat
    BY <1>5, <2>1
  <2> QED
    BY <2>2 DEF Widths
<1>7. f = [n \in 0 .. Len(l) |-> IF n = 0 THEN 0 ELSE f[n - 1] + Width(l[n], h)]
  <2>1. g = [n \in 0 .. Len(l) |-> IF n = 0 THEN 0 ELSE g[n - 1] + Width(l[n], h)]
    <3>1. \A n \in 0 .. Len(l) : n # 0 => n \in 1 .. Len(l)
      BY <1>1
    <3> QED
      BY <1>5, <1>6, <3>1
  <2> QED
    BY <2>1
<1> HIDE DEF f
<1>8. f \in [0 .. Len(l) -> Nat]
  <2> DEFINE T == {n \in 0 .. Len(l) : f[n] \in Nat}
  <2>1. 0 \in T
    BY <1>1, <1>7
  <2>2. ASSUME NEW n \in 1 .. Len(l), n - 1 \in T PROVE n \in T
    BY <1>1, <1>7, <2>2
  <2> HIDE DEF T
  <2>3. 0 .. Len(l) \subseteq T
    BY <1>1, <2>1, <2>2, RangeInduction
  <2> QED
    BY <1>7, <2>3 DEF T
<1>9. Solves(f, Len(l), Nat, 0, Widths(l, h))
  <2>1. f[0] = 0
    BY <1>1, <1>7
  <2>2. ASSUME NEW n \in 1 .. Len(l) PROVE f[n] = Widths(l, h)[<<f[n - 1], n>>]
    <3>1. n \in 0 .. Len(l) /\ n # 0 /\ n - 1 \in 0 .. Len(l)
      BY <1>1
    <3>2. f[n] = f[n - 1] + Width(l[n], h)
      BY <1>7, <3>1
    <3> QED
      BY <1>8, <3>1, <3>2 DEF Widths
  <2> QED
    BY <1>8, <2>1, <2>2 DEF Solves
<1> QED
  BY <1>2, <1>9

(* A character takes its width, at most two columns.                       *)
LEMMA ColumnsAppend ==
  ASSUME NEW l \in Lines, NEW c \in Chars \ {"DEL"}, NEW h
  PROVE  /\ Columns(l, h) \in 0 .. 2 * Len(l)
         /\ Columns(Append(l, c), h) = Columns(l, h) + Width(c, h)
<1> DEFINE t == Append(l, c)
           m == Len(l)
<1>1. /\ t \in Lines /\ m \in Nat /\ Len(t) = m + 1 /\ t[m + 1] = c
      /\ \A k \in 1 .. m : t[k] = l[k]
  BY AppendProperties DEF Lines
<1> HIDE DEF t
<1>2. PICK f : Solves(f, m, Nat, 0, Widths(l, h)) /\ Columns(l, h) = f[m]
  BY ColumnsSolves
<1>3. PICK g : Solves(g, m + 1, Nat, 0, Widths(t, h)) /\ Columns(t, h) = g[m + 1]
  BY <1>1, ColumnsSolves
<1>4. \A a \in Nat : \A k \in 1 .. m : Widths(l, h)[<<a, k>>] = Widths(t, h)[<<a, k>>]
  BY <1>1 DEF Widths
<1>5. f[m] = g[m]
  <2>1. m \in Nat /\ m + 1 \in Nat /\ m <= m + 1
    BY <1>1
  <2> HIDE DEF m
  <2> QED
    BY <1>2, <1>3, <1>4, <2>1, SolutionsAgree
<1>6. f[m] \in Nat /\ g[m + 1] = Widths(t, h)[<<g[m], m + 1>>]
  <2>1. m \in 0 .. m /\ m + 1 \in 1 .. m + 1 /\ (m + 1) - 1 = m
    BY <1>1
  <2> QED
    BY <1>2, <1>3, <2>1 DEF Solves
<1>7. Widths(t, h)[<<g[m], m + 1>>] = g[m] + Width(t[m + 1], h)
  <2>1. m + 1 \in 1 .. Len(t) /\ g[m] \in Nat
    BY <1>1, <1>5, <1>6
  <2> QED
    BY <2>1 DEF Widths
<1>8. f[m] <= 2 * m
  <2> DEFINE T == {k \in 0 .. m : f[k] <= 2 * k}
  <2>1. 0 \in T
    BY <1>1, <1>2 DEF Solves
  <2>2. ASSUME NEW k \in 1 .. m, k - 1 \in T PROVE k \in T
    <3>1. k - 1 \in 0 .. m /\ k \in 0 .. m
      BY <1>1
    <3>2. f[k - 1] \in Nat /\ f[k] = Widths(l, h)[<<f[k - 1], k>>]
      BY <1>2, <3>1 DEF Solves
    <3>3. f[k] = f[k - 1] + Width(l[k], h)
      BY <3>2 DEF Widths
    <3>4. Width(l[k], h) \in 0 .. 2
      BY DEF Width
    <3> QED
      BY <1>1, <2>2, <3>1, <3>2, <3>3, <3>4
  <2> HIDE DEF T
  <2>3. 0 .. m \subseteq T
    BY <1>1, <2>1, <2>2, RangeInduction
  <2> QED
    BY <1>1, <2>3 DEF T
<1> QED
  BY <1>1, <1>2, <1>3, <1>5, <1>6, <1>7, <1>8 DEF t

(* An empty line takes none.                                               *)
LEMMA EmptyLine ==
  ASSUME NEW h
  PROVE  << >> \in Lines /\ Edited(<< >>) = << >> /\ Columns(<< >>, h) = 0
<1>1. << >> \in Lines /\ << >> \in Seq(Chars) /\ Len(<< >>) = 0
  BY DEF Lines
<1>2. PICK f : Solves(f, 0, Lines, << >>, Edits(<< >>)) /\ Edited(<< >>) = f[0]
  BY <1>1, EditedSolves
<1>3. PICK g : Solves(g, 0, Nat, 0, Widths(<< >>, h)) /\ Columns(<< >>, h) = g[0]
  BY <1>1, ColumnsSolves
<1> QED
  BY <1>1, <1>2, <1>3 DEF Solves

(* GetLine begins a new line with nothing in it.                           *)
LEMMA GoesNew ==
  ASSUME TtyIInv, NEW from, NEW to \in Sessions, SessionGoes(from, to)
  PROVE  Typing' /\ Open' /\ session' = to
<1>1. /\ line' = << >> /\ typed' = << >> /\ sequence' = << >> /\ columns' = 0
      /\ got' = "reading" /\ session' = to
  BY DEF SessionGoes
<1>2. /\ << >> \in Seq(Chars \ {"DEL"}) /\ << >> \in Seq(Chars) /\ Len(<< >>) = 0
      /\ Edited(<< >>) = << >> /\ Columns(<< >>, NoEcho') = 0
  BY EmptyLine DEF Lines
<1>3. Size(session') \in Nat \ {0}
  BY TtyAssumption DEF TtyIInv, Size
<1>4. Open'
  BY <1>1, <1>2, <1>3 DEF Open
<1>5. Typing'
  BY <1>1, <1>2, <1>3, TtyAssumption DEF TtyIInv, Typing
<1> QED
  BY <1>1, <1>4, <1>5

(* A character stored, or one taken away, as the line is edited.           *)
LEMMA CharacterStep == TtyIInv /\ Character => Typing' /\ Open' /\ session' = session
<1> SUFFICES ASSUME TtyIInv, Character PROVE Typing' /\ Open'
  BY DEF Character
<1> DEFINE c == Head(sequence)
<1>1. /\ session' = session /\ NoEcho' = NoEcho
      /\ typed' = Append(typed, c) /\ sequence # << >>
      /\ got = "reading"
  BY DEF Character, Reading, NoEcho
<1>2. /\ line \in Lines /\ typed \in Seq(Chars) /\ sequence \in Seq(Chars)
      /\ line = Edited(typed) /\ columns = Columns(line, NoEcho)
      /\ Len(line) \in Nat /\ Len(typed) \in Nat /\ Len(sequence) \in Nat \ {0}
      /\ Len(line) < Size(session)
      /\ \A i \in 1 .. Len(line) : line[i] \notin Ends
      /\ Len(sequence) <= MaxRead /\ Len(typed) + Len(sequence) <= MaxTyped
  BY <1>1, LenProperties DEF TtyIInv, Typing, Open, Lines
<1>3. /\ c \in Chars /\ Tail(sequence) \in Seq(Chars)
      /\ Len(Tail(sequence)) = Len(sequence) - 1
  BY <1>1, <1>2, HeadTailProperties
<1> HIDE DEF c
<1>4. /\ typed' \in Seq(Chars) /\ Len(typed') = Len(typed) + 1
      /\ Edited(typed') = Edit(line, c)
  BY <1>1, <1>2, <1>3, AppendProperties, EditedAppend
<1>5. Size(session) \in Nat \ {0} /\ MaxRead \in Nat /\ MaxTyped \in Nat
  BY TtyAssumption DEF TtyIInv, Size
<1>6. CASE c = "DEL"
  <2>1. Deleted
    BY <1>6 DEF Character, c
  <2>2. sequence' = Tail(sequence) /\ got' = got
    BY <2>1 DEF Deleted
  <2>3. CASE line = << >>
    <3>1. line' = line /\ columns' = columns /\ Edit(line, c) = line
      BY <1>6, <2>1, <2>3 DEF Deleted, Edit
    <3>2. Open'
      BY <1>1, <1>2, <2>2, <3>1 DEF Open
    <3>3. Typing'
      BY <1>1, <1>2, <1>3, <1>4, <1>5, <2>2, <3>1 DEF Typing, Lines
    <3> QED
      BY <3>2, <3>3
  <2>4. CASE line # << >>
    <3>1. /\ line' = Front(line) /\ columns' = columns - Width(Last(line), NoEcho)
          /\ Edit(line, c) = Front(line)
      BY <1>6, <2>1, <2>4 DEF Deleted, Edit
    <3>2. /\ Front(line) \in Lines /\ Len(Front(line)) = Len(line) - 1
          /\ \A i \in 1 .. Len(line) - 1 : Front(line)[i] = line[i]
          /\ Last(line) \in Chars \ {"DEL"} /\ line = Append(Front(line), Last(line))
      <4>1. line \in Seq(Chars \ {"DEL"})
        BY <1>2 DEF Lines
      <4> QED
        BY <2>4, <4>1, FrontLast DEF Lines
    <3>3. /\ columns = Columns(Front(line), NoEcho) + Width(Last(line), NoEcho)
          /\ Columns(Front(line), NoEcho) \in Nat
      <4>1. /\ Columns(Append(Front(line), Last(line)), NoEcho)
                 = Columns(Front(line), NoEcho) + Width(Last(line), NoEcho)
            /\ Columns(Front(line), NoEcho) \in 0 .. 2 * Len(Front(line))
        BY <3>2, ColumnsAppend
      <4>2. Columns(Append(Front(line), Last(line)), NoEcho) = columns
        BY <1>2, <3>2, Zenon
      <4>3. Len(Front(line)) \in Nat
        BY <1>2, <3>2
      <4> QED
        BY <4>1, <4>2, <4>3
    <3>4. columns' = Columns(Front(line), NoEcho)
      <4>1. Width(Last(line), NoEcho) \in Nat
        BY DEF Width
      <4> QED
        BY <3>1, <3>3, <4>1
    <3>5. Open'
      BY <1>1, <1>2, <2>2, <3>1, <3>2, <1>5 DEF Open
    <3>6. Typing'
      <4>1. /\ line' \in Seq(Chars \ {"DEL"}) /\ line' = Edited(typed')
            /\ columns' = Columns(line', NoEcho')
                 /\ Len(line') <= Size(session')
        BY <1>1, <1>2, <1>4, <1>5, <3>1, <3>2, <3>4 DEF Lines
      <4>2. ASSUME NEW i \in 1 .. Len(line') - 1 PROVE line'[i] \notin Ends
        <5>1. i \in 1 .. Len(line) /\ i \in 1 .. Len(line) - 1
          BY <1>2, <3>1, <3>2
        <5> QED
          BY <1>2, <3>1, <3>2, <5>1
      <4>3. /\ typed' \in Seq(Chars) /\ sequence' \in Seq(Chars)
            /\ Len(sequence') <= MaxRead /\ Len(typed') + Len(sequence') <= MaxTyped
        BY <1>2, <1>3, <1>4, <1>5, <2>2
      <4> QED
        BY <1>1, <2>2, <4>1, <4>2, <4>3 DEF Typing
    <3> QED
      BY <3>5, <3>6
  <2> QED
    BY <2>3, <2>4
<1>7. CASE c # "DEL"
  <2>1. Stored(c)
    BY <1>7 DEF Character, c
  <2>2. /\ line' = Append(line, c) /\ columns' = columns + Width(c, NoEcho)
        /\ Edit(line, c) = Append(line, c)
    BY <1>7, <2>1 DEF Stored, Edit
  <2>3. /\ line' \in Lines /\ line' # << >> /\ Len(line') = Len(line) + 1
        /\ line'[Len(line')] = c /\ \A i \in 1 .. Len(line) : line'[i] = line[i]
        /\ columns' = Columns(line', NoEcho)
    <3>1. line \in Seq(Chars \ {"DEL"}) /\ c \in Chars \ {"DEL"}
      BY <1>2, <1>3, <1>7 DEF Lines
    <3>2. /\ line' \in Lines /\ line' # << >> /\ Len(line') = Len(line) + 1
          /\ line'[Len(line) + 1] = c /\ \A i \in 1 .. Len(line) : line'[i] = line[i]
      BY <2>2, <3>1, AppendProperties DEF Lines
    <3>3. columns' = Columns(line', NoEcho)
      BY <1>2, <2>2, <3>1, ColumnsAppend
    <3> QED
      BY <3>2, <3>3
  <2>4. Last(line') = c
    BY <2>3 DEF Last
  <2>5. \/ /\ c \in Ends \/ Len(line') >= Size(session)
           /\ sequence' = << >> /\ got' = "line"
        \/ /\ c \notin Ends /\ ~(Len(line') >= Size(session))
           /\ sequence' = Tail(sequence) /\ got' = got
    BY <2>1, <2>3 DEF Stored
  <2>6. /\ sequence' \in Seq(Chars) /\ Len(sequence') <= Len(sequence) - 1
        /\ got' \in {"reading", "line"} /\ Len(sequence') \in Nat
    <3>1. << >> \in Seq(Chars) /\ Len(<< >>) = 0
      OBVIOUS
    <3>2. CASE sequence' = << >> /\ got' = "line"
      BY <1>2, <3>1, <3>2
    <3>3. CASE sequence' = Tail(sequence) /\ got' = got
      <4>1. Len(sequence') \in Nat /\ Len(sequence') <= Len(sequence) - 1
        BY <1>2, <1>3, <3>3
      <4> QED
        BY <1>1, <1>3, <3>3, <4>1
    <3> QED
      BY <2>5, <3>2, <3>3
  <2>7. Open'
    <3>1. SUFFICES ASSUME got' = "reading"
                   PROVE  /\ Len(line') < Size(session')
                          /\ \A i \in 1 .. Len(line') : line'[i] \notin Ends
      BY DEF Open
    <3>2. c \notin Ends /\ ~(Len(line') >= Size(session))
      BY <2>5, <3>1
    <3>3. \A i \in 1 .. Len(line') : i = Len(line') \/ i \in 1 .. Len(line)
      BY <1>2, <2>3
    <3> QED
      BY <1>1, <1>2, <1>5, <2>3, <3>2, <3>3
  <2>8. Typing'
    <3>1. /\ line' \in Seq(Chars \ {"DEL"}) /\ line' = Edited(typed')
          /\ columns' = Columns(line', NoEcho') /\ Len(line') <= Size(session')
      BY <1>1, <1>2, <1>4, <1>5, <2>2, <2>3 DEF Lines
    <3>2. \A i \in 1 .. Len(line') - 1 : line'[i] \notin Ends
      BY <1>2, <2>3
    <3>3. /\ typed' \in Seq(Chars) /\ sequence' \in Seq(Chars)
          /\ Len(sequence') <= MaxRead /\ Len(typed') + Len(sequence') <= MaxTyped
      BY <1>2, <1>4, <1>5, <2>6
    <3>4. got' = "line" => line' # << >>
         /\ (Last(line') \in Ends \/ Len(line') = Size(session'))
      <4>1. got' = "line" => c \in Ends \/ Len(line') >= Size(session)
        BY <1>1, <2>5
      <4> QED
        BY <1>1, <1>2, <1>5, <2>3, <2>4, <4>1
    <3> QED
      BY <2>6, <3>1, <3>2, <3>3, <3>4 DEF Typing
  <2> QED
    BY <2>7, <2>8
<1> QED
  BY <1>6, <1>7

(* The program begins with an empty line.                                  *)
LEMMA TtyIInvInit == TtyInit => TtyIInv
<1> SUFFICES ASSUME TtyInit PROVE TtyIInv
  OBVIOUS
<1>1. /\ line = << >> /\ typed = << >> /\ sequence = << >> /\ columns = 0
      /\ got = "reading" /\ session = "login" /\ sent = << >> /\ output = FALSE
  BY DEF TtyInit, GetLineInit
<1>2. /\ << >> \in Seq(Chars \ {"DEL"}) /\ << >> \in Seq(Chars) /\ Len(<< >>) = 0
      /\ << >> \in Seq((Chars \ {"DEL"}) \cup {"LF"})
      /\ Edited(<< >>) = << >> /\ Columns(<< >>, NoEcho) = 0
  BY EmptyLine DEF Lines
<1>3. Size(session) \in Nat \ {0} /\ MaxLine \in Nat
  BY TtyAssumption DEF Size
<1>4. Open
  BY <1>1, <1>2, <1>3 DEF Open
<1>5. Typing
  BY <1>1, <1>2, <1>3, TtyAssumption DEF Typing
<1>6. Outside
  BY <1>1, <1>2 DEF Outside, Sessions, Prompts
<1>7. SentLine
  BY <1>1, <1>2, <1>3 DEF SentLine
<1> QED
  BY <1>4, <1>5, <1>6, <1>7 DEF TtyIInv

(* Every step of the program, of its two threads and of the shell keeps    *)
(* the invariant.                                                          *)
LEMMA TtyIInvStep == TtyIInv /\ [TtyNext]_ttyVars => TtyIInv'
<1> SUFFICES ASSUME TtyIInv, [TtyNext]_ttyVars PROVE TtyIInv'
  OBVIOUS
<1>1. CASE UNCHANGED ttyVars
  BY <1>1 DEF ttyVars, TtyIInv, Typing, Open, Outside, SentLine, NoEcho
<1>2. CASE ReadFile
  <2>1. /\ session' = session /\ line' = line /\ columns' = columns /\ typed' = typed
        /\ sent' = sent /\ output' = output /\ NoEcho' = NoEcho
        /\ got = "reading" /\ sequence = << >>
    BY <1>2 DEF ReadFile, Reading, NoEcho
  <2>2. /\ sequence' \in Seq(Chars) /\ Len(sequence') <= MaxRead
        /\ Len(typed) + Len(sequence') <= MaxTyped
        /\ got' \in {"reading", "failed"}
    <3>1. CASE got' = "failed" /\ sequence' = sequence
      BY <2>1, <3>1 DEF TtyIInv, Typing
    <3>2. CASE /\ got' = got
               /\ \E n \in 0 .. MaxRead : /\ Len(typed) + n <= MaxTyped
                                          /\ sequence' \in [1 .. n -> Chars]
      <4>1. PICK n \in 0 .. MaxRead : /\ Len(typed) + n <= MaxTyped
                                      /\ sequence' \in [1 .. n -> Chars]
        BY <3>2
      <4>2. sequence' \in Seq(Chars) /\ Len(sequence') = n
        BY <4>1, TtyAssumption DEF TtyIInv
      <4> QED
        BY <2>1, <3>2, <4>1, <4>2
    <3> QED
      BY <1>2, <3>1, <3>2 DEF ReadFile
  <2> QED
    BY <2>1, <2>2 DEF TtyIInv, Typing, Open, Outside, SentLine
<1>3. CASE Character
  <2>1. sent' = sent /\ output' = output
    BY <1>3 DEF Character
  <2> QED
    BY <1>3, <2>1, CharacterStep DEF TtyIInv, Outside, SentLine
<1>4. CASE Login \/ Password \/ LogonUser \/ RequestElevation
     \/ CreateChild
           \/ TtyInFails \/ TtyOutFails \/ ChildExits
  <2>1. /\ sent' = sent /\ output' = output
        /\ \E from : \E to \in Sessions : SessionGoes(from, to)
    BY <1>4
       DEF Sessions, Login, Password, LogonUser, RequestElevation,
           CreateChild, TtyInFails, TtyOutFails, ChildExits, Prompts
  <2>2. PICK from : \E to \in Sessions : SessionGoes(from, to)
    BY <2>1
  <2>3. /\ Typing' /\ Open'
        /\ session' \in Sessions
    BY <2>2, GoesNew
  <2> QED
    BY <2>1, <2>3 DEF TtyIInv, Outside, SentLine
<1>5. CASE TtyInLine
  <2>1. SessionGoes("shell", "shell") /\ got = "line" /\ output' = output
       /\ session = "shell"
    BY <1>5 DEF TtyInLine, SessionGoes
  <2>2. Typing' /\ Open' /\ session' = "shell"
    BY <2>1, GoesNew DEF Sessions, Prompts
  <2>3. CASE sent' = sent
    BY <2>1, <2>2, <2>3 DEF TtyIInv, Outside, SentLine
  <2>4. CASE Terminated /\ sent' = Append(line, "LF")
    <3> DEFINE S == (Chars \ {"DEL"}) \cup {"LF"}
    <3>1. /\ line \in Seq(Chars \ {"DEL"}) /\ line # << >> /\ Last(line) = "^M"
          /\ Len(line) \in Nat \ {0} /\ Len(line) <= MaxLine - 1
      BY <2>1, <2>4, FrontLast DEF TtyIInv, Typing, Terminated, Size
    <3>2. line \in Seq(S)
      BY <3>1
    <3>3. /\ sent' \in Seq(S) /\ Len(sent') = Len(line) + 1 /\ sent' # << >>
          /\ \A i \in 1 .. Len(line) : sent'[i] = line[i]
      BY <2>4, <3>2, AppendProperties
    <3>4. Last(Front(sent')) = "^M"
      <4>1. /\ Len(Front(sent')) = Len(line)
                 /\ Front(sent')[Len(line)] = sent'[Len(line)]
        BY <3>1, <3>3, FrontLast
      <4>2. sent'[Len(line)] = line[Len(line)]
        BY <3>1, <3>3
      <4> QED
        BY <3>1, <4>1, <4>2 DEF Last
    <3>5. Len(sent') <= MaxLine
      BY <3>1, <3>3, TtyAssumption DEF TtyIInv
    <3>6. SentLine'
      BY <3>4, <3>5 DEF SentLine
    <3>7. Outside'
      BY <2>1, <2>2, <3>3 DEF TtyIInv, Outside, Prompts
    <3> QED
      BY <2>2, <3>6, <3>7 DEF TtyIInv
  <2> QED
    BY <1>5, <2>3, <2>4 DEF TtyInLine
<1>6. CASE ChildWrites \/ TtyOut
  <2>1. /\ UNCHANGED <<session, line, sequence, columns, got, typed, sent>>
        /\ output' \in BOOLEAN
    BY <1>6 DEF ChildWrites, TtyOut
  <2> QED
    BY <2>1 DEF TtyIInv, Typing, Open, Outside, SentLine, NoEcho
<1> QED
  BY <1>1, <1>2, <1>3, <1>4, <1>5, <1>6 DEF TtyNext

(* The invariant of the program at the console holds in every reachable    *)
(* state.                                                                  *)
THEOREM TtyInvariance == TtySpec => []TtyIInv
<1> QED
  BY TtyIInvInit, TtyIInvStep, PTL DEF TtySpec

(* GetLine has edited what was typed as it is to be, however long and      *)
(* however the reads cut it up; the console shows what the buffer holds;   *)
(* what GetLine returns, and what TtyIn sends to the shell, is one line    *)
(* that fits the buffer.                                                   *)
THEOREM LineEditedHolds == TtySpec => []LineEdited
<1>1. TtyIInv => LineEdited
  <2> SUFFICES ASSUME TtyIInv PROVE LineEdited
    OBVIOUS
  <2>1. line \in Lines /\ Len(line) \in Nat /\ Len(typed) \in Nat
       /\ Len(sequence) \in Nat
    BY LenProperties DEF TtyIInv, Typing, Lines
  <2>2. Size(session) \in Nat /\ Size(session) <= MaxLine /\ MaxLine \in Nat
    BY TtyAssumption DEF TtyIInv, Size
  <2>3. "a" \in Chars \ {"DEL"}
    BY DEF Chars
  <2>4. Columns(line, NoEcho) \in 0 .. 2 * Len(line)
    BY <2>1, <2>3, ColumnsAppend
  <2>5. columns \in 0 .. (2 * MaxLine)
    BY <2>1, <2>2, <2>4 DEF TtyIInv, Typing
  <2>6. Len(typed) <= MaxTyped
    BY <2>1, TtyAssumption DEF TtyIInv, Typing
  <2>7. TtyTypeOK
    BY <2>5, <2>6 DEF TtyIInv, Typing, Outside, Sessions, TtyTypeOK
  <2> QED
    BY <2>7 DEF TtyIInv, Typing, SentLine, LineEdited
<1> QED
  BY <1>1, TtyInvariance, PTL
=============================================================================
