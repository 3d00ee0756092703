-------------------------------- MODULE Pnp ---------------------------------
(***************************************************************************)
(* The life of the driver's device objects: the function device object     *)
(* (FDO, src/xencons/fdo.c) of the bus that XENBUS presents, and the       *)
(* physical device objects (PDOs, src/xencons/pdo.c) of its consoles.  The *)
(* PDO of the default console is made with the FDO; a scan thread makes    *)
(* the others, and marks them missing, as the store's device/console       *)
(* directory says.  The PnP manager has one IRP in progress at a time; the *)
(* scan thread, the toolstack, and a console that asks to be ejected act   *)
(* at any time.  What is done under Fdo->Mutex is one step.  The FDO holds *)
(* a reference to the console of each PDO while it is powered.             *)
(***************************************************************************)
EXTENDS Integers, FiniteSets

CONSTANTS Pdos,         \* the PDOs that may exist at a time
          Default,      \* the PDO of the default console
          Names,        \* the names that device/console may hold
          NoName,       \* the name of the default console
          Cases,        \* the sets of hazards to consider, see races
          MaxDowns      \* how often a bus in use may be powered down

ASSUME PnpAssumption == /\ Default \in Pdos
                        /\ \A c \in Cases : c \subseteq {"gap", "missing", "query", "memory",
                                                       "directory"}
                        /\ IsFiniteSet(Pdos)
                        /\ NoName \notin Names
                        /\ MaxDowns \in Nat

VARIABLES fdoState,     \* the FDO's DevicePnpState
          fdoPrev,      \* and PreviousDevicePnpState
          fdoPower,     \* and DevicePowerState; the store is held in D0
          references,   \* Fdo->References
          gone,         \* whether the FDO has been destroyed
          list,         \* the PDOs on the FDO's list
          state,        \* each PDO's DevicePnpState
          prev,         \* and PreviousDevicePnpState
          power,        \* and DevicePowerState
          missing,      \* Pdo->Missing
          eject,        \* Pdo->Eject
          refs,         \* the references to the PDO's console
          name,         \* the PDO's name
          scan,         \* where FdoScan is, "off" when there is no thread
          event,        \* the scan thread's event
          alerted,      \* whether the scan thread is to terminate
          scanned,      \* Fdo->ScanEvent
          devices,      \* what the scan thread has read of the directory
          directory,    \* the store's device/console
          invalid,      \* the bus relations are to be queried
          relations,    \* the answer to the query in progress
          reported,     \* the last answer the PnP manager was given
          devnodes,     \* the PDOs the PnP manager may send IRPs to
          ejecting,     \* how far the PnP manager is with the eject of each
          pnp,          \* where the IRP in progress is
          downs,        \* how often the bus has been powered down
          races         \* the hazards considered (constant)

fdoVars   == <<fdoState, fdoPrev, fdoPower, references, gone, list>>
pdoVars   == <<state, prev, power, missing, eject, refs, name>>
scanVars  == <<scan, event, alerted, scanned, devices>>
pnpVars   == <<invalid, relations, reported, devnodes, ejecting, pnp>>
envVars   == <<directory, downs, races>>
vars      == <<fdoVars, pdoVars, scanVars, pnpVars, envVars>>

(* The hazards of races: "gap", the scan enumerates between the halves of  *)
(* a change of the FDO's power; "missing", the FDO is powered down with a  *)
(* missing PDO on its list; "query", the scan thread is woken while a      *)
(* query of the FDO is unanswered; "memory", memory runs out; "directory", *)
(* device/console cannot be read, at any of the times it is to be.         *)
PnpStates == {"Invalid", "Present", "Enumerated", "Added", "Started",
              "StopPending", "Stopped", "RemovePending",
              "SurpriseRemovePending", "Deleted"}

(* FdoCreate, in which PdoCreate makes the default PDO. *)
Init == /\ fdoState = "Added" /\ fdoPrev = "Invalid" /\ fdoPower = "D3"
        /\ references = 2
        /\ gone = FALSE
        /\ list = {Default}
        /\ state = [p \in Pdos |-> IF p = Default THEN "Present" ELSE "Invalid"]
        /\ prev = [p \in Pdos |-> "Invalid"]
        /\ power = [p \in Pdos |-> "D3"]
        /\ missing = [p \in Pdos |-> FALSE]
        /\ eject = [p \in Pdos |-> FALSE]
        /\ refs = [p \in Pdos |-> 0]
        /\ name = [p \in Pdos |-> NoName]
        /\ scan = "off" /\ event = FALSE /\ alerted = FALSE /\ scanned = FALSE
        /\ devices = {}
        /\ directory \in SUBSET Names
        /\ invalid = FALSE
        /\ relations = {} /\ reported = {} /\ devnodes = {}
        /\ ejecting = [p \in Pdos |-> "no"]
        /\ pnp = "idle"
        /\ downs = 0
        /\ races \in Cases

SetFdoState(s) == fdoState' = s /\ fdoPrev' = fdoState

(* PdoSetDevicePnpState and PdoSetMissing, of a set of PDOs; the previous  *)
(* state matters only while it may be restored.                            *)
SetState(S, s) ==
  /\ state' = [p \in Pdos |-> IF p \in S THEN s ELSE state[p]]
  /\ prev' = [p \in Pdos |->
               IF p \in S /\ s \in {"StopPending", "RemovePending"}
               THEN state[p] ELSE "Invalid"]

SetMissing(S) == missing' = [p \in Pdos |-> missing[p] \/ p \in S]

(* PdoResume and PdoSuspend, of a set of PDOs. *)
Resumed(S)   == [p \in Pdos |-> refs[p] + (IF p \in S THEN 1 ELSE 0)]
Suspended(S) == [p \in Pdos |-> refs[p] - (IF p \in S THEN 1 ELSE 0)]

Wakes(S) == S # {} /\ scan # "off"

(* Mutation of Released: a PDO is taken off the list of a powered FDO      *)
(* without being suspended.                                                *)
ReleasedNot(S) == refs

(* FdoRemovePhysicalDeviceObject: what becomes of the references. *)
Released(S) == IF fdoPower = "D3" THEN refs ELSE Suspended(S)

(* Mutation of Destroy: the scan thread is not woken.                      *)
DestroySilently(S) ==
  /\ list' = list \ S
  /\ references' = references - Cardinality(S)
  /\ refs' = Released(S)
  /\ missing' = [p \in Pdos |-> missing[p] /\ p \notin S]
  /\ eject' = [p \in Pdos |-> eject[p] /\ p \notin S]
  /\ name' = [p \in Pdos |-> IF p \in S THEN NoName ELSE name[p]]
  /\ UNCHANGED event

(* PdoDestroy; the caller sets the PnP states, "Invalid" for these. *)
Destroy(S) ==
  /\ list' = list \ S
  /\ references' = references - Cardinality(S)
  /\ refs' = Released(S)
  /\ missing' = [p \in Pdos |-> missing[p] /\ p \notin S]
  /\ eject' = [p \in Pdos |-> eject[p] /\ p \notin S]
  /\ name' = [p \in Pdos |-> IF p \in S THEN NoName ELSE name[p]]
  /\ event' = (event \/ Wakes(S))

-----------------------------------------------------------------------------
(* FdoScan.                                                                *)

ScanWait ==
  /\ scan = "wait"
  /\ event
  /\ event' = FALSE
  /\ scan' = "check"
  /\ UNCHANGED <<fdoVars, pdoVars, alerted, scanned, devices, pnpVars, envVars>>

Queried == pnp = "query" /\ fdoState # "Started"

ScanCheck ==
  /\ scan = "check"
  /\ Queried => "query" \in races
  /\ scan' = IF alerted THEN "exited"
             ELSE IF fdoState # "Started" THEN "wait" ELSE "read"
  /\ scanned' = (scanned \/ alerted \/ fdoState # "Started")
  /\ UNCHANGED <<fdoVars, pdoVars, event, alerted, devices, pnpVars, envVars>>

(* The directory is read; or the call fails, or there is no memory for the *)
(* list of names.                                                          *)
ScanRead ==
  /\ scan = "read"
  /\ \/ scan' = "enumerate" /\ devices' = directory /\ UNCHANGED scanned
     \/ /\ races \cap {"memory", "directory"} # {}
        /\ scan' = "wait"
        /\ scanned' = TRUE
        /\ UNCHANGED devices
  /\ UNCHANGED <<fdoVars, pdoVars, event, alerted, pnpVars, envVars>>

(* The two halves of a change of power are apart here. *)
Gap == pnp \in {"start", "stop", "remove power", "sleep", "waking"}

(* PdoCreate, for a name each: it may run out of memory. *)
Creations(wanted) ==
  LET free == {p \in Pdos \ list : p # Default}
  IN  UNION {{f \in [made -> free] : \A m, n \in made : m # n => f[m] # f[n]} :
               made \in IF "memory" \in races THEN SUBSET wanted ELSE {wanted}}

Candidates == {p \in list \ {Default} : state[p] # "Deleted"}

(* Mutations of Wanted and Unreported: a device that there is a PDO for is *)
(* created again, and a PDO that was reported is destroyed at once.        *)
WantedAgain == {n \in devices : \A p \in Candidates : name[p] = n => missing[p]}
UnreportedToo(S) == {p \in S : state[p] \in {"Present", "Enumerated"}}

Wanted == devices \ {name[p] : p \in Candidates}
Unreported(S) == {p \in S : state[p] = "Present"}

(* __FdoEnumerate and the rest of the pass. *)
ScanEnumerate ==
  LET present == {p \in Candidates : ~missing[p]}
      absent  == {p \in present : ~eject[p] /\ name[p] \notin devices}
      deleted == Unreported(absent)
  IN
  /\ scan = "enumerate"
  /\ Gap => "gap" \in races
  /\ \E f \in Creations(Wanted) :
       LET made   == {f[n] : n \in DOMAIN f}
           nameOf(p) == CHOOSE n \in DOMAIN f : f[n] = p
       IN
       /\ list' = (list \ deleted) \cup made
       /\ references' = references - Cardinality(deleted) + Cardinality(made)
       /\ state' = [p \in Pdos |-> IF p \in made THEN "Present"
                                   ELSE IF p \in deleted THEN "Invalid" ELSE state[p]]
       /\ name' = [p \in Pdos |-> IF p \in made THEN nameOf(p)
                                  ELSE IF p \in deleted THEN NoName ELSE name[p]]
       /\ refs' = [p \in Pdos |-> IF p \in made
                                  THEN refs[p] + (IF fdoPower = "D0" THEN 1 ELSE 0)
                                  ELSE Released(deleted)[p]]
       /\ missing' = [p \in Pdos |-> \/ p \in absent \ deleted
                                     \/ missing[p] /\ p \notin made]
       /\ eject' = [p \in Pdos |-> eject[p] /\ p \notin deleted]
       /\ invalid' = (invalid \/ absent # deleted \/ made # {})
  /\ devices' = {}
  /\ ejecting' = [p \in Pdos |-> IF p \in present /\ eject[p] /\ ejecting[p] = "no"
                                 THEN "asked" ELSE ejecting[p]]
  /\ event' = (event \/ deleted # {})
  /\ scanned' = TRUE
  /\ scan' = "wait"
  /\ UNCHANGED <<fdoState, fdoPrev, fdoPower, gone, prev, power, alerted,
                 relations, reported, devnodes, pnp, envVars>>

Scan == ScanWait \/ ScanCheck \/ ScanRead \/ ScanEnumerate

-----------------------------------------------------------------------------
(* The FDO's power: FdoD3ToD0 and FdoD0ToD3, each in two halves.           *)

(* The scan watch fires when it is added. *)
PowerUp == fdoPower' = "D0" /\ event' = TRUE

ResumeAll == refs' = Resumed(list)

(* Deleted and missing PDOs are passed over. *)
SuspendAll ==
  refs' = Suspended({p \in list : state[p] # "Deleted" /\ ~missing[p]})

PowerDown == fdoPower' = "D3"

(* A power-down that passes over a PDO is one of the hazards. *)
MayPowerDown == /\ (\E p \in list : missing[p]) => "missing" \in races
                /\ downs < MaxDowns
                /\ downs' = downs + 1

-----------------------------------------------------------------------------
(* The FDO's IRPs.  A failure to start leaves everything as it was.        *)

Goes(from, to) == pnp = from /\ pnp' = to

FdoStartBegin ==
  /\ Goes("idle", "start")
  /\ fdoState \in {"Added", "Stopped"}
  /\ scan' = "wait" /\ alerted' = FALSE /\ scanned' = FALSE
  /\ PowerUp
  /\ UNCHANGED <<fdoState, fdoPrev, references, gone, list, pdoVars, devices,
                 invalid, relations, reported, devnodes, ejecting, envVars>>

FdoStartEnd ==
  /\ Goes("start", "idle")
  /\ ResumeAll
  /\ SetFdoState("Started")
  /\ event' = TRUE
  /\ invalid' = TRUE
  /\ UNCHANGED <<fdoPower, references, gone, list, state, prev, power, missing,
                 eject, name, scan, alerted, scanned, devices, relations,
                 reported, devnodes, ejecting, envVars>>

(* FdoQueryDeviceRelations: it has the scan thread make a pass first. *)
RelationsBegin ==
  /\ Goes("idle", "relations wait")
  /\ fdoState = "Started"
  /\ invalid
  /\ invalid' = FALSE
  /\ scanned' = FALSE
  /\ event' = TRUE
  /\ UNCHANGED <<fdoVars, pdoVars, scan, alerted, devices, relations, reported,
                 devnodes, ejecting, envVars>>

RelationsList ==
  /\ scanned
  /\ \/ /\ Goes("relations wait", "relations")
        /\ relations' = {p \in list : ~missing[p]}
        /\ SetState({p \in list : ~missing[p] /\ state[p] = "Present"},
                    "Enumerated")
     \/ /\ "memory" \in races
        /\ Goes("relations wait", "idle")
        /\ UNCHANGED <<relations, state, prev>>
  /\ UNCHANGED <<fdoVars, power, missing, eject, refs, name, scanVars, invalid,
                 reported, devnodes, ejecting, envVars>>

Dead == {p \in list : state[p] = "Deleted" /\ missing[p]}

RelationsEnd ==
  /\ Goes("relations", "idle")
  /\ reported' = relations
  /\ relations' = {}
  /\ devnodes' = devnodes \cup relations
  /\ Destroy(Dead)
  /\ SetState(Dead, "Invalid")
  /\ UNCHANGED <<fdoState, fdoPrev, fdoPower, gone, power, scan, alerted, scanned,
                 devices, invalid, ejecting, envVars>>

(* The PnP manager stops the bus, and takes it away, when no PDO is in use. *)
Idle(p) == state[p] \in {"Present", "Enumerated", "Stopped", "Deleted",
                         "SurpriseRemovePending"}

FdoQuery(s) ==
  /\ Goes("idle", "query")
  /\ ~invalid
  /\ fdoState = "Started"
  /\ \A p \in list : Idle(p)
  /\ SetFdoState(s)
  /\ UNCHANGED <<fdoPower, references, gone, list, pdoVars, scanVars, invalid,
                 relations, reported, devnodes, ejecting, envVars>>

(* FdoCancelStopDevice and FdoCancelRemoveDevice. *)
FdoCancel ==
  /\ Goes("query", "idle")
  /\ fdoState \in {"StopPending", "RemovePending"}
  /\ fdoState' = fdoPrev
  /\ UNCHANGED <<fdoPrev, fdoPower, references, gone, list, pdoVars, scanVars,
                 invalid, relations, reported, devnodes, ejecting, envVars>>

(* FdoStopDevice, and the same end of FdoRemoveDevice. *)
FdoStopBegin ==
  /\ Goes("query", "stop")
  /\ fdoState = "StopPending"
  /\ MayPowerDown
  /\ SuspendAll
  /\ UNCHANGED <<fdoVars, state, prev, power, missing, eject, name, scanVars,
                 invalid, relations, reported, devnodes, ejecting, directory,
                 races>>

FdoStopPower ==
  /\ \/ Goes("stop", "stop join") \/ Goes("remove power", "remove join")
  /\ PowerDown
  /\ alerted' = TRUE
  /\ event' = TRUE
  /\ UNCHANGED <<fdoState, fdoPrev, references, gone, list, pdoVars, scan,
                 scanned, devices, invalid, relations, reported, devnodes,
                 ejecting, envVars>>

FdoStopJoin ==
  /\ \/ Goes("stop join", "idle") /\ SetFdoState("Stopped")
     \/ Goes("remove join", "removed") /\ UNCHANGED <<fdoState, fdoPrev>>
  /\ scan = "exited"
  /\ scan' = "off"
  /\ scanned' = FALSE
  /\ UNCHANGED <<fdoPower, references, gone, list, pdoVars, event, alerted,
                 devices, invalid, relations, reported, devnodes, ejecting,
                 envVars>>

FdoSurpriseRemoval ==
  /\ Goes("idle", "idle")
  /\ fdoState \in {"Started", "Stopped"}
  /\ SetFdoState("SurpriseRemovePending")
  /\ SetMissing(list)
  /\ reported' = {}
  /\ UNCHANGED <<fdoPower, references, gone, list, state, prev, power, eject,
                 refs, name, scanVars, invalid, relations, devnodes, ejecting,
                 envVars>>

(* FdoRemoveDevice: an FDO that was not started has nothing to take down. *)
FdoRemoveBegin ==
  /\ \/ pnp = "idle" /\ fdoState \in {"Added", "SurpriseRemovePending"}
     \/ pnp = "query" /\ fdoState = "RemovePending"
  /\ \A p \in list : /\ Idle(p) /\ state[p] # "Stopped"
                     /\ state[p] = "SurpriseRemovePending" => "missing" \in races
  /\ IF fdoPrev = "Started"
     THEN pnp' = "remove wait" /\ scanned' = FALSE /\ event' = TRUE
     ELSE pnp' = "removed" /\ UNCHANGED <<scanned, event>>
  /\ UNCHANGED <<fdoVars, pdoVars, scan, alerted, devices, invalid, relations,
                 reported, devnodes, ejecting, envVars>>

(* The PDOs that are left but for those whose own removal is to come. *)
FdoRemovePdos ==
  LET dead == {p \in list : state[p] # "SurpriseRemovePending"}
  IN
  /\ Goes("remove wait", "remove suspend")
  /\ scanned
  /\ list' = list \ dead
  /\ references' = references - Cardinality(dead)
  /\ refs' = Released(dead)
  /\ missing' = [p \in Pdos |-> p \in list /\ p \notin dead]
  /\ eject' = [p \in Pdos |-> eject[p] /\ p \notin dead]
  /\ name' = [p \in Pdos |-> IF p \in dead THEN NoName ELSE name[p]]
  /\ SetState(dead, "Invalid")
  /\ event' = (event \/ Wakes(dead))
  /\ devnodes' = devnodes \ dead
  /\ reported' = {}
  /\ UNCHANGED <<fdoState, fdoPrev, fdoPower, gone, power, scan, alerted, scanned,
                 devices, invalid, relations, ejecting, envVars>>

FdoRemoveSuspend ==
  /\ Goes("remove suspend", "remove power")
  /\ SuspendAll
  /\ UNCHANGED <<fdoVars, state, prev, power, missing, eject, name, scanVars,
                 invalid, relations, reported, devnodes, ejecting, envVars>>

FdoRemoveEnd ==
  /\ Goes("removed", "idle")
  /\ SetFdoState("Deleted")
  /\ references' = references - 1
  /\ gone' = (references = 1)
  /\ UNCHANGED <<fdoPower, list, pdoVars, scanVars, invalid, relations, reported,
                 devnodes, ejecting, envVars>>

(* The bus is powered down and up again; the PDOs in use go before it.     *)
Sleep ==
  /\ Goes("idle", "sleep")
  /\ ~invalid
  /\ fdoState = "Started"
  /\ MayPowerDown
  /\ power' = [p \in Pdos |-> "D3"]
  /\ SuspendAll
  /\ UNCHANGED <<fdoVars, state, prev, missing, eject, name, scanVars, invalid,
                 relations, reported, devnodes, ejecting, directory, races>>

SleepPower ==
  /\ Goes("sleep", "asleep")
  /\ PowerDown
  /\ UNCHANGED <<fdoState, fdoPrev, references, gone, list, pdoVars, scanVars,
                 invalid, relations, reported, devnodes, ejecting, envVars>>

WakePower ==
  /\ Goes("asleep", "waking")
  /\ PowerUp
  /\ UNCHANGED <<fdoState, fdoPrev, references, gone, list, pdoVars, scan, alerted,
                 scanned, devices, invalid, relations, reported, devnodes,
                 ejecting, envVars>>

WakeResume ==
  /\ Goes("waking", "idle")
  /\ ResumeAll
  /\ power' = [p \in Pdos |-> IF state[p] = "Started" THEN "D0" ELSE "D3"]
  /\ UNCHANGED <<fdoVars, state, prev, missing, eject, name, scanVars, invalid,
                 relations, reported, devnodes, ejecting, envVars>>

-----------------------------------------------------------------------------
(* The PDOs' IRPs.                                                         *)

(* The moves of one PDO's PnP state that do nothing else. *)
Moves(p, from, to) ==
  /\ state[p] \in from
  /\ SetState({p}, to)
  /\ UNCHANGED <<fdoVars, missing, eject, refs, name, scanVars, invalid,
                 relations, reported, devnodes, ejecting, envVars>>

PdoStartDevice(p) ==
  /\ p \in reported \cap devnodes /\ fdoState = "Started" /\ ~invalid
  /\ Goes("idle", "idle")
  /\ Moves(p, {"Enumerated", "Stopped"}, "Started")
  /\ power' = [power EXCEPT ![p] = "D0"]

PdoQueryStopDevice(p) ==
  /\ p \in reported /\ fdoState = "Started" /\ ~invalid
  /\ Goes("idle", "query")
  /\ Moves(p, {"Started"}, "StopPending")
  /\ UNCHANGED power

PdoStopDevice(p) ==
  /\ Goes("query", "idle")
  /\ Moves(p, {"StopPending"}, "Stopped")
  /\ power' = [power EXCEPT ![p] = "D3"]

(* A device goes when it is disabled or its bus goes, or to be ejected. *)
PdoQueryRemoveDevice(p) ==
  /\ p \in reported /\ fdoState = "Started" /\ ~invalid
  /\ Goes("idle", "query")
  /\ Moves(p, {"Started", "Stopped", "Enumerated"}, "RemovePending")
  /\ UNCHANGED power

PdoSurpriseRemoval(p) ==
  /\ p \in devnodes \ reported
  /\ Goes("idle", "idle")
  /\ Moves(p, {"Started", "Stopped"}, "SurpriseRemovePending")
  /\ UNCHANGED power

(* PdoCancelStopDevice and PdoCancelRemoveDevice. *)
PdoCancel(p) ==
  /\ Goes("query", "idle")
  /\ state[p] \in {"StopPending", "RemovePending"}
  /\ state' = [state EXCEPT ![p] = prev[p]]
  /\ prev' = [prev EXCEPT ![p] = "Invalid"]
  /\ IF state[p] = "RemovePending"
     THEN /\ eject' = [eject EXCEPT ![p] = FALSE]
          /\ ejecting' = [ejecting EXCEPT ![p] = "no"]
     ELSE UNCHANGED <<eject, ejecting>>
  /\ UNCHANGED <<fdoVars, power, missing, refs, name, scanVars, invalid,
                 relations, reported, devnodes, envVars>>

Removable(p) ==
  \/ pnp = "query" /\ state[p] = "RemovePending"
  \/ pnp = "idle" /\ state[p] = "SurpriseRemovePending"
  \/ pnp = "idle" /\ state[p] = "Enumerated" /\ p \in devnodes \ reported

(* Mutation of PdoRemoveMissing: the PDO is left to a later enumeration.   *)
PdoRemoveMissingLater(p) ==
  /\ SetState({p}, "Deleted")
  /\ invalid' = TRUE
  /\ UNCHANGED <<references, gone, list, missing, eject, refs, name, event>>

(* A missing PDO is destroyed when nothing but its removal was awaited,    *)
(* and the FDO with the last; otherwise once the bus has been enumerated.  *)
PdoRemoveMissing(p) ==
  IF state[p] = "SurpriseRemovePending"
  THEN /\ Destroy({p})
       /\ SetState({p}, "Invalid")
       /\ gone' = (references = 1)
       /\ UNCHANGED invalid
  ELSE /\ SetState({p}, "Deleted")
       /\ invalid' = TRUE
       /\ UNCHANGED <<references, gone, list, missing, eject, refs, name, event>>

PdoRemoveDevice(p) ==
  /\ Removable(p)
  /\ IF ejecting[p] = "asked" /\ state[p] = "RemovePending"
     THEN pnp' = "eject" /\ ejecting' = [ejecting EXCEPT ![p] = "removed"]
     ELSE pnp' = "idle" /\ ejecting' = [ejecting EXCEPT ![p] = "no"]
  /\ power' = [power EXCEPT ![p] = "D3"]
  /\ IF missing[p]
     THEN PdoRemoveMissing(p) /\ devnodes' = devnodes \ {p}
     ELSE /\ SetState({p}, "Enumerated")
          /\ devnodes' = devnodes \ ({p} \ reported)
          /\ UNCHANGED <<references, gone, list, missing, eject, refs, name, event,
                         invalid>>
  /\ UNCHANGED <<fdoState, fdoPrev, fdoPower, scan, alerted, scanned, devices,
                 relations, reported, envVars>>

PdoEject(p) ==
  /\ Goes("eject", "idle")
  /\ ejecting[p] = "removed"
  /\ SetState({p}, "Deleted")
  /\ SetMissing({p})
  /\ invalid' = TRUE
  /\ devnodes' = devnodes \ {p}
  /\ ejecting' = [ejecting EXCEPT ![p] = "no"]
  /\ UNCHANGED <<fdoVars, power, eject, refs, name, scanVars, relations, reported,
                 envVars>>

(* PdoRequestEject, by the frontend of a PDO in use. *)
PdoRequestEject(p) ==
  /\ p \in list \ {Default}
  /\ state[p] = "Started"
  /\ ~eject[p]
  /\ eject' = [eject EXCEPT ![p] = TRUE]
  /\ invalid' = TRUE
  /\ UNCHANGED <<fdoVars, state, prev, power, missing, refs, name, scanVars,
                 relations, reported, devnodes, ejecting, pnp, envVars>>

-----------------------------------------------------------------------------
(* The toolstack. *)
DirectoryChanges ==
  /\ directory' \in SUBSET Names \ {directory}
  /\ event' = (event \/ (fdoPower = "D0" /\ scan # "off"))
  /\ UNCHANGED <<fdoVars, pdoVars, scan, alerted, scanned, devices, pnpVars,
                 downs, races>>

-----------------------------------------------------------------------------
(* What the PnP manager has begun, or must do, and what it may do. *)
FdoProceeds == \/ FdoStartEnd \/ RelationsBegin \/ RelationsList \/ RelationsEnd
               \/ FdoStopPower \/ FdoStopJoin
               \/ FdoRemovePdos \/ FdoRemoveSuspend \/ FdoRemoveEnd
               \/ SleepPower \/ WakePower \/ WakeResume

PdoProceeds(p) == \/ PdoSurpriseRemoval(p)
                  \/ PdoRemoveDevice(p)
                  \/ PdoEject(p)

(* A query is followed by what it asked for, or cancelled. *)
Answers == \/ FdoCancel \/ FdoStopBegin
           \/ \E p \in Pdos : PdoCancel(p) \/ PdoStopDevice(p)

FdoMay == \/ FdoStartBegin
          \/ FdoQuery("StopPending") \/ FdoQuery("RemovePending")
          \/ FdoSurpriseRemoval
          \/ FdoRemoveBegin
          \/ Sleep

PdoMay(p) == \/ PdoStartDevice(p)
             \/ PdoQueryStopDevice(p)
             \/ PdoQueryRemoveDevice(p)
             \/ PdoRequestEject(p)

Next == \/ Scan
        \/ FdoProceeds
        \/ FdoMay
        \/ Answers
        \/ \E p \in Pdos : PdoProceeds(p) \/ PdoMay(p)
        \/ DirectoryChanges

Spec == Init /\ [][Next]_vars

(* The scan thread is scheduled; an IRP in progress is completed; a device *)
(* that is gone is removed when its last handle is closed.                 *)
Fairness == /\ WF_vars(Scan)
            /\ WF_vars(FdoProceeds)
            /\ WF_vars(Answers)
            /\ \A p \in Pdos : SF_vars(PdoProceeds(p))

FairSpec == Spec /\ Fairness

-----------------------------------------------------------------------------
(* Every variable keeps its type; the FDO counts itself and its PDOs, and  *)
(* is destroyed with the last of them.                                     *)
TypeOK ==
  /\ {fdoState, fdoPrev} \subseteq PnpStates
  /\ fdoPower \in {"D0", "D3"}
  /\ list \subseteq Pdos
  /\ references = Cardinality(list) + (IF fdoState = "Deleted" THEN 0 ELSE 1)
  /\ gone = (references = 0)
  /\ state \in [Pdos -> PnpStates] /\ prev \in [Pdos -> PnpStates]
  /\ power \in [Pdos -> {"D0", "D3"}]
  /\ missing \in [Pdos -> BOOLEAN] /\ eject \in [Pdos -> BOOLEAN]
  /\ refs \in [Pdos -> Int]
  /\ name \in [Pdos -> Names \cup {NoName}]
  /\ scan \in {"off", "wait", "check", "read", "enumerate", "exited"}
  /\ {event, alerted, scanned, invalid, gone} \subseteq BOOLEAN
  /\ devices \subseteq Names /\ directory \subseteq Names
  /\ relations \cup reported \cup devnodes \subseteq Pdos
  /\ ejecting \in [Pdos -> {"no", "asked", "removed"}]
  /\ pnp \in {"idle", "query", "start", "relations wait", "relations", "stop",
              "stop join", "remove wait", "remove suspend", "remove power",
              "remove join", "removed", "sleep", "asleep", "waking", "eject"}
  /\ downs \in 0..MaxDowns

(* A PDO the PnP manager may send an IRP to has not been destroyed, and is *)
(* powered only while it is there: the scan, the enumeration, the removal  *)
(* of the PDO and that of the FDO each destroy PDOs of their own.          *)
DevnodesListed == /\ TypeOK
                  /\ devnodes \subseteq list
                  /\ \A p \in Pdos \ list : power[p] = "D3"

(* However the directory changes and PDOs come and go, no two PDOs of one  *)
(* name are there that are not deleted.                                    *)
OneDevicePerName ==
  \A p, q \in Candidates : name[p] = name[q] => p = q

(* The FDO holds one reference to the console of each of its PDOs while it *)
(* is powered, none otherwise, and none to one that is destroyed, through  *)
(* any creation, removal and change of power.                              *)
Balanced ==
  \A p \in Pdos : refs[p] = IF p \in list /\ fdoPower = "D0" /\ ~Gap
                            THEN 1 ELSE 0

AbiBalanced == races \cap {"gap", "missing"} = {} => Balanced

(* A device that stays in the directory of a started bus is reported, over *)
(* and over should it be ejected, if no want of memory, no failed reading  *)
(* of the directory and no query of the FDO had the scan thread drop its   *)
(* wake-up.                                                                *)
DevicesAppear ==
  races \cap {"memory", "directory", "query"} = {} =>
    \A n \in Names :
      <>[](n \in directory /\ fdoState = "Started" /\ fdoPower = "D0")
        => []<>(\E p \in reported : name[p] = n)

(* The removal of an FDO that was started ends with it destroyed, whatever *)
(* PDOs are left to be removed after it.                                   *)
RemovalCompletes == (pnp = "remove wait") ~> gone

-----------------------------------------------------------------------------
(* A console that is destroyed has been released as often as acquired, as  *)
(* ConsoleDestroy asserts (src/xencons/console.c:597).                     *)
ReleasedWhenDestroyed == \A p \in Pdos \ list : refs[p] = 0
=============================================================================
