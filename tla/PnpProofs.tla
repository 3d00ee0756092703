----------------------------- MODULE PnpProofs ------------------------------
(***************************************************************************)
(* Proofs about module Pnp, for any PDOs and names, any number of changes  *)
(* of power and any of the hazards: no PDO is destroyed under the PnP      *)
(* manager, no two of one name are there at a time, and the references to  *)
(* the consoles are balanced where no hazard is in their way.              *)
(***************************************************************************)
EXTENDS Pnp, FiniteSetTheorems, TLAPS

FdoStates == {"Added", "Started", "StopPending", "Stopped", "RemovePending",
              "SurpriseRemovePending", "Deleted"}

(* The types of TypeOK, by who has to do with the variables.               *)
FdoType ==
  /\ fdoState \in FdoStates /\ fdoPrev \in PnpStates
  /\ fdoPower \in {"D0", "D3"}
  /\ scan \in {"off", "wait", "check", "read", "enumerate", "exited"}
  /\ pnp \in {"idle", "query", "start", "relations wait", "relations", "stop",
              "stop join", "remove wait", "remove suspend", "remove power",
              "remove join", "removed", "sleep", "asleep", "waking", "eject"}

MiscType ==
  /\ event \in BOOLEAN /\ alerted \in BOOLEAN /\ scanned \in BOOLEAN
  /\ invalid \in BOOLEAN
  /\ devices \subseteq Names /\ directory \subseteq Names
  /\ downs \in 0 .. MaxDowns

PdoType ==
  /\ list \subseteq Pdos
  /\ state \in [Pdos -> PnpStates] /\ prev \in [Pdos -> PnpStates]
  /\ power \in [Pdos -> {"D0", "D3"}]
  /\ missing \in [Pdos -> BOOLEAN] /\ eject \in [Pdos -> BOOLEAN]
  /\ relations \subseteq Pdos /\ reported \subseteq Pdos /\ devnodes \subseteq Pdos
  /\ ejecting \in [Pdos -> {"no", "asked", "removed"}]

NameType == name \in [Pdos -> Names \cup {NoName}]
RefsType == refs \in [Pdos -> Int]

(* The FDO counts itself and its PDOs.                                     *)
Counted ==
  /\ references = Cardinality(list) + (IF fdoState = "Deleted" THEN 0 ELSE 1)
  /\ gone = (references = 0)

(* In which state the FDO is while an IRP is in progress.                  *)
FdoAt ==
  /\ fdoState = "Added" => fdoPrev = "Invalid"
  /\ fdoState \in {"StopPending", "RemovePending"} => fdoPrev = "Started" /\ pnp # "idle"
  /\ fdoState = "SurpriseRemovePending" => fdoPrev \in {"Started", "Stopped"}
  /\ pnp = "start" => fdoState \in {"Added", "Stopped"}
  /\ pnp = "query" => fdoState \in {"Started", "StopPending", "RemovePending"}
  /\ pnp \in {"relations wait", "relations", "sleep", "asleep", "waking", "eject"}
       => fdoState = "Started"
  /\ pnp \in {"stop", "stop join"} => fdoState = "StopPending"
  /\ pnp \in {"remove wait", "remove suspend", "remove power", "remove join"}
       => fdoState \in {"RemovePending", "SurpriseRemovePending"} /\ fdoPrev = "Started"
  /\ pnp = "removed" => fdoState \in {"Added", "RemovePending", "SurpriseRemovePending"}

(* When the FDO has a scan thread, and when it is powered.                 *)
ScanAt ==
  /\ scan # "off" <=>
       /\ pnp # "removed"
       /\ \/ pnp = "start"
          \/ fdoState \in {"Started", "StopPending", "RemovePending"}
          \/ fdoState = "SurpriseRemovePending" /\ fdoPrev = "Started"
  /\ fdoPower = "D0" <=> scan # "off" /\ pnp \notin {"stop join", "remove join", "asleep"}

(* A PDO is on the list while it has a state, is missing once it is        *)
(* deleted, and powered only while it is or was started.                   *)
PdoAt ==
  \A p \in Pdos :
    /\ p \in list <=> state[p] # "Invalid"
    /\ state[p] = "Deleted" => missing[p]
    /\ power[p] = "D0" => \/ state[p] \in {"Started", "SurpriseRemovePending"}
                          \/ /\ state[p] \in {"StopPending", "RemovePending"}
                             /\ prev[p] = "Started"
    /\ ejecting[p] = "removed" =>
         /\ pnp = "eject" /\ state[p] \in {"Enumerated", "Deleted"}
         /\ \A q \in Pdos : ejecting[q] = "removed" => p = q

(* One PDO at a time is asked whether it can be stopped or removed.        *)
Asked ==
  \A p \in Pdos : state[p] \in {"StopPending", "RemovePending"} =>
    /\ pnp = "query" /\ fdoState = "Started"
    /\ prev[p] \in {"Started", "Stopped", "Enumerated"}
    /\ \A q \in Pdos : state[q] \in {"StopPending", "RemovePending"} => p = q

(* What the PnP manager knows of, or is about to be told of, has been      *)
(* enumerated and not yet removed for good.                                *)
Known ==
  /\ \A p \in relations \cup devnodes : state[p] \notin {"Invalid", "Present", "Deleted"}
  /\ relations # {} => pnp = "relations"

(* From the removal of the FDO's PDOs on, the scan thread makes no other.  *)
Removal ==
  /\ pnp = "remove wait" =>
       /\ scanned => scan \in {"wait", "check", "exited"}
       /\ \A p \in list : /\ state[p] \in {"Present", "Enumerated", "Deleted",
                                           "SurpriseRemovePending"}
                          /\ state[p] = "SurpriseRemovePending" => "missing" \in races
  /\ pnp \in {"remove suspend", "remove power", "remove join"} =>
       /\ scan \in {"wait", "check", "exited"}
       /\ "missing" \notin races => list = {}

IInv == /\ FdoType /\ MiscType /\ PdoType /\ NameType /\ Counted
        /\ FdoAt /\ ScanAt /\ PdoAt /\ Asked /\ Known /\ Removal
        /\ OneDevicePerName /\ RefsType /\ AbiBalanced

-----------------------------------------------------------------------------
(* What the scan thread makes is made for distinct names that it wants.    *)
LEMMA Creation ==
  ASSUME NEW wanted, NEW f \in Creations(wanted)
  PROVE  /\ DOMAIN f \subseteq wanted
         /\ f \in [DOMAIN f -> {p \in Pdos \ list : p # Default}]
         /\ \A m, n \in DOMAIN f : m # n => f[m] # f[n]
<1> DEFINE free == {p \in Pdos \ list : p # Default}
           makes == IF "memory" \in races THEN SUBSET wanted ELSE {wanted}
           Of(made) == {g \in [made -> free] : \A m, n \in made : m # n => g[m] # g[n]}
<1>1. f \in UNION {Of(made) : made \in makes}
  BY DEF Creations
<1>2. PICK made \in makes : f \in Of(made)
  <2> HIDE DEF Of
  <2> QED
    BY <1>1
<1>3. DOMAIN f = made /\ made \subseteq wanted
  BY <1>2
<1> QED
  BY <1>2, <1>3

(* What a pass of the scan thread does: PDOs are made, for names that no    *)
(* PDO had, and unreported ones destroyed.                                  *)
Pass(made, deleted) ==
  /\ made \subseteq Pdos \ list /\ Default \notin made
  /\ deleted \subseteq list /\ \A p \in deleted : state[p] = "Present"
  /\ list' = (list \ deleted) \cup made
  /\ references' = references - Cardinality(deleted) + Cardinality(made)
  /\ state' = [p \in Pdos |-> IF p \in made THEN "Present"
                                ELSE IF p \in deleted THEN "Invalid" ELSE state[p]]
  /\ refs' = [p \in Pdos |-> IF p \in made
                             THEN refs[p] + (IF fdoPower = "D0" THEN 1 ELSE 0)
                             ELSE Released(deleted)[p]]
  /\ name' \in [Pdos -> Names \cup {NoName}]
  /\ \A p \in made : name'[p] \in Wanted /\ \A q \in made : name'[p] = name'[q] => p = q
  /\ \A p \in list \ deleted : name'[p] = name[p]
  /\ missing' \in [Pdos -> BOOLEAN] /\ eject' \in [Pdos -> BOOLEAN]
  /\ \A p \in list : missing[p] => missing'[p]
  /\ ejecting' \in [Pdos -> {"no", "asked", "removed"}]
  /\ \A p \in Pdos : ejecting'[p] # ejecting[p] => ejecting'[p] = "asked"
  /\ invalid' \in BOOLEAN /\ event' \in BOOLEAN

LEMMA Passes ==
  ASSUME MiscType, PdoType, NameType, ScanEnumerate
  PROVE  \E made, deleted \in SUBSET Pdos : Pass(made, deleted)
<1> DEFINE present == {p \in Candidates : ~missing[p]}
           absent  == {p \in present : ~eject[p] /\ name[p] \notin devices}
           deleted == Unreported(absent)
<1>1. PICK f \in Creations(Wanted) :
         LET made   == {f[n] : n \in DOMAIN f}
             nameOf(p) == CHOOSE n \in DOMAIN f : f[n] = p
         IN
         /\ list' = (list \ deleted) \cup made
         /\ references' = references - Cardinality(deleted) + Cardinality(made)
         /\ state' = [p \in Pdos |-> IF p \in made THEN "Present"
                                       ELSE IF p \in deleted THEN "Invalid" ELSE state[p]]
         /\ name' = [p \in Pdos |-> IF p \in made THEN nameOf(p)
                                      ELSE IF p \in deleted THEN NoName ELSE name[p]]
         /\ refs' = [p \in Pdos |-> IF p \in made
                                    THEN refs[p] + (IF fdoPower = "D0" THEN 1 ELSE 0)
                                    ELSE Released(deleted)[p]]
         /\ missing' = [p \in Pdos |-> \/ p \in absent \ deleted
                                       \/ missing[p] /\ p \notin made]
         /\ eject' = [p \in Pdos |-> eject[p] /\ p \notin deleted]
         /\ invalid' = (invalid \/ absent # deleted \/ made # {})
  BY DEF ScanEnumerate
<1> DEFINE made == {f[n] : n \in DOMAIN f}
           nameOf(p) == CHOOSE n \in DOMAIN f : f[n] = p
<1>2. /\ DOMAIN f \subseteq Wanted
      /\ f \in [DOMAIN f -> {p \in Pdos \ list : p # Default}]
      /\ \A m, n \in DOMAIN f : m # n => f[m] # f[n]
  BY Creation
<1>3. made \subseteq Pdos \ list /\ Default \notin made
  BY <1>2
<1>4. \A p \in made : nameOf(p) \in DOMAIN f /\ f[nameOf(p)] = p
  OBVIOUS
<1>5. deleted \subseteq list /\ \A p \in deleted : state[p] = "Present"
  BY DEF Unreported, Candidates
<1>6. Wanted \subseteq Names
  BY DEF Wanted, MiscType
<1>7. ejecting' = [p \in Pdos |-> IF p \in present /\ eject[p] /\ ejecting[p] = "no"
                                  THEN "asked" ELSE ejecting[p]]
      /\ event' = (event \/ deleted # {})
  BY DEF ScanEnumerate
<1> HIDE DEF present, absent, deleted, made, nameOf
<1>8. /\ list' = (list \ deleted) \cup made
      /\ references' = references - Cardinality(deleted) + Cardinality(made)
      /\ state' = [p \in Pdos |-> IF p \in made THEN "Present"
                                    ELSE IF p \in deleted THEN "Invalid" ELSE state[p]]
      /\ name' = [p \in Pdos |-> IF p \in made THEN nameOf(p)
                                   ELSE IF p \in deleted THEN NoName ELSE name[p]]
      /\ refs' = [p \in Pdos |-> IF p \in made
                                 THEN refs[p] + (IF fdoPower = "D0" THEN 1 ELSE 0)
                                 ELSE Released(deleted)[p]]
      /\ missing' = [p \in Pdos |-> \/ p \in absent \ deleted
                                    \/ missing[p] /\ p \notin made]
      /\ eject' = [p \in Pdos |-> eject[p] /\ p \notin deleted]
      /\ invalid' = (invalid \/ absent # deleted \/ made # {})
  BY <1>1 DEF made, nameOf
<1>9. \A p \in made : name'[p] = nameOf(p)
  BY <1>3, <1>8
<1>10. name' \in [Pdos -> Names \cup {NoName}]
  BY <1>2, <1>4, <1>6, <1>8 DEF NameType
<1>11. \A p \in made : name'[p] \in Wanted /\ \A q \in made : name'[p] = name'[q] => p = q
  BY <1>2, <1>4, <1>9
<1>12. \A p \in list \ deleted : name'[p] = name[p]
  BY <1>3, <1>8 DEF PdoType
<1>13. /\ missing' \in [Pdos -> BOOLEAN]
       /\ eject' \in [Pdos -> BOOLEAN]
       /\ \A p \in list : missing[p] => missing'[p]
  BY <1>3, <1>8 DEF PdoType
<1>14. /\ ejecting' \in [Pdos -> {"no", "asked", "removed"}]
       /\ \A p \in Pdos : ejecting'[p] # ejecting[p] => ejecting'[p] = "asked"
  BY <1>7 DEF PdoType
<1>15. invalid' \in BOOLEAN /\ event' \in BOOLEAN
  BY <1>7, <1>8
<1>16. Pass(made, deleted)
  BY <1>3, <1>5, <1>8, <1>10, <1>11, <1>12, <1>13, <1>14, <1>15 DEF Pass
<1>17. made \in SUBSET Pdos /\ deleted \in SUBSET Pdos
  BY <1>3, <1>5 DEF PdoType
<1> QED
  BY <1>16, <1>17

(* The FDO goes through its states, and gets and loses its power and its   *)
(* scan thread, as the IRP in progress says.                               *)
LEMMA FdoStep == IInv /\ [Next]_vars => FdoType' /\ FdoAt' /\ ScanAt'
<1> SUFFICES ASSUME IInv, [Next]_vars PROVE FdoType' /\ FdoAt' /\ ScanAt'
  OBVIOUS
<1> USE DEF fdoVars, pdoVars, scanVars, pnpVars, envVars
<1>0. /\ FdoType /\ FdoAt /\ ScanAt /\ Asked
  BY DEF IInv
<1>1. CASE ScanWait \/ ScanCheck
  BY <1>0, <1>1, ZenonT(30) DEF ScanWait, ScanCheck, FdoType, FdoAt, ScanAt, FdoStates, PnpStates
<1>2. CASE ScanRead \/ ScanEnumerate
  BY <1>0, <1>2, ZenonT(30)
     DEF ScanRead, ScanEnumerate, FdoType, FdoAt, ScanAt, FdoStates, PnpStates
<1>3. CASE FdoStartBegin
  BY <1>0, <1>3
     DEF FdoStartBegin, Goes, PowerUp, FdoType, FdoAt, ScanAt, FdoStates, PnpStates
<1>4. CASE FdoStartEnd
  BY <1>0, <1>4
     DEF FdoStartEnd, Goes, SetFdoState, FdoType, FdoAt, ScanAt, FdoStates, PnpStates
<1>5. CASE RelationsBegin
  BY <1>0, <1>5 DEF RelationsBegin, Goes, FdoType, FdoAt, ScanAt, FdoStates, PnpStates
<1>6. CASE RelationsList
  BY <1>0, <1>6 DEF RelationsList, Goes, FdoType, FdoAt, ScanAt, FdoStates, PnpStates
<1>7. CASE RelationsEnd
  BY <1>0, <1>7 DEF RelationsEnd, Goes, FdoType, FdoAt, ScanAt, FdoStates, PnpStates
<1>8. ASSUME NEW s \in {"StopPending", "RemovePending"}, FdoQuery(s)
      PROVE  FdoType' /\ FdoAt' /\ ScanAt'
  BY <1>0, <1>8
     DEF FdoQuery, Goes, SetFdoState, FdoType, FdoAt, ScanAt, FdoStates, PnpStates
<1>9. CASE FdoCancel
  BY <1>0, <1>9 DEF FdoCancel, Goes, FdoType, FdoAt, ScanAt, FdoStates, PnpStates
<1>10. CASE FdoStopBegin
  BY <1>0, <1>10 DEF FdoStopBegin, Goes, FdoType, FdoAt, ScanAt, FdoStates, PnpStates
<1>11. CASE FdoStopPower
  BY <1>0, <1>11
     DEF FdoStopPower, Goes, PowerDown, FdoType, FdoAt, ScanAt, FdoStates, PnpStates
<1>12. CASE FdoStopJoin
  BY <1>0, <1>12
     DEF FdoStopJoin, Goes, SetFdoState, FdoType, FdoAt, ScanAt, FdoStates, PnpStates
<1>13. CASE FdoSurpriseRemoval
  BY <1>0, <1>13
     DEF FdoSurpriseRemoval, Goes, SetFdoState, FdoType, FdoAt, ScanAt, FdoStates,
         PnpStates
<1>14. CASE FdoRemoveBegin
  BY <1>0, <1>14 DEF FdoRemoveBegin, FdoType, FdoAt, ScanAt, FdoStates, PnpStates
<1>15. CASE FdoRemovePdos
  BY <1>0, <1>15 DEF FdoRemovePdos, Goes, FdoType, FdoAt, ScanAt, FdoStates, PnpStates
<1>16. CASE FdoRemoveSuspend
  BY <1>0, <1>16
     DEF FdoRemoveSuspend, Goes, FdoType, FdoAt, ScanAt, FdoStates, PnpStates
<1>17. CASE FdoRemoveEnd
  BY <1>0, <1>17
     DEF FdoRemoveEnd, Goes, SetFdoState, FdoType, FdoAt, ScanAt, FdoStates, PnpStates
<1>18. CASE Sleep
  BY <1>0, <1>18 DEF Sleep, Goes, FdoType, FdoAt, ScanAt, FdoStates, PnpStates
<1>19. CASE SleepPower
  BY <1>0, <1>19
     DEF SleepPower, Goes, PowerDown, FdoType, FdoAt, ScanAt, FdoStates, PnpStates
<1>20. CASE WakePower
  BY <1>0, <1>20
     DEF WakePower, Goes, PowerUp, FdoType, FdoAt, ScanAt, FdoStates, PnpStates
<1>21. CASE WakeResume
  BY <1>0, <1>21 DEF WakeResume, Goes, FdoType, FdoAt, ScanAt, FdoStates, PnpStates
<1>22. ASSUME NEW p \in Pdos, PdoCancel(p) PROVE FdoType' /\ FdoAt' /\ ScanAt'
  BY <1>0, <1>22
     DEF PdoCancel, Goes, Asked, FdoType, FdoAt, ScanAt, FdoStates, PnpStates
<1>23. ASSUME NEW p \in Pdos, PdoStopDevice(p) PROVE FdoType' /\ FdoAt' /\ ScanAt'
  BY <1>0, <1>23
     DEF PdoStopDevice, Goes, Moves, Asked, FdoType, FdoAt, ScanAt, FdoStates,
         PnpStates
<1>24. ASSUME NEW p \in Pdos, PdoRemoveDevice(p) PROVE FdoType' /\ FdoAt' /\ ScanAt'
  BY <1>0, <1>24, ZenonT(30)
     DEF PdoRemoveDevice, Removable, Asked, FdoType, FdoAt, ScanAt, FdoStates,
         PnpStates
<1>25. ASSUME NEW p \in Pdos, PdoEject(p) PROVE FdoType' /\ FdoAt' /\ ScanAt'
  BY <1>0, <1>25 DEF PdoEject, Goes, FdoType, FdoAt, ScanAt, FdoStates, PnpStates
<1>26. ASSUME NEW p \in Pdos, PdoQueryStopDevice(p) \/ PdoQueryRemoveDevice(p)
      PROVE  FdoType' /\ FdoAt' /\ ScanAt'
  BY <1>0, <1>26
     DEF PdoQueryStopDevice, PdoQueryRemoveDevice, Goes, Moves, FdoType, FdoAt,
         ScanAt, FdoStates, PnpStates
<1>27. ASSUME NEW p \in Pdos, PdoStartDevice(p) \/ PdoSurpriseRemoval(p)
      PROVE  FdoType' /\ FdoAt' /\ ScanAt'
  BY <1>0, <1>27, ZenonT(30)
     DEF PdoStartDevice, PdoSurpriseRemoval, Goes, Moves, FdoType, FdoAt, ScanAt,
         FdoStates, PnpStates
<1>28. CASE UNCHANGED <<fdoState, fdoPrev, fdoPower, scan, pnp>>
  <2>1. FdoType'
    BY <1>0, <1>28 DEF FdoType
  <2>2. FdoAt'
    BY <1>0, <1>28 DEF FdoAt
  <2>3. ScanAt'
    BY <1>0, <1>28 DEF ScanAt
  <2> QED
    BY <2>1, <2>2, <2>3
<1> QED
  <2>1. [Next]_vars =>
          \/ ScanWait \/ ScanCheck \/ ScanRead \/ ScanEnumerate \/ FdoStartEnd
          \/ RelationsBegin \/ RelationsList \/ RelationsEnd \/ FdoStopPower
          \/ FdoStopJoin \/ FdoRemovePdos \/ FdoRemoveSuspend \/ FdoRemoveEnd
          \/ \E s \in {"StopPending", "RemovePending"} : FdoQuery(s)
          \/ SleepPower \/ WakePower \/ WakeResume \/ FdoStartBegin
          \/ FdoSurpriseRemoval \/ FdoRemoveBegin \/ Sleep \/ FdoCancel
          \/ FdoStopBegin
          \/ \E p \in Pdos : \/ PdoSurpriseRemoval(p) \/ PdoRemoveDevice(p) \/ PdoEject(p)
                            \/ PdoStartDevice(p) \/ PdoQueryStopDevice(p)
                            \/ PdoQueryRemoveDevice(p) \/ PdoCancel(p)
                            \/ PdoStopDevice(p)
          \/ UNCHANGED <<fdoState, fdoPrev, fdoPower, scan, pnp>>
    BY DEF Next, Scan, FdoProceeds, FdoMay, Answers, PdoProceeds, PdoMay, vars,
           DirectoryChanges, PdoRequestEject
  <2> QED
    BY <1>1, <1>2, <1>3, <1>4, <1>5, <1>6, <1>7, <1>8, <1>9, <1>10, <1>11, <1>12,
       <1>13, <1>14, <1>15, <1>16, <1>17, <1>18, <1>19, <1>20, <1>21, <1>22, <1>23,
       <1>24, <1>25, <1>26, <1>27, <1>28, <2>1

-----------------------------------------------------------------------------
(* The events, the names and the counter of power-downs keep their types.   *)
LEMMA MiscStep == IInv /\ [Next]_vars => MiscType'
<1> SUFFICES ASSUME IInv, [Next]_vars PROVE MiscType'
  OBVIOUS
<1> USE DEF fdoVars, pdoVars, scanVars, pnpVars, envVars
<1>0. /\ MiscType /\ PdoType /\ NameType
  BY DEF IInv
<1>1. CASE ScanWait \/ ScanCheck
  BY <1>0, <1>1 DEF ScanWait, ScanCheck, MiscType
<1>2. CASE ScanRead
  BY <1>0, <1>2 DEF ScanRead, MiscType
<1>3. CASE ScanEnumerate
  <2>1. PICK made, deleted \in SUBSET Pdos : Pass(made, deleted)
    BY <1>0, <1>3, Passes
  <2> QED
    BY <1>0, <2>1, <1>3 DEF Pass, ScanEnumerate, MiscType
<1>4. CASE FdoStartBegin \/ FdoStartEnd
  BY <1>0, <1>4 DEF FdoStartBegin, FdoStartEnd, PowerUp, MiscType
<1>5. CASE RelationsBegin \/ RelationsEnd
  BY <1>0, <1>5 DEF RelationsBegin, RelationsEnd, Destroy, MiscType
<1>6. CASE FdoStopBegin \/ Sleep
  BY <1>0, <1>6, PnpAssumption DEF FdoStopBegin, Sleep, MayPowerDown, MiscType
<1>7. CASE FdoStopPower \/ FdoStopJoin
  BY <1>0, <1>7 DEF FdoStopPower, FdoStopJoin, MiscType
<1>8. CASE FdoRemoveBegin \/ FdoRemovePdos
  BY <1>0, <1>8 DEF FdoRemoveBegin, FdoRemovePdos, MiscType
<1>9. CASE WakePower
  BY <1>0, <1>9 DEF WakePower, PowerUp, MiscType
<1>10. ASSUME NEW p \in Pdos, PdoRemoveDevice(p) PROVE MiscType'
  BY <1>0, <1>10 DEF PdoRemoveDevice, PdoRemoveMissing, Destroy, MiscType
<1>11. ASSUME NEW p \in Pdos, PdoEject(p) \/ PdoRequestEject(p)
      PROVE  MiscType'
  BY <1>0, <1>11 DEF PdoEject, PdoRequestEject, MiscType
<1>12. CASE DirectoryChanges
  BY <1>0, <1>12 DEF DirectoryChanges, MiscType
<1>13. CASE UNCHANGED <<event, alerted, scanned, invalid, devices, directory, downs>>
  BY <1>0, <1>13 DEF MiscType
<1> QED
  <2>1. [Next]_vars =>
          \/ ScanWait \/ ScanCheck \/ ScanRead \/ ScanEnumerate \/ FdoStartEnd
          \/ RelationsBegin \/ RelationsEnd \/ FdoStopPower \/ FdoStopJoin
          \/ FdoRemovePdos \/ WakePower \/ FdoStartBegin \/ FdoRemoveBegin
          \/ Sleep \/ FdoStopBegin \/ DirectoryChanges
          \/ \E p \in Pdos : \/ PdoRemoveDevice(p) \/ PdoEject(p) \/ PdoRequestEject(p)
          \/ UNCHANGED <<event, alerted, scanned, invalid, devices, directory, downs>>
    BY DEF Next, Scan, FdoProceeds, FdoMay, Answers, PdoProceeds, PdoMay, vars,
           RelationsList, FdoRemoveSuspend, FdoRemoveEnd, SleepPower, WakeResume,
           FdoQuery, FdoSurpriseRemoval, FdoCancel, PdoSurpriseRemoval,
           PdoStartDevice, PdoQueryStopDevice, PdoQueryRemoveDevice, PdoCancel,
           PdoStopDevice, Moves
  <2> QED
    BY <1>1, <1>2, <1>3, <1>4, <1>5, <1>6, <1>7, <1>8, <1>9, <1>10, <1>11, <1>12,
       <1>13, <2>1

(* The PDOs go through their states one at a time, but for the steps of the *)
(* FDO and of the scan thread, which touch none that is asked something.    *)
LEMMA PdoStep == IInv /\ [Next]_vars => PdoType' /\ PdoAt' /\ Asked' /\ Known'
<1> SUFFICES ASSUME IInv, [Next]_vars PROVE PdoType' /\ PdoAt' /\ Asked' /\ Known'
  OBVIOUS
<1> USE DEF fdoVars, pdoVars, scanVars, pnpVars, envVars
<1>0. /\ FdoType /\ FdoAt /\ MiscType /\ NameType /\ PdoType /\ PdoAt /\ Asked
       /\ Known /\ Removal
  BY DEF IInv
<1>1. CASE ScanEnumerate
  <2>1. PICK made, deleted \in SUBSET Pdos : Pass(made, deleted)
    BY <1>0, <1>1, Passes
  <2>2. UNCHANGED <<prev, power, relations, reported, devnodes, pnp, fdoState>>
    BY <1>1 DEF ScanEnumerate
  <2>3. PdoType'
    BY <1>0, <2>1, <2>2 DEF Pass, PdoType, PnpStates
  <2>4. PdoAt'
    BY <1>0, <2>1, <2>2 DEF Pass, PdoType, PdoAt, PnpStates
  <2>5. Asked'
    BY <1>0, <2>1, <2>2 DEF Pass, PdoType, PdoAt, Asked, PnpStates
  <2>6. Known'
    BY <1>0, <2>1, <2>2 DEF Pass, PdoType, PdoAt, Known, PnpStates
  <2> QED
    BY <2>3, <2>4, <2>5, <2>6
<1>2. CASE RelationsList
  <2> DEFINE S == {p \in list : ~missing[p] /\ state[p] = "Present"}
  <2>1. CASE UNCHANGED <<relations, state, prev>> /\ pnp' = "idle"
    BY <1>0, <1>2, <2>1 DEF RelationsList, Goes, PdoType, PdoAt, Asked, Known
  <2>2. CASE SetState(S, "Enumerated") /\ pnp' = "relations"
    <3>1. /\ fdoState = "Started" /\ pnp = "relations wait" /\ pnp' = "relations"
          /\ relations' = {p \in list : ~missing[p]}
          /\ state' = [p \in Pdos |-> IF p \in S THEN "Enumerated" ELSE state[p]]
          /\ prev' = [p \in Pdos |-> "Invalid"]
          /\ UNCHANGED <<list, power, missing, eject, reported, devnodes, ejecting,
                         fdoState>>
      BY <1>0, <1>2, <2>2 DEF RelationsList, Goes, SetState, FdoAt
    <3>2. PdoType'
      BY <1>0, <3>1 DEF PdoType, PnpStates
    <3>3. PdoAt'
      BY <1>0, <3>1 DEF PdoType, PdoAt, Asked, PnpStates
    <3>4. Asked'
      BY <1>0, <3>1 DEF PdoType, Asked, PnpStates
    <3>5. Known'
      BY <1>0, <3>1 DEF PdoType, PdoAt, Known, PnpStates
    <3> QED
      BY <3>2, <3>3, <3>4, <3>5
  <2> QED
    BY <1>2, <2>1, <2>2 DEF RelationsList, Goes
<1>3. CASE RelationsEnd
  BY <1>0, <1>3
     DEF RelationsEnd, Goes, Destroy, Dead, SetState, FdoAt, PnpStates, PdoType,
         PdoAt, Asked, Known
<1>4. CASE FdoSurpriseRemoval
  BY <1>0, <1>4
     DEF FdoSurpriseRemoval, Goes, SetFdoState, SetMissing, PnpStates, PdoType, PdoAt,
         Asked, Known
<1>5. CASE FdoRemovePdos
  <2> DEFINE dead == {p \in list : state[p] # "SurpriseRemovePending"}
  <2>1. /\ pnp = "remove wait" /\ pnp' = "remove suspend" /\ list' = list \ dead
        /\ state' = [p \in Pdos |-> IF p \in dead THEN "Invalid" ELSE state[p]]
        /\ prev' = [p \in Pdos |-> "Invalid"]
        /\ missing' = [p \in Pdos |-> p \in list /\ p \notin dead]
        /\ eject' = [p \in Pdos |-> eject[p] /\ p \notin dead]
        /\ devnodes' = devnodes \ dead /\ reported' = {}
        /\ UNCHANGED <<power, relations, ejecting, fdoState>>
    BY <1>0, <1>5 DEF FdoRemovePdos, Goes, SetState
  <2>2. PdoType'
    <3> HIDE DEF dead
    <3>1. missing' \in [Pdos -> BOOLEAN] /\ eject' \in [Pdos -> BOOLEAN]
      BY <2>1
    <3>2. state' \in [Pdos -> PnpStates] /\ prev' \in [Pdos -> PnpStates]
      BY <1>0, <2>1 DEF PdoType, PnpStates
    <3>3. UNCHANGED <<power, relations, ejecting>>
      BY <2>1
    <3>4. list' \subseteq Pdos /\ devnodes' \subseteq Pdos /\ reported' \subseteq Pdos
      BY <1>0, <2>1 DEF PdoType
    <3> QED
      BY <1>0, <3>1, <3>2, <3>3, <3>4 DEF PdoType
  <2>3. PdoAt'
    BY <1>0, <2>1 DEF PdoType, PdoAt, Removal, Asked, PnpStates
  <2>4. Asked'
    BY <1>0, <2>1 DEF PdoType, PdoAt, Asked, PnpStates
  <2>5. Known'
    BY <1>0, <2>1 DEF PdoType, PdoAt, Known, PnpStates
  <2> QED
    BY <2>2, <2>3, <2>4, <2>5
<1>6. CASE Sleep
  BY <1>0, <1>6 DEF Sleep, Goes, FdoAt, PnpStates, PdoType, PdoAt, Asked, Known
<1>7. CASE WakeResume
  BY <1>0, <1>7 DEF WakeResume, Goes, FdoAt, PnpStates, PdoType, PdoAt, Asked, Known
<1>8. ASSUME NEW p \in Pdos, PdoStartDevice(p)
      PROVE  PdoType' /\ PdoAt' /\ Asked' /\ Known'
  BY <1>0, <1>8
     DEF PdoStartDevice, Goes, Moves, SetState, PnpStates, PdoType, PdoAt, Asked,
         Known
<1>9. ASSUME NEW p \in Pdos, PdoQueryStopDevice(p)
      PROVE  PdoType' /\ PdoAt' /\ Asked' /\ Known'
  BY <1>0, <1>9
     DEF PdoQueryStopDevice, Goes, Moves, SetState, PnpStates, PdoType, PdoAt, Asked,
         Known
<1>10. ASSUME NEW p \in Pdos, PdoStopDevice(p)
       PROVE  PdoType' /\ PdoAt' /\ Asked' /\ Known'
  BY <1>0, <1>10
     DEF PdoStopDevice, Goes, Moves, SetState, PnpStates, PdoType, PdoAt, Asked, Known
<1>11. ASSUME NEW p \in Pdos, PdoQueryRemoveDevice(p)
       PROVE  PdoType' /\ PdoAt' /\ Asked' /\ Known'
  BY <1>0, <1>11
     DEF PdoQueryRemoveDevice, Goes, Moves, SetState, PnpStates, PdoType, PdoAt,
         Asked, Known
<1>12. ASSUME NEW p \in Pdos, PdoSurpriseRemoval(p)
       PROVE  PdoType' /\ PdoAt' /\ Asked' /\ Known'
  BY <1>0, <1>12
     DEF PdoSurpriseRemoval, Goes, Moves, SetState, PnpStates, PdoType, PdoAt, Asked,
         Known
<1>13. ASSUME NEW p \in Pdos, PdoCancel(p) PROVE PdoType' /\ PdoAt' /\ Asked' /\ Known'
  <2>1. /\ pnp = "query" /\ pnp' = "idle"
        /\ state[p] \in {"StopPending", "RemovePending"}
        /\ state' = [state EXCEPT ![p] = prev[p]]
        /\ prev' = [prev EXCEPT ![p] = "Invalid"]
        /\ eject' \in [Pdos -> BOOLEAN]
        /\ ejecting' = ejecting \/ ejecting' = [ejecting EXCEPT ![p] = "no"]
        /\ prev[p] \in {"Started", "Stopped", "Enumerated"}
        /\ UNCHANGED <<list, power, missing, relations, reported, devnodes, fdoState>>
    BY <1>0, <1>13, ZenonT(30) DEF PdoCancel, Goes, PdoType, Asked
  <2>2. PdoType'
    BY <1>0, <2>1 DEF PdoType, PnpStates
  <2>3. PdoAt'
    BY <1>0, <2>1 DEF PdoType, PdoAt, Asked, PnpStates
  <2>4. Asked'
    BY <1>0, <2>1 DEF PdoType, Asked, PnpStates
  <2>5. Known'
    BY <1>0, <2>1 DEF PdoType, PdoAt, Asked, Known, PnpStates
  <2> QED
    BY <2>2, <2>3, <2>4, <2>5
<1>14. ASSUME NEW p \in Pdos, PdoEject(p) PROVE PdoType' /\ PdoAt' /\ Asked' /\ Known'
  <2>1. /\ pnp = "eject" /\ pnp' = "idle" /\ ejecting[p] = "removed"
        /\ state' = [q \in Pdos |-> IF q = p THEN "Deleted" ELSE state[q]]
        /\ prev' = [q \in Pdos |-> "Invalid"]
        /\ missing' = [q \in Pdos |-> missing[q] \/ q = p]
        /\ devnodes' = devnodes \ {p}
        /\ ejecting' = [ejecting EXCEPT ![p] = "no"]
        /\ UNCHANGED <<list, power, eject, relations, reported, fdoState>>
    BY <1>0, <1>14 DEF PdoEject, Goes, SetState, SetMissing
  <2>2. PdoType'
    BY <1>0, <2>1 DEF PdoType, PnpStates
  <2>3. PdoAt'
    <3>1. \A q \in Pdos : /\ ejecting'[q] # "removed"
                         /\ state[q] \notin {"StopPending", "RemovePending"}
      BY <1>0, <2>1 DEF PdoType, PdoAt, Asked
    <3>2. p \in list /\ power[p] = "D3"
      BY <1>0, <2>1 DEF PdoType, PdoAt
    <3> QED
      BY <1>0, <2>1, <3>1, <3>2 DEF PdoType, PdoAt, PnpStates
  <2>4. Asked'
    BY <1>0, <2>1 DEF PdoType, Asked, PnpStates
  <2>5. Known'
    BY <1>0, <2>1 DEF PdoType, PdoAt, Asked, Known, PnpStates
  <2> QED
    BY <2>2, <2>3, <2>4, <2>5
<1>15. ASSUME NEW p \in Pdos, PdoRemoveDevice(p)
       PROVE  PdoType' /\ PdoAt' /\ Asked' /\ Known'
  <2>1. CASE ~missing[p]
    BY <1>0, <1>15, <2>1
       DEF PdoRemoveDevice, Removable, SetState, PdoType, PdoAt, Asked, Known,
           PnpStates
  <2>2. CASE missing[p] /\ state[p] = "SurpriseRemovePending"
    <3>1. /\ pnp = "idle" /\ pnp' = "idle" /\ state[p] = "SurpriseRemovePending"
          /\ list' = list \ {p}
          /\ state' = [q \in Pdos |-> IF q = p THEN "Invalid" ELSE state[q]]
          /\ prev' = [q \in Pdos |-> "Invalid"]
          /\ missing' = [q \in Pdos |-> missing[q] /\ q # p]
          /\ eject' = [q \in Pdos |-> eject[q] /\ q # p]
          /\ power' = [power EXCEPT ![p] = "D3"]
          /\ devnodes' = devnodes \ {p}
          /\ ejecting' = [ejecting EXCEPT ![p] = "no"]
          /\ UNCHANGED <<relations, reported, fdoState>>
      BY <1>0, <1>15, <2>2
         DEF PdoRemoveDevice, Removable, PdoRemoveMissing, Destroy, SetState
    <3>2. PdoType'
      BY <1>0, <3>1 DEF PdoType, PnpStates
    <3>3. PdoAt'
      BY <1>0, <3>1 DEF PdoType, PdoAt, Asked, PnpStates
    <3>4. Asked'
      BY <1>0, <3>1 DEF PdoType, Asked, PnpStates
    <3>5. Known'
      BY <1>0, <3>1 DEF PdoType, PdoAt, Known, PnpStates
    <3> QED
      BY <3>2, <3>3, <3>4, <3>5
  <2>3. CASE missing[p] /\ state[p] # "SurpriseRemovePending"
    BY <1>0, <1>15, <2>3
       DEF PdoRemoveDevice, Removable, PdoRemoveMissing, SetState, PdoType, PdoAt,
           Asked, Known, PnpStates
  <2> QED
    BY <2>1, <2>2, <2>3
<1>16. ASSUME NEW p \in Pdos, PdoRequestEject(p)
       PROVE  PdoType' /\ PdoAt' /\ Asked' /\ Known'
  BY <1>0, <1>16 DEF PdoRequestEject, PdoType, PdoAt, Asked, Known
<1>17. CASE FdoStartBegin
  BY <1>0, <1>17 DEF FdoStartBegin, Goes, FdoAt, PdoType, PdoAt, Asked, Known
<1>18. CASE FdoStartEnd
  BY <1>0, <1>18
     DEF FdoStartEnd, Goes, SetFdoState, FdoAt, PdoType, PdoAt, Asked, Known
<1>19. CASE RelationsBegin
  BY <1>0, <1>19 DEF RelationsBegin, Goes, FdoAt, PdoType, PdoAt, Asked, Known
<1>20. ASSUME NEW s \in {"StopPending", "RemovePending"}, FdoQuery(s)
      PROVE  PdoType' /\ PdoAt' /\ Asked' /\ Known'
  BY <1>0, <1>20 DEF FdoQuery, Goes, SetFdoState, FdoAt, PdoType, PdoAt, Asked, Known
<1>21. CASE FdoCancel
  BY <1>0, <1>21 DEF FdoCancel, Goes, FdoAt, PdoType, PdoAt, Asked, Known
<1>22. CASE FdoStopBegin
  BY <1>0, <1>22 DEF FdoStopBegin, Goes, FdoAt, PdoType, PdoAt, Asked, Known
<1>23. CASE FdoStopPower
  BY <1>0, <1>23 DEF FdoStopPower, Goes, FdoAt, PdoType, PdoAt, Asked, Known
<1>24. CASE FdoStopJoin
  BY <1>0, <1>24
     DEF FdoStopJoin, Goes, SetFdoState, FdoAt, PdoType, PdoAt, Asked, Known
<1>25. CASE FdoRemoveBegin
  BY <1>0, <1>25 DEF FdoRemoveBegin, FdoAt, PdoType, PdoAt, Asked, Known
<1>26. CASE FdoRemoveSuspend
  BY <1>0, <1>26 DEF FdoRemoveSuspend, Goes, FdoAt, PdoType, PdoAt, Asked, Known
<1>27. CASE FdoRemoveEnd
  BY <1>0, <1>27
     DEF FdoRemoveEnd, Goes, SetFdoState, FdoAt, PdoType, PdoAt, Asked, Known
<1>28. CASE SleepPower
  BY <1>0, <1>28 DEF SleepPower, Goes, FdoAt, PdoType, PdoAt, Asked, Known
<1>29. CASE WakePower
  BY <1>0, <1>29 DEF WakePower, Goes, FdoAt, PdoType, PdoAt, Asked, Known
<1>30. CASE UNCHANGED <<list, state, prev, power, missing, eject, relations,
                        reported, devnodes, ejecting, pnp, fdoState>>
  BY <1>0, <1>30 DEF PdoType, PdoAt, Asked, Known
<1> QED
  <2>1. [Next]_vars =>
          \/ ScanEnumerate \/ FdoStartEnd \/ RelationsBegin \/ RelationsList
          \/ RelationsEnd \/ FdoStopPower \/ FdoStopJoin \/ FdoRemovePdos
          \/ FdoRemoveSuspend \/ FdoRemoveEnd \/ SleepPower \/ WakePower
          \/ \E s \in {"StopPending", "RemovePending"} : FdoQuery(s)
          \/ WakeResume \/ FdoStartBegin \/ FdoSurpriseRemoval
          \/ FdoRemoveBegin \/ Sleep \/ FdoCancel \/ FdoStopBegin
          \/ \E p \in Pdos : \/ PdoSurpriseRemoval(p) \/ PdoRemoveDevice(p) \/ PdoEject(p)
                            \/ PdoStartDevice(p) \/ PdoQueryStopDevice(p)
                            \/ PdoQueryRemoveDevice(p) \/ PdoRequestEject(p)
                            \/ PdoCancel(p) \/ PdoStopDevice(p)
          \/ UNCHANGED <<list, state, prev, power, missing, eject, relations,
                         reported, devnodes, ejecting, pnp, fdoState>>
    BY DEF Next, Scan, FdoProceeds, FdoMay, Answers, PdoProceeds, PdoMay, vars,
           ScanWait, ScanCheck, ScanRead, DirectoryChanges
  <2> QED
    BY <1>1, <1>2, <1>3, <1>4, <1>5, <1>6, <1>7, <1>8, <1>9, <1>10, <1>11, <1>12,
       <1>13, <1>14, <1>15, <1>16, <1>17, <1>18, <1>19, <1>20, <1>21, <1>22, <1>23,
       <1>24, <1>25, <1>26, <1>27, <1>28, <1>29, <1>30, <2>1

-----------------------------------------------------------------------------
(* What the removal of the FDO has found and left stays as it is.          *)
LEMMA RemovalStep == IInv /\ [Next]_vars => Removal'
<1> SUFFICES ASSUME IInv, [Next]_vars PROVE Removal'
  OBVIOUS
<1> USE DEF fdoVars, pdoVars, scanVars, pnpVars, envVars
<1>0. /\ FdoType /\ FdoAt /\ MiscType /\ NameType /\ PdoType /\ Removal
  BY DEF IInv
<1>1. CASE ScanWait
  BY <1>0, <1>1 DEF ScanWait, MiscType, Removal, FdoAt
<1>2. CASE ScanCheck
  BY <1>0, <1>2 DEF ScanCheck, MiscType, Removal, FdoAt
<1>3. CASE ScanRead
  <2>1. scan = "read" /\ UNCHANGED <<pnp, list, state, races>>
    BY <1>3 DEF ScanRead
  <2>2. CASE scan' = "wait"
    BY <1>0, <2>1, <2>2 DEF Removal
  <2>3. CASE scanned' = scanned
    <3>1. pnp = "remove wait" => ~scanned'
      BY <1>0, <2>1, <2>3 DEF Removal
    <3>2. pnp' \notin {"remove suspend", "remove power", "remove join"}
      BY <1>0, <2>1 DEF Removal
    <3> QED
      BY <1>0, <2>1, <3>1, <3>2 DEF Removal
  <2> QED
    BY <1>3, <2>2, <2>3 DEF ScanRead
<1>4. CASE ScanEnumerate
  <2>1. PICK made, deleted \in SUBSET Pdos : Pass(made, deleted)
    BY <1>0, <1>4, Passes
  <2>2. scan = "enumerate" /\ scan' = "wait" /\ UNCHANGED <<pnp, races>>
    BY <1>4 DEF ScanEnumerate
  <2> QED
    BY <1>0, <2>1, <2>2 DEF Pass, PdoType, Removal
<1>5. CASE FdoStopPower
  BY <1>0, <1>5 DEF FdoStopPower, Goes, Removal, FdoAt
<1>6. CASE FdoRemoveBegin
  BY <1>0, <1>6 DEF FdoRemoveBegin, Idle, Removal, FdoAt
<1>7. CASE FdoRemovePdos
  BY <1>0, <1>7 DEF FdoRemovePdos, Goes, Removal, FdoAt
<1>8. CASE FdoRemoveSuspend
  BY <1>0, <1>8 DEF FdoRemoveSuspend, Goes, Removal, FdoAt
<1>9. CASE \/ FdoStartEnd \/ RelationsBegin \/ RelationsList \/ RelationsEnd
           \/ FdoStopJoin \/ FdoRemoveEnd \/ SleepPower \/ WakePower \/ WakeResume
           \/ FdoStartBegin \/ FdoSurpriseRemoval \/ Sleep \/ FdoCancel
           \/ FdoStopBegin
  BY <1>0, <1>9
     DEF FdoStartEnd, RelationsBegin, RelationsList, RelationsEnd, FdoStopJoin,
         FdoRemoveEnd, SleepPower, WakePower, WakeResume, FdoStartBegin,
         FdoSurpriseRemoval, Sleep, FdoCancel, FdoStopBegin, Goes, Removal, FdoAt
<1>10. ASSUME NEW s \in {"StopPending", "RemovePending"}, FdoQuery(s)
      PROVE  Removal'
  BY <1>0, <1>10 DEF FdoQuery, Goes, Removal, FdoAt
<1>11. ASSUME NEW p \in Pdos, \/ PdoSurpriseRemoval(p) \/ PdoEject(p)
                              \/ PdoStartDevice(p) \/ PdoQueryStopDevice(p)
                              \/ PdoQueryRemoveDevice(p) \/ PdoCancel(p)
                              \/ PdoStopDevice(p)
      PROVE  Removal'
  BY <1>0, <1>11
     DEF PdoSurpriseRemoval, PdoEject, PdoStartDevice, PdoQueryStopDevice,
         PdoQueryRemoveDevice, PdoCancel, PdoStopDevice, Goes, Removal, FdoAt
<1>12. ASSUME NEW p \in Pdos, PdoRemoveDevice(p) PROVE Removal'
  BY <1>0, <1>12 DEF PdoRemoveDevice, Removal, FdoAt
<1>13. CASE UNCHANGED <<scan, scanned, pnp, list, state, races>>
  BY <1>0, <1>13 DEF Removal, FdoAt
<1> QED
  <2>1. [Next]_vars =>
          \/ ScanWait \/ ScanCheck \/ ScanRead \/ ScanEnumerate \/ FdoStartEnd
          \/ RelationsBegin \/ RelationsList \/ RelationsEnd \/ FdoStopPower
          \/ FdoStopJoin \/ FdoRemovePdos \/ FdoRemoveSuspend \/ FdoRemoveEnd
          \/ \E s \in {"StopPending", "RemovePending"} : FdoQuery(s)
          \/ SleepPower \/ WakePower \/ WakeResume \/ FdoStartBegin
          \/ FdoSurpriseRemoval \/ FdoRemoveBegin \/ Sleep \/ FdoCancel
          \/ FdoStopBegin
          \/ \E p \in Pdos : \/ PdoSurpriseRemoval(p) \/ PdoRemoveDevice(p) \/ PdoEject(p)
                            \/ PdoStartDevice(p) \/ PdoQueryStopDevice(p)
                            \/ PdoQueryRemoveDevice(p) \/ PdoCancel(p)
                            \/ PdoStopDevice(p)
          \/ UNCHANGED <<scan, scanned, pnp, list, state, races>>
    BY DEF Next, Scan, FdoProceeds, FdoMay, Answers, PdoProceeds, PdoMay, vars,
           DirectoryChanges, PdoRequestEject
  <2> QED
    BY <1>1, <1>2, <1>3, <1>4, <1>5, <1>6, <1>7, <1>8, <1>9, <1>10, <1>11, <1>12,
       <1>13, <2>1

-----------------------------------------------------------------------------
(* The scan thread makes no PDO for a name that another has; and a PDO that  *)
(* is deleted stays so.                                                     *)
LEMMA NameStep == IInv /\ [Next]_vars => NameType' /\ OneDevicePerName'
<1> SUFFICES ASSUME IInv, [Next]_vars PROVE NameType' /\ OneDevicePerName'
  OBVIOUS
<1> USE DEF fdoVars, pdoVars, scanVars, pnpVars, envVars
<1>0. /\ MiscType /\ PdoType /\ NameType /\ PdoAt /\ Asked /\ OneDevicePerName
  BY DEF IInv
<1>a. ASSUME Candidates' \subseteq Candidates,
             \A p \in Candidates' : name'[p] = name[p], NameType'
      PROVE  NameType' /\ OneDevicePerName'
  BY <1>0, <1>a DEF OneDevicePerName
<1>1. CASE ScanEnumerate
  <2>1. PICK made, deleted \in SUBSET Pdos : Pass(made, deleted)
    BY <1>0, <1>1, Passes
  <2>2. NameType'
    BY <2>1 DEF Pass, NameType
  <2>3. Candidates' = (Candidates \ deleted) \cup made
    BY <1>0, <2>1, PnpAssumption DEF Pass, Candidates, PdoType, PdoAt
  <2>4. \A p \in Candidates \ deleted : name'[p] = name[p]
    BY <2>1 DEF Pass, Candidates
  <2>5. \A p \in made : name'[p] \notin {name[q] : q \in Candidates}
    BY <2>1 DEF Pass, Wanted
  <2>6. \A p, q \in made : name'[p] = name'[q] => p = q
    BY <2>1 DEF Pass
  <2>7. OneDevicePerName'
    <3> SUFFICES ASSUME NEW p \in Candidates', NEW q \in Candidates', name'[p] = name'[q]
                 PROVE  p = q
      BY DEF OneDevicePerName
    <3>1. CASE p \in made /\ q \in made
      BY <2>6, <3>1
    <3>2. CASE p \notin made /\ q \notin made
      BY <1>0, <2>3, <2>4, <3>2 DEF OneDevicePerName
    <3>3. CASE p \in made /\ q \notin made
      BY <2>3, <2>4, <2>5, <3>3
    <3>4. CASE p \notin made /\ q \in made
      BY <2>3, <2>4, <2>5, <3>4
    <3> QED
      BY <3>1, <3>2, <3>3, <3>4
  <2> QED
    BY <2>2, <2>7
<1>2. CASE RelationsList
  <2>1. UNCHANGED <<list,
                    name>> /\ \A p \in list : state[p] = "Deleted" => state'[p] = "Deleted"
    BY <1>0, <1>2 DEF RelationsList, SetState, PdoType
  <2>2. Candidates' \subseteq Candidates
    BY <2>1 DEF Candidates
  <2>3. NameType'
    BY <1>0, <2>1 DEF NameType
  <2> QED
    BY <1>a, <2>1, <2>2, <2>3
<1>3. CASE RelationsEnd
  <2>1. Candidates' \subseteq Candidates /\ \A p \in Candidates' : name'[p] = name[p]
    BY <1>0, <1>3
       DEF RelationsEnd, Destroy, SetState, Dead, Candidates, PdoType, PdoAt
  <2>2. NameType'
    BY <1>0, <1>3 DEF RelationsEnd, Destroy, SetState, Dead, NameType
  <2> QED
    BY <1>a, <2>1, <2>2
<1>4. CASE FdoRemovePdos
  <2>1. Candidates' \subseteq Candidates /\ \A p \in Candidates' : name'[p] = name[p]
    BY <1>0, <1>4 DEF FdoRemovePdos, SetState, Candidates, PdoType, PdoAt
  <2>2. NameType'
    BY <1>0, <1>4 DEF FdoRemovePdos, SetState, NameType
  <2> QED
    BY <1>a, <2>1, <2>2
<1>5. ASSUME NEW p \in Pdos, \/ PdoStartDevice(p) \/ PdoQueryStopDevice(p)
                             \/ PdoStopDevice(p)
      PROVE  NameType' /\ OneDevicePerName'
  <2>1. Candidates' \subseteq Candidates /\ \A q \in Candidates' : name'[q] = name[q]
    BY <1>0, <1>5
       DEF PdoStartDevice, PdoQueryStopDevice, PdoStopDevice, Moves, SetState,
           Candidates, PdoType, PdoAt
  <2>2. NameType'
    BY <1>0, <1>5
       DEF PdoStartDevice, PdoQueryStopDevice, PdoStopDevice, Moves, SetState,
           NameType
  <2> QED
    BY <1>a, <2>1, <2>2
<1>6. ASSUME NEW p \in Pdos, PdoQueryRemoveDevice(p) \/ PdoSurpriseRemoval(p)
      PROVE  NameType' /\ OneDevicePerName'
  <2>1. Candidates' \subseteq Candidates /\ \A q \in Candidates' : name'[q] = name[q]
    BY <1>0, <1>6
       DEF PdoQueryRemoveDevice, PdoSurpriseRemoval, Moves, SetState, Candidates,
           PdoType, PdoAt
  <2>2. NameType'
    BY <1>0, <1>6
       DEF PdoQueryRemoveDevice, PdoSurpriseRemoval, Moves, SetState, NameType
  <2> QED
    BY <1>a, <2>1, <2>2
<1>7. ASSUME NEW p \in Pdos, PdoCancel(p) PROVE NameType' /\ OneDevicePerName'
  <2>1. Candidates' \subseteq Candidates /\ \A q \in Candidates' : name'[q] = name[q]
    BY <1>0, <1>7 DEF PdoCancel, Asked, Candidates, PdoType, PdoAt
  <2>2. NameType'
    BY <1>0, <1>7 DEF PdoCancel, Asked, NameType
  <2> QED
    BY <1>a, <2>1, <2>2
<1>8. ASSUME NEW p \in Pdos, PdoEject(p) PROVE NameType' /\ OneDevicePerName'
  <2>1. Candidates' \subseteq Candidates /\ \A q \in Candidates' : name'[q] = name[q]
    BY <1>0, <1>8 DEF PdoEject, SetState, Candidates, PdoType, PdoAt
  <2>2. NameType'
    BY <1>0, <1>8 DEF PdoEject, SetState, NameType
  <2> QED
    BY <1>a, <2>1, <2>2
<1>9. ASSUME NEW p \in Pdos, PdoRemoveDevice(p) PROVE NameType' /\ OneDevicePerName'
  <2>1. Candidates' \subseteq Candidates /\ \A q \in Candidates' : name'[q] = name[q]
    BY <1>0, <1>9
       DEF PdoRemoveDevice, PdoRemoveMissing, Destroy, Removable, SetState,
           Candidates, PdoType, PdoAt
  <2>2. NameType'
    BY <1>0, <1>9
       DEF PdoRemoveDevice, PdoRemoveMissing, Destroy, Removable, SetState, NameType
  <2> QED
    BY <1>a, <2>1, <2>2
<1>10. CASE UNCHANGED <<list, state, name>>
  <2>1. Candidates' = Candidates /\ name' = name
    BY <1>10 DEF Candidates
  <2> QED
    BY <1>0, <1>a, <2>1 DEF NameType
<1> QED
  <2>1. [Next]_vars =>
          \/ ScanEnumerate \/ RelationsList \/ RelationsEnd \/ FdoRemovePdos
          \/ \E p \in Pdos : \/ PdoSurpriseRemoval(p) \/ PdoRemoveDevice(p) \/ PdoEject(p)
                            \/ PdoStartDevice(p) \/ PdoQueryStopDevice(p)
                            \/ PdoQueryRemoveDevice(p) \/ PdoCancel(p)
                            \/ PdoStopDevice(p)
          \/ UNCHANGED <<list, state, name>>
    BY DEF Next, Scan, FdoProceeds, FdoMay, Answers, PdoProceeds, PdoMay, vars,
           ScanWait, ScanCheck, ScanRead, FdoStartEnd, RelationsBegin, FdoStopPower,
           FdoStopJoin, FdoRemoveSuspend, FdoRemoveEnd, SleepPower, WakePower,
           WakeResume, FdoStartBegin, FdoQuery, FdoSurpriseRemoval, FdoRemoveBegin,
           Sleep, FdoCancel, FdoStopBegin, DirectoryChanges, PdoRequestEject
  <2> QED
    BY <1>1, <1>2, <1>3, <1>4, <1>5, <1>6, <1>7, <1>8, <1>9, <1>10, <2>1

(* What is taken off the list, or put on it, is counted.                   *)
LEMMA TakenOff ==
  ASSUME NEW l \in SUBSET Pdos, NEW S \in SUBSET l
  PROVE  /\ Cardinality(l) \in Nat /\ Cardinality(S) \in Nat
         /\ Cardinality(l \ S) \in Nat
         /\ Cardinality(l \ S) = Cardinality(l) - Cardinality(S)
<1>1. IsFiniteSet(l)
  BY PnpAssumption, FS_Subset
<1>2. IsFiniteSet(S)
  BY <1>1, FS_Subset
<1>3. Cardinality(l) \in Nat /\ Cardinality(S) \in Nat /\ Cardinality(l \ S) \in Nat
  BY <1>1, <1>2, FS_CardinalityType, FS_Difference
<1>4. Cardinality(l \ S) = Cardinality(l) - Cardinality(l \cap S)
  BY <1>1, FS_Difference
<1>5. l \cap S = S
  OBVIOUS
<1> QED
  BY <1>3, <1>4, <1>5

LEMMA PutOn ==
  ASSUME NEW l \in SUBSET Pdos, NEW S \in SUBSET Pdos, l \cap S = {}
  PROVE  Cardinality(l \cup S) = Cardinality(l) + Cardinality(S)
<1>1. IsFiniteSet(l) /\ IsFiniteSet(S)
  BY PnpAssumption, FS_Subset
<1>2. /\ Cardinality(l) \in Nat /\ Cardinality(S) \in Nat
      /\ Cardinality(l \cup S) = Cardinality(l) + Cardinality(S) - Cardinality(l \cap S)
  BY <1>1, FS_CardinalityType, FS_Union
<1>3. Cardinality(l \cap S) = 0
  BY FS_EmptySet
<1> QED
  BY <1>2, <1>3

(* Each PDO that comes or goes is counted, and the FDO once.                *)
LEMMA CountedStep == IInv /\ [Next]_vars => Counted'
<1> SUFFICES ASSUME IInv, [Next]_vars PROVE Counted'
  OBVIOUS
<1> USE DEF fdoVars, pdoVars, scanVars, pnpVars, envVars
<1>0. /\ MiscType /\ PdoType /\ NameType /\ PdoAt /\ FdoAt /\ ScanAt /\ Counted
  BY DEF IInv
<1>1. CASE ScanEnumerate
  <2>1. PICK made, deleted \in SUBSET Pdos : Pass(made, deleted)
    BY <1>0, <1>1, Passes
  <2>2. deleted \subseteq list
    BY <2>1 DEF Pass
  <2>3. /\ Cardinality(list) \in Nat /\ Cardinality(deleted) \in Nat
        /\ Cardinality(list \ deleted) \in Nat
        /\ Cardinality(list \ deleted) = Cardinality(list) - Cardinality(deleted)
    BY <1>0, <2>2, TakenOff DEF PdoType
  <2>4. Cardinality(list') = Cardinality(list \ deleted) + Cardinality(made)
    <3>1. (list \ deleted) \cap made = {} /\ list' = (list \ deleted) \cup made
      BY <2>1 DEF Pass
    <3>2. list \ deleted \in SUBSET Pdos
      BY <1>0 DEF PdoType
    <3> QED
      BY <3>1, <3>2, PutOn
  <2>5. Cardinality(made) \in Nat
    BY TakenOff
  <2>6. references' = references - Cardinality(deleted) + Cardinality(made)
    BY <2>1 DEF Pass
  <2>7. UNCHANGED <<fdoState, gone>> /\ fdoState # "Deleted"
    BY <1>0, <1>1 DEF ScanEnumerate, ScanAt, FdoAt
  <2> QED
    BY <2>3, <2>4, <2>5, <2>6, <2>7, <1>0 DEF Counted
<1>2. CASE RelationsEnd
  <2>1. /\ references' = references - Cardinality(Dead) /\ list' = list \ Dead
        /\ UNCHANGED <<fdoState, gone>> /\ fdoState = "Started" /\ Dead \subseteq list
    BY <1>0, <1>2 DEF RelationsEnd, Destroy, FdoAt, Goes, Dead
  <2>2. /\ Cardinality(list) \in Nat /\ Cardinality(Dead) \in Nat
        /\ Cardinality(list \ Dead) \in Nat
        /\ Cardinality(list \ Dead) = Cardinality(list) - Cardinality(Dead)
    BY <1>0, <2>1, TakenOff DEF PdoType
  <2> QED
    BY <1>0, <2>1, <2>2 DEF Counted
<1>3. CASE FdoRemovePdos
  <2> DEFINE dead == {p \in list : state[p] # "SurpriseRemovePending"}
  <2>1. /\ references' = references - Cardinality(dead) /\ list' = list \ dead
        /\ UNCHANGED <<fdoState, gone>> /\ fdoState # "Deleted" /\ dead \subseteq list
    BY <1>0, <1>3 DEF FdoRemovePdos, FdoAt, Goes
  <2> HIDE DEF dead
  <2>2. /\ Cardinality(list) \in Nat /\ Cardinality(dead) \in Nat
        /\ Cardinality(list \ dead) \in Nat
        /\ Cardinality(list \ dead) = Cardinality(list) - Cardinality(dead)
    BY <1>0, <2>1, TakenOff DEF PdoType
  <2> QED
    BY <1>0, <2>1, <2>2 DEF Counted
<1>4. CASE FdoRemoveEnd
  <2>1. references' = references - 1 /\ gone' = (references = 1) /\ list' = list
        /\ fdoState # "Deleted" /\ fdoState' = "Deleted"
    BY <1>0, <1>4 DEF FdoRemoveEnd, SetFdoState, FdoAt, Goes
  <2>2. Cardinality(list) \in Nat
    BY <1>0, TakenOff DEF PdoType
  <2> QED
    BY <1>0, <2>1, <2>2 DEF Counted
<1>5. ASSUME NEW p \in Pdos, PdoRemoveDevice(p) PROVE Counted'
  <2>1. CASE UNCHANGED <<references, gone, list, fdoState>>
    BY <1>0, <2>1 DEF Counted
  <2>2. CASE /\ Destroy({p}) /\ gone' = (references = 1) /\ UNCHANGED fdoState
             /\ state[p] = "SurpriseRemovePending"
    <3>1. /\ references' = references - Cardinality({p}) /\ list' = list \ {p}
          /\ {p} \subseteq list
      BY <1>0, <2>2 DEF Destroy, PdoAt
    <3>2. /\ Cardinality(list) \in Nat
          /\ Cardinality(list \ {p}) = Cardinality(list) - Cardinality({p})
      BY <1>0, <3>1, TakenOff DEF PdoType
    <3>3. Cardinality({p}) = 1
      BY FS_Singleton
    <3> QED
      BY <1>0, <2>2, <3>1, <3>2, <3>3 DEF Counted
  <2> QED
    BY <1>5, <2>1, <2>2 DEF PdoRemoveDevice, PdoRemoveMissing
<1>6. CASE FdoStartEnd \/ FdoCancel \/ FdoStopJoin \/ FdoSurpriseRemoval
  <2>1. fdoState # "Deleted" /\ fdoState' # "Deleted" /\ UNCHANGED <<references,
                                                                     gone, list>>
    BY <1>0, <1>6
       DEF FdoStartEnd, FdoCancel, FdoStopJoin, FdoSurpriseRemoval, SetFdoState,
           FdoAt, Goes
  <2> QED
    BY <1>0, <2>1 DEF Counted
<1>7. ASSUME NEW s \in {"StopPending", "RemovePending"}, FdoQuery(s)
      PROVE  Counted'
  BY <1>0, <1>7 DEF FdoQuery, SetFdoState, Counted, Counted
<1>8. CASE UNCHANGED <<list, references, gone, fdoState>>
  BY <1>0, <1>8 DEF Counted
<1> QED
  <2>1. [Next]_vars =>
          \/ ScanEnumerate \/ FdoStartEnd \/ RelationsEnd \/ FdoStopJoin
          \/ \E s \in {"StopPending", "RemovePending"} : FdoQuery(s)
          \/ FdoRemovePdos \/ FdoRemoveEnd \/ FdoSurpriseRemoval \/ FdoCancel
          \/ \E p \in Pdos : \/ PdoRemoveDevice(p)
          \/ UNCHANGED <<list, references, gone, fdoState>>
    BY DEF Next, Scan, FdoProceeds, FdoMay, Answers, PdoProceeds, PdoMay, vars,
           ScanWait, ScanCheck, ScanRead, RelationsBegin, RelationsList, FdoStopPower,
           FdoRemoveSuspend, SleepPower, WakePower, WakeResume, FdoStartBegin,
           FdoRemoveBegin, Sleep, FdoStopBegin, DirectoryChanges, PdoSurpriseRemoval,
           PdoEject, PdoStartDevice, PdoQueryStopDevice, PdoQueryRemoveDevice,
           PdoRequestEject, PdoCancel, PdoStopDevice, Moves
  <2> QED
    BY <1>1, <1>2, <1>3, <1>4, <1>5, <1>6, <1>7, <1>8, <2>1

-----------------------------------------------------------------------------
(* What resuming and suspending a set of PDOs does to each reference.      *)
LEMMA Counts ==
  ASSUME RefsType, NEW S
  PROVE  /\ Resumed(S) \in [Pdos -> Int] /\ Suspended(S) \in [Pdos -> Int]
         /\ \A p \in Pdos :
              /\ Resumed(S)[p] = IF p \in S THEN refs[p] + 1 ELSE refs[p]
              /\ Suspended(S)[p] = IF p \in S THEN refs[p] - 1 ELSE refs[p]
  BY DEF RefsType, Resumed, Suspended

LEMMA ReleasedCounts ==
  ASSUME RefsType, NEW S
  PROVE  /\ Released(S) \in [Pdos -> Int]
         /\ \A p \in Pdos :
              Released(S)[p] = IF p \in S /\ fdoPower # "D3" THEN refs[p] - 1 ELSE refs[p]
  BY Counts DEF RefsType, Released

(* The counts of references are integers.                                  *)
LEMMA RefsStep == IInv /\ [Next]_vars => RefsType'
<1> SUFFICES ASSUME IInv, [Next]_vars PROVE RefsType'
  OBVIOUS
<1> USE DEF fdoVars, pdoVars, scanVars, pnpVars, envVars
<1>0. /\ MiscType /\ PdoType /\ NameType /\ RefsType
  BY DEF IInv
<1>1. CASE ScanEnumerate
  <2>1. PICK made, deleted \in SUBSET Pdos : Pass(made, deleted)
    BY <1>0, <1>1, Passes
  <2>2. \A S : Released(S) \in [Pdos -> Int]
    BY <1>0, ReleasedCounts
  <2> QED
    BY <1>0, <2>1, <2>2 DEF Pass, RefsType
<1>2. CASE FdoStartEnd \/ WakeResume
  BY <1>0, <1>2, Counts DEF FdoStartEnd, WakeResume, ResumeAll, RefsType
<1>3. CASE FdoStopBegin
  BY <1>0, <1>3, Counts DEF FdoStopBegin, SuspendAll, RefsType
<1>4. CASE FdoRemoveSuspend
  BY <1>0, <1>4, Counts DEF FdoRemoveSuspend, SuspendAll, RefsType
<1>5. CASE Sleep
  BY <1>0, <1>5, Counts DEF Sleep, SuspendAll, RefsType
<1>6. CASE RelationsEnd
  BY <1>0, <1>6, ReleasedCounts DEF RelationsEnd, Destroy, RefsType
<1>7. CASE FdoRemovePdos
  BY <1>0, <1>7, ReleasedCounts DEF FdoRemovePdos, RefsType
<1>8. ASSUME NEW p \in Pdos, PdoRemoveDevice(p) PROVE RefsType'
  BY <1>0, <1>8, ReleasedCounts
     DEF PdoRemoveDevice, PdoRemoveMissing, Destroy, RefsType
<1>9. CASE UNCHANGED <<refs>>
  BY <1>0, <1>9 DEF RefsType
<1> QED
  <2>1. [Next]_vars =>
          \/ ScanEnumerate \/ FdoStartEnd \/ RelationsEnd \/ FdoRemovePdos
          \/ FdoRemoveSuspend \/ WakeResume \/ Sleep \/ FdoStopBegin
          \/ \E p \in Pdos : \/ PdoRemoveDevice(p)
          \/ UNCHANGED <<refs>>
    BY DEF Next, Scan, FdoProceeds, FdoMay, Answers, PdoProceeds, PdoMay, vars,
           ScanWait, ScanCheck, ScanRead, RelationsBegin, RelationsList, FdoStopPower,
           FdoStopJoin, FdoRemoveEnd, SleepPower, WakePower, FdoStartBegin, FdoQuery,
           FdoSurpriseRemoval, FdoRemoveBegin, FdoCancel, DirectoryChanges,
           PdoSurpriseRemoval, PdoEject, PdoStartDevice, PdoQueryStopDevice,
           PdoQueryRemoveDevice, PdoRequestEject, PdoCancel, PdoStopDevice, Moves
  <2> QED
    BY <1>1, <1>2, <1>3, <1>4, <1>5, <1>6, <1>7, <1>8, <1>9, <2>1

(* Which hazards are considered does not change.                            *)
LEMMA RacesKept == [Next]_vars => races' = races
  BY DEF Next, Scan, FdoProceeds, FdoMay, Answers, PdoProceeds, PdoMay, vars, envVars,
         Moves, ScanWait, ScanCheck, ScanRead, ScanEnumerate, FdoStartEnd,
         RelationsBegin, RelationsList, RelationsEnd, FdoStopPower, FdoStopJoin,
         FdoRemovePdos, FdoRemoveSuspend, FdoRemoveEnd, SleepPower, WakePower,
         WakeResume, FdoStartBegin, FdoQuery, FdoSurpriseRemoval, FdoRemoveBegin,
         Sleep, FdoCancel, FdoStopBegin, DirectoryChanges, PdoSurpriseRemoval,
         PdoRemoveDevice, PdoEject, PdoStartDevice, PdoQueryStopDevice,
         PdoQueryRemoveDevice, PdoRequestEject, PdoCancel, PdoStopDevice

(* With no hazard in the way, whoever is suspended had been resumed.        *)
LEMMA BalancedStep == IInv /\ [Next]_vars => AbiBalanced'
<1> SUFFICES ASSUME IInv, [Next]_vars, races \cap {"gap", "missing"} = {} PROVE Balanced'
  BY RacesKept DEF AbiBalanced
<1> USE DEF fdoVars, pdoVars, scanVars, pnpVars, envVars
<1>0. /\ FdoType /\ MiscType /\ PdoType /\ NameType /\ RefsType /\ FdoAt
       /\ ScanAt /\ PdoAt /\ Removal /\ Balanced
      /\ "gap" \notin races /\ "missing" \notin races
  BY DEF IInv, AbiBalanced
<1>1. CASE ScanEnumerate
  <2>1. PICK made, deleted \in SUBSET Pdos : Pass(made, deleted)
    BY <1>0, <1>1, Passes
  <2>2. ~Gap /\ UNCHANGED <<pnp, fdoPower>>
    BY <1>0, <1>1 DEF ScanEnumerate
  <2>3. fdoPower \in {"D0", "D3"}
    BY <1>0 DEF FdoType
  <2>4. \A p \in Pdos : Released(deleted)[p] = IF p \in deleted /\ fdoPower # "D3"
                                           THEN refs[p] - 1 ELSE refs[p]
    BY <1>0, ReleasedCounts
  <2>5. \A p \in Pdos : refs'[p] = IF p \in made
                                 THEN refs[p] + (IF fdoPower = "D0" THEN 1 ELSE 0)
                                 ELSE Released(deleted)[p]
    BY <2>1 DEF Pass
  <2>6. list' = (list \ deleted) \cup made /\ made \cap list = {} /\ deleted \subseteq list
    BY <2>1 DEF Pass
  <2>7. \A q \in Pdos : refs[q] = IF q \in list /\ fdoPower = "D0" THEN 1 ELSE 0
    BY <1>0, <2>2 DEF Balanced, Gap
  <2>8. ASSUME NEW q \in Pdos
        PROVE  refs'[q] = IF q \in list' /\ fdoPower = "D0" THEN 1 ELSE 0
    <3>1. CASE q \in made
      <4>1. refs[q] = 0
        BY <2>6, <2>7, <3>1
      <4> QED
        BY <2>5, <2>6, <3>1, <4>1
    <3>2. CASE q \notin made /\ q \in deleted /\ fdoPower = "D0"
      <4>1. refs[q] = 1
        BY <2>6, <2>7, <3>2
      <4>2. refs'[q] = refs[q] - 1
        BY <2>4, <2>5, <3>2
      <4> QED
        BY <2>6, <3>2, <4>1, <4>2
    <3>3. CASE q \notin made /\ ~(q \in deleted /\ fdoPower = "D0")
      <4>1. refs'[q] = refs[q]
        BY <2>3, <2>4, <2>5, <3>3
      <4> QED
        BY <2>6, <2>7, <3>3, <4>1
    <3> QED
      BY <3>1, <3>2, <3>3
  <2> QED
    BY <2>2, <2>8 DEF Balanced, Gap
<1>2. CASE FdoStartBegin
  <2>1. pnp' = "start" /\ fdoPower # "D0" /\ refs' = refs
    BY <1>0, <1>2 DEF FdoStartBegin, Goes, ScanAt
  <2> QED
    BY <1>0, <2>1 DEF RefsType, Balanced, Gap
<1>3. CASE FdoStartEnd
  <2>1. /\ pnp = "start" /\ pnp' = "idle" /\ fdoPower = "D0" /\ refs' = Resumed(list)
        /\ UNCHANGED <<fdoPower, list>>
    BY <1>0, <1>3 DEF FdoStartEnd, Goes, ScanAt, ResumeAll
  <2> QED
    BY <1>0, <2>1, Counts DEF Balanced, Gap
<1>4. CASE RelationsEnd
  <2>1. /\ pnp = "relations" /\ pnp' = "idle" /\ refs' = Suspended(Dead) /\ UNCHANGED fdoPower
        /\ list' = list \ Dead /\ Dead \subseteq list /\ fdoPower = "D0"
    BY <1>0, <1>4 DEF RelationsEnd, Goes, ScanAt, FdoAt, Destroy, Released, Dead
  <2> QED
    BY <1>0, <2>1, Counts DEF Balanced, Gap
<1>5. CASE FdoStopBegin \/ Sleep
  <2>1. /\ pnp \in {"query", "idle"} /\ pnp' \in {"stop", "sleep"} /\ UNCHANGED list
        /\ refs' = Suspended(list)
        /\ fdoPower = "D0"
    BY <1>0, <1>5, ZenonT(30)
       DEF FdoStopBegin, Sleep, Goes, ScanAt, FdoAt, PdoType, PdoAt, MayPowerDown,
           SuspendAll
  <2>2. \A p \in Pdos : refs'[p] = IF p \in list THEN refs[p] - 1 ELSE refs[p]
    BY <1>0, <2>1, Counts
  <2>3. \A q \in Pdos : refs[q] = IF q \in list THEN 1 ELSE 0
    BY <1>0, <2>1 DEF Balanced, Gap
  <2>4. \A q \in Pdos : refs'[q] = 0
    BY <2>2, <2>3
  <2> QED
    BY <2>1, <2>4 DEF Balanced, Gap
<1>6. CASE FdoStopPower \/ SleepPower
  <2>1. fdoPower' = "D3" /\ Gap /\ refs' = refs
    BY <1>0, <1>6 DEF FdoStopPower, SleepPower, PowerDown, Gap, Goes
  <2> QED
    BY <1>0, <2>1 DEF Balanced, Gap
<1>7. CASE FdoStopJoin
  <2>1. /\ pnp \in {"stop join", "remove join"} /\ fdoPower # "D0"
        /\ UNCHANGED <<fdoPower, refs>>
    BY <1>0, <1>7 DEF FdoStopJoin, ScanAt, Goes
  <2> QED
    BY <1>0, <2>1 DEF Balanced, Gap
<1>8. CASE FdoRemovePdos
  <2> DEFINE dead == {p \in list : state[p] # "SurpriseRemovePending"}
  <2>1. /\ pnp = "remove wait" /\ pnp' = "remove suspend" /\ refs' = Released(dead)
        /\ list' = list \ dead /\ dead = list /\ fdoPower = "D0"
    BY <1>0, <1>8 DEF FdoRemovePdos, Goes, Removal, ScanAt, FdoAt
  <2> HIDE DEF dead
  <2>2. \A p \in Pdos : refs'[p] = IF p \in dead THEN refs[p] - 1 ELSE refs[p]
    BY <1>0, <2>1, ReleasedCounts
  <2>3. \A q \in Pdos : refs[q] = IF q \in dead THEN 1 ELSE 0
    BY <1>0, <2>1 DEF Balanced, Gap
  <2>4. \A q \in Pdos : refs'[q] = 0
    BY <2>2, <2>3
  <2>5. list' = {}
    BY <2>1
  <2> QED
    BY <2>4, <2>5 DEF Balanced
<1>9. CASE FdoRemoveSuspend
  <2>1. /\ pnp = "remove suspend" /\ list = {} /\ list' = list
        /\ refs' = Suspended({})
    BY <1>0, <1>9 DEF FdoRemoveSuspend, Goes, Removal, SuspendAll
  <2>2. \A p \in Pdos : refs'[p] = IF p \in {} THEN refs[p] - 1 ELSE refs[p]
    BY <1>0, <2>1, Counts, ZenonT(30)
  <2>3. \A q \in Pdos : refs[q] = IF q \in {} THEN 1 ELSE 0
    BY <1>0, <2>1 DEF Balanced, Gap
  <2>4. \A q \in Pdos : refs'[q] = 0
    BY <2>2, <2>3
  <2> QED
    BY <2>1, <2>4 DEF Balanced, Gap
<1>10. CASE WakePower
  <2>1. /\ pnp = "asleep" /\ pnp' = "waking" /\ fdoPower # "D0" /\ refs' = refs
    BY <1>0, <1>10 DEF WakePower, Goes, ScanAt
  <2> QED
    BY <1>0, <2>1 DEF Balanced, Gap
<1>11. CASE WakeResume
  <2>1. /\ pnp = "waking" /\ pnp' = "idle" /\ fdoPower = "D0" /\ refs' = Resumed(list)
        /\ UNCHANGED <<fdoPower, list>>
    BY <1>0, <1>11 DEF WakeResume, Goes, ScanAt, FdoAt, ResumeAll
  <2> QED
    BY <1>0, <2>1, Counts DEF Balanced, Gap
<1>12. ASSUME NEW p \in Pdos, PdoRemoveDevice(p) PROVE Balanced'
  <2>1. pnp \in {"query", "idle"} /\ pnp' \in {"eject", "idle"} /\ UNCHANGED fdoPower
    BY <1>12 DEF PdoRemoveDevice, Removable
  <2>2. CASE UNCHANGED <<list, refs>>
    BY <1>0, <2>1, <2>2 DEF Balanced, Gap
  <2>3. CASE Destroy({p})
    <3>1. fdoPower \in {"D0", "D3"} /\ list' = list \ {p} /\ refs' = Released({p})
      BY <1>0, <2>3 DEF FdoType, Destroy
    <3>2. p \in list
      BY <1>0, <1>12 DEF PdoRemoveDevice, Removable, PdoAt
    <3>3. \A q \in Pdos : refs'[q] = IF q = p /\ fdoPower # "D3" THEN refs[q] - 1 ELSE refs[q]
      BY <1>0, <3>1, ReleasedCounts
    <3>4. \A q \in Pdos : refs[q] = IF q \in list /\ fdoPower = "D0" THEN 1 ELSE 0
      BY <1>0, <2>1 DEF Balanced, Gap
    <3>5. fdoPower = "D0" => refs'[p] = 0
      <4>1. fdoPower = "D0" => refs[p] = 1 /\ refs'[p] = refs[p] - 1
        BY <3>1, <3>2, <3>3, <3>4
      <4> QED
        BY <4>1
    <3>6. \A q \in Pdos : q # p \/ fdoPower = "D3" => refs'[q] = refs[q]
      BY <3>1, <3>3
    <3>7. \A q \in Pdos : refs'[q] = IF q \in list' /\ fdoPower' = "D0" THEN 1 ELSE 0
      BY <2>1, <3>1, <3>4, <3>5, <3>6
    <3> QED
      BY <2>1, <3>7 DEF Balanced, Gap
  <2> QED
    BY <1>12, <2>2, <2>3 DEF PdoRemoveDevice, PdoRemoveMissing
<1>13. CASE FdoRemoveEnd \/ FdoSurpriseRemoval \/ FdoCancel
  <2>1. ~Gap /\ ~Gap' /\ UNCHANGED <<refs, list, fdoPower>>
    BY <1>0, <1>13 DEF FdoRemoveEnd, FdoSurpriseRemoval, FdoCancel, Goes, Gap
  <2> QED
    BY <1>0, <2>1 DEF Balanced, Gap
<1>14. CASE RelationsBegin \/ RelationsList \/ FdoRemoveBegin
  <2>1. ~Gap /\ ~Gap' /\ UNCHANGED <<refs, list, fdoPower>>
    BY <1>0, <1>14 DEF RelationsBegin, RelationsList, FdoRemoveBegin, Goes, Gap
  <2> QED
    BY <1>0, <2>1 DEF Balanced, Gap
<1>15. ASSUME NEW s \in {"StopPending", "RemovePending"}, FdoQuery(s)
      PROVE  Balanced'
  <2>1. ~Gap /\ ~Gap' /\ UNCHANGED <<refs, list, fdoPower>>
    BY <1>0, <1>15 DEF FdoQuery, Goes, Gap
  <2> QED
    BY <1>0, <2>1 DEF Balanced, Gap
<1>16. ASSUME NEW p \in Pdos, \/ PdoSurpriseRemoval(p) \/ PdoStartDevice(p)
                              \/ PdoStopDevice(p)
      PROVE  Balanced'
  <2>1. ~Gap /\ ~Gap' /\ UNCHANGED <<refs, list, fdoPower>>
    BY <1>0, <1>16
       DEF PdoSurpriseRemoval, PdoStartDevice, PdoStopDevice, Moves, Goes, Gap
  <2> QED
    BY <1>0, <2>1 DEF Balanced, Gap
<1>17. ASSUME NEW p \in Pdos, PdoQueryStopDevice(p) \/ PdoQueryRemoveDevice(p)
      PROVE  Balanced'
  <2>1. ~Gap /\ ~Gap' /\ UNCHANGED <<refs, list, fdoPower>>
    BY <1>0, <1>17 DEF PdoQueryStopDevice, PdoQueryRemoveDevice, Moves, Goes, Gap
  <2> QED
    BY <1>0, <2>1 DEF Balanced, Gap
<1>18. ASSUME NEW p \in Pdos, PdoEject(p) \/ PdoCancel(p)
      PROVE  Balanced'
  <2>1. ~Gap /\ ~Gap' /\ UNCHANGED <<refs, list, fdoPower>>
    BY <1>0, <1>18 DEF PdoEject, PdoCancel, Goes, Gap
  <2> QED
    BY <1>0, <2>1 DEF Balanced, Gap
<1>19. CASE UNCHANGED <<refs, list, fdoPower, pnp>>
  BY <1>0, <1>19 DEF Balanced, Gap
<1> QED
  <2>1. [Next]_vars =>
          \/ ScanEnumerate \/ FdoStartEnd \/ RelationsBegin \/ RelationsList
          \/ RelationsEnd \/ FdoStopPower \/ FdoStopJoin \/ FdoRemovePdos
          \/ FdoRemoveSuspend \/ FdoRemoveEnd \/ SleepPower \/ WakePower
          \/ \E s \in {"StopPending", "RemovePending"} : FdoQuery(s)
          \/ WakeResume \/ FdoStartBegin \/ FdoSurpriseRemoval
          \/ FdoRemoveBegin \/ Sleep \/ FdoCancel \/ FdoStopBegin
          \/ \E p \in Pdos : \/ PdoSurpriseRemoval(p) \/ PdoRemoveDevice(p) \/ PdoEject(p)
                            \/ PdoStartDevice(p) \/ PdoQueryStopDevice(p)
                            \/ PdoQueryRemoveDevice(p) \/ PdoCancel(p)
                            \/ PdoStopDevice(p)
          \/ UNCHANGED <<refs, list, fdoPower, pnp>>
    BY DEF Next, Scan, FdoProceeds, FdoMay, Answers, PdoProceeds, PdoMay, vars,
           ScanWait, ScanCheck, ScanRead, DirectoryChanges, PdoRequestEject
  <2> QED
    BY <1>1, <1>2, <1>3, <1>4, <1>5, <1>6, <1>7, <1>8, <1>9, <1>10, <1>11, <1>12,
       <1>13, <1>14, <1>15, <1>16, <1>17, <1>18, <1>19, <2>1

-----------------------------------------------------------------------------
(* FdoCreate and PdoCreate leave everything in its place.                  *)
LEMMA IInvInit == Init => IInv
<1> SUFFICES ASSUME Init PROVE IInv
  OBVIOUS
<1>1. FdoType /\ FdoAt /\ ScanAt
  BY DEF Init, FdoType, FdoStates, PnpStates, FdoAt, ScanAt
<1>2. MiscType /\ NameType /\ RefsType
  <2>1. MiscType
    <3>1. 0 \in 0 .. MaxDowns
      BY PnpAssumption
    <3>2. /\ event = FALSE /\ alerted = FALSE /\ scanned = FALSE /\ invalid = FALSE
          /\ devices = {} /\ directory \in SUBSET Names /\ downs = 0
      BY DEF Init
    <3> QED
      BY <3>1, <3>2 DEF MiscType
  <2>2. NameType
    BY DEF Init, NameType
  <2>3. RefsType
    BY DEF Init, RefsType
  <2> QED
    BY <2>1, <2>2, <2>3
<1>3. PdoType /\ PdoAt /\ Asked /\ Known /\ Removal
  BY PnpAssumption DEF Init, PdoType, PnpStates, PdoAt, Asked, Known, Removal
<1>4. Counted
  <2>1. Cardinality({Default}) = 1
    BY FS_Singleton
  <2>2. /\ list = {Default} /\ references = 2 /\ fdoState = "Added"
        /\ gone = FALSE
    BY DEF Init
  <2>3. references = Cardinality(list) + 1 /\ references # 0
    BY <2>1, <2>2
  <2> QED
    BY <2>2, <2>3 DEF Counted
<1>5. OneDevicePerName
  BY DEF Init, OneDevicePerName, Candidates
<1>6. AbiBalanced
  BY DEF Init, AbiBalanced, Balanced
<1> QED
  BY <1>1, <1>2, <1>3, <1>4, <1>5, <1>6 DEF IInv

LEMMA IInvStep == IInv /\ [Next]_vars => IInv'
<1> SUFFICES ASSUME IInv, [Next]_vars PROVE IInv'
  OBVIOUS
<1> QED
  BY FdoStep, MiscStep, PdoStep, NameStep, RefsStep, CountedStep, RemovalStep,
     BalancedStep DEF IInv

(* The inductive invariant holds of every behaviour. *)
THEOREM Invariance == Spec => []IInv
<1> QED
  BY IInvInit, IInvStep, PTL DEF Spec

(* Whatever the PnP manager, the scan thread and the toolstack do, the FDO *)
(* counts itself and its PDOs, and is gone with the last of them.          *)
THEOREM TypeCorrect == Spec => []TypeOK
<1>1. IInv => TypeOK
  <2> SUFFICES ASSUME IInv PROVE TypeOK
    OBVIOUS
  <2>1. FdoType /\ MiscType /\ PdoType /\ NameType /\ Counted /\ RefsType
    BY DEF IInv
  <2>2. {fdoState, fdoPrev} \subseteq PnpStates
    BY <2>1 DEF FdoType, FdoStates, PnpStates
  <2>3. {event, alerted, scanned, invalid, gone} \subseteq BOOLEAN
    BY <2>1 DEF MiscType, Counted
  <2>4. relations \cup reported \cup devnodes \subseteq Pdos
    BY <2>1 DEF PdoType
  <2> QED
    BY <2>1, <2>2, <2>3, <2>4
       DEF FdoType, MiscType, PdoType, NameType, Counted, RefsType, TypeOK
<1> QED
  BY Invariance, <1>1, PTL

(* A PDO the PnP manager may send an IRP to has not been destroyed by the  *)
(* scan, the enumeration or a removal, and none is destroyed while powered.*)
THEOREM DevnodesStayListed == Spec => []DevnodesListed
<1>1. IInv => /\ devnodes \subseteq list
              /\ \A p \in Pdos \ list : power[p] = "D3"
  <2> SUFFICES ASSUME IInv PROVE /\ devnodes \subseteq list
                                 /\ \A p \in Pdos \ list : power[p] = "D3"
    OBVIOUS
  <2>1. PdoType /\ PdoAt /\ Known
    BY DEF IInv
  <2> QED
    BY <2>1 DEF PdoType, PdoAt, Known
<1> QED
  BY Invariance, TypeCorrect, <1>1, PTL DEF DevnodesListed

(* However the directory changes, no two PDOs of one name are there that   *)
(* are not deleted.                                                        *)
THEOREM NamesStayDistinct == Spec => []OneDevicePerName
<1>1. IInv => OneDevicePerName
  BY DEF IInv
<1> QED
  BY Invariance, <1>1, PTL

(* Where neither the gap in a change of power nor a missing PDO is met, the *)
(* references to the consoles are those of the PDOs of a powered FDO.       *)
THEOREM ReferencesBalance == Spec => []AbiBalanced
<1>1. IInv => AbiBalanced
  BY DEF IInv
<1> QED
  BY Invariance, <1>1, PTL
=============================================================================
