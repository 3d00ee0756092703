------------------------------ MODULE PowerTree ------------------------------
(***************************************************************************)
(* What the power IRPs of a bus and its devices are to bring about: a      *)
(* device is awake only while its bus is, so that it wakes after it and    *)
(* sleeps before it.  A bus that failed to wake holds nothing back.        *)
(***************************************************************************)
CONSTANTS Bus, Devices

VARIABLES awake,        \* the devices and the bus, those that are awake
          failed        \* whether the last attempt to wake the bus failed

Init == awake = {} /\ failed = FALSE

WakeBus == /\ Bus \notin awake
           /\ awake' = awake \cup {Bus}
           /\ failed' = FALSE

FailBus == Bus \notin awake /\ failed' = TRUE /\ UNCHANGED awake

Wake(d) == /\ Bus \in awake \/ failed
           /\ awake' = awake \cup {d}
           /\ UNCHANGED failed

Sleep(d) == awake' = awake \ {d} /\ UNCHANGED failed

SleepBus == /\ awake = {Bus}
            /\ awake' = {}
            /\ UNCHANGED failed

(* The bus is replaced by another. *)
Replace == Bus \notin awake /\ failed' = FALSE /\ UNCHANGED awake

Next == \/ WakeBus \/ FailBus \/ SleepBus \/ Replace
        \/ \E d \in Devices : Wake(d) \/ Sleep(d)

Spec == Init /\ [][Next]_<<awake, failed>>
=============================================================================
