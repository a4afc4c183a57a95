------------------------------ MODULE Vitality ------------------------------
(***************************************************************************)
(* VitalityManager: who of the hive was heard of, and what a sweep makes   *)
(* of the silence of the others.  Time counts in units of 5 s, rounded     *)
(* down, so that a node is suspect after 1 and dead after 3; the clock is  *)
(* the wall clock and may be set back.  Nothing in src calls the sweep:    *)
(* its caller is external.                                                 *)
(***************************************************************************)
EXTENDS Integers

CONSTANTS
    Peer,         \* nodes heartbeats are received from
    MaxClock      \* bound: the clock

ASSUME VitalityAssumption == MaxClock \in Nat

VARIABLES
    clock,        \* the wall clock
    vital,        \* vital[p]: last_seen_us and status of a node, or unknown
    sweeping,     \* what the sweep under way has to visit, and its now
    silence,      \* silence[p]: longest silence a sweep saw since the last heartbeat
    obituaries    \* obituaries[p]: times it was reported since then (both not in the code)

vitalityVars == <<clock, vital, sweeping, silence, obituaries>>

Unknown == [status |-> "unknown", seen |-> 0]
Resting == [left |-> {}, now |-> 0]

VitalityInit ==
    /\ clock = 0
    /\ vital = [p \in Peer |-> Unknown]
    /\ sweeping = Resting
    /\ silence = [p \in Peer |-> 0]
    /\ obituaries = [p \in Peer |-> 0]

\* Time passes, or the clock is set back.
SetClock ==
    /\ clock' \in 0..MaxClock \ {clock}
    /\ UNCHANGED <<vital, sweeping, silence, obituaries>>

RecordHeartbeat(p) ==
    /\ vital' = [vital EXCEPT ![p] = [status |-> "Active", seen |-> clock]]
    /\ silence' = [silence EXCEPT ![p] = 0]
    /\ obituaries' = [obituaries EXCEPT ![p] = 0]
    /\ UNCHANGED <<clock, sweeping>>

\* calculate_unresponsive reads the clock once ...
StartSweep ==
    /\ sweeping.left = {} /\ \E p \in Peer : vital[p] # Unknown
    /\ sweeping' = [left |-> {p \in Peer : vital[p] # Unknown}, now |-> clock]
    /\ UNCHANGED <<clock, vital, silence, obituaries>>

Elapsed(p) == IF sweeping.now > vital[p].seen THEN sweeping.now - vital[p].seen ELSE 0

\* Mutant: a node that just became suspect waits for the next sweep.
AfterOneStep(status, elapsed) ==
    IF status = "Active" /\ elapsed >= 1 THEN "Suspect"
    ELSE IF status = "Suspect" /\ elapsed >= 3 THEN "Dead" ELSE status
\* What a silence makes of a status: both tests, one after the other.
After(status, elapsed) ==
    LET suspected == IF status = "Active" /\ elapsed >= 1 THEN "Suspect" ELSE status IN
    IF suspected = "Suspect" /\ elapsed >= 3 THEN "Dead" ELSE suspected

\* ... and visits the entries one by one, heartbeats coming in between.
SweepEntry(p) ==
    /\ p \in sweeping.left
    /\ sweeping' = IF sweeping.left = {p} THEN Resting
                   ELSE [sweeping EXCEPT !.left = @ \ {p}]
    /\ LET status == After(vital[p].status, Elapsed(p)) IN
       /\ vital' = [vital EXCEPT ![p].status = status]
       /\ obituaries' = [obituaries EXCEPT
             ![p] = @ + IF status = "Dead" /\ vital[p].status # "Dead" THEN 1 ELSE 0]
    /\ silence' = [silence EXCEPT ![p] = IF Elapsed(p) > @ THEN Elapsed(p) ELSE @]
    /\ UNCHANGED clock

VitalityNext ==
    \/ SetClock \/ StartSweep
    \/ \E p \in Peer : RecordHeartbeat(p) \/ SweepEntry(p)

VitalitySpec == VitalityInit /\ [][VitalityNext]_vitalityVars

-----------------------------------------------------------------------------
(* Properties *)

VitalityTypeOK ==
    /\ clock \in 0..MaxClock
    /\ vital \in [Peer -> [status : {"unknown", "Active", "Suspect", "Dead"}, seen : 0..MaxClock]]
    /\ sweeping \in [left : SUBSET Peer, now : 0..MaxClock]
    /\ silence \in [Peer -> 0..MaxClock]
    /\ obituaries \in [Peer -> 0..1]

\* A node's status is what the longest silence since its last heartbeat calls for,
\* and a node is reported when it dies and not again: whatever order heartbeats and
\* sweeps come in, though the clock is set back, and however long no sweep is made
\* (record_heartbeat, calculate_unresponsive).
VerdictsFollowSilence ==
    \A p \in Peer : vital[p] # Unknown =>
        /\ vital[p].status = CASE silence[p] >= 3 -> "Dead"
                               [] silence[p] \in 1..2 -> "Suspect"
                               [] OTHER -> "Active"
        /\ obituaries[p] = IF vital[p].status = "Dead" THEN 1 ELSE 0
=============================================================================
