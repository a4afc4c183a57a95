----------------------------- MODULE AgentStore -----------------------------
(***************************************************************************)
(* What the node promises about the agents it hosts, without saying how.   *)
(* An alias has a set of live replicas; each replica is one version of the *)
(* agent's memory.  Deploying adds a replica.  Waking a replica atomically *)
(* replaces its version by the one the run left behind.  A version is used *)
(* once: it never comes back after it was replaced.                        *)
(***************************************************************************)
CONSTANT Alias

VARIABLES live,    \* live[a]: the versions an alias can be woken from
          used     \* every version that was ever live

avars == <<live, used>>

Init == /\ live = [a \in Alias |-> {}]
        /\ used = {}

Deploy(a, v) ==
    /\ v \notin used
    /\ live' = [live EXCEPT ![a] = @ \cup {v}]
    /\ used' = used \cup {v}

Advance(a, old, new) ==
    /\ old \in live[a]
    /\ new \notin used
    /\ live' = [live EXCEPT ![a] = (@ \ {old}) \cup {new}]
    /\ used' = used \cup {new}

\* A run without an alias leaves a version behind that nobody can wake.
Discard(v) ==
    /\ v \notin used
    /\ used' = used \cup {v}
    /\ UNCHANGED live

\* The versions are the naturals, which a model checker cannot enumerate: the
\* one a step takes is found in used'.
Next == \E new \in used' \ used :
           \/ Discard(new)
           \/ \E a \in Alias : \/ Deploy(a, new)
                               \/ \E old \in live[a] : Advance(a, old, new)

Spec == Init /\ [][Next]_avars
=============================================================================
