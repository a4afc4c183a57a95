-------------------------------- MODULE Keys --------------------------------
(***************************************************************************)
(* KeyStore and the middleware that asks it: a request first looks whether *)
(* any key is active, entry by entry, and then whether its own is.  Keys   *)
(* are created and revoked meanwhile; none is ever removed.                *)
(***************************************************************************)
EXTENDS Integers, FiniteSets

CONSTANTS
    Key,          \* keys that may be created
    PrefixOf,     \* PrefixOf[k]: what a key is revoked by
    Visitor,      \* requests, each made once
    NoKey         \* no key presented

ASSUME KeysAssumption == NoKey \notin Key

VARIABLES
    keys,         \* keys[k]: the record of a key
    usage,        \* usage[k]: times a key was presented with success
    visitor,      \* visitor[v]: how far a request is
    wasActive,    \* wasActive[v]: keys that were active at some moment of it
    wasNot        \* wasNot[v]: keys that were not (both not in the code)

keysVars == <<keys, usage, visitor, wasActive, wasNot>>

Active == {k \in Key : keys[k] = "active"}

\* What a request shows: a key, in one of two headers, or none.
Shown == Key \cup {NoKey}

NewVisitor == [stage |-> "new", key |-> NoKey, left |-> {}]

\* The server makes a boot key before it serves; tests start without.
KeysInit ==
    /\ keys \in {[k \in Key |-> "absent"]}
          \cup {[k \in Key |-> IF k = boot THEN "active" ELSE "absent"] : boot \in Key}
    /\ usage = [k \in Key |-> 0]
    /\ visitor = [v \in Visitor |-> NewVisitor]
    /\ wasActive = [v \in Visitor |-> {}]
    /\ wasNot = [v \in Visitor |-> {}]

UnderWay == {v \in Visitor : visitor[v].stage \in {"scanning", "validating"}}

\* What requests under way have seen of the keys by now.
Witnessed(state) ==
    /\ wasActive' = [v \in Visitor |-> IF v \in UnderWay
                        THEN wasActive[v] \cup {k \in Key : state[k] = "active"} ELSE wasActive[v]]
    /\ wasNot' = [v \in Visitor |-> IF v \in UnderWay
                        THEN wasNot[v] \cup {k \in Key : state[k] # "active"} ELSE wasNot[v]]

CreateKey(k) ==
    /\ keys[k] = "absent"
    /\ keys' = [keys EXCEPT ![k] = "active"]
    /\ Witnessed(keys')
    /\ UNCHANGED <<usage, visitor>>

\* One active key of that prefix, whichever comes first.
Revoke(prefix) ==
    /\ \E k \in Active : PrefixOf[k] = prefix /\ keys' = [keys EXCEPT ![k] = "revoked"]
    /\ Witnessed(keys')
    /\ UNCHANGED <<usage, visitor>>

\* A request arrives and has_keys starts to look at the entries.
Arrive(v, key) ==
    /\ visitor[v] = NewVisitor
    /\ visitor' = [visitor EXCEPT ![v] = [stage |-> "scanning", key |-> key, left |-> Key]]
    /\ wasActive' = [wasActive EXCEPT ![v] = Active]
    /\ wasNot' = [wasNot EXCEPT ![v] = Key \ Active]
    /\ UNCHANGED <<keys, usage>>

\* has_keys: an active key ends the scan, and without one the request passes.
Scan(v, k) ==
    /\ visitor[v].stage = "scanning" /\ k \in visitor[v].left
    /\ visitor' = [visitor EXCEPT
          ![v].stage = IF keys[k] = "active" THEN "validating"
                       ELSE IF visitor[v].left = {k} THEN "admitted" ELSE @,
          ![v].left = @ \ {k}]
    /\ UNCHANGED <<keys, usage, wasActive, wasNot>>

\* Mutant: a key that was revoked is as good as another.
GoodWhenKnown(k) == k # NoKey /\ keys[k] # "absent"
\* validate finds the key by its hash.
Good(k) == k # NoKey /\ keys[k] = "active"

Validate(v) ==
    LET k == visitor[v].key IN
    /\ visitor[v].stage = "validating"
    /\ visitor' = [visitor EXCEPT ![v].stage = IF Good(k) THEN "admitted" ELSE "refused",
                                  ![v].left = {}]
    /\ usage' = IF Good(k) THEN [usage EXCEPT ![k] = @ + 1] ELSE usage
    /\ UNCHANGED <<keys, wasActive, wasNot>>

KeysNext ==
    \/ \E k \in Key : CreateKey(k) \/ Revoke(PrefixOf[k])
    \/ \E v \in Visitor : \/ \E k \in Shown : Arrive(v, k)
                          \/ \E k \in Key : Scan(v, k)
                          \/ Validate(v)

KeysSpec == KeysInit /\ [][KeysNext]_keysVars

-----------------------------------------------------------------------------
(* Properties *)

KeysTypeOK ==
    /\ keys \in [Key -> {"absent", "active", "revoked"}]
    /\ usage \in [Key -> Nat]
    /\ visitor \in [Visitor -> [stage : {"new", "scanning", "validating", "admitted", "refused"},
                                key : Shown, left : SUBSET Key]]
    /\ wasActive \in [Visitor -> SUBSET Key] /\ wasNot \in [Visitor -> SUBSET Key]

\* A request that passes showed a key that was active at some moment of it, or else no
\* key was active throughout it; one that is refused showed none that was (require_api_key,
\* has_keys, validate).  No more can be said: keys are looked at one after the other, so
\* that one created behind the scan and one revoked before it are both missed.
AdmissionsJustified ==
    \A v \in Visitor :
        /\ visitor[v].stage = "admitted" =>
              \/ visitor[v].key \in wasActive[v]
              \/ wasNot[v] = Key
        /\ visitor[v].stage = "refused" =>
              visitor[v].key \in wasNot[v] \cup {NoKey}
=============================================================================
