-------------------------- MODULE Requests_proofs ---------------------------
(* Theorems about what requests to a node meet: its keys, its memories, its *)
(* tools and its context router, for every number of keys, requests, executions, *)
(* peers, tools and blocks.                                                *)
EXTENDS Keys, Snapshots, ToolServer, ContextRouter, FiniteSetTheorems, FunctionTheorems, SequenceTheorems, TLAPS

-----------------------------------------------------------------------------
(* Keys: every admission is justified, and every refusal.                   *)

\* What is active or not by now is witnessed by every request under way.
Seen == \A v \in UnderWay : Active \subseteq wasActive[v] /\ Key \ Active \subseteq wasNot[v]

\* The scan leaves keys behind that were not active when it looked.
Scanned == \A v \in Visitor : visitor[v].stage = "scanning" =>
               Key \ visitor[v].left \subseteq wasNot[v]

KeysInv == KeysTypeOK /\ Seen /\ Scanned /\ AdmissionsJustified

LEMMA InitKeysInv == KeysInit => KeysInv
<1> SUFFICES ASSUME KeysInit PROVE KeysInv
  OBVIOUS
<1>1. \A v \in Visitor : visitor[v].stage = "new"
  BY DEF KeysInit, NewVisitor
<1>2. KeysTypeOK
  <2>1. keys \in [Key -> {"absent", "active", "revoked"}]
    BY DEF KeysInit
  <2>2. visitor \in [Visitor -> [stage : {"new", "scanning", "validating", "admitted", "refused"},
                                 key : Shown, left : SUBSET Key]]
    BY DEF KeysInit, NewVisitor, Shown
  <2>3. QED
    BY <2>1, <2>2 DEF KeysInit, KeysTypeOK
<1>3. QED
  BY <1>1, <1>2 DEF KeysInv, Seen, Scanned, AdmissionsJustified, UnderWay

\* A key is created or revoked.
LEMMA ChangeKeepsKeysInv ==
    ASSUME KeysInv, keys' \in [Key -> {"absent", "active", "revoked"}],
           Witnessed(keys'), UNCHANGED <<usage, visitor>>
    PROVE  KeysInv'
<1>1. /\ KeysTypeOK /\ UnderWay' = UnderWay /\ UnderWay \subseteq Visitor
      /\ UNCHANGED visitor
  BY DEF KeysInv, UnderWay
<1>2. \A v \in UnderWay : /\ wasActive'[v] = wasActive[v] \cup Active'
                          /\ wasNot'[v] = wasNot[v] \cup (Key \ Active')
  BY <1>1 DEF Witnessed, Active
<1>3. \A v \in Visitor \ UnderWay : wasActive'[v] = wasActive[v] /\ wasNot'[v] = wasNot[v]
  BY DEF Witnessed
<1>4. KeysTypeOK'
  <2>1. wasActive' \in [Visitor -> SUBSET Key] /\ wasNot' \in [Visitor -> SUBSET Key]
    BY <1>1 DEF Witnessed, KeysTypeOK
  <2>2. QED
    BY <1>1, <2>1 DEF KeysTypeOK
<1>5. Seen'
  BY <1>1, <1>2 DEF Seen
<1>6. Scanned'
  BY <1>1, <1>2 DEF KeysInv, Scanned, UnderWay
<1>7. AdmissionsJustified'
  BY <1>1, <1>3 DEF KeysInv, AdmissionsJustified, UnderWay
<1>8. QED
  BY <1>4, <1>5, <1>6, <1>7 DEF KeysInv

LEMMA CreateKeepsKeysInv ==
    ASSUME KeysInv, NEW k \in Key, CreateKey(k)
    PROVE  KeysInv'
<1>1. keys' \in [Key -> {"absent", "active", "revoked"}]
  BY DEF KeysInv, KeysTypeOK, CreateKey
<1>2. QED
  BY <1>1, ChangeKeepsKeysInv DEF CreateKey

LEMMA RevokeKeepsKeysInv ==
    ASSUME KeysInv, NEW prefix, Revoke(prefix)
    PROVE  KeysInv'
<1>1. keys' \in [Key -> {"absent", "active", "revoked"}]
  BY DEF KeysInv, KeysTypeOK, Revoke
<1>2. QED
  BY <1>1, ChangeKeepsKeysInv DEF Revoke

LEMMA ArriveKeepsKeysInv ==
    ASSUME KeysInv, NEW v \in Visitor, NEW key \in Shown, Arrive(v, key)
    PROVE  KeysInv'
<1>1. /\ KeysTypeOK /\ UNCHANGED <<keys, usage>>
      /\ visitor'[v] = [stage |-> "scanning", key |-> key, left |-> Key]
      /\ wasActive'[v] = Active /\ wasNot'[v] = Key \ Active
      /\ \A u \in Visitor \ {v} : /\ visitor'[u] = visitor[u]
                                  /\ wasActive'[u] = wasActive[u] /\ wasNot'[u] = wasNot[u]
  BY DEF KeysInv, KeysTypeOK, Arrive
<1>2. KeysTypeOK'
  <2>1. Active \subseteq Key
    BY DEF Active
  <2>2. QED
    BY <1>1, <2>1 DEF KeysTypeOK, Arrive
<1>3. Active' = Active /\ UnderWay' = UnderWay \cup {v}
  BY <1>1 DEF Active, UnderWay
<1>4. Seen'
  <2>1. \A u \in UnderWay \ {v} : u \in Visitor \ {v}
    BY DEF UnderWay
  <2>2. QED
    BY <1>1, <1>3, <2>1 DEF KeysInv, Seen
<1>5. Scanned'
  BY <1>1 DEF KeysInv, Scanned
<1>6. AdmissionsJustified'
  BY <1>1 DEF KeysInv, AdmissionsJustified
<1>7. QED
  BY <1>2, <1>4, <1>5, <1>6 DEF KeysInv

\* The last key the scan visits was seen inactive, as were those before it.
LEMMA ScanKeepsKeysInv ==
    ASSUME KeysInv, NEW v \in Visitor, NEW k \in Key, Scan(v, k)
    PROVE  KeysInv'
<1> DEFINE old == visitor[v]
           stage == IF keys[k] = "active" THEN "validating"
                    ELSE IF old.left = {k} THEN "admitted" ELSE "scanning"
<1>1. /\ KeysTypeOK /\ old.stage = "scanning" /\ k \in old.left
      /\ UNCHANGED <<keys, usage, wasActive, wasNot>>
      /\ visitor'[v] = [old EXCEPT !.stage = stage, !.left = @ \ {k}]
      /\ \A u \in Visitor \ {v} : visitor'[u] = visitor[u]
  BY DEF KeysInv, KeysTypeOK, Scan
<1>2. old \in [stage : {"new", "scanning", "validating", "admitted", "refused"},
               key : Shown, left : SUBSET Key]
  BY <1>1 DEF KeysTypeOK
<1>3. visitor'[v].stage = stage /\ visitor'[v].left = old.left \ {k} /\ visitor'[v].key = old.key
  BY <1>1, <1>2
<1>4. KeysTypeOK'
  <2>1. visitor' \in [Visitor -> [stage : {"new", "scanning", "validating", "admitted", "refused"},
                                  key : Shown, left : SUBSET Key]]
    BY <1>1, <1>2 DEF KeysTypeOK, Scan
  <2>2. QED
    BY <1>1, <2>1 DEF KeysTypeOK
<1>5. Active' = Active /\ UnderWay' \subseteq UnderWay /\ v \in UnderWay
  BY <1>1, <1>3 DEF Active, UnderWay
<1>6. Seen'
  BY <1>1, <1>5 DEF KeysInv, Seen
<1>7. keys[k] # "active" => Key \ (old.left \ {k}) \subseteq wasNot[v]
  <2>1. keys[k] # "active" => k \in wasNot[v]
    BY <1>5 DEF KeysInv, Seen, Active
  <2>2. Key \ old.left \subseteq wasNot[v]
    BY <1>1 DEF KeysInv, Scanned
  <2>3. QED
    BY <2>1, <2>2
<1>8. Scanned'
  BY <1>1, <1>3, <1>7 DEF KeysInv, Scanned
<1>9. AdmissionsJustified'
  <2>1. stage = "admitted" => wasNot[v] = Key
    BY <1>1, <1>7 DEF KeysTypeOK
  <2>2. stage # "refused"
    OBVIOUS
  <2>3. QED
    BY <1>1, <1>3, <2>1, <2>2 DEF KeysInv, AdmissionsJustified
<1>10. QED
  BY <1>4, <1>6, <1>8, <1>9 DEF KeysInv

LEMMA ValidateKeepsKeysInv ==
    ASSUME KeysInv, NEW v \in Visitor, Validate(v)
    PROVE  KeysInv'
<1> DEFINE old == visitor[v]
           stage == IF Good(old.key) THEN "admitted" ELSE "refused"
<1>1. /\ KeysTypeOK /\ old.stage = "validating"
      /\ UNCHANGED <<keys, wasActive, wasNot>>
      /\ visitor'[v] = [old EXCEPT !.stage = stage, !.left = {}]
      /\ \A u \in Visitor \ {v} : visitor'[u] = visitor[u]
  BY DEF KeysInv, KeysTypeOK, Validate
<1>2. old \in [stage : {"new", "scanning", "validating", "admitted", "refused"},
               key : Shown, left : SUBSET Key]
  BY <1>1 DEF KeysTypeOK
<1>3. visitor'[v].stage = stage /\ visitor'[v].key = old.key
  BY <1>1, <1>2
<1>4. KeysTypeOK'
  <2>1. visitor' \in [Visitor -> [stage : {"new", "scanning", "validating", "admitted", "refused"},
                                  key : Shown, left : SUBSET Key]]
    BY <1>1, <1>2 DEF KeysTypeOK, Validate
  <2>2. usage' \in [Key -> Nat]
    BY <1>1, <1>2 DEF KeysTypeOK, Validate, Good, Shown
  <2>3. QED
    BY <1>1, <2>1, <2>2 DEF KeysTypeOK
<1>5. Active' = Active /\ UnderWay' \subseteq UnderWay /\ v \in UnderWay
  BY <1>1, <1>3 DEF Active, UnderWay
<1>6. Seen'
  BY <1>1, <1>5 DEF KeysInv, Seen
<1>7. Scanned'
  BY <1>1, <1>3 DEF KeysInv, Scanned
<1>8. AdmissionsJustified'
  <2>1. IF Good(old.key) THEN old.key \in wasActive[v] ELSE old.key \in wasNot[v] \cup {NoKey}
    BY <1>2, <1>5 DEF KeysInv, Seen, Active, Good, Shown
  <2>2. QED
    BY <1>1, <1>3, <2>1 DEF KeysInv, AdmissionsJustified
<1>9. QED
  BY <1>4, <1>6, <1>7, <1>8 DEF KeysInv

(* The inductive invariant: a request under way has witnessed what every key *)
(* is by now, and its scan only left inactive keys behind.                   *)
THEOREM KeysInvariance == KeysSpec => []KeysInv
<1>1. KeysInit => KeysInv
  BY InitKeysInv
<1>2. KeysInv /\ [KeysNext]_keysVars => KeysInv'
  <2> SUFFICES ASSUME KeysInv, [KeysNext]_keysVars PROVE KeysInv'
    OBVIOUS
  <2>1. CASE UNCHANGED keysVars
    BY <2>1 DEF keysVars, KeysInv, KeysTypeOK, Seen, Scanned, AdmissionsJustified, Active, UnderWay
  <2>2. CASE \E k \in Key : CreateKey(k) \/ Revoke(PrefixOf[k])
    BY <2>2, CreateKeepsKeysInv, RevokeKeepsKeysInv
  <2>3. CASE \E v \in Visitor, k \in Shown : Arrive(v, k)
    BY <2>3, ArriveKeepsKeysInv
  <2>4. CASE \E v \in Visitor, k \in Key : Scan(v, k)
    BY <2>4, ScanKeepsKeysInv
  <2>5. CASE \E v \in Visitor : Validate(v)
    BY <2>5, ValidateKeepsKeysInv
  <2>6. QED
    BY <2>1, <2>2, <2>3, <2>4, <2>5 DEF KeysNext
<1>3. QED
  BY <1>1, <1>2, PTL DEF KeysSpec

(* Whatever is created and revoked while requests are under way: one that    *)
(* passes showed a key that was active at some moment of it, unless no key   *)
(* was active throughout, and one that is refused showed none that was       *)
(* (require_api_key, has_keys, validate).                                    *)
THEOREM EveryAdmissionJustified == KeysSpec => []AdmissionsJustified
<1>1. KeysInv => AdmissionsJustified
  BY DEF KeysInv
<1>2. QED
  BY <1>1, KeysInvariance, PTL

-----------------------------------------------------------------------------
(* Snapshots: agents that hibernate are found.                              *)

Entry == [tet : 1..MaxId, snap : 0..MaxId]

TaskState == [stage : {"idle", "ran", "queued", "stored", "snapped", "pruned"},
              tet : 0..MaxId, alias : Name \cup {Nameless}, parent : 0..MaxId, snap : 0..MaxId]

LookState == [stage : {"new", "waiting", "looking", "asking", "cloned", "done"},
              kind : {"none", "snapshot", "read"}, name : Name \cup {Nameless} \cup 0..MaxId,
              left : SUBSET Neighbour, got : 0..MaxId]

Typed ==
    /\ aliases \in [Name -> SUBSET Entry]
    /\ active \subseteq 1..MaxId /\ snaps \subseteq 1..MaxId
    /\ task \in [Task -> TaskState]
    /\ look \in [Look -> LookState]
    /\ steady \in [Look -> BOOLEAN]
    /\ lastId \in 0..MaxId

\* The memory of what hibernates is stored ...
Stored == \A a \in Name : \A e \in aliases[a] : e.snap # 0 => e.tet \in active

\* ... because the end of an execution stores it first.
Ending == \A r \in Task :
    /\ task[r].stage # "idle" => task[r].tet \in 1..MaxId
    /\ task[r].stage \in {"stored", "snapped", "pruned"} => task[r].tet \in active

\* As long as all of its replicas hibernate, a look-up need not ask peers and finds one.
Found == \A l \in Look : steady[l] =>
    /\ look[l].stage \notin {"new", "asking"}
    /\ look[l].stage \in {"waiting", "looking"} => look[l].name \in Name /\ Calm(aliases[look[l].name])
    /\ look[l].stage \in {"cloned", "done"} => look[l].got \in active

SnapshotsInv == Typed /\ Stored /\ Ending /\ Found

-----------------------------------------------------------------------------
(* Parts of steps *)

LEMMA Numbers ==
    ASSUME SnapshotsAssumption, Typed
    PROVE  0 \in 0..MaxId /\ (lastId < MaxId => lastId + 1 \in 1..MaxId)
BY DEF SnapshotsAssumption, Typed

LEMMA InitSnapshotsInv == ASSUME SnapshotsAssumption, SnapshotsInit PROVE SnapshotsInv
<1>1. IdleTask \in TaskState /\ NewLook \in LookState /\ IdleTask.stage = "idle"
  BY DEF SnapshotsAssumption, IdleTask, NewLook, TaskState, LookState
<1>2. Typed
  BY <1>1 DEF SnapshotsAssumption, SnapshotsInit, Typed
<1>3. QED
  BY <1>1, <1>2 DEF SnapshotsInit, SnapshotsInv, Stored, Ending, Found

\* The entries of an alias change, and look-ups under way see it.
LEMMA AliasStep ==
    ASSUME SnapshotsInv, NEW a \in Name, NEW entries \in SUBSET Entry,
           \A e \in entries : e.snap # 0 => e.tet \in active,
           SetAlias(a, entries), UNCHANGED <<active, look>>
    PROVE  /\ aliases' \in [Name -> SUBSET Entry] /\ steady' \in [Look -> BOOLEAN]
           /\ Stored' /\ Found'
<1>1. /\ aliases' = [aliases EXCEPT ![a] = entries] /\ Typed
      /\ \A l \in Look : steady'[l] <=>
            steady[l] /\ (look[l].name = a /\ look[l].stage # "done" => Calm(entries))
  BY DEF SetAlias, SnapshotsInv
<1>2. aliases' \in [Name -> SUBSET Entry] /\ steady' \in [Look -> BOOLEAN]
  <2>1. steady' \in [Look -> BOOLEAN]
    BY DEF SetAlias
  <2>2. QED
    BY <1>1, <2>1 DEF Typed
<1>3. Stored'
  BY <1>1 DEF SnapshotsInv, Typed, Stored
<1>4. Found'
  <2> SUFFICES ASSUME NEW l \in Look, steady'[l]
               PROVE  /\ look[l].stage \notin {"new", "asking"}
                      /\ look[l].stage \in {"waiting", "looking"} =>
                            look[l].name \in Name /\ Calm(aliases'[look[l].name])
                      /\ look[l].stage \in {"cloned", "done"} => look[l].got \in active
    BY DEF Found, Calm
  <2>1. steady[l] /\ (look[l].name = a /\ look[l].stage # "done" => Calm(entries))
    BY <1>1
  <2>2. look[l].stage \in {"waiting", "looking"} =>
            look[l].name \in Name /\ Calm(aliases'[look[l].name])
    BY <1>1, <2>1 DEF SnapshotsInv, Found, Typed
  <2>3. QED
    BY <2>1, <2>2 DEF SnapshotsInv, Found
<1>5. QED
  BY <1>2, <1>3, <1>4

\* A task goes on.
LEMMA TaskStep ==
    ASSUME SnapshotsInv, NEW r \in Task, NEW t \in TaskState, task' = [task EXCEPT ![r] = t],
           active \subseteq active',
           t.stage # "idle" => t.tet \in 1..MaxId,
           t.stage \in {"stored", "snapped", "pruned"} => t.tet \in active'
    PROVE  task' \in [Task -> TaskState] /\ Ending'
BY DEF SnapshotsInv, Typed, Ending

\* A look-up goes on, not seeing the registry change.
LEMMA LookStep ==
    ASSUME SnapshotsInv, NEW l \in Look, NEW k \in LookState, look' = [look EXCEPT ![l] = k],
           UNCHANGED <<aliases, active, snaps, task, lastId, steady>>,
           steady[l] => /\ k.stage \notin {"new", "asking"}
                        /\ k.stage \in {"waiting", "looking"} => k.name \in Name /\ Calm(aliases[k.name])
                        /\ k.stage \in {"cloned", "done"} => k.got \in active
    PROVE  SnapshotsInv'
<1>1. Typed' /\ Stored' /\ Ending'
  BY DEF SnapshotsInv, Typed, Stored, Ending
<1>2. Found'
  BY DEF SnapshotsInv, Typed, Found, Calm
<1>3. QED
  BY <1>1, <1>2 DEF SnapshotsInv

-----------------------------------------------------------------------------
(* One step *)

LEMMA StartKeepsSnapshotsInv ==
    ASSUME SnapshotsAssumption, SnapshotsInv, NEW r \in Task, NEW a \in Name \cup {Nameless}, NEW parent \in 0..MaxId,
           StartTask(r, a, parent)
    PROVE  SnapshotsInv'
<1> DEFINE t == [stage |-> "ran", tet |-> lastId + 1, alias |-> a, parent |-> parent, snap |-> 0]
<1>1. /\ Typed /\ lastId < MaxId /\ lastId' = lastId + 1 /\ task' = [task EXCEPT ![r] = t]
      /\ UNCHANGED <<aliases, active, snaps, look, steady>>
  BY DEF SnapshotsInv, StartTask
<1>2. lastId + 1 \in 1..MaxId /\ 0 \in 0..MaxId
  BY <1>1, Numbers
<1>3. t \in TaskState
  BY <1>2 DEF TaskState
<1>4. task' \in [Task -> TaskState] /\ Ending'
  BY <1>1, <1>2, <1>3, TaskStep
<1>5. QED
  BY <1>1, <1>2, <1>4 DEF SnapshotsInv, Typed, Stored, Found, Calm

LEMMA QueueKeepsSnapshotsInv ==
    ASSUME SnapshotsAssumption, SnapshotsInv, NEW r \in Task, QueueWriter(r)
    PROVE  SnapshotsInv'
<1> DEFINE k == task[r]
           t == [k EXCEPT !.stage = "queued"]
           entries == aliases[k.alias] \cup {[tet |-> k.tet, snap |-> 0]}
<1>1. /\ Typed /\ k \in TaskState /\ k.stage = "ran" /\ k.tet \in 1..MaxId
      /\ task' = [task EXCEPT ![r] = t] /\ UNCHANGED <<active, snaps, look, lastId>>
  BY DEF SnapshotsInv, Typed, Ending, QueueWriter
<1>2. t \in TaskState /\ t.tet = k.tet /\ t.stage = "queued"
  BY <1>1 DEF TaskState
<1>3. task' \in [Task -> TaskState] /\ Ending'
  BY <1>1, <1>2, TaskStep
<1>4. CASE k.alias = Nameless
  <2>1. UNCHANGED <<aliases, steady>>
    BY <1>4 DEF QueueWriter
  <2>2. QED
    BY <1>1, <1>3, <2>1 DEF SnapshotsInv, Typed, Stored, Found, Calm
<1>5. CASE k.alias # Nameless
  <2>1. k.alias \in Name /\ SetAlias(k.alias, entries)
    BY <1>1, <1>5 DEF QueueWriter, TaskState
  <2>2. entries \in SUBSET Entry
    BY <1>1, <2>1, Numbers DEF Typed, Entry
  <2>3. \A e \in entries : e.snap # 0 => e.tet \in active
    BY <2>1 DEF SnapshotsInv, Stored
  <2>4. /\ aliases' \in [Name -> SUBSET Entry] /\ steady' \in [Look -> BOOLEAN]
        /\ Stored' /\ Found'
    BY <1>1, <2>1, <2>2, <2>3, AliasStep
  <2>5. QED
    BY <1>1, <1>3, <2>4 DEF SnapshotsInv, Typed
<1>6. QED
  BY <1>4, <1>5

LEMMA PutMemoryKeepsSnapshotsInv ==
    ASSUME SnapshotsInv, NEW r \in Task, PutMemory(r)
    PROVE  SnapshotsInv'
<1> DEFINE t == [task[r] EXCEPT !.stage = "stored"]
<1>1. /\ Typed /\ task[r] \in TaskState /\ task[r].tet \in 1..MaxId
      /\ active' = active \cup {task[r].tet} /\ task' = [task EXCEPT ![r] = t]
      /\ UNCHANGED <<aliases, snaps, look, lastId, steady>>
  BY DEF SnapshotsInv, Typed, Ending, PutMemory
<1>2. t \in TaskState /\ t.tet = task[r].tet /\ t.stage = "stored"
      /\ active \subseteq active' /\ t.tet \in active'
  BY <1>1 DEF TaskState
<1>3. task' \in [Task -> TaskState] /\ Ending'
  BY <1>1, <1>2, TaskStep
<1>4. Typed'
  BY <1>1, <1>3 DEF Typed
<1>5. Stored' /\ Found'
  BY <1>1 DEF SnapshotsInv, Stored, Found, Calm
<1>6. QED
  BY <1>3, <1>4, <1>5 DEF SnapshotsInv

LEMMA PutSnapshotKeepsSnapshotsInv ==
    ASSUME SnapshotsAssumption, SnapshotsInv, NEW r \in Task, PutSnapshot(r)
    PROVE  SnapshotsInv'
<1> DEFINE t == [task[r] EXCEPT !.stage = "snapped", !.snap = lastId + 1]
<1>1. /\ Typed /\ task[r] \in TaskState /\ task[r].tet \in 1..MaxId /\ task[r].tet \in active
      /\ lastId < MaxId /\ lastId' = lastId + 1 /\ snaps' = snaps \cup {lastId + 1}
      /\ task' = [task EXCEPT ![r] = t] /\ UNCHANGED <<aliases, active, look, steady>>
  BY DEF SnapshotsInv, Typed, Ending, PutSnapshot, Keep
<1>2. lastId + 1 \in 1..MaxId
  BY <1>1, Numbers
<1>3. t \in TaskState /\ t.tet = task[r].tet /\ t.stage = "snapped"
      /\ active \subseteq active' /\ t.tet \in active'
  <2>1. lastId + 1 \in 0..MaxId
    BY <1>2
  <2>2. QED
    BY <1>1, <2>1 DEF TaskState
<1>4. task' \in [Task -> TaskState] /\ Ending'
  BY <1>1, <1>3, TaskStep
<1>5. QED
  BY <1>1, <1>2, <1>4 DEF SnapshotsInv, Typed, Stored, Found, Calm

LEMMA DropParentKeepsSnapshotsInv ==
    ASSUME SnapshotsInv, NEW r \in Task, DropParent(r)
    PROVE  SnapshotsInv'
<1> DEFINE k == task[r]
           t == [k EXCEPT !.stage = "pruned"]
           entries == {e \in aliases[k.alias] : e.snap # k.parent}
<1>1. /\ Typed /\ k \in TaskState /\ k.tet \in 1..MaxId /\ k.tet \in active
      /\ task' = [task EXCEPT ![r] = t] /\ UNCHANGED <<active, snaps, look, lastId>>
  BY DEF SnapshotsInv, Typed, Ending, DropParent
<1>2. t \in TaskState /\ t.tet = k.tet /\ t.stage = "pruned"
      /\ active \subseteq active' /\ t.tet \in active'
  BY <1>1 DEF TaskState
<1>3. task' \in [Task -> TaskState] /\ Ending'
  BY <1>1, <1>2, TaskStep
<1>4. CASE k.alias = Nameless \/ k.parent = 0
  <2>1. UNCHANGED <<aliases, steady>>
    BY <1>4 DEF DropParent
  <2>2. QED
    BY <1>1, <1>3, <2>1 DEF SnapshotsInv, Typed, Stored, Found, Calm
<1>5. CASE ~(k.alias = Nameless \/ k.parent = 0)
  <2>1. k.alias \in Name /\ SetAlias(k.alias, entries)
    BY <1>1, <1>5 DEF DropParent, TaskState
  <2>2. entries \in SUBSET Entry
    BY <1>1, <2>1 DEF Typed
  <2>3. \A e \in entries : e.snap # 0 => e.tet \in active
    BY <2>1 DEF SnapshotsInv, Stored
  <2>4. /\ aliases' \in [Name -> SUBSET Entry] /\ steady' \in [Look -> BOOLEAN]
        /\ Stored' /\ Found'
    BY <1>1, <2>1, <2>2, <2>3, AliasStep
  <2>5. QED
    BY <1>1, <1>3, <2>4 DEF SnapshotsInv, Typed
<1>6. QED
  BY <1>4, <1>5

LEMMA SleepKeepsSnapshotsInv ==
    ASSUME SnapshotsAssumption, SnapshotsInv, NEW r \in Task, Sleep(r)
    PROVE  SnapshotsInv'
<1> DEFINE k == task[r]
           entries == {e \in aliases[k.alias] : e.tet # k.tet}
                         \cup {[tet |-> k.tet, snap |-> k.snap]}
<1>1. /\ Typed /\ k \in TaskState /\ k.tet \in 1..MaxId /\ k.tet \in active
      /\ task' = [task EXCEPT ![r] = IdleTask] /\ UNCHANGED <<active, snaps, look, lastId>>
  BY DEF SnapshotsInv, Typed, Ending, Sleep
<1>2. IdleTask \in TaskState /\ IdleTask.stage = "idle"
  BY DEF SnapshotsAssumption, IdleTask, TaskState
<1>3. task' \in [Task -> TaskState] /\ Ending'
  BY <1>1, <1>2, TaskStep
<1>4. CASE k.alias = Nameless
  <2>1. UNCHANGED <<aliases, steady>>
    BY <1>4 DEF Sleep
  <2>2. QED
    BY <1>1, <1>3, <2>1 DEF SnapshotsInv, Typed, Stored, Found, Calm
<1>5. CASE k.alias # Nameless
  <2>1. k.alias \in Name /\ SetAlias(k.alias, entries)
    BY <1>1, <1>5 DEF Sleep, TaskState
  <2>2. entries \in SUBSET Entry
    BY <1>1, <2>1 DEF Typed, Entry, TaskState
  <2>3. \A e \in entries : e.snap # 0 => e.tet \in active
    BY <1>1, <2>1 DEF SnapshotsInv, Stored
  <2>4. /\ aliases' \in [Name -> SUBSET Entry] /\ steady' \in [Look -> BOOLEAN]
        /\ Stored' /\ Found'
    BY <1>1, <2>1, <2>2, <2>3, AliasStep
  <2>5. QED
    BY <1>1, <1>3, <2>4 DEF SnapshotsInv, Typed
<1>6. QED
  BY <1>4, <1>5

LEMMA LeaveKeepsSnapshotsInv ==
    ASSUME SnapshotsInv, NEW a \in Name, Leave(a)
    PROVE  SnapshotsInv'
<1>1. /\ SetAlias(a, {}) /\ UNCHANGED <<active, snaps, task, look, lastId>>
  BY DEF Leave
<1>2. /\ aliases' \in [Name -> SUBSET Entry] /\ steady' \in [Look -> BOOLEAN]
      /\ Stored' /\ Found'
  BY <1>1, AliasStep
<1>3. QED
  BY <1>1, <1>2 DEF SnapshotsInv, Typed, Ending

LEMMA BeginLookKeepsSnapshotsInv ==
    ASSUME SnapshotsAssumption, SnapshotsInv, NEW l \in Look, NEW kind \in {"snapshot", "read"},
           NEW name \in Name \cup {lastId}, BeginLook(l, kind, name)
    PROVE  SnapshotsInv'
<1> DEFINE k == [NewLook EXCEPT !.stage = "waiting", !.kind = kind, !.name = name,
                                !.left = Neighbour]
<1>1. /\ Typed /\ look' = [look EXCEPT ![l] = k]
      /\ steady' = [steady EXCEPT ![l] = name \in Name /\ Calm(aliases[name])]
      /\ UNCHANGED <<aliases, active, snaps, task, lastId>>
  BY DEF SnapshotsInv, BeginLook
<1>2. k \in LookState /\ k.stage = "waiting" /\ k.name = name
  BY <1>1, Numbers DEF NewLook, LookState, Typed
<1>3. /\ look'[l] = k /\ steady'[l] = (name \in Name /\ Calm(aliases[name]))
      /\ \A j \in Look \ {l} : look'[j] = look[j] /\ steady'[j] = steady[j]
  BY <1>1 DEF Typed
<1>4. Typed'
  <2>1. (name \in Name /\ Calm(aliases[name])) \in BOOLEAN
    OBVIOUS
  <2>2. steady' \in [Look -> BOOLEAN]
    BY <1>1, <2>1 DEF Typed
  <2>3. QED
    BY <1>1, <1>2, <2>2 DEF Typed
<1>5. Found'
  <2> SUFFICES ASSUME NEW j \in Look, steady'[j]
               PROVE  /\ look'[j].stage \notin {"new", "asking"}
                      /\ look'[j].stage \in {"waiting", "looking"} =>
                            look'[j].name \in Name /\ Calm(aliases[look'[j].name])
                      /\ look'[j].stage \in {"cloned", "done"} => look'[j].got \in active
    BY <1>1 DEF Found, Calm
  <2>1. CASE j = l
    BY <1>2, <1>3, <2>1
  <2>2. CASE j # l
    BY <1>3, <2>2 DEF SnapshotsInv, Found
  <2>3. QED
    BY <2>1, <2>2
<1>6. QED
  BY <1>1, <1>4, <1>5 DEF SnapshotsInv, Stored, Ending

LEMMA GrantKeepsSnapshotsInv ==
    ASSUME SnapshotsInv, NEW l \in Look, GrantReader(l)
    PROVE  SnapshotsInv'
<1> DEFINE k == [look[l] EXCEPT !.stage = "looking"]
<1>1. /\ Typed /\ look[l] \in LookState /\ look[l].stage = "waiting"
      /\ look' = [look EXCEPT ![l] = k]
      /\ UNCHANGED <<aliases, active, snaps, task, lastId, steady>>
  BY DEF SnapshotsInv, Typed, GrantReader
<1>2. k \in LookState /\ k.stage = "looking" /\ k.name = look[l].name
  BY <1>1 DEF LookState
<1>3. steady[l] => k.name \in Name /\ Calm(aliases[k.name])
  BY <1>1, <1>2 DEF SnapshotsInv, Found
<1>4. QED
  BY <1>1, <1>2, <1>3, LookStep

\* The look-up ends: with a memory, or without one and not steady.
LEMMA EndKeepsSnapshotsInv ==
    ASSUME SnapshotsAssumption, SnapshotsInv, NEW l \in Look, NEW tet \in 0..MaxId, End(l, tet),
           tet = 0 \/ tet \in active, steady[l] => tet # 0,
           UNCHANGED <<aliases, active, snaps, task, lastId, steady>>
    PROVE  SnapshotsInv'
<1> DEFINE k == IF tet # 0 /\ look[l].kind = "snapshot"
                THEN [look[l] EXCEPT !.stage = "cloned", !.got = tet]
                ELSE [NewLook EXCEPT !.stage = "done", !.got = tet]
<1>1. Typed /\ look[l] \in LookState /\ look' = [look EXCEPT ![l] = k]
  BY DEF SnapshotsInv, Typed, End
<1>2. k \in LookState /\ k.stage \in {"cloned", "done"} /\ k.got = tet
  BY <1>1 DEF LookState, NewLook, SnapshotsAssumption
<1>3. QED
  BY <1>1, <1>2, LookStep

LEMMA LookUpKeepsSnapshotsInv ==
    ASSUME SnapshotsAssumption, SnapshotsInv, NEW l \in Look, LookUp(l)
    PROVE  SnapshotsInv'
<1> DEFINE name == look[l].name
<1>1. /\ Typed /\ look[l] \in LookState /\ look[l].stage = "looking"
      /\ active \subseteq 1..MaxId /\ 0 \in 0..MaxId
      /\ UNCHANGED <<aliases, active, snaps, task, lastId, steady>>
  BY DEF SnapshotsInv, Typed, LookUp, SnapshotsAssumption
<1>2. steady[l] => name \in Name /\ Calm(aliases[name])
  BY <1>1 DEF SnapshotsInv, Found
<1>3. CASE name \in active
  <2>1. End(l, name) /\ name \in 0..MaxId /\ name # 0
    BY <1>1, <1>3 DEF LookUp
  <2>2. QED
    BY <1>1, <1>3, <2>1, EndKeepsSnapshotsInv
<1>4. CASE name \notin active /\ name \in Name /\ aliases[name] # {}
  <2>1. PICK e \in aliases[name] : End(l, IF e.tet \in active THEN e.tet ELSE 0)
    BY <1>4 DEF LookUp, Resolved
  <2>2. e.snap # 0 => e.tet \in active
    BY <1>4 DEF SnapshotsInv, Stored
  <2>3. steady[l] => e.tet \in active
    BY <1>2, <2>2 DEF Calm
  <2> DEFINE tet == IF e.tet \in active THEN e.tet ELSE 0
  <2>4. tet \in 0..MaxId /\ (tet = 0 \/ tet \in active) /\ (steady[l] => tet # 0)
    <3>1. CASE e.tet \in active
      <4>1. e.tet \in 1..MaxId
        BY <1>1, <3>1
      <4>2. QED
        BY <3>1, <4>1
    <3>2. CASE e.tet \notin active
      BY <1>1, <2>3, <3>2
    <3>3. QED
      BY <3>1, <3>2
  <2>5. End(l, tet)
    BY <2>1
  <2>6. QED
    BY <1>1, <2>4, <2>5, EndKeepsSnapshotsInv
<1>5. CASE name \notin active /\ ~(name \in Name /\ aliases[name] # {})
  <2> DEFINE k == [look[l] EXCEPT !.stage = "asking"]
  <2>1. look' = [look EXCEPT ![l] = k]
    BY <1>5 DEF LookUp
  <2>2. ~steady[l]
    BY <1>2, <1>5 DEF Calm
  <2>3. k \in LookState
    BY <1>1 DEF LookState
  <2>4. QED
    BY <1>1, <2>1, <2>2, <2>3, LookStep
<1>6. QED
  BY <1>3, <1>4, <1>5

LEMMA AskKeepsSnapshotsInv ==
    ASSUME SnapshotsInv, NEW l \in Look, NEW p \in Neighbour, AskPeer(l, p)
    PROVE  SnapshotsInv'
<1> DEFINE k == [look[l] EXCEPT !.left = @ \ {p}]
<1>1. /\ look[l] \in LookState /\ look[l].stage = "asking" /\ look' = [look EXCEPT ![l] = k]
      /\ UNCHANGED <<aliases, active, snaps, task, lastId, steady>>
  BY DEF SnapshotsInv, Typed, AskPeer
<1>2. k \in LookState
  BY <1>1 DEF LookState
<1>3. ~steady[l]
  BY <1>1 DEF SnapshotsInv, Found
<1>4. QED
  BY <1>1, <1>2, <1>3, LookStep

LEMMA NobodyKeepsSnapshotsInv ==
    ASSUME SnapshotsAssumption, SnapshotsInv, NEW l \in Look, NobodyKnows(l)
    PROVE  SnapshotsInv'
<1>1. ~steady[l]
  BY DEF SnapshotsInv, Found, NobodyKnows
<1>2. 0 \in 0..MaxId
  BY DEF SnapshotsAssumption
<1>3. QED
  BY <1>1, <1>2, EndKeepsSnapshotsInv DEF NobodyKnows

LEMMA SaveKeepsSnapshotsInv ==
    ASSUME SnapshotsAssumption, SnapshotsInv, NEW l \in Look, SaveSnapshot(l)
    PROVE  SnapshotsInv'
<1> DEFINE k == [NewLook EXCEPT !.stage = "done", !.got = look[l].got]
<1>1. /\ Typed /\ look[l] \in LookState /\ look[l].stage = "cloned"
      /\ look' = [look EXCEPT ![l] = k]
      /\ lastId < MaxId /\ lastId' = lastId + 1 /\ snaps' = snaps \cup {lastId + 1}
      /\ UNCHANGED <<aliases, active, task, steady>>
  BY DEF SnapshotsInv, Typed, SaveSnapshot, Keep
<1>2. lastId + 1 \in 1..MaxId
  BY <1>1, Numbers
<1>3. k \in LookState /\ k.stage = "done" /\ k.got = look[l].got
  BY <1>1 DEF NewLook, LookState, SnapshotsAssumption
<1>4. Typed'
  BY <1>1, <1>2, <1>3 DEF Typed
<1>5. Found'
  BY <1>1, <1>3 DEF SnapshotsInv, Typed, Found, Calm
<1>6. QED
  BY <1>1, <1>4, <1>5 DEF SnapshotsInv, Stored, Ending

LEMMA ImportKeepsSnapshotsInv == ASSUME SnapshotsAssumption, SnapshotsInv, ImportSnapshot PROVE SnapshotsInv'
<1>1. /\ Typed /\ lastId < MaxId /\ lastId' = lastId + 1 /\ snaps' = snaps \cup {lastId + 1}
      /\ UNCHANGED <<aliases, active, task, look, steady>>
  BY DEF SnapshotsInv, ImportSnapshot, Keep
<1>2. lastId + 1 \in 1..MaxId
  BY <1>1, Numbers
<1>3. QED
  BY <1>1, <1>2 DEF SnapshotsInv, Typed, Stored, Ending, Found, Calm

-----------------------------------------------------------------------------
(* Theorems *)

(* The inductive invariant: the memory of what hibernates is stored, and a   *)
(* look-up of an alias whose replicas all hibernate never asks a peer.       *)
THEOREM SnapshotsInvariance == ASSUME SnapshotsAssumption PROVE SnapshotsSpec => []SnapshotsInv
<1>1. SnapshotsInit => SnapshotsInv
  BY InitSnapshotsInv
<1>2. SnapshotsInv /\ [SnapshotsNext]_snapshotVars => SnapshotsInv'
  <2> SUFFICES ASSUME SnapshotsInv, [SnapshotsNext]_snapshotVars PROVE SnapshotsInv'
    OBVIOUS
  <2>1. CASE UNCHANGED snapshotVars
    BY <2>1 DEF snapshotVars, SnapshotsInv, Typed, Stored, Ending, Found, Calm
  <2>2. ASSUME NEW r \in Task, NEW a \in Name \cup {Nameless},
               HandleExecute(r, a) \/ \E s \in snaps : HandleFork(r, a, s)
        PROVE  SnapshotsInv'
    BY <2>2, StartKeepsSnapshotsInv DEF HandleExecute, HandleFork, SnapshotsInv, Typed, SnapshotsAssumption
  <2>3. CASE \E r \in Task, s \in snaps : InvokeFork(r, s)
    BY <2>3, StartKeepsSnapshotsInv DEF InvokeFork, SnapshotsInv, Typed
  <2>4. CASE \E r \in Task : QueueWriter(r) \/ PutMemory(r) \/ PutSnapshot(r)
                             \/ DropParent(r) \/ Sleep(r)
    BY <2>4, QueueKeepsSnapshotsInv, PutMemoryKeepsSnapshotsInv, PutSnapshotKeepsSnapshotsInv, DropParentKeepsSnapshotsInv,
       SleepKeepsSnapshotsInv
  <2>5. CASE \E l \in Look, name \in Name \cup {lastId} :
                HandleSnapshot(l, name) \/ InvokeSnapshot(l, name)
                \/ HandleMemoryQuery(l, name) \/ ExportManifest(l, name)
    BY <2>5, BeginLookKeepsSnapshotsInv DEF HandleSnapshot, InvokeSnapshot, HandleMemoryQuery, ExportManifest
  <2>6. CASE \E l \in Look : GrantReader(l) \/ LookUp(l) \/ NobodyKnows(l) \/ SaveSnapshot(l)
    BY <2>6, GrantKeepsSnapshotsInv, LookUpKeepsSnapshotsInv, NobodyKeepsSnapshotsInv, SaveKeepsSnapshotsInv
  <2>7. CASE \E l \in Look, p \in Neighbour : AskPeer(l, p)
    BY <2>7, AskKeepsSnapshotsInv
  <2>8. CASE ImportSnapshot \/ \E a \in Name : Leave(a)
    BY <2>8, ImportKeepsSnapshotsInv, LeaveKeepsSnapshotsInv
  <2>9. QED
    BY <2>1, <2>2, <2>3, <2>4, <2>5, <2>6, <2>7, <2>8 DEF SnapshotsNext
<1>3. QED
  BY <1>1, <1>2, PTL DEF SnapshotsSpec

(* A look-up finds the memory of an agent all of whose replicas hibernate    *)
(* while it lasts, whatever executions, forks, imports and other look-ups    *)
(* come in between (snapshot, query_memory, export_manifest, execute).       *)
THEOREM SleepersAreFound == ASSUME SnapshotsAssumption PROVE SnapshotsSpec => []HibernatingIsFound
<1>1. SnapshotsInv => HibernatingIsFound
  BY DEF SnapshotsInv, Typed, Found, HibernatingIsFound
<1>2. QED
  BY <1>1, SnapshotsInvariance, PTL
-----------------------------------------------------------------------------

\* Who looks a memory up, or asks peers for one, holds the read guard, and nobody else; and
\* what a look-up got is stored still.
Guarded ==
    /\ readers \subseteq Look
    /\ \A l \in Look : /\ l \in readers <=> look[l].stage \in {"looking", "asking"}
                       /\ look[l].got \in active \cup {0}

LEMMA LookTurns ==
    ASSUME Guarded, look \in [Look -> LookState], NEW l \in Look, NEW s, look' = [look EXCEPT ![l] = s],
           active' = active, s.got \in active \cup {0},
           \/ s.stage \in {"looking", "asking"} /\ readers' = readers \cup {l}
           \/ s.stage \notin {"looking", "asking"} /\ readers' = readers \ {l}
    PROVE  Guarded'
<1>1. look'[l] = s /\ \A k \in Look \ {l} : look'[k] = look[k]
  OBVIOUS
<1>2. readers' \subseteq Look /\ \A k \in Look \ {l} : k \in readers' <=> k \in readers
  BY DEF Guarded
<1>3. l \in readers' <=> s.stage \in {"looking", "asking"}
  OBVIOUS
<1>4. ASSUME NEW k \in Look
      PROVE  /\ k \in readers' <=> look'[k].stage \in {"looking", "asking"}
             /\ look'[k].got \in active' \cup {0}
  <2>1. CASE k = l
    BY <1>1, <1>3, <2>1
  <2>2. CASE k # l
    BY <1>1, <1>2, <2>2 DEF Guarded
  <2>3. QED
    BY <2>1, <2>2
<1>5. QED
  BY <1>2, <1>4 DEF Guarded

LEMMA LookEnds ==
    ASSUME Guarded, look \in [Look -> LookState], NEW l \in Look, NEW tet, End(l, tet),
           active' = active, tet \in active \cup {0}
    PROVE  Guarded'
<1>1. PICK s : s = IF tet # 0 /\ look[l].kind = "snapshot" THEN [look[l] EXCEPT !.stage = "cloned", !.got = tet]
                   ELSE [NewLook EXCEPT !.stage = "done", !.got = tet]
  OBVIOUS
<1>2. look' = [look EXCEPT ![l] = s] /\ readers' = readers \ {l}
  BY <1>1 DEF End
<1>3. s.got = tet /\ s.stage \in {"cloned", "done"}
  BY <1>1 DEF NewLook, LookState
<1>4. QED
  BY <1>2, <1>3, LookTurns

LEMMA GuardedNext ==
    ASSUME Typed, Guarded, [SnapshotsNext]_snapshotVars
    PROVE  Guarded'
<1>1. look \in [Look -> LookState]
  BY DEF Typed
<1>2. ASSUME UNCHANGED <<readers, look>>, active \subseteq active' PROVE Guarded'
  BY <1>2 DEF Guarded
<1>3. CASE UNCHANGED snapshotVars
  BY <1>2, <1>3 DEF snapshotVars
<1>4. ASSUME NEW r \in Task,
             \/ \E a, s : StartTask(r, a, s)
             \/ QueueWriter(r) \/ PutMemory(r) \/ PutSnapshot(r) \/ DropParent(r) \/ Sleep(r)
      PROVE  Guarded'
  BY <1>2, <1>4 DEF StartTask, QueueWriter, PutMemory, PutSnapshot, DropParent, Sleep
<1>5. ASSUME NEW l \in Look, NEW kind, NEW name, BeginLook(l, kind, name) PROVE Guarded'
  <2>1. PICK s : s = [NewLook EXCEPT !.stage = "waiting", !.kind = kind, !.name = name, !.left = Neighbour]
    OBVIOUS
  <2>2. s.stage = "waiting" /\ s.got = 0
    BY <2>1 DEF NewLook
  <2>3. look' = [look EXCEPT ![l] = s] /\ readers' = readers /\ active' = active /\ look[l].stage = "new"
    BY <1>5, <2>1 DEF BeginLook, NewLook
  <2>4. l \notin readers
    BY <2>3 DEF Guarded
  <2>5. QED
    BY <1>1, <2>2, <2>3, <2>4, LookTurns
<1>6. ASSUME NEW l \in Look, GrantReader(l) PROVE Guarded'
  <2>1. PICK s : s = [look[l] EXCEPT !.stage = "looking"]
    OBVIOUS
  <2>2. s.stage = "looking" /\ s.got = look[l].got
    BY <1>1, <2>1 DEF LookState
  <2>3. look' = [look EXCEPT ![l] = s] /\ readers' = readers \cup {l} /\ active' = active
    BY <1>6, <2>1 DEF GrantReader
  <2>4. s.got \in active \cup {0}
    BY <2>2 DEF Guarded
  <2>5. QED
    BY <1>1, <2>2, <2>3, <2>4, LookTurns
<1>7. ASSUME NEW l \in Look, LookUp(l) PROVE Guarded'
  <2>1. active' = active /\ look[l].stage = "looking"
    BY <1>7 DEF LookUp
  <2>2. CASE \E tet \in active \cup {0} : End(l, tet)
    BY <1>1, <2>1, <2>2, LookEnds
  <2>3. CASE look' = [look EXCEPT ![l].stage = "asking"] /\ UNCHANGED readers
    <3>1. PICK s : s = [look[l] EXCEPT !.stage = "asking"]
      OBVIOUS
    <3>2. s.stage = "asking" /\ s.got = look[l].got
      BY <1>1, <3>1 DEF LookState
    <3>3. look' = [look EXCEPT ![l] = s] /\ readers' = readers \cup {l}
      BY <2>1, <2>3, <3>1 DEF Guarded
    <3>4. s.got \in active \cup {0}
      BY <3>2 DEF Guarded
    <3>5. QED
      BY <1>1, <2>1, <3>2, <3>3, <3>4, LookTurns
  <2>4. QED
    BY <1>7, <2>2, <2>3 DEF LookUp
<1>8. ASSUME NEW l \in Look, NEW p \in Neighbour, AskPeer(l, p) PROVE Guarded'
  <2>1. PICK s : s = [look[l] EXCEPT !.left = @ \ {p}]
    OBVIOUS
  <2>2. s.stage = look[l].stage /\ s.got = look[l].got
    BY <1>1, <2>1 DEF LookState
  <2>3. look' = [look EXCEPT ![l] = s] /\ readers' = readers /\ active' = active /\ look[l].stage = "asking"
    BY <1>8, <2>1 DEF AskPeer
  <2>4. readers' = readers \cup {l} /\ s.got \in active \cup {0}
    BY <2>2, <2>3 DEF Guarded
  <2>5. QED
    BY <1>1, <2>2, <2>3, <2>4, LookTurns
<1>9. ASSUME NEW l \in Look, NobodyKnows(l) PROVE Guarded'
  BY <1>1, <1>9, LookEnds DEF NobodyKnows
<1>10. ASSUME NEW l \in Look, SaveSnapshot(l) PROVE Guarded'
  <2>1. PICK s : s = [NewLook EXCEPT !.stage = "done", !.got = look[l].got]
    OBVIOUS
  <2>2. s.stage = "done" /\ s.got = look[l].got
    BY <2>1 DEF NewLook
  <2>3. look' = [look EXCEPT ![l] = s] /\ readers' = readers /\ active' = active /\ look[l].stage = "cloned"
    BY <1>10, <2>1 DEF SaveSnapshot
  <2>4. readers' = readers \ {l} /\ s.got \in active \cup {0}
    BY <2>2, <2>3 DEF Guarded
  <2>5. QED
    BY <1>1, <2>2, <2>3, <2>4, LookTurns
<1>11. ASSUME ImportSnapshot \/ \E a \in Name : Leave(a) PROVE Guarded'
  BY <1>2, <1>11 DEF ImportSnapshot, Leave
<1>12. QED
  BY <1>3, <1>4, <1>5, <1>6, <1>7, <1>8, <1>9, <1>10, <1>11
  DEF SnapshotsNext, HandleExecute, HandleFork, InvokeFork, HandleSnapshot, InvokeSnapshot,
      HandleMemoryQuery, ExportManifest

\* Who looks a memory up or asks peers for one holds the read guard until it ends, and what
\* a look-up got is stored still.
THEOREM SnapshotsTypeCorrect == ASSUME SnapshotsAssumption PROVE SnapshotsSpec => []SnapshotsTypeOK
<1>1. SnapshotsInit => Guarded
  BY DEF SnapshotsInit, Guarded, NewLook
<1>2. SnapshotsInv => Typed
  BY DEF SnapshotsInv
<1>3. SnapshotsSpec => []Guarded
  BY <1>1, <1>2, GuardedNext, SnapshotsInvariance, PTL DEF SnapshotsSpec
<1>4. SnapshotsInv /\ Guarded => SnapshotsTypeOK
  <2> SUFFICES ASSUME SnapshotsInv, Guarded PROVE SnapshotsTypeOK
    OBVIOUS
  <2>1. Typed
    BY DEF SnapshotsInv
  <2>2. /\ \A l \in Look : look[l].stage \in {"new", "waiting", "looking", "asking", "cloned", "done"}
        /\ \A r \in Task : task[r].stage \in {"idle", "ran", "queued", "stored", "snapped", "pruned"}
    BY <2>1 DEF Typed, LookState, TaskState
  <2>3. QED
    BY <2>1, <2>2 DEF Typed, Entry, Guarded, SnapshotsTypeOK
<1>5. QED
  BY <1>3, <1>4, SnapshotsInvariance, PTL

-----------------------------------------------------------------------------
(* Tools: what ran for somebody stays compiled.                             *)

\* Nothing evicts a component from the cache.
InCache == \A c \in served : compiled[c] # NoBuild

\* What a call remembers of its cartridge.
Remembered == \A l \in Lane : call[l].ranBefore => call[l].cart \in served

Calling == [stage : {"idle", "searching", "compiling", "invoking", "running", "done"},
            cart : Cart \cup {NoBuild}, next : 1..Places,
            bytes : Build \cup {Broken, NoBuild},
            outcome : {"none", "plain", "missing", "ok", "fuel", "memory", "error"},
            ranBefore : BOOLEAN]

ToolsInv == ToolsTypeOK /\ InCache /\ Remembered /\ MissesAreGenuine

LEMMA NoCallType == NoCall \in Calling
BY ToolAssumption DEF NoCall, Calling

\* A step of one lane that changes neither the tools nor what is compiled and ran.
LEMMA LaneStep ==
    ASSUME ToolsInv, NEW l \in Lane, NEW k \in Calling, call' = [call EXCEPT ![l] = k],
           UNCHANGED <<disk, compiled, tools, edits, served>>, closed' \subseteq Stdio,
           k.stage \notin {"idle", "done"} => k.cart \in tools,
           k.ranBefore => k.cart \in served,
           k.outcome = "missing" => ~k.ranBefore
    PROVE  ToolsInv'
<1>1. call \in [Lane -> Calling]
  BY DEF ToolsInv, ToolsTypeOK, Calling
<1>2. call' \in [Lane -> Calling] /\ \A m \in Lane : call'[m] = IF m = l THEN k ELSE call[m]
  BY <1>1
<1>3. ToolsTypeOK'
  BY <1>2 DEF ToolsInv, ToolsTypeOK, Calling
<1>4. QED
  BY <1>2, <1>3 DEF ToolsInv, InCache, Remembered, MissesAreGenuine

LEMMA ToolsNextInv == ToolsInv /\ [ToolsNext]_toolVars => ToolsInv'
<1> SUFFICES ASSUME ToolsInv, [ToolsNext]_toolVars PROVE ToolsInv'
  OBVIOUS
<1>a. /\ call \in [Lane -> Calling] /\ \A l \in Lane : call[l] \in Calling
      /\ tools \subseteq Cart /\ closed \subseteq Stdio
  BY DEF ToolsInv, ToolsTypeOK, Calling
<1>1. ASSUME NEW c \in Cart, RegisterTool(c) PROVE ToolsInv'
  BY <1>1 DEF RegisterTool, ToolsInv, ToolsTypeOK, InCache, Remembered, MissesAreGenuine
<1>2. ASSUME NEW c \in Cart, NEW i \in 1..Places, EditDisk(c, i) PROVE ToolsInv'
  <2>1. disk' \in [Cart -> [1..Places -> Build \cup {Broken, NoBuild}]]
    BY <1>2 DEF EditDisk, ToolsInv, ToolsTypeOK
  <2>2. edits' \in 0..MaxEdits
    BY <1>2, ToolAssumption DEF EditDisk, ToolsInv, ToolsTypeOK
  <2>3. QED
    BY <1>2, <2>1, <2>2 DEF EditDisk, ToolsInv, ToolsTypeOK, InCache, Remembered, MissesAreGenuine
<1>3. ASSUME NEW l \in Lane, AnswerAtOnce(l) PROVE ToolsInv'
  <2> DEFINE k == [NoCall EXCEPT !.stage = "done", !.outcome = "plain"]
  <2>1. k \in Calling /\ k.stage = "done" /\ ~k.ranBefore
    BY NoCallType DEF Calling, NoCall
  <2>2. call' = [call EXCEPT ![l] = k] /\ UNCHANGED <<disk, compiled, tools, closed, edits, served>>
    BY <1>3, <1>a DEF AnswerAtOnce
  <2> HIDE DEF k
  <2>3. QED
    BY <1>a, <2>1, <2>2, LaneStep
<1>4. ASSUME NEW l \in Lane, Oversize(l) PROVE ToolsInv'
  BY <1>4 DEF Oversize, ToolsInv, ToolsTypeOK, InCache, Remembered, MissesAreGenuine
<1>5. ASSUME NEW l \in Lane, NEW c \in Cart, BeginCall(l, c) PROVE ToolsInv'
  <2> DEFINE s == IF compiled[c] = NoBuild THEN "searching" ELSE "invoking"
             b == c \in served
             k == [NoCall EXCEPT !.stage = s, !.cart = c, !.ranBefore = b]
  <2>1. /\ call' = [call EXCEPT ![l] = k] /\ c \in tools
        /\ UNCHANGED <<disk, compiled, tools, closed, edits, served>>
    BY <1>5 DEF BeginCall
  <2>2. s \in {"searching", "invoking"} /\ b \in BOOLEAN
    OBVIOUS
  <2>a. b => c \in served
    OBVIOUS
  <2> HIDE DEF s, b
  <2>3. /\ k \in Calling /\ k.cart = c /\ k.ranBefore = b /\ k.outcome = "none"
    BY <2>2, NoCallType DEF Calling, NoCall
  <2> HIDE DEF k
  <2>4. QED
    BY <1>a, <2>a, <2>1, <2>3, LaneStep
<1>6. ASSUME NEW l \in Lane, ReadCandidate(l) PROVE ToolsInv'
  <2> DEFINE k == call[l]
             d == disk[k.cart][k.next]
             x == IF d # NoBuild THEN [k EXCEPT !.stage = "compiling", !.bytes = d]
                  ELSE IF k.next = Places THEN [k EXCEPT !.stage = "invoking"]
                  ELSE [k EXCEPT !.next = k.next + 1]
  <2>1. /\ k.stage = "searching" /\ call' = [call EXCEPT ![l] = x]
        /\ UNCHANGED <<disk, compiled, tools, closed, edits, served>>
    BY <1>6 DEF ReadCandidate
  <2>2. k \in Calling /\ k.cart \in tools
    BY <1>a, <2>1 DEF ToolsInv, ToolsTypeOK
  <2>3. d \in Build \cup {Broken, NoBuild} /\ k.next \in 1..Places
    <3>1. k.next \in 1..Places
      BY <2>2 DEF Calling
    <3>2. k.cart \in Cart
      BY <2>2 DEF ToolsInv, ToolsTypeOK
    <3>3. disk[k.cart] \in [1..Places -> Build \cup {Broken, NoBuild}]
      BY <3>2 DEF ToolsInv, ToolsTypeOK
    <3>4. QED
      BY <3>1, <3>3
  <2>4. k.next # Places => k.next + 1 \in 1..Places
    <3> HIDE DEF k
    <3>1. Places \in Nat
      BY ToolAssumption
    <3>2. QED
      BY <2>3, <3>1
  <2> HIDE DEF d
  <2>5. /\ x \in Calling /\ x.cart = k.cart /\ x.ranBefore = k.ranBefore /\ x.outcome = k.outcome
    BY <2>2, <2>3, <2>4 DEF Calling
  <2> HIDE DEF x
  <2>6. (k.ranBefore => k.cart \in served) /\ (k.outcome = "missing" => ~k.ranBefore)
    BY DEF ToolsInv, Remembered, MissesAreGenuine
  <2>7. QED
    BY <1>a, <2>1, <2>2, <2>5, <2>6, LaneStep
<1>7. ASSUME NEW l \in Lane, Precompile(l) PROVE ToolsInv'
  <2> DEFINE k == call[l]
             x == [k EXCEPT !.stage = "invoking"]
  <2>1. /\ k.stage = "compiling" /\ call' = [call EXCEPT ![l] = x]
        /\ compiled' = [compiled EXCEPT ![k.cart] = Put(k.cart, k.bytes)]
        /\ UNCHANGED <<disk, tools, closed, edits, served>>
    BY <1>7, <1>a DEF Precompile
  <2>2. k \in Calling /\ k.cart \in tools
    BY <1>a, <2>1 DEF ToolsInv, ToolsTypeOK
  <2>3. /\ x \in Calling /\ x.cart = k.cart /\ x.ranBefore = k.ranBefore /\ x.outcome = k.outcome
    BY <2>2 DEF Calling
  <2>4. /\ compiled' \in [Cart -> Build \cup {NoBuild}]
        /\ \A c \in Cart : compiled[c] # NoBuild => compiled'[c] # NoBuild
    BY <1>a, <2>1, <2>2, ToolAssumption DEF Put, ToolsInv, ToolsTypeOK
  <2> HIDE DEF x
  <2>5. call' \in [Lane -> Calling] /\ \A m \in Lane : call'[m] = IF m = l THEN x ELSE call[m]
    BY <1>a, <2>1, <2>3
  <2>6. ToolsTypeOK'
    BY <2>1, <2>2, <2>3, <2>4, <2>5 DEF ToolsInv, ToolsTypeOK, Calling
  <2>7. InCache'
    BY <2>1, <2>4 DEF ToolsInv, InCache, ToolsTypeOK
  <2>8. QED
    BY <2>1, <2>3, <2>5, <2>6, <2>7 DEF ToolsInv, Remembered, MissesAreGenuine
<1>8. ASSUME NEW l \in Lane, Invoke(l) PROVE ToolsInv'
  <2>1. call[l].stage = "invoking" /\ UNCHANGED <<disk, compiled, tools, closed, edits>>
    BY <1>8 DEF Invoke
  <2>2. call[l] \in Calling /\ call[l].cart \in tools
    BY <1>a, <2>1 DEF ToolsInv, ToolsTypeOK
  <2>3. (call[l].ranBefore => call[l].cart \in served) /\ (call[l].outcome = "missing" => ~call[l].ranBefore)
    BY DEF ToolsInv, Remembered, MissesAreGenuine
  <2>4. CASE compiled[call[l].cart] = NoBuild
    <3> DEFINE x == [call[l] EXCEPT !.stage = "done", !.outcome = "missing"]
    <3>1. call' = [call EXCEPT ![l] = x] /\ UNCHANGED served
      BY <1>8, <1>a, <2>4 DEF Invoke
    <3>2. call[l].cart \notin served
      BY <2>4 DEF ToolsInv, InCache
    <3>3. /\ x \in Calling /\ x.cart = call[l].cart /\ x.ranBefore = call[l].ranBefore
          /\ x.stage = "done"
      BY <2>2 DEF Calling
    <3> HIDE DEF x
    <3>4. QED
      BY <1>a, <2>1, <2>3, <3>1, <3>2, <3>3, LaneStep
  <2>5. CASE compiled[call[l].cart] # NoBuild
    <3> DEFINE x == [call[l] EXCEPT !.stage = "running"]
    <3>1. call' = [call EXCEPT ![l] = x] /\ served' = served \cup {call[l].cart}
      BY <1>8, <1>a, <2>5 DEF Invoke
    <3>2. /\ x \in Calling /\ x.cart = call[l].cart /\ x.ranBefore = call[l].ranBefore
          /\ x.outcome = call[l].outcome
      BY <2>2 DEF Calling
    <3> HIDE DEF x
    <3>3. call' \in [Lane -> Calling] /\ \A m \in Lane : call'[m] = IF m = l THEN x ELSE call[m]
      BY <1>a, <3>1, <3>2
    <3>4. ToolsTypeOK'
      BY <2>1, <2>2, <3>1, <3>2, <3>3 DEF ToolsInv, ToolsTypeOK, Calling
    <3>5. InCache'
      BY <2>1, <2>5, <3>1 DEF ToolsInv, InCache
    <3>6. QED
      BY <2>3, <3>1, <3>2, <3>3, <3>4, <3>5 DEF ToolsInv, Remembered, MissesAreGenuine
  <2>6. QED
    BY <2>4, <2>5
<1>9. ASSUME NEW l \in Lane, EndCall(l) PROVE ToolsInv'
  <2>1. PICK outcome \in {"ok", "fuel", "memory", "error"} :
            call' = [call EXCEPT ![l] = [call[l] EXCEPT !.stage = "done", !.outcome = outcome]]
    BY <1>9, <1>a DEF EndCall
  <2> DEFINE x == [call[l] EXCEPT !.stage = "done", !.outcome = outcome]
  <2>2. /\ x \in Calling /\ x.cart = call[l].cart /\ x.ranBefore = call[l].ranBefore
        /\ x.stage = "done" /\ x.outcome = outcome
    BY <1>a DEF Calling
  <2>3. call' = [call EXCEPT ![l] = x] /\ UNCHANGED <<disk, compiled, tools, closed, edits, served>>
    BY <1>9, <2>1 DEF EndCall
  <2>4. call[l].ranBefore => call[l].cart \in served
    BY DEF ToolsInv, Remembered
  <2> HIDE DEF x
  <2>5. QED
    BY <1>a, <2>2, <2>3, <2>4, LaneStep
<1>10. ASSUME NEW l \in Lane, Finish(l) PROVE ToolsInv'
  <2>1. NoCall.stage = "idle" /\ ~NoCall.ranBefore
    BY DEF NoCall
  <2>2. QED
    BY <1>10, <1>a, <2>1, NoCallType, LaneStep DEF Finish
<1>11. CASE UNCHANGED toolVars
  BY <1>11 DEF toolVars, ToolsInv, ToolsTypeOK, InCache, Remembered, MissesAreGenuine
<1>12. QED
  BY <1>1, <1>2, <1>3, <1>4, <1>5, <1>6, <1>7, <1>8, <1>9, <1>10, <1>11
     DEF ToolsNext, HandleSandboxBenchmark, WriteAnswer, HandleHttpRequest

\* The tool server keeps what was served compiled.
THEOREM ToolsInvariance == ToolsSpec => []ToolsInv
<1>1. ToolsInit => ToolsInv
  <2> SUFFICES ASSUME ToolsInit PROVE ToolsInv
    OBVIOUS
  <2>1. call \in [Lane -> Calling] /\ \A l \in Lane : call[l] = NoCall
    BY NoCallType DEF ToolsInit
  <2>2. ToolsTypeOK
    BY <2>1, ToolAssumption DEF ToolsInit, ToolsTypeOK, Calling, NoCall
  <2>3. QED
    BY <2>1, <2>2 DEF ToolsInit, ToolsInv, InCache, Remembered, MissesAreGenuine, NoCall
<1>2. QED
  BY <1>1, ToolsNextInv, PTL DEF ToolsSpec

\* Files that go or break and loads that fail next to a call take no tool away from
\* those who used it: the cache of compiled components only grows, with any number of
\* cartridges, candidates and lanes.
THEOREM MissesAreGenuineAlways == ToolsSpec => []MissesAreGenuine
<1>1. ToolsInv => MissesAreGenuine
  BY DEF ToolsInv
<1>2. QED
  BY <1>1, ToolsInvariance, PTL

-----------------------------------------------------------------------------
(* ContextRouter: what stays of a session that is too long.                 *)

Piece == [id : Nat, type : DOMAIN Importance, len : Nat]

\* The blocks keep their order; one that is not as it was given was cut.
Blocks ==
    /\ given \in Seq(Piece) /\ session \in Seq(Piece)
    /\ \A k \in DOMAIN given : given[k].id = k
    /\ \A i \in DOMAIN session : session[i].id \in DOMAIN given
    /\ \A i, j \in DOMAIN session : i < j => session[i].id < session[j].id
    /\ \A i \in DOMAIN session : session[i].type = given[session[i].id].type
Routed ==
    /\ window \in Nat /\ window \in Window /\ strategy \in Strategy
    /\ report \in {"called", "no change", "cut", "pruned", "too large"}
    /\ Len(session) <= Len(given)

Lost == DOMAIN given \ Kept
Untouched ==
    /\ report \in {"called", "no change"} => session = given
    /\ report = "no change" => Fits(ToSet(given))
Shortened == report \in {"cut", "pruned", "too large"} =>
    /\ ~Fits(ToSet(given)) /\ Lost \subseteq LosableIds
    /\ \A i \in DOMAIN session, k \in DOMAIN given : session[i].id = k => session[i] = Cut(given[k])
    /\ report = "pruned" => Fits(ToSet(session))
    /\ report = "too large" => Lost = LosableIds /\ ~Fits(ToSet(session))
\* First in, first out: what is lost is a prefix of what may be lost, and not less would do.
Oldest == report \in {"cut", "pruned", "too large"} /\ strategy = "Fifo" => \A i \in Lost :
    /\ ~Fits(Without({j \in LosableIds : j < i}))
    /\ \A j \in LosableIds : j < i => j \in Lost
\* Largest first: what is lost is at least as large as what is not, and fewer would not do.
Largest == report \in {"cut", "pruned", "too large"} /\ strategy = "LargeBlockFirst" =>
    /\ \A i \in Lost, j \in LosableIds \ Lost : Tokens(Cut(given[j])) <= Tokens(Cut(given[i]))
    /\ \A ids \in SUBSET LosableIds : Cardinality(ids) < Cardinality(Lost) => ~Fits(Without(ids))

ContextInv == Blocks /\ Routed /\ Untouched /\ Shortened /\ Oldest /\ Largest

LEMMA CutFields ==
    ASSUME NEW b \in Piece, window \in Nat
    PROVE  Cut(b) \in Piece /\ Cut(b).id = b.id /\ Cut(b).type = b.type
<1>1. PICK n \in Nat : n = IF (window \div 2) * 4 < b.len THEN (window \div 2) * 4 ELSE b.len
  <2>1. (window \div 2) * 4 \in Nat /\ b.len \in Nat
    BY DEF Piece
  <2>2. QED
    BY <2>1
<1>2. Cut(b) = b \/ Cut(b) = [b EXCEPT !.len = n]
  BY <1>1 DEF Cut
<1>3. QED
  BY <1>2 DEF Piece

LEMMA TokensType == \A b \in Piece : Tokens(b) \in Nat
BY DEF Tokens, Piece

\* What the tokens of some blocks are counted by.
Pairs(ys) == UNION {{b} \X (1..Tokens(b)) : b \in ys}

LEMMA PairsMember ==
    ASSUME NEW zs, NEW q
    PROVE  q \in Pairs(zs) <=> \E b \in zs : \E k \in 1..Tokens(b) : q = <<b, k>>
BY DEF Pairs

LEMMA PairsFirst ==
    ASSUME NEW zs, NEW q \in Pairs(zs)
    PROVE  q[1] \in zs
<1>1. PICK b \in zs : \E k \in 1..Tokens(b) : q = <<b, k>>
  BY PairsMember
<1>2. QED
  BY <1>1

LEMMA PairsFinite ==
    ASSUME NEW ys \in SUBSET Piece, IsFiniteSet(ys)
    PROVE  IsFiniteSet(Pairs(ys)) /\ Cardinality(Pairs(ys)) \in Nat /\ TokensOf(ys) = Cardinality(Pairs(ys))
<1> DEFINE P(b) == {b} \X (1..Tokens(b))
           T == {P(b) : b \in ys}
           g == [b \in ys |-> P(b)]
<1>1. g \in Surjection(ys, T)
  BY DEF Surjection
<1>2. ASSUME NEW b \in ys PROVE IsFiniteSet(P(b))
  <2>1. PICK n \in Nat : n = Tokens(b)
    BY TokensType
  <2>2. IsFiniteSet(1..n)
    BY FS_Interval
  <2>3. IsFiniteSet({b})
    BY FS_Singleton
  <2>4. QED
    BY <2>1, <2>2, <2>3, FS_Product
<1>3. \A S \in T : IsFiniteSet(S)
  BY <1>2
<1>4. Pairs(ys) = UNION T /\ TokensOf(ys) = Cardinality(UNION T)
  BY DEF Pairs, TokensOf
<1> HIDE DEF T, g, P
<1>5. IsFiniteSet(T)
  BY <1>1, FS_Surjection
<1>6. IsFiniteSet(UNION T)
  BY <1>3, <1>5, FS_UNION
<1>7. QED
  BY <1>4, <1>6, FS_CardinalityType

\* Disjoint sets of blocks have their tokens together.
LEMMA TokensAdd ==
    ASSUME NEW xs \in SUBSET Piece, NEW ys \in SUBSET Piece, IsFiniteSet(xs), IsFiniteSet(ys),
           xs \cap ys = {}
    PROVE  /\ TokensOf(xs \cup ys) = TokensOf(xs) + TokensOf(ys)
           /\ TokensOf(xs) \in Nat /\ TokensOf(ys) \in Nat /\ IsFiniteSet(xs \cup ys)
<1>1. IsFiniteSet(xs \cup ys)
  BY FS_Union
<1>2. PICK cs \in SUBSET Piece : cs = xs \cup ys
  OBVIOUS
<1>3. /\ IsFiniteSet(Pairs(xs)) /\ TokensOf(xs) = Cardinality(Pairs(xs)) /\ TokensOf(xs) \in Nat
      /\ IsFiniteSet(Pairs(ys)) /\ TokensOf(ys) = Cardinality(Pairs(ys)) /\ TokensOf(ys) \in Nat
      /\ TokensOf(cs) = Cardinality(Pairs(cs))
  BY <1>1, <1>2, PairsFinite
<1>4. Pairs(cs) = Pairs(xs) \cup Pairs(ys)
  BY <1>2 DEF Pairs
<1>5. Pairs(xs) \cap Pairs(ys) = {}
  <2>1. \A p \in Pairs(xs) : p[1] \in xs
    BY PairsFirst
  <2>2. \A p \in Pairs(ys) : p[1] \in ys
    BY PairsFirst
  <2>3. QED
    BY <2>1, <2>2
<1>6. Cardinality(Pairs(xs) \cap Pairs(ys)) = 0
  BY <1>5, FS_EmptySet
<1>7. PICK x, y : x = Pairs(xs) /\ y = Pairs(ys)
  OBVIOUS
<1>8. Cardinality(x \cup y) = Cardinality(x) + Cardinality(y) - Cardinality(x \cap y)
  BY <1>3, <1>7, FS_Union
<1>9. PICK l, m, n : l = Cardinality(x) /\ m = Cardinality(y) /\ n = Cardinality(x \cup y)
  OBVIOUS
<1>10. TokensOf(cs) = n /\ TokensOf(xs) = l /\ TokensOf(ys) = m /\ l \in Nat /\ m \in Nat
  BY <1>3, <1>4, <1>7, <1>9
<1>13. n = l + m - 0
  BY <1>6, <1>7, <1>8, <1>9
<1>11. n = l + m
  BY <1>10, <1>13
<1>12. QED
  BY <1>1, <1>2, <1>10, <1>11

\* Fewer blocks, none of them larger, have no more tokens.
LEMMA TokensLeq ==
    ASSUME NEW xs \in SUBSET Piece, NEW ys \in SUBSET Piece, IsFiniteSet(xs), IsFiniteSet(ys),
           Cardinality(xs) <= Cardinality(ys),
           \A a \in xs, b \in ys : Tokens(a) <= Tokens(b)
    PROVE  TokensOf(xs) <= TokensOf(ys)
<1>1. PICK m \in Nat, n \in Nat : m = Cardinality(xs) /\ n = Cardinality(ys) /\ m <= n
  BY FS_CardinalityType
<1>2. PICK i \in Bijection(xs, 1..m) : TRUE
  <2>1. ExistsBijection(1..m, xs)
    BY <1>1, FS_CardinalityType
  <2>2. QED
    BY <2>1, Fun_ExistsBijSymmetric DEF ExistsBijection
<1>3. PICK j \in Bijection(1..n, ys) : TRUE
  BY <1>1, FS_CardinalityType DEF ExistsBijection
<1>4. /\ i \in [xs -> 1..m] /\ \A a, b \in xs : i[a] = i[b] => a = b
      /\ j \in [1..n -> ys] /\ \A a, b \in 1..n : j[a] = j[b] => a = b
  BY <1>2, <1>3, Fun_BijectionProperties
<1>5. PICK g : g = [a \in xs |-> j[i[a]]]
  OBVIOUS
<1>6. g \in [xs -> ys] /\ \A a, b \in xs : g[a] = g[b] => a = b
  <2>0. \A k \in 1..m : k \in 1..n
    BY <1>1
  <2>1. \A a \in xs : i[a] \in 1..n /\ g[a] = j[i[a]]
    BY <2>0, <1>4, <1>5
  <2>5. \A k \in 1..n : j[k] \in ys
    BY <1>4
  <2>6. \A k, l \in 1..n : j[k] = j[l] => k = l
    BY <1>4
  <2>7. \A a, b \in xs : i[a] = i[b] => a = b
    BY <1>4
  <2>2. \A a \in xs : g[a] \in ys
    BY <2>1, <2>5
  <2>3. \A a, b \in xs : g[a] = g[b] => a = b
    <3> SUFFICES ASSUME NEW a \in xs, NEW b \in xs, g[a] = g[b] PROVE a = b
      OBVIOUS
    <3>1. i[a] \in 1..n /\ i[b] \in 1..n /\ j[i[a]] = j[i[b]]
      BY <2>1
    <3>2. i[a] = i[b]
      BY <3>1, <2>6
    <3>3. QED
      BY <3>2, <2>7
  <2>4. QED
    BY <1>5, <2>2, <2>3
<1>7. PICK h : h = [p \in Pairs(xs) |-> <<g[p[1]], p[2]>>]
  OBVIOUS
<1>8. ASSUME NEW p \in Pairs(xs)
      PROVE  /\ p[1] \in xs /\ p = <<p[1], p[2]>> /\ h[p] = <<g[p[1]], p[2]>> /\ h[p] \in Pairs(ys)
  <2>1. PICK a \in xs : \E k \in 1..Tokens(a) : p = <<a, k>>
    BY PairsMember
  <2>2. PICK k \in 1..Tokens(a) : p = <<a, k>>
    BY <2>1
  <2>3. g[a] \in ys /\ Tokens(a) <= Tokens(g[a]) /\ Tokens(a) \in Nat /\ Tokens(g[a]) \in Nat
    BY <1>6, TokensType
  <2>4. k \in 1..Tokens(g[a])
    BY <2>3
  <2>5. h[p] = <<g[a], k>>
    BY <1>7, <2>2
  <2>6. PICK q : q = h[p]
    OBVIOUS
  <2>7. q \in Pairs(ys)
    BY <2>3, <2>4, <2>5, <2>6, PairsMember
  <2>8. QED
    BY <2>2, <2>5, <2>6, <2>7
<1>9. \A p, q \in Pairs(xs) : h[p] = h[q] => p = q
  <2> SUFFICES ASSUME NEW p \in Pairs(xs), NEW q \in Pairs(xs), h[p] = h[q] PROVE p = q
    OBVIOUS
  <2>1. <<g[p[1]], p[2]>> = <<g[q[1]], q[2]>> /\ p[1] \in xs /\ q[1] \in xs
    BY <1>8
  <2>2. g[p[1]] = g[q[1]] /\ p[2] = q[2]
    BY <2>1
  <2>3. p[1] = q[1]
    BY <1>6, <2>1, <2>2
  <2>4. QED
    BY <1>8, <2>2, <2>3
<1>10. h \in Injection(Pairs(xs), Pairs(ys))
  <2>1. h \in [Pairs(xs) -> Pairs(ys)]
    BY <1>7, <1>8
  <2>2. QED
    BY <1>9, <2>1, Fun_IsInj
<1>11. PICK x, y : x = Pairs(xs) /\ y = Pairs(ys)
  OBVIOUS
<1>12. /\ IsFiniteSet(y) /\ TokensOf(xs) = Cardinality(x) /\ TokensOf(ys) = Cardinality(y)
  BY <1>11, PairsFinite
<1>13. Cardinality(x) <= Cardinality(y)
  BY <1>10, <1>11, <1>12, FS_Injection
<1>14. QED
  BY <1>12, <1>13

LEMMA FitsWithFewer ==
    ASSUME window \in Nat, NEW xs, NEW ys, TokensOf(xs) \in Nat, TokensOf(ys) \in Nat,
           TokensOf(xs) <= TokensOf(ys), Fits(ys)
    PROVE  Fits(xs)
<1>1. PICK m \in Nat, n \in Nat : m = TokensOf(xs) /\ n = TokensOf(ys) /\ m <= n
  OBVIOUS
<1>2. (115 * n + 99) \div 100 <= window
  BY <1>1 DEF Fits, Estimate
<1>3. PICK x \in Int, y \in Int : x = 115 * m + 99 /\ y = 115 * n + 99 /\ x <= y
  <2>1. 115 * m + 99 \in Int /\ 115 * n + 99 \in Int /\ 115 * m + 99 <= 115 * n + 99
    BY <1>1
  <2>2. QED
    BY <2>1
<1>4. x \div 100 <= y \div 100 /\ x \div 100 \in Int /\ y \div 100 \in Int
  BY <1>3
<1>5. (115 * m + 99) \div 100 <= window
  BY <1>2, <1>3, <1>4
<1>6. QED
  BY <1>1, <1>5 DEF Fits, Estimate

\* A sequence without one of its elements.
LEMMA Removed ==
    ASSUME NEW S, NEW s \in Seq(S), NEW i \in DOMAIN s, NEW t, t = RemoveAt(s, i)
    PROVE  /\ t \in Seq(S) /\ Len(t) = Len(s) - 1
           /\ \A k \in DOMAIN t : k \in 1..(Len(s) - 1) /\ t[k] = IF k < i THEN s[k] ELSE s[k + 1]
<1>1. /\ Len(s) \in Nat /\ DOMAIN s = 1..Len(s) /\ i \in Nat /\ 1 <= i /\ i <= Len(s)
  OBVIOUS
<1>2. PICK u, v : u = SubSeq(s, 1, i - 1) /\ v = SubSeq(s, i + 1, Len(s))
  OBVIOUS
<1>3. u \in Seq(S) /\ Len(u) = i - 1 /\ \A k \in 1..(i - 1) : u[k] = s[k]
  BY <1>1, <1>2, SubSeqProperties
<1>4. v \in Seq(S) /\ Len(v) = Len(s) - i /\ \A k \in 1..(Len(s) - i) : v[k] = s[k + i]
  BY <1>1, <1>2, SubSeqProperties
<1>5. t = u \o v
  BY <1>2 DEF RemoveAt
<1>6. /\ t \in Seq(S) /\ Len(t) = Len(u) + Len(v)
      /\ \A k \in 1..Len(t) : t[k] = IF k <= Len(u) THEN u[k] ELSE v[k - Len(u)]
  <2>1. PICK w : w = u \o v
    OBVIOUS
  <2>2. u \in Seq(S) /\ v \in Seq(S)
    BY <1>3, <1>4
  <2>3. /\ w \in Seq(S) /\ Len(w) = Len(u) + Len(v)
        /\ \A k \in 1..(Len(u) + Len(v)) : w[k] = IF k <= Len(u) THEN u[k] ELSE v[k - Len(u)]
    BY <2>1, <2>2, ConcatProperties
  <2>4. QED
    BY <1>5, <2>1, <2>3
<1>7. Len(t) = Len(s) - 1 /\ DOMAIN t = 1..(Len(s) - 1)
  BY <1>1, <1>3, <1>4, <1>6
<1>8. ASSUME NEW k \in 1..(Len(s) - 1) PROVE t[k] = IF k < i THEN s[k] ELSE s[k + 1]
  <2>1. k \in 1..Len(t) /\ k \in Nat
    BY <1>7
  <2>2. CASE k < i
    <3>1. k \in 1..(i - 1) /\ k <= Len(u)
      BY <1>1, <1>3, <2>1, <2>2
    <3>2. t[k] = u[k] /\ u[k] = s[k]
      BY <1>3, <1>6, <2>1, <3>1
    <3>3. QED
      BY <2>2, <3>2
  <2>3. CASE ~(k < i)
    <3>1. k - Len(u) \in 1..(Len(s) - i) /\ ~(k <= Len(u)) /\ (k - Len(u)) + i = k + 1
      BY <1>1, <1>3, <2>1, <2>3
    <3>2. t[k] = v[k - Len(u)]
      BY <1>6, <2>1, <3>1
    <3>3. v[k - Len(u)] = s[(k - Len(u)) + i]
      BY <1>4, <3>1
    <3>4. QED
      BY <2>3, <3>1, <3>2, <3>3
  <2>4. QED
    BY <2>2, <2>3
<1>9. QED
  BY <1>6, <1>7, <1>8

\* What a sequence has without one of its elements, in order.
LEMMA RemovedPlaces ==
    ASSUME NEW S, NEW s \in Seq(S), NEW i \in DOMAIN s, NEW t, t = RemoveAt(s, i)
    PROVE  /\ t \in Seq(S) /\ Len(t) <= Len(s)
           /\ \A k \in DOMAIN t : \E m \in DOMAIN s : m # i /\ t[k] = s[m]
           /\ \A m \in DOMAIN s : m # i => \E k \in DOMAIN t : t[k] = s[m]
           /\ \A k, l \in DOMAIN t : k < l =>
                 \E m, n \in DOMAIN s : m < n /\ t[k] = s[m] /\ t[l] = s[n]
<1>1. /\ t \in Seq(S) /\ Len(t) = Len(s) - 1
      /\ \A k \in DOMAIN t : k \in 1..(Len(s) - 1) /\ t[k] = IF k < i THEN s[k] ELSE s[k + 1]
  BY Removed
<1>2. /\ Len(s) \in Nat /\ DOMAIN s = 1..Len(s) /\ i \in Nat /\ 1 <= i /\ i <= Len(s)
      /\ DOMAIN t = 1..(Len(s) - 1)
  BY <1>1
<1> DEFINE P(k) == IF k < i THEN k ELSE k + 1
<1>3. ASSUME NEW k \in DOMAIN t PROVE P(k) \in DOMAIN s /\ P(k) # i /\ t[k] = s[P(k)]
  <2>1. t[k] = IF k < i THEN s[k] ELSE s[k + 1]
    BY <1>1
  <2>2. k \in Nat /\ 1 <= k /\ k <= Len(s) - 1
    BY <1>2
  <2>3. QED
    BY <1>2, <2>1, <2>2
<1>4. ASSUME NEW m \in DOMAIN s, m # i PROVE \E k \in DOMAIN t : P(k) = m
  <2>1. m \in Nat /\ 1 <= m /\ m <= Len(s)
    BY <1>2
  <2>2. CASE m < i
    <3>1. m \in DOMAIN t /\ P(m) = m
      BY <1>2, <2>1, <2>2
    <3>2. QED
      BY <3>1
  <2>3. CASE m > i
    <3>1. m - 1 \in DOMAIN t /\ P(m - 1) = m
      BY <1>2, <2>1, <2>3
    <3>2. QED
      BY <3>1
  <2>4. QED
    BY <1>2, <1>4, <2>1, <2>2, <2>3
<1>5. ASSUME NEW k \in DOMAIN t, NEW l \in DOMAIN t, k < l PROVE P(k) < P(l)
  BY <1>2, <1>5
<1> HIDE DEF P
<1>6. \A k \in DOMAIN t : \E m \in DOMAIN s : m # i /\ t[k] = s[m]
  BY <1>3
<1>7. \A m \in DOMAIN s : m # i => \E k \in DOMAIN t : t[k] = s[m]
  BY <1>3, <1>4
<1>8. \A k, l \in DOMAIN t : k < l => \E m, n \in DOMAIN s : m < n /\ t[k] = s[m] /\ t[l] = s[n]
  BY <1>3, <1>5
<1>9. Len(t) <= Len(s)
  BY <1>1, <1>2
<1>10. QED
  BY <1>1, <1>6, <1>7, <1>8, <1>9

-----------------------------------------------------------------------------

\* The blocks of some ids, large tool results cut.
PiecesOf(ids) == {Cut(given[k]) : k \in ids}

LEMMA PieceOf ==
    ASSUME Blocks, window \in Nat, NEW k \in DOMAIN given
    PROVE  /\ given[k] \in Piece /\ Cut(given[k]) \in Piece /\ Cut(given[k]).id = k
           /\ Cut(given[k]).type = given[k].type /\ Tokens(Cut(given[k])) \in Nat
<1>1. PICK b \in Piece : b = given[k] /\ b.id = k
  BY DEF Blocks
<1>2. Cut(b) \in Piece /\ Cut(b).id = b.id /\ Cut(b).type = b.type
  BY CutFields
<1>3. PICK c \in Piece : c = Cut(b)
  BY <1>2
<1>4. Tokens(c) \in Nat
  BY TokensType
<1>5. QED
  BY <1>1, <1>2, <1>3, <1>4

LEMMA GivenFinite == Blocks => IsFiniteSet(DOMAIN given)
<1> SUFFICES ASSUME Blocks PROVE IsFiniteSet(DOMAIN given)
  OBVIOUS
<1>1. PICK n \in Nat : DOMAIN given = 1..n
  BY DEF Blocks
<1>2. QED
  BY <1>1, FS_Interval

\* There are as many blocks as ids.
LEMMA PiecesCounted ==
    ASSUME Blocks, window \in Nat, NEW ids \in SUBSET DOMAIN given
    PROVE  /\ IsFiniteSet(ids) /\ PiecesOf(ids) \in SUBSET Piece
           /\ IsFiniteSet(PiecesOf(ids)) /\ Cardinality(PiecesOf(ids)) = Cardinality(ids)
           /\ Cardinality(ids) \in Nat
<1>1. IsFiniteSet(ids)
  BY GivenFinite, FS_Subset
<1>2. PICK T, g : T = PiecesOf(ids) /\ g = [k \in ids |-> Cut(given[k])]
  OBVIOUS
<1>3. T \in SUBSET Piece
  BY <1>2, PieceOf DEF PiecesOf
<1>4. g \in [ids -> T] /\ \A t \in T : \E k \in ids : g[k] = t
  BY <1>2 DEF PiecesOf
<1>5. \A k, l \in ids : g[k] = g[l] => k = l
  <2>1. \A k \in ids : g[k].id = k
    BY <1>2, PieceOf
  <2>2. QED
    BY <2>1
<1>6. g \in Bijection(ids, T)
  BY <1>4, <1>5, Fun_IsBij
<1>7. ExistsBijection(ids, T)
  BY <1>6 DEF ExistsBijection
<1>8. IsFiniteSet(T) /\ Cardinality(T) = Cardinality(ids)
  BY <1>1, <1>7, FS_Bijection
<1>9. QED
  BY <1>1, <1>2, <1>3, <1>8, FS_CardinalityType

\* What is left of two sets without what they share compares as they do.
LEMMA DifferencesCompare ==
    ASSUME NEW A, NEW B, IsFiniteSet(A), IsFiniteSet(B), Cardinality(A) <= Cardinality(B)
    PROVE  Cardinality(A \ B) <= Cardinality(B \ A)
<1>1. Cardinality(A \ B) = Cardinality(A) - Cardinality(A \cap B)
  BY FS_Difference
<1>2. Cardinality(B \ A) = Cardinality(B) - Cardinality(B \cap A)
  BY FS_Difference
<1>3. A \cap B = B \cap A
  OBVIOUS
<1>4. IsFiniteSet(A \cap B)
  BY FS_Intersection
<1>5. Cardinality(A) \in Nat /\ Cardinality(B) \in Nat /\ Cardinality(A \cap B) \in Nat
  BY <1>4, FS_CardinalityType
<1>6. PICK l \in Nat, m \in Nat, n \in Nat :
         l = Cardinality(A) /\ m = Cardinality(B) /\ n = Cardinality(A \cap B)
  BY <1>5
<1>7. Cardinality(A \ B) = l - n /\ Cardinality(B \ A) = m - n /\ l <= m
  BY <1>1, <1>2, <1>3, <1>6
<1>8. QED
  BY <1>7

\* To lose the largest blocks leaves no more than to lose as many others.
LEMMA Exchange ==
    ASSUME Blocks, window \in Nat, NEW lost \in SUBSET LosableIds, NEW ids \in SUBSET LosableIds,
           Cardinality(ids) <= Cardinality(lost),
           \A i \in lost, j \in LosableIds \ lost : Tokens(Cut(given[j])) <= Tokens(Cut(given[i]))
    PROVE  /\ TokensOf(Without(lost)) <= TokensOf(Without(ids))
           /\ TokensOf(Without(lost)) \in Nat /\ TokensOf(Without(ids)) \in Nat
<1>1. PICK D : D = DOMAIN given
  OBVIOUS
<1>2. lost \in SUBSET D /\ ids \in SUBSET D /\ LosableIds \in SUBSET D
  BY <1>1 DEF LosableIds
<1>3. PICK rest, less, more : rest = D \ (lost \cup ids) /\ less = ids \ lost /\ more = lost \ ids
  OBVIOUS
<1>4. /\ rest \in SUBSET D /\ less \in SUBSET D /\ more \in SUBSET D
      /\ rest \cap less = {} /\ rest \cap more = {}
      /\ D \ lost = rest \cup less /\ D \ ids = rest \cup more
  BY <1>2, <1>3
<1>5. PICK r, s, l : r = PiecesOf(rest) /\ s = PiecesOf(less) /\ l = PiecesOf(more)
  OBVIOUS
<1>6. /\ r \in SUBSET Piece /\ IsFiniteSet(r)
      /\ s \in SUBSET Piece /\ IsFiniteSet(s) /\ Cardinality(s) = Cardinality(less)
      /\ l \in SUBSET Piece /\ IsFiniteSet(l) /\ Cardinality(l) = Cardinality(more)
  BY <1>1, <1>4, <1>5, PiecesCounted
<1>7. Without(lost) = r \cup s /\ Without(ids) = r \cup l
  BY <1>1, <1>4, <1>5 DEF Without, PiecesOf
<1>8. r \cap s = {} /\ r \cap l = {}
  <2>1. \A k \in D : Cut(given[k]).id = k
    BY <1>1, PieceOf
  <2>2. (\A b \in r : b.id \in rest) /\ (\A b \in s : b.id \in less) /\ (\A b \in l : b.id \in more)
    BY <1>4, <1>5, <2>1 DEF PiecesOf
  <2>3. QED
    BY <1>4, <2>2
<1>9. Cardinality(s) <= Cardinality(l)
  <2>1. IsFiniteSet(lost) /\ IsFiniteSet(ids)
    BY <1>1, <1>2, PiecesCounted
  <2>2. QED
    BY <1>3, <1>6, <2>1, DifferencesCompare
<1>10. \A a \in s, b \in l : Tokens(a) <= Tokens(b)
  <2>1. \A j \in less : j \in LosableIds \ lost
    BY <1>3
  <2>2. \A i \in more : i \in lost
    BY <1>3
  <2>3. \A j \in less, i \in more : Tokens(Cut(given[j])) <= Tokens(Cut(given[i]))
    BY <2>1, <2>2
  <2>4. QED
    BY <1>5, <2>3 DEF PiecesOf
<1>11. TokensOf(s) <= TokensOf(l)
  BY <1>6, <1>9, <1>10, TokensLeq
<1>12. PICK t, u : t = r \cup s /\ u = r \cup l
  OBVIOUS
<1>13. /\ TokensOf(t) = TokensOf(r) + TokensOf(s)
       /\ TokensOf(r) \in Nat /\ TokensOf(s) \in Nat
  BY <1>6, <1>8, <1>12, TokensAdd
<1>14. /\ TokensOf(u) = TokensOf(r) + TokensOf(l) /\ TokensOf(l) \in Nat
  BY <1>6, <1>8, <1>12, TokensAdd
<1>15. PICK x \in Nat, y \in Nat, z \in Nat : x = TokensOf(r) /\ y = TokensOf(s) /\ z = TokensOf(l)
  BY <1>13, <1>14
<1>16. TokensOf(t) = x + y /\ TokensOf(u) = x + z /\ y <= z
  BY <1>11, <1>13, <1>14, <1>15
<1>17. TokensOf(t) \in Nat /\ TokensOf(u) \in Nat /\ TokensOf(t) <= TokensOf(u)
  BY <1>16
<1>18. QED
  BY <1>7, <1>12, <1>17

\* What does not change with the session.
LEMMA SameCuts ==
    ASSUME window' = window, given' = given, NEW k
    PROVE  Cut(given[k])' = Cut(given[k])
<1>1. PICK b : b = given[k]
  OBVIOUS
<1>2. given'[k] = b
  BY <1>1
<1>3. QED
  BY <1>1, <1>2 DEF Cut, Tokens

LEMMA SameFit ==
    ASSUME window' = window, given' = given, NEW ids, NEW bs
    PROVE  /\ Fits(bs)' <=> Fits(bs)
           /\ Without(ids)' = Without(ids)
           /\ LosableIds' = LosableIds
<1>1. Fits(bs)' <=> Fits(bs)
  BY DEF Fits, Estimate, TokensOf, Tokens
<1>2. LosableIds' = LosableIds
  BY DEF LosableIds, Persistent
<1>3. Without(ids)' = Without(ids)
  BY SameCuts DEF Without
<1>4. QED
  BY <1>1, <1>2, <1>3

\* A session whose blocks are the given ones, cut, has the blocks that are not lost.
LEMMA WhatIsKept ==
    ASSUME Blocks,
           \A i \in DOMAIN session, k \in DOMAIN given : session[i].id = k => session[i] = Cut(given[k])
    PROVE  ToSet(session) = Without(Lost) /\ Lost \in SUBSET DOMAIN given
<1>1. DOMAIN given \ Lost = Kept
  BY DEF Blocks, Lost, Kept
<1>2. ToSet(session) = {Cut(given[k]) : k \in Kept}
  BY DEF Kept, ToSet, Blocks
<1>3. QED
  BY <1>1, <1>2 DEF Without, Lost

LEMMA ContextStarts == ContextInit => ContextInv
<1> SUFFICES ASSUME ContextInit PROVE ContextInv
  OBVIOUS
<1>1. PICK n \in 0..MaxBlocks : \E f \in [1..n -> (DOMAIN Importance) \X Length] :
         session = [i \in 1..n |-> [id |-> i, type |-> f[i][1], len |-> f[i][2]]]
  BY DEF ContextInit
<1>2. PICK f \in [1..n -> (DOMAIN Importance) \X Length] :
         session = [i \in 1..n |-> [id |-> i, type |-> f[i][1], len |-> f[i][2]]]
  BY <1>1
<1>3. n \in Nat /\ Length \subseteq Nat /\ window \in Nat
  BY ContextAssumption DEF ContextInit
<1>4. ASSUME NEW i \in 1..n PROVE session[i] \in Piece /\ session[i].id = i
  <2>1. f[i][1] \in DOMAIN Importance /\ f[i][2] \in Nat
    BY <1>3
  <2>2. session[i] = [id |-> i, type |-> f[i][1], len |-> f[i][2]]
    BY <1>2
  <2>3. i \in Nat
    BY <1>3
  <2>4. QED
    BY <2>1, <2>2, <2>3 DEF Piece
<1>5. session \in Seq(Piece) /\ Len(session) = n /\ DOMAIN session = 1..n
  <2>1. DOMAIN session = 1..n /\ session = [i \in 1..n |-> session[i]]
    BY <1>2
  <2>2. session \in [1..n -> Piece]
    BY <1>4, <2>1
  <2>3. QED
    BY <1>3, <2>1, <2>2
<1>6. given = session /\ report = "called" /\ window \in Window /\ strategy \in Strategy
  BY DEF ContextInit
<1>7. \A i, j \in DOMAIN session : i < j => session[i].id < session[j].id
  BY <1>4, <1>5
<1>8. Blocks
  BY <1>4, <1>5, <1>6, <1>7 DEF Blocks
<1>9. QED
  BY <1>3, <1>5, <1>6, <1>8 DEF ContextInv, Routed, Untouched, Shortened, Oldest, Largest

LEMMA MeasuredKeeps == ContextInv /\ Measured => ContextInv'
<1> SUFFICES ASSUME ContextInv, Measured PROVE ContextInv'
  OBVIOUS
<1>1. /\ report = "called" /\ session = given
      /\ window' = window /\ strategy' = strategy /\ given' = given
      /\ Blocks /\ Routed /\ window \in Nat
  BY DEF ContextInv, Measured, Untouched, Routed
<1>2. CASE Fits(ToSet(session)) /\ report' = "no change" /\ session' = session
  <2>1. Blocks' /\ Routed'
    BY <1>1, <1>2 DEF Blocks, Routed
  <2>2. Fits(ToSet(given))'
    BY <1>1, <1>2 DEF Fits, Estimate
  <2>3. QED
    BY <1>1, <1>2, <2>1, <2>2 DEF ContextInv, Untouched, Shortened, Oldest, Largest
<1>3. CASE ~Fits(ToSet(session)) /\ report' = "cut" /\ session' = [i \in DOMAIN session |-> Cut(session[i])]
  <2>1. ASSUME NEW k \in DOMAIN given
        PROVE  /\ session'[k] = Cut(given[k]) /\ session'[k] \in Piece /\ session'[k].id = k
               /\ session'[k].type = given[k].type
    BY <1>1, <1>3, PieceOf
  <2>2. session' \in Seq(Piece) /\ Len(session') = Len(given) /\ DOMAIN session' = DOMAIN given
    <3>1. PICK n \in Nat : DOMAIN given = 1..n /\ Len(given) = n
      BY <1>1 DEF Blocks
    <3>2. DOMAIN session' = 1..n /\ session' = [i \in 1..n |-> session'[i]]
      BY <1>1, <1>3, <3>1
    <3>3. session' \in [1..n -> Piece]
      BY <2>1, <3>1, <3>2
    <3>4. QED
      BY <3>1, <3>2, <3>3
  <2>3. \A i, j \in DOMAIN session' : i < j => session'[i].id < session'[j].id
    BY <2>1, <2>2
  <2>4. Blocks'
    BY <1>1, <2>1, <2>2, <2>3 DEF Blocks
  <2>5. Routed'
    BY <1>1, <1>3, <2>2 DEF Routed, Blocks
  <2>6. Lost' = {}
    BY <1>1, <2>1, <2>2 DEF Lost, Kept
  <2>7. ~Fits(ToSet(given))'
    BY <1>1, <1>3 DEF Fits, Estimate
  <2>8. \A i \in DOMAIN session', k \in DOMAIN given' : session'[i].id = k => session'[i] = Cut(given[k])'
    BY <1>1, <2>1, <2>2, SameCuts
  <2>9. Shortened'
    BY <1>3, <2>6, <2>7, <2>8 DEF Shortened
  <2>10. Oldest' /\ Untouched'
    BY <1>3, <2>6 DEF Oldest, Untouched
  <2>11. Largest'
    <3>1. Cardinality(Lost') = 0
      BY <2>6, FS_EmptySet
    <3>2. \A ids \in SUBSET LosableIds' : ~(Cardinality(ids) < 0)
      <4> SUFFICES ASSUME NEW ids \in SUBSET LosableIds' PROVE ~(Cardinality(ids) < 0)
        OBVIOUS
      <4>1. ids \in SUBSET DOMAIN given
        BY <1>1 DEF LosableIds, Persistent
      <4>2. Cardinality(ids) \in Nat
        BY <1>1, <4>1, PiecesCounted
      <4>3. QED
        BY <4>2
    <3>3. QED
      BY <2>6, <3>1, <3>2 DEF Largest
  <2>12. QED
    BY <2>4, <2>5, <2>9, <2>10, <2>11 DEF ContextInv
<1>4. QED
  BY <1>2, <1>3 DEF Measured

LEMMA ReportKeeps ==
    ASSUME ContextInv, UNCHANGED <<window, strategy, given, session>>,
           \/ report' = report
           \/ report = "cut" /\ report' = "pruned" /\ Fits(ToSet(session))
           \/ report = "cut" /\ report' = "too large" /\ ~Fits(ToSet(session)) /\ Losable = {}
    PROVE  ContextInv'
<1>1. Blocks' /\ Routed'
  BY DEF ContextInv, Blocks, Routed
<1>2. Lost' = Lost /\ LosableIds' = LosableIds /\ window' = window
  BY SameFit DEF Lost, Kept
<1>3. \A ids : Fits(Without(ids))' <=> Fits(Without(ids))
  <2> SUFFICES ASSUME NEW ids PROVE Fits(Without(ids))' <=> Fits(Without(ids))
    OBVIOUS
  <2>1. PICK bs : bs = Without(ids)
    OBVIOUS
  <2>2. Without(ids)' = bs
    BY <2>1, SameFit
  <2>3. QED
    BY <2>1, <2>2, <1>2 DEF Fits, Estimate
<1>4. /\ report \in {"cut", "pruned", "too large"} <=> report' \in {"cut", "pruned", "too large"}
      /\ report \in {"called", "no change"} <=> report' \in {"called", "no change"}
      /\ report' = "no change" => report = "no change"
  BY DEF ContextInv, Routed
<1>5. (Fits(ToSet(given))' <=> Fits(ToSet(given))) /\ (Fits(ToSet(session))' <=> Fits(ToSet(session)))
  BY DEF Fits, Estimate
<1>6. Untouched /\ Shortened /\ Oldest /\ Largest
  BY DEF ContextInv
<1>7. Untouched'
  BY <1>4, <1>5, <1>6 DEF Untouched
<1>8. Oldest'
  <2> SUFFICES ASSUME strategy' = "Fifo", report' \in {"cut", "pruned", "too large"}, NEW i \in Lost'
               PROVE  /\ ~Fits(Without({j \in LosableIds : j < i}))'
                      /\ \A j \in LosableIds' : j < i => j \in Lost'
    BY <1>4 DEF Oldest
  <2>0. report \in {"cut", "pruned", "too large"} /\ strategy = "Fifo" /\ i \in Lost
    BY <1>2, <1>4
  <2>1. ~Fits(Without({j \in LosableIds : j < i})) /\ \A j \in LosableIds : j < i => j \in Lost
    BY <2>0, <1>6 DEF Oldest
  <2>2. PICK ids : ids = {j \in LosableIds : j < i}
    OBVIOUS
  <2>3. ids = {j \in LosableIds' : j < i}
    BY <2>2, <1>2
  <2>4. ~Fits(Without(ids))'
    BY <1>3, <2>1, <2>2
  <2>5. QED
    BY <1>2, <2>1, <2>3, <2>4
<1>9. Largest'
  <2> SUFFICES ASSUME strategy' = "LargeBlockFirst", report' \in {"cut", "pruned", "too large"} PROVE Largest'
    BY DEF Largest
  <2>1. /\ \A i \in Lost, j \in LosableIds \ Lost : Tokens(Cut(given[j])) <= Tokens(Cut(given[i]))
        /\ \A ids \in SUBSET LosableIds : Cardinality(ids) < Cardinality(Lost) => ~Fits(Without(ids))
    BY <1>4, <1>6 DEF Largest
  <2>2. ASSUME NEW i \in Lost, NEW j \in LosableIds \ Lost
        PROVE  (Tokens(Cut(given[j])) <= Tokens(Cut(given[i])))'
    <3>1. PICK x, y : x = Cut(given[i]) /\ y = Cut(given[j])
      OBVIOUS
    <3>2. Cut(given[i])' = x /\ Cut(given[j])' = y
      BY <3>1, SameCuts
    <3>3. Tokens(y) <= Tokens(x)
      BY <2>1, <3>1
    <3>4. QED
      BY <3>2, <3>3
  <2>3. ASSUME NEW ids \in SUBSET LosableIds, Cardinality(ids) < Cardinality(Lost)
        PROVE  ~Fits(Without(ids))'
    BY <1>3, <2>1, <2>3
  <2>4. QED
    BY <1>2, <2>2, <2>3 DEF Largest
<1>10. report' = "too large" => Lost = LosableIds
  <2> SUFFICES ASSUME report' = "too large", report # "too large" PROVE LosableIds \subseteq Lost
    BY DEF ContextInv, Shortened
  <2>1. \A i \in DOMAIN session : session[i].type = given[session[i].id].type
    BY DEF ContextInv, Blocks
  <2>2. \A i \in DOMAIN session : session[i].type = "System"
    BY DEF Losable, Persistent
  <2>3. QED
    BY <2>1, <2>2 DEF LosableIds, Lost, Kept, Persistent
<1>11. Shortened'
  <2> SUFFICES ASSUME report' \in {"cut", "pruned", "too large"} PROVE Shortened'
    BY DEF Shortened
  <2>1. /\ ~Fits(ToSet(given)) /\ Lost \subseteq LosableIds
        /\ \A i \in DOMAIN session, k \in DOMAIN given : session[i].id = k => session[i] = Cut(given[k])
        /\ report = "pruned" => Fits(ToSet(session))
        /\ report = "too large" => ~Fits(ToSet(session))
    BY <1>4, <1>6 DEF Shortened
  <2>2. \A i \in DOMAIN session', k \in DOMAIN given' : session'[i].id = k => session'[i] = Cut(given[k])'
    BY <2>1, SameCuts
  <2>3. /\ report' = "pruned" => Fits(ToSet(session))
        /\ report' = "too large" => ~Fits(ToSet(session))
    BY <2>1
  <2>4. QED
    BY <1>10, <1>2, <1>5, <2>1, <2>2, <2>3 DEF Shortened
<1>12. QED
  BY <1>1, <1>11, <1>7, <1>8, <1>9 DEF ContextInv

\* One block goes: the blocks, and what is lost.
LEMMA EvictBlocks ==
    ASSUME ContextInv, report = "cut", NEW i \in Losable, session' = RemoveAt(session, i),
           UNCHANGED <<window, strategy, given, report>>,
           NEW c, c = session[i].id
    PROVE  /\ Blocks' /\ Routed' /\ c \in LosableIds /\ c \notin Lost /\ Lost' = Lost \cup {c}
           /\ Shortened' /\ session[i] = Cut(given[c])
<1>1. Blocks /\ Routed /\ Shortened /\ session \in Seq(Piece) /\ i \in DOMAIN session
  BY DEF ContextInv, Blocks, Losable
<1>2. PICK t : t = session'
  OBVIOUS
<1>3. /\ t \in Seq(Piece) /\ Len(t) <= Len(session)
      /\ \A k \in DOMAIN t : \E m \in DOMAIN session : m # i /\ t[k] = session[m]
      /\ \A m \in DOMAIN session : m # i => \E k \in DOMAIN t : t[k] = session[m]
      /\ \A k, l \in DOMAIN t : k < l =>
            \E m, n \in DOMAIN session : m < n /\ t[k] = session[m] /\ t[l] = session[n]
  BY <1>1, <1>2, RemovedPlaces
<1>20. /\ \A m, n \in DOMAIN session : m < n => session[m].id < session[n].id
       /\ \A m \in DOMAIN session : session[m].id \in DOMAIN given /\ session[m].type = given[session[m].id].type
  BY <1>1 DEF Blocks
<1>21. \A k, l \in DOMAIN t : k < l =>
          \E m, n \in DOMAIN session : m < n /\ t[k] = session[m] /\ t[l] = session[n]
  BY <1>3
<1>22. \A k \in DOMAIN t : \E m \in DOMAIN session : m # i /\ t[k] = session[m]
  BY <1>3
<1>23. \A m \in DOMAIN session : m # i => \E k \in DOMAIN t : t[k] = session[m]
  BY <1>3
<1>4. \A k, l \in DOMAIN t : k < l => t[k].id < t[l].id
  BY <1>20, <1>21
<1>5. \A k \in DOMAIN t : t[k].id \in DOMAIN given /\ t[k].type = given[t[k].id].type
  BY <1>20, <1>22
<1>6. Blocks'
  BY <1>1, <1>2, <1>3, <1>4, <1>5 DEF Blocks
<1>7. Routed'
  <2>1. Len(t) \in Nat /\ Len(session) \in Nat /\ Len(given) \in Nat
    BY <1>1, <1>3 DEF Blocks
  <2>2. Len(t) <= Len(given)
    BY <1>1, <1>3, <2>1 DEF Routed
  <2>3. QED
    BY <1>1, <1>2, <2>2 DEF Routed
<1>8. c \in Kept /\ c \in LosableIds
  BY <1>1 DEF Kept, LosableIds, Losable, Persistent, Blocks
<1>9. \A m \in DOMAIN session : m # i => session[m].id # c
  <2>1. \A m \in DOMAIN session : session[m] \in Piece /\ m \in Nat
    BY <1>1
  <2>2. \A m \in DOMAIN session : session[m].id \in Nat /\ m \in Nat
    BY <2>1 DEF Piece
  <2>3. QED
    BY <1>1, <1>20, <2>2
<1>10. Kept' = Kept \ {c}
  <2>1. Kept' = {t[k].id : k \in DOMAIN t}
    BY <1>2 DEF Kept
  <2>2. \A k \in DOMAIN t : t[k].id \in Kept /\ t[k].id # c
    BY <1>9, <1>22 DEF Kept
  <2>3. ASSUME NEW a \in Kept, a # c PROVE \E k \in DOMAIN t : t[k].id = a
    <3>1. PICK m \in DOMAIN session : session[m].id = a
      BY DEF Kept
    <3>2. PICK k \in DOMAIN t : t[k] = session[m]
      BY <1>23, <2>3, <3>1
    <3>3. QED
      BY <3>1, <3>2
  <2>4. QED
    BY <2>1, <2>2, <2>3
<1>11. Lost' = Lost \cup {c} /\ c \notin Lost
  BY <1>8, <1>10 DEF Lost, LosableIds
<1>12. session[i] = Cut(given[c])
  BY <1>1, <1>8 DEF Shortened, LosableIds
<1>13. Shortened'
  <2>1. (~Fits(ToSet(given)))'
    BY <1>1 DEF Shortened, Fits, Estimate
  <2>2. Lost' \subseteq LosableIds'
    BY <1>1, <1>8, <1>11, SameFit DEF Shortened
  <2>3. \A j \in DOMAIN session', k \in DOMAIN given' : session'[j].id = k => session'[j] = Cut(given[k])'
    <3>0. \A j \in DOMAIN session, k \in DOMAIN given : session[j].id = k => session[j] = Cut(given[k])
      BY <1>1 DEF Shortened
    <3>1. \A j \in DOMAIN t, k \in DOMAIN given : t[j].id = k => t[j] = Cut(given[k])
      BY <1>22, <3>0
    <3>2. QED
      BY <1>2, <3>1, SameCuts
  <2>4. QED
    BY <2>1, <2>2, <2>3 DEF Shortened
<1>14. QED
  BY <1>6, <1>7, <1>8, <1>11, <1>12, <1>13

\* First in, first out: the losable blocks before the oldest that is left are lost.
LEMMA EvictOldest ==
    ASSUME ContextInv, report = "cut", strategy = "Fifo", ~Fits(ToSet(session)),
           NEW i \in Losable, \A j \in Losable : i <= j,
           NEW c, c = session[i].id, c \in LosableIds, c \notin Lost
    PROVE  /\ ~Fits(Without({j \in LosableIds : j < c}))
           /\ \A j \in LosableIds : j < c => j \in Lost
<1>1. /\ Blocks /\ Shortened /\ Lost \subseteq LosableIds /\ i \in DOMAIN session
      /\ \A l \in Lost : \A j \in LosableIds : j < l => j \in Lost
  BY DEF ContextInv, Shortened, Oldest, Losable
<1>2. \A j \in LosableIds : j \in Nat
  BY <1>1 DEF Blocks, LosableIds
<1>3. ASSUME NEW j \in LosableIds, j < c PROVE j \in Lost
  <2> SUFFICES ASSUME j \notin Lost PROVE FALSE
    OBVIOUS
  <2>1. PICK m \in DOMAIN session : session[m].id = j
    BY DEF Lost, Kept, LosableIds
  <2>2. m \in Losable
    BY <1>1, <2>1 DEF Losable, LosableIds, Persistent, Blocks
  <2>3. i <= m
    BY <2>2
  <2>4. i = m \/ i < m
    BY <1>1, <2>1, <2>3 DEF Blocks
  <2>5. c <= j
    <3>1. c \in Nat /\ j \in Nat
      BY <1>2
    <3>2. CASE i = m
      BY <2>1, <3>1, <3>2
    <3>3. CASE i < m
      <4>1. c < j
        BY <1>1, <2>1, <3>3 DEF Blocks
      <4>2. QED
        BY <3>1, <4>1
    <3>4. QED
      BY <2>4, <3>2, <3>3
  <2>6. QED
    BY <1>2, <1>3, <2>5
<1>4. ASSUME NEW l \in Lost PROVE l < c
  <2>1. l \in Nat /\ c \in Nat /\ l # c
    BY <1>1, <1>2
  <2>2. ~(c < l)
    BY <1>1
  <2>3. QED
    BY <2>1, <2>2
<1>5. {j \in LosableIds : j < c} = Lost
  BY <1>1, <1>3, <1>4
<1>6. ToSet(session) = Without(Lost)
  BY <1>1, WhatIsKept DEF Shortened
<1>7. QED
  BY <1>3, <1>5, <1>6

\* Largest first: fewer blocks than are lost with this one would not have done.
LEMMA EvictLargest ==
    ASSUME ContextInv, report = "cut", strategy = "LargeBlockFirst", ~Fits(ToSet(session)),
           NEW i \in Losable, \A j \in Losable : Tokens(session[j]) <= Tokens(session[i]),
           NEW c, c = session[i].id, c \in LosableIds, c \notin Lost, session[i] = Cut(given[c])
    PROVE  /\ \A j \in LosableIds \ Lost : Tokens(Cut(given[j])) <= Tokens(Cut(given[c]))
           /\ \A ids \in SUBSET LosableIds : Cardinality(ids) < Cardinality(Lost \cup {c}) => ~Fits(Without(ids))
<1>1. /\ Blocks /\ Routed /\ Shortened /\ Lost \subseteq LosableIds /\ i \in DOMAIN session /\ window \in Nat
      /\ \A m \in Lost, j \in LosableIds \ Lost : Tokens(Cut(given[j])) <= Tokens(Cut(given[m]))
  BY DEF ContextInv, Routed, Shortened, Largest, Losable
<1>2. ASSUME NEW j \in LosableIds \ Lost PROVE Tokens(Cut(given[j])) <= Tokens(Cut(given[c]))
  <2>1. PICK m \in DOMAIN session : session[m].id = j
    BY DEF Lost, Kept, LosableIds
  <2>2. m \in Losable
    BY <1>1, <2>1 DEF Losable, LosableIds, Persistent, Blocks
  <2>3. session[m] = Cut(given[j])
    BY <1>1, <2>1 DEF Shortened, LosableIds
  <2>4. Tokens(session[m]) <= Tokens(session[i])
    BY <2>2
  <2>5. QED
    BY <2>3, <2>4
<1>3. ASSUME NEW ids \in SUBSET LosableIds, Cardinality(ids) < Cardinality(Lost \cup {c})
      PROVE  ~Fits(Without(ids))
  <2>1. PICK lost : lost = Lost
    OBVIOUS
  <2>2. lost \in SUBSET DOMAIN given /\ ids \in SUBSET DOMAIN given /\ lost \in SUBSET LosableIds
    BY <1>1, <2>1 DEF LosableIds
  <2>3. IsFiniteSet(lost) /\ Cardinality(lost) \in Nat /\ Cardinality(ids) \in Nat
    BY <1>1, <2>2, PiecesCounted
  <2>4. Cardinality(lost \cup {c}) = Cardinality(lost) + 1
    BY <2>1, <2>3, FS_AddElement
  <2>5. Cardinality(ids) < Cardinality(lost \cup {c})
    BY <1>3, <2>1
  <2>6. PICK m \in Nat, n \in Nat : m = Cardinality(ids) /\ n = Cardinality(lost)
    BY <2>3
  <2>7. m < n + 1
    BY <2>4, <2>5, <2>6
  <2>8. Cardinality(ids) <= Cardinality(lost)
    BY <2>6, <2>7
  <2>9. \A k \in lost, j \in LosableIds \ lost : Tokens(Cut(given[j])) <= Tokens(Cut(given[k]))
    BY <1>1, <2>1
  <2>10. /\ TokensOf(Without(lost)) <= TokensOf(Without(ids))
         /\ TokensOf(Without(lost)) \in Nat /\ TokensOf(Without(ids)) \in Nat
    BY <1>1, <2>2, <2>8, <2>9, Exchange
  <2>11. ToSet(session) = Without(lost)
    BY <1>1, <2>1, WhatIsKept DEF Shortened
  <2>12. PICK xs, ys : xs = Without(lost) /\ ys = Without(ids)
    OBVIOUS
  <2>13. ~Fits(xs)
    BY <2>11, <2>12
  <2>14. ~Fits(ys)
    BY <1>1, <2>10, <2>12, <2>13, FitsWithFewer
  <2>15. QED
    BY <2>12, <2>14
<1>4. QED
  BY <1>2, <1>3

LEMMA EvictKeeps == ContextInv /\ Evict => ContextInv'
<1> SUFFICES ASSUME ContextInv, Evict PROVE ContextInv'
  OBVIOUS
<1>1. /\ report = "cut" /\ ~Fits(ToSet(session))
      /\ UNCHANGED <<window, strategy, given, report>> /\ window' = window /\ given' = given
      /\ strategy' = strategy /\ report' = report
  BY DEF Evict
<1>2. PICK i \in Candidates : session' = RemoveAt(session, i)
  BY DEF Evict
<1>3. strategy \in {"Fifo", "LargeBlockFirst", "Hybrid"}
  BY ContextAssumption DEF ContextInv, Routed
<1>4. i \in Losable
  BY <1>2, <1>3 DEF Candidates
<1>5. PICK c : c = session[i].id
  OBVIOUS
<1>6. /\ Blocks' /\ Routed' /\ c \in LosableIds /\ c \notin Lost /\ Lost' = Lost \cup {c}
      /\ Shortened' /\ session[i] = Cut(given[c])
  BY <1>1, <1>2, <1>4, <1>5, EvictBlocks
<1>7. Untouched'
  BY <1>1 DEF Untouched
<1>8. LosableIds' = LosableIds
  BY <1>1, SameFit
<1>9. \A ids : Fits(Without(ids))' <=> Fits(Without(ids))
  <2> SUFFICES ASSUME NEW ids PROVE Fits(Without(ids))' <=> Fits(Without(ids))
    OBVIOUS
  <2>1. PICK bs : bs = Without(ids)
    OBVIOUS
  <2>2. Without(ids)' = bs
    BY <1>1, <2>1, SameFit
  <2>3. QED
    BY <1>1, <2>1, <2>2 DEF Fits, Estimate
<1>10. Oldest'
  <2> SUFFICES ASSUME strategy = "Fifo", NEW l \in Lost'
               PROVE  /\ ~Fits(Without({j \in LosableIds : j < l}))'
                      /\ \A j \in LosableIds' : j < l => j \in Lost'
    BY <1>1 DEF Oldest
  <2>1. \A j \in Losable : i <= j
    BY <1>2 DEF Candidates
  <2>2. /\ ~Fits(Without({j \in LosableIds : j < c}))
        /\ \A j \in LosableIds : j < c => j \in Lost
    BY <1>1, <1>4, <1>5, <1>6, <2>1, EvictOldest
  <2>3. /\ ~Fits(Without({j \in LosableIds : j < l}))
        /\ \A j \in LosableIds : j < l => j \in Lost
    BY <1>1, <1>6, <2>2 DEF ContextInv, Oldest
  <2>4. PICK ids : ids = {j \in LosableIds : j < l}
    OBVIOUS
  <2>5. ids = {j \in LosableIds' : j < l}
    BY <1>8, <2>4
  <2>6. ~Fits(Without(ids))'
    BY <1>9, <2>3, <2>4
  <2>7. QED
    BY <1>6, <1>8, <2>3, <2>5, <2>6
<1>11. Largest'
  <2> SUFFICES ASSUME strategy = "LargeBlockFirst" PROVE Largest'
    BY <1>1 DEF Largest
  <2>1. \A j \in Losable : Tokens(session[j]) <= Tokens(session[i])
    <3> SUFFICES ASSUME NEW j \in Losable PROVE Tokens(session[j]) <= Tokens(session[i])
      OBVIOUS
    <3>1. Tokens(session[j]) < Tokens(session[i]) \/ Tokens(session[j]) = Tokens(session[i])
      BY <1>2 DEF Candidates
    <3>2. session[i] \in Piece /\ session[j] \in Piece
      BY <1>4 DEF ContextInv, Blocks, Losable
    <3>3. Tokens(session[i]) \in Nat /\ Tokens(session[j]) \in Nat
      BY <3>2, TokensType
    <3>4. QED
      BY <3>1, <3>3
  <2>2. /\ \A j \in LosableIds \ Lost : Tokens(Cut(given[j])) <= Tokens(Cut(given[c]))
        /\ \A ids \in SUBSET LosableIds : Cardinality(ids) < Cardinality(Lost \cup {c}) => ~Fits(Without(ids))
    BY <1>1, <1>4, <1>5, <1>6, <2>1, EvictLargest
  <2>3. \A m \in Lost, j \in LosableIds \ Lost : Tokens(Cut(given[j])) <= Tokens(Cut(given[m]))
    BY <1>1 DEF ContextInv, Largest
  <2>4. \A m \in Lost', j \in LosableIds' \ Lost' : Tokens(Cut(given[j])) <= Tokens(Cut(given[m]))
    BY <1>6, <1>8, <2>2, <2>3
  <2>5. \A m \in Lost', j \in LosableIds' \ Lost' : (Tokens(Cut(given[j])) <= Tokens(Cut(given[m])))'
    BY <1>1, <2>4, SameCuts DEF Tokens
  <2>6. \A ids \in SUBSET LosableIds' : Cardinality(ids) < Cardinality(Lost') => ~Fits(Without(ids))'
    BY <1>6, <1>8, <1>9, <2>2
  <2>7. QED
    BY <2>5, <2>6 DEF Largest
<1>12. QED
  BY <1>6, <1>7, <1>10, <1>11 DEF ContextInv

\* The invariant of optimize's loop: what is lost so far is what the strategy had to lose.
LEMMA ContextKept == ContextInv /\ [ContextNext]_contextVars => ContextInv'
<1> SUFFICES ASSUME ContextInv, [ContextNext]_contextVars PROVE ContextInv'
  OBVIOUS
<1>1. CASE Measured
  BY <1>1, MeasuredKeeps
<1>2. CASE Evict
  BY <1>2, EvictKeeps
<1>3. CASE TooLarge
  BY <1>3, ReportKeeps DEF TooLarge
<1>4. CASE Pruned
  BY <1>4, ReportKeeps DEF Pruned
<1>5. CASE UNCHANGED contextVars
  BY <1>5, ReportKeeps DEF contextVars
<1>6. QED
  BY <1>1, <1>2, <1>3, <1>4, <1>5 DEF ContextNext

LEMMA ContextSafe == ContextInv => ContextTypeOK /\ PrunedAsSpecified
<1> SUFFICES ASSUME ContextInv PROVE ContextTypeOK /\ PrunedAsSpecified
  OBVIOUS
<1>1. ContextTypeOK
  BY DEF ContextInv, ContextTypeOK, Blocks, Routed
<1>2. report \in {"pruned", "too large"} => ToSet(session) = Without(Lost)
  BY WhatIsKept DEF ContextInv, Shortened
<1>3. PrunedAsSpecified
  BY <1>2 DEF ContextInv, Blocks, Untouched, Shortened, Oldest, Largest, PrunedAsSpecified, Lost
<1>4. QED
  BY <1>1, <1>3

\* optimize's loop keeps the invariant.
THEOREM ContextInvariance == ContextSpec => []ContextInv
BY ContextStarts, ContextKept, PTL DEF ContextSpec

\* The blocks of a session keep their types and their number never grows, whatever the
\* router cuts and evicts.
THEOREM ContextTypeCorrect == ContextSpec => []ContextTypeOK
BY ContextInvariance, ContextSafe, PTL

\* Whatever the session, the window and the strategy, optimize returns what it is to
\* return: all of a session that fits; otherwise the session, cut, without blocks that are
\* not system prompts, no more of the oldest than it must lose, or as few of the largest.
THEOREM ContextPrunes == ContextSpec => []PrunedAsSpecified
BY ContextInvariance, ContextSafe, PTL
=============================================================================
