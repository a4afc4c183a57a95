---------------------------- MODULE VectorMemory ----------------------------
(***************************************************************************)
(* The vector memory of agents: VectorVfs over LayeredVectorStore, for one *)
(* collection of records.  An agent writes into its active layer and reads *)
(* through it into the frozen layers it shares with its relatives.  A      *)
(* layer keeps recent records in tier 1; a background worker moves them to *)
(* tier 2.  A copy-on-write spawn freezes the active layer; a handle count *)
(* decides when the file of a frozen layer is deleted.                     *)
(*                                                                         *)
(* A record is its id and a version; a query is the set of versions close  *)
(* enough to it.                                                           *)
(***************************************************************************)
EXTENDS Naturals, Sequences, SequencesExt, FiniteSets, FiniteSetsExt

CONSTANTS
    Agent,      \* agents that may exist; the first one is any of them
    Id,         \* ids of records
    Cap,        \* size of tier 1 at which a compaction is requested (2048)
    MaxWrites,  \* bound: records written by all agents
    MaxLayers,  \* bound: layers created
    MayResume   \* whether an agent is snapshotted and resumed

ASSUME VectorMemoryAssumption ==
    /\ Cap \in Nat \ {0} /\ MaxWrites \in Nat /\ MaxLayers \in Nat \ {0}
    /\ MayResume \in BOOLEAN

Version == 1..MaxWrites
None == 0
LayerId == 1..MaxLayers

\* What the handles of a layer share, and its file under ~/.trytet/vfs_layers.
Layer == [tier1 : [Id -> Version \cup {None}],
          tier2 : [Id -> SUBSET Version],
          created : BOOLEAN,      \* the collection exists
          compacting : BOOLEAN,   \* is_compacting
          refs : Nat,             \* ref_count
          file : {"none", "writing", "written", "removed"}]
FreshLayer == [tier1 |-> [i \in Id |-> None], tier2 |-> [i \in Id |-> {}],
               created |-> FALSE, compacting |-> FALSE, refs |-> 1, file |-> "none"]

\* A handle: tombstones are not shared.
Handle == [layer : LayerId, tombstones : SUBSET Id]
NewHandle(l) == [layer |-> l, tombstones |-> {}]

\* hollow: the handle came out of a snapshot, where serde skips the shards.
Vfs == [status : {"unborn", "alive", "dropped"}, hollow : BOOLEAN,
        active : Handle, base : Seq(Handle),
        writing : SUBSET Id]  \* calls of remember past the test of the cap

\* The background worker: bound to the shards of one layer for its life.
Worker == [bound : LayerId, queue : Nat, busy : BOOLEAN,
           todo : SUBSET Id,                      \* not yet visited by retain
           taken : [Id -> Version \cup {None}]]   \* out of tier 1, not in tier 2
NewWorker(l) == [bound |-> l, queue |-> 0, busy |-> FALSE, todo |-> {},
                 taken |-> [i \in Id |-> None]]

VARIABLES
    layer,    \* layer[l]
    layers,   \* layers created so far
    vfs,      \* vfs[a]: the VectorVfs of agent a
    worker,   \* worker[a]: the task spawned for it
    writes,   \* records written so far; a record's version is its number
    latest,   \* latest[a][i]: what a, or the ancestor it was spawned from, last
              \* remembered under i and did not forget (not in the code)
    lineage   \* lineage[a]: versions a could ever have read (not in the code)

vars == <<layer, layers, vfs, worker, writes, latest, lineage>>

Init ==
    /\ layer = [l \in LayerId |-> FreshLayer] /\ layers = 1
    /\ \E first \in Agent :
          vfs = [a \in Agent |->
                   [status |-> IF a = first THEN "alive" ELSE "unborn", hollow |-> FALSE,
                    active |-> NewHandle(1), base |-> <<>>, writing |-> {}]]
    /\ worker = [a \in Agent |-> NewWorker(1)]
    /\ writes = 0
    /\ latest = [a \in Agent |-> [i \in Id |-> None]]
    /\ lineage = [a \in Agent |-> {}]

Alive(a) == vfs[a].status = "alive"
Tier1(l) == {i \in Id : layer[l].tier1[i] # None}

-----------------------------------------------------------------------------
(* remember and forget *)

\* Remembering starts: the collection is created, and at the cap a compaction
\* is requested unless one is under way.  A hollow active layer has no shards
\* and remember panics: nothing changes.
Admit(a, i) ==
    LET l == vfs[a].active.layer
        request == Cardinality(Tier1(l)) >= Cap /\ ~layer[l].compacting
    IN  /\ Alive(a) /\ ~vfs[a].hollow /\ i \notin vfs[a].writing
        /\ writes + Cardinality(UNION {vfs[b].writing : b \in Agent}) < MaxWrites
        /\ vfs' = [vfs EXCEPT ![a].writing = @ \cup {i}]
        /\ layer' = [layer EXCEPT ![l].created = TRUE, ![l].compacting = @ \/ request]
        /\ worker' = [worker EXCEPT ![a].queue = IF request THEN @ + 1 ELSE @]
        /\ UNCHANGED <<layers, writes, latest, lineage>>

\* Mutant: the tombstone of an id that is remembered again stays.
InsertKeepsTombstone(a, i) ==
    /\ i \in vfs[a].writing /\ writes < MaxWrites
    /\ writes' = writes + 1
    /\ vfs' = [vfs EXCEPT ![a].writing = @ \ {i}]
    /\ layer' = [layer EXCEPT ![vfs[a].active.layer].tier1[i] = writes + 1]
    /\ latest' = [latest EXCEPT ![a][i] = writes + 1]
    /\ lineage' = [lineage EXCEPT ![a] = @ \cup {writes + 1}]
    /\ UNCHANGED <<layers, worker>>

\* The record replaces the one tier 1 has under its id.
Insert(a, i) ==
    /\ i \in vfs[a].writing /\ writes < MaxWrites
    /\ writes' = writes + 1
    /\ vfs' = [vfs EXCEPT ![a].writing = @ \ {i}, ![a].active.tombstones = @ \ {i}]
    /\ layer' = [layer EXCEPT ![vfs[a].active.layer].tier1[i] = writes + 1]
    /\ latest' = [latest EXCEPT ![a][i] = writes + 1]
    /\ lineage' = [lineage EXCEPT ![a] = @ \cup {writes + 1}]
    /\ UNCHANGED <<layers, worker>>

Forget(a, i) ==
    /\ Alive(a)
    /\ vfs' = [vfs EXCEPT ![a].active.tombstones = @ \cup {i}]
    /\ latest' = [latest EXCEPT ![a][i] = None]
    /\ UNCHANGED <<layer, layers, worker, writes, lineage>>

-----------------------------------------------------------------------------
(* The background worker and do_compaction *)

\* The next request.  The worker looks for the collection in the layer it was
\* started with; without it the request is skipped.
TakeRequest(a) ==
    /\ worker[a].queue > 0 /\ ~worker[a].busy
    /\ worker' = [worker EXCEPT
          ![a].queue = @ - 1,
          ![a].busy = layer[worker[a].bound].created,
          ![a].todo = IF layer[worker[a].bound].created THEN Id ELSE {}]
    /\ UNCHANGED <<layer, layers, vfs, writes, latest, lineage>>

\* retain visits one entry of tier 1 after the other, under its lock.
Visit(a, i) ==
    /\ i \in worker[a].todo
    /\ worker' = [worker EXCEPT ![a].todo = @ \ {i},
                                ![a].taken[i] = layer[worker[a].bound].tier1[i]]
    /\ layer' = [layer EXCEPT ![worker[a].bound].tier1[i] = None]
    /\ UNCHANGED <<layers, vfs, writes, latest, lineage>>

\* Tier 2 is replaced by itself and what was taken.
Swap(a) ==
    /\ worker[a].busy /\ worker[a].todo = {}
    /\ layer' = [layer EXCEPT
          ![worker[a].bound].tier2 = [i \in Id |-> @[i] \cup ({worker[a].taken[i]} \ {None})],
          ![worker[a].bound].compacting = FALSE]
    /\ worker' = [worker EXCEPT ![a].busy = FALSE, ![a].taken = [i \in Id |-> None]]
    /\ UNCHANGED <<layers, vfs, writes, latest, lineage>>

-----------------------------------------------------------------------------
(* Layers: spawn_cow_child, serialize_to_disk, clone and drop of handles *)

Held(handles) == {handles[k].layer : k \in DOMAIN handles}

\* Mutant: only the newly frozen layer is counted.
SpawnUncounted(p, c) ==
    LET base == Append(vfs[p].base, vfs[p].active)
        mine == layers + 1
        childs == layers + 2
    IN  /\ Alive(p) /\ ~vfs[p].hollow /\ vfs[p].writing = {}
        /\ vfs[c].status = "unborn"
        /\ layers + 2 <= MaxLayers /\ layers' = layers + 2
        /\ vfs' = [vfs EXCEPT
              ![p].base = base, ![p].active = NewHandle(mine),
              ![c].base = base, ![c].active = NewHandle(childs), ![c].status = "alive"]
        /\ worker' = [worker EXCEPT ![c] = NewWorker(childs)]
        /\ layer' = [l \in LayerId |->
              [layer[l] EXCEPT !.refs = IF l = vfs[p].active.layer THEN @ + 1 ELSE @,
                               !.file = IF l = vfs[p].active.layer THEN "writing" ELSE @]]
        /\ latest' = [latest EXCEPT ![c] = latest[p]]
        /\ lineage' = [lineage EXCEPT ![c] = lineage[p]]
        /\ UNCHANGED writes

\* Mutant: the frozen handle loses its tombstones.
SpawnForgetful(p, c) ==
    LET base == Append(vfs[p].base, NewHandle(vfs[p].active.layer))
        mine == layers + 1
        childs == layers + 2
    IN  /\ Alive(p) /\ ~vfs[p].hollow /\ vfs[p].writing = {}
        /\ vfs[c].status = "unborn"
        /\ layers + 2 <= MaxLayers /\ layers' = layers + 2
        /\ vfs' = [vfs EXCEPT
              ![p].base = base, ![p].active = NewHandle(mine),
              ![c].base = base, ![c].active = NewHandle(childs), ![c].status = "alive"]
        /\ worker' = [worker EXCEPT ![c] = NewWorker(childs)]
        /\ layer' = [l \in LayerId |->
              [layer[l] EXCEPT !.refs = IF l \in Held(base) THEN @ + 1 ELSE @,
                               !.file = IF l = vfs[p].active.layer THEN "writing" ELSE @]]
        /\ latest' = [latest EXCEPT ![c] = latest[p]]
        /\ lineage' = [lineage EXCEPT ![c] = lineage[p]]
        /\ UNCHANGED writes

\* Mutant: the parent goes on writing into the layer it shares.
SpawnSharesActive(p, c) ==
    LET base == Append(vfs[p].base, vfs[p].active)
        mine == vfs[p].active.layer
        childs == layers + 2
    IN  /\ Alive(p) /\ ~vfs[p].hollow /\ vfs[p].writing = {}
        /\ vfs[c].status = "unborn"
        /\ layers + 2 <= MaxLayers /\ layers' = layers + 2
        /\ vfs' = [vfs EXCEPT
              ![p].base = base, ![p].active = NewHandle(mine),
              ![c].base = base, ![c].active = NewHandle(childs), ![c].status = "alive"]
        /\ worker' = [worker EXCEPT ![c] = NewWorker(childs)]
        /\ layer' = [l \in LayerId |->
              [layer[l] EXCEPT !.refs = IF l \in Held(base) THEN @ + 1 ELSE @,
                               !.file = IF l = vfs[p].active.layer THEN "writing" ELSE @]]
        /\ latest' = [latest EXCEPT ![c] = latest[p]]
        /\ lineage' = [lineage EXCEPT ![c] = lineage[p]]
        /\ UNCHANGED writes

\* The parent's active layer is frozen: parent and child share it as their
\* newest base and get active layers of their own.  spawn_cow_child borrows the
\* store exclusively, so no remember is under way.  The parent's worker stays
\* with the frozen layer.
Spawn(p, c) ==
    LET base == Append(vfs[p].base, vfs[p].active)
        mine == layers + 1
        childs == layers + 2
    IN  /\ Alive(p) /\ ~vfs[p].hollow /\ vfs[p].writing = {}
        /\ vfs[c].status = "unborn"
        /\ layers + 2 <= MaxLayers /\ layers' = layers + 2
        /\ vfs' = [vfs EXCEPT
              ![p].base = base, ![p].active = NewHandle(mine),
              ![c].base = base, ![c].active = NewHandle(childs), ![c].status = "alive"]
        /\ worker' = [worker EXCEPT ![c] = NewWorker(childs)]
        /\ layer' = [l \in LayerId |->
              [layer[l] EXCEPT !.refs = IF l \in Held(base) THEN @ + 1 ELSE @,
                               !.file = IF l = vfs[p].active.layer THEN "writing" ELSE @]]
        /\ latest' = [latest EXCEPT ![c] = latest[p]]
        /\ lineage' = [lineage EXCEPT ![c] = lineage[p]]
        /\ UNCHANGED writes

\* The blocking task of serialize_to_disk ends, even if nobody has the layer.
Flush(l) ==
    /\ layer[l].file = "writing"
    /\ layer' = [layer EXCEPT ![l].file = "written"]
    /\ UNCHANGED <<layers, vfs, worker, writes, latest, lineage>>

\* Mutant: the file goes with the last but one handle.
DropOffByOne(a) ==
    /\ Alive(a) /\ vfs[a].writing = {}
    /\ vfs' = [vfs EXCEPT ![a].status = "dropped", ![a].base = <<>>]
    /\ layer' = [l \in LayerId |->
          IF l \notin Held(vfs[a].base) THEN layer[l]
          ELSE [layer[l] EXCEPT
                  !.refs = @ - 1,
                  !.file = IF layer[l].refs <= 2 /\ @ = "written" THEN "removed" ELSE @]]
    /\ UNCHANGED <<layers, worker, writes, latest, lineage>>

\* The agent goes away: each of its base handles gives up its count, and the
\* last one of a layer removes the file, if it is there yet.  The active layer
\* is not readonly and counts nothing.
Drop(a) ==
    /\ Alive(a) /\ vfs[a].writing = {}
    /\ vfs' = [vfs EXCEPT ![a].status = "dropped", ![a].base = <<>>]
    /\ layer' = [l \in LayerId |->
          IF l \notin Held(vfs[a].base) THEN layer[l]
          ELSE [layer[l] EXCEPT
                  !.refs = @ - 1,
                  !.file = IF layer[l].refs = 1 /\ @ = "written" THEN "removed" ELSE @]]
    /\ UNCHANGED <<layers, worker, writes, latest, lineage>>

\* execute_inner serializes the store after the guest and deserializes it for
\* the next execution: ids and tombstones come back, shards do not, and with no
\* shards rebuild_all_indexes and start_background_worker do nothing.  The
\* sandbox never spawns by copy-on-write: the stores it resumes have no base.
Resume(a) ==
    /\ MayResume
    /\ Alive(a) /\ vfs[a].writing = {} /\ vfs[a].base = <<>>
    /\ vfs' = [vfs EXCEPT ![a].hollow = TRUE]
    /\ UNCHANGED <<layer, layers, worker, writes, latest, lineage>>

-----------------------------------------------------------------------------
Next ==
    \/ \E a \in Agent, i \in Id : Admit(a, i) \/ Insert(a, i) \/ Forget(a, i) \/ Visit(a, i)
    \/ \E a \in Agent : TakeRequest(a) \/ Swap(a) \/ Drop(a) \/ Resume(a)
    \/ \E p, c \in Agent : Spawn(p, c)
    \/ \E l \in LayerId : Flush(l)

Spec == Init /\ [][Next]_vars

-----------------------------------------------------------------------------
(* recall *)

\* The handles recall scans, newest first.
Stack(a) == <<vfs[a].active>> \o Reverse(vfs[a].base)

\* What one layer yields for id i: a matching record of tier 1, or, when tier 2
\* has a matching one, the oldest record it has under that id.
Found(l, i, query) ==
    IF layer[l].tier1[i] \in query THEN {layer[l].tier1[i]}
    ELSE IF layer[l].tier2[i] \cap query # {} THEN {Min(layer[l].tier2[i])}
    ELSE {}

\* The first layer that yields something answers, unless a tombstone of that
\* layer or a newer one hides the id.  A hollow store yields nothing.
Recall(a, i, query) ==
    LET hits == {k \in 1..Len(Stack(a)) : Found(Stack(a)[k].layer, i, query) # {}}
    IN  IF \/ vfs[a].hollow \/ hits = {}
           \/ \E k \in 1..Min(hits) : i \in Stack(a)[k].tombstones
        THEN {}
        ELSE Found(Stack(a)[Min(hits)].layer, i, query)

-----------------------------------------------------------------------------
(* Properties *)

TypeOK ==
    /\ layer \in [LayerId -> Layer] /\ layers \in LayerId
    /\ vfs \in [Agent -> Vfs] /\ worker \in [Agent -> Worker]
    /\ writes \in 0..MaxWrites
    /\ latest \in [Agent -> [Id -> Version \cup {None}]]
    /\ lineage \in [Agent -> SUBSET Version]

\* A compaction has the record in its hands: out of tier 1 and not in tier 2.
Carried(i, v) == \E w \in Agent : worker[w].taken[i] = v

Recalled(a) ==
    \A i \in Id : \/ latest[a][i] = None
                  \/ Recall(a, i, {latest[a][i]}) # {}
                  \/ Carried(i, latest[a][i])

\* remember and recall: a query that matches what an agent, or an ancestor
\* before the spawn, last remembered under an id finds that id, however writes,
\* compactions and spawns interleave, unless the agent came out of a snapshot.
RecallsRemembered == \A a \in Agent : Alive(a) /\ ~vfs[a].hollow => Recalled(a)

\* "freeze memory + VFS + vectors": a resumed agent recalls what it remembered
\* before the snapshot.
SnapshotKeepsMemory == \A a \in Agent : Alive(a) => Recalled(a)

\* "Child should respect tombstones for base layer records": a forgotten id is
\* not found, whatever layer and tier its older records are in.
ForgottenStaysForgotten ==
    \A a \in Agent, i \in Id :
        Alive(a) /\ latest[a][i] = None => Recall(a, i, Version) = {}

\* "Child should not see parent's divergence", nor the parent the child's: an
\* agent reads only what it wrote or inherited at its spawn.
KnowledgeDiverges ==
    \A a \in Agent, i \in Id : Alive(a) => Recall(a, i, Version) \subseteq lineage[a]

\* "Garbage Collection: Delete physical shard off disk!" happens to no frozen
\* layer that an agent still reads.
HeldLayersStayOnDisk ==
    \A a \in Agent : Alive(a) =>
        \A l \in Held(vfs[a].base) : layer[l].file \in {"writing", "written"}
=============================================================================
