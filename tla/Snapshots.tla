----------------------------- MODULE Snapshots ------------------------------
(***************************************************************************)
(* What the API does with the memory of agents: snapshots, queries and     *)
(* manifests of an agent named by an alias or an execution, export, import *)
(* and fork of a snapshot, while executions end and agents leave.          *)
(*                                                                         *)
(* A look-up keeps the read guard of active_memories while it asks the     *)
(* mesh, peers included, who the alias is; the end of an execution wants   *)
(* the write guard.  The lock is fair: whoever waits is served in order.   *)
(* What an execution does up to its end is in the module MeshNode.         *)
(***************************************************************************)
EXTENDS Integers, Sequences, FiniteSets

CONSTANTS
    Name,         \* aliases
    Nameless,     \* a run without one
    Look,         \* look-ups, each made once
    Task,         \* tasks that execute
    Neighbour,    \* peers the mesh asks for an alias it does not know
    MaxId         \* bound: executions and snapshots, which share their numbers

ASSUME SnapshotsAssumption == Nameless \notin Name /\ MaxId \in Nat

VARIABLES
    aliases,      \* aliases[a]: entries of an alias: an execution, and a snapshot or 0
    active,       \* active_memories: executions whose memory is stored
    snaps,        \* ids of the snapshots kept; what they hold plays no role here
    queue,        \* who waits for the lock of active_memories, in order
    readers,      \* look-ups that hold it
    task,         \* task[r]: how far the end of an execution is
    look,         \* look[l]: how far a look-up is
    lastId,       \* the last number given
    steady        \* steady[l]: all along, every entry of the alias hibernates, and there is
                  \* one (not in the code)

snapshotVars == <<aliases, active, snaps, queue, readers, task, look, lastId, steady>>

IdleTask == [stage |-> "idle", tet |-> 0, alias |-> Nameless, parent |-> 0, snap |-> 0]
NewLook == [stage |-> "new", kind |-> "none", name |-> Nameless, left |-> {}, got |-> 0]

SnapshotsInit ==
    /\ aliases = [a \in Name |-> {}]
    /\ active = {} /\ snaps = {}
    /\ queue = <<>> /\ readers = {}
    /\ task = [r \in Task |-> IdleTask]
    /\ look = [l \in Look |-> NewLook]
    /\ lastId = 0
    /\ steady = [l \in Look |-> FALSE]

\* A run of its own program, or of a snapshot's.
StartTask(r, a, parent) ==
    /\ task[r] = IdleTask /\ lastId < MaxId
    /\ lastId' = lastId + 1
    /\ task' = [task EXCEPT ![r] = [stage |-> "ran", tet |-> lastId + 1, alias |-> a,
                                    parent |-> parent, snap |-> 0]]
    /\ UNCHANGED <<aliases, active, snaps, queue, readers, look, steady>>

HandleExecute(r, a) == StartTask(r, a, 0)
HandleFork(r, a, s) == StartTask(r, a, s)
\* The fork the tool server makes has no alias.
InvokeFork(r, s) == StartTask(r, Nameless, s)

Calm(entries) == entries # {} /\ \A e \in entries : e.snap # 0

\* Every change of the registry is seen by the look-ups under way.
SetAlias(a, entries) ==
    /\ aliases' = [aliases EXCEPT ![a] = entries]
    /\ steady' = [l \in Look |->
          steady[l] /\ (look[l].name = a /\ look[l].stage # "done" => Calm(entries))]

\* The execution is over and registered, not hibernating yet; it wants the write guard.
QueueWriter(r) ==
    LET k == task[r] IN
    /\ k.stage = "ran"
    /\ IF k.alias = Nameless THEN UNCHANGED <<aliases, steady>>
       ELSE SetAlias(k.alias, aliases[k.alias] \cup {[tet |-> k.tet, snap |-> 0]})
    /\ queue' = Append(queue, r)
    /\ task' = [task EXCEPT ![r].stage = "queued"]
    /\ UNCHANGED <<active, snaps, readers, look, lastId>>

PutMemory(r) ==
    /\ task[r].stage = "queued" /\ queue # <<>> /\ Head(queue) = r /\ readers = {}
    /\ queue' = Tail(queue)
    /\ active' = active \cup {task[r].tet}
    /\ task' = [task EXCEPT ![r].stage = "stored"]
    /\ UNCHANGED <<aliases, snaps, readers, look, lastId, steady>>

\* A memory is kept under a new number.
Keep == lastId < MaxId /\ lastId' = lastId + 1 /\ snaps' = snaps \cup {lastId + 1}

PutSnapshot(r) ==
    /\ task[r].stage = "stored" /\ Keep
    /\ task' = [task EXCEPT ![r] = [@ EXCEPT !.stage = "snapped", !.snap = lastId + 1]]
    /\ UNCHANGED <<aliases, active, queue, readers, look, steady>>

\* The entry it was resumed from goes ...
DropParent(r) ==
    LET k == task[r] IN
    /\ k.stage = "snapped"
    /\ IF k.alias = Nameless \/ k.parent = 0 THEN UNCHANGED <<aliases, steady>>
       ELSE SetAlias(k.alias, {e \in aliases[k.alias] : e.snap # k.parent})
    /\ task' = [task EXCEPT ![r].stage = "pruned"]
    /\ UNCHANGED <<active, snaps, queue, readers, look, lastId>>

\* ... and its own says that it hibernates.
Sleep(r) ==
    LET k == task[r] IN
    /\ k.stage = "pruned"
    /\ IF k.alias = Nameless THEN UNCHANGED <<aliases, steady>>
       ELSE SetAlias(k.alias, {e \in aliases[k.alias] : e.tet # k.tet}
                                 \cup {[tet |-> k.tet, snap |-> k.snap]})
    /\ task' = [task EXCEPT ![r] = IdleTask]
    /\ UNCHANGED <<active, snaps, queue, readers, look, lastId>>

\* An agent leaves the node (after a teleport); its memory stays.
Leave(a) ==
    /\ aliases[a] # {} /\ SetAlias(a, {})
    /\ UNCHANGED <<active, snaps, queue, readers, task, look, lastId>>

\* snapshot, query_memory and export_manifest start alike; the last two only read.
BeginLook(l, kind, name) ==
    /\ look[l] = NewLook
    /\ look' = [look EXCEPT ![l] = [NewLook EXCEPT
          !.stage = "waiting", !.kind = kind, !.name = name, !.left = Neighbour]]
    /\ queue' = Append(queue, l)
    /\ steady' = [steady EXCEPT ![l] = name \in Name /\ Calm(aliases[name])]
    /\ UNCHANGED <<aliases, active, snaps, readers, task, lastId>>

\* Asked by the API, by the tool server and, for the manifest too, by a teleport.
HandleSnapshot(l, name) == BeginLook(l, "snapshot", name)
InvokeSnapshot(l, name) == BeginLook(l, "snapshot", name)
HandleMemoryQuery(l, name) == BeginLook(l, "read", name)
ExportManifest(l, name) == BeginLook(l, "read", name)

GrantReader(l) ==
    /\ look[l].stage = "waiting" /\ queue # <<>> /\ Head(queue) = l
    /\ queue' = Tail(queue) /\ readers' = readers \cup {l}
    /\ look' = [look EXCEPT ![l].stage = "looking"]
    /\ UNCHANGED <<aliases, active, snaps, task, lastId, steady>>

\* The guard goes when the memory is cloned, or the name is not found.
End(l, tet) ==
    /\ readers' = readers \ {l}
    /\ look' = [look EXCEPT ![l] =
          IF tet # 0 /\ @.kind = "snapshot" THEN [@ EXCEPT !.stage = "cloned", !.got = tet]
          ELSE [NewLook EXCEPT !.stage = "done", !.got = tet]]

\* Mutant: the memory is looked up by the snapshot an entry names.
ResolvedSnapshot(e) == e.snap
\* Memories are found by the execution an entry names.
Resolved(e) == e.tet

\* By its own name, then by one entry of the alias, whichever the clock picks.
LookUp(l) ==
    LET name == look[l].name IN
    /\ look[l].stage = "looking"
    /\ IF name \in active THEN End(l, name)
       ELSE IF name \in Name /\ aliases[name] # {}
       THEN \E e \in aliases[name] : End(l, IF Resolved(e) \in active THEN Resolved(e) ELSE 0)
       ELSE look' = [look EXCEPT ![l].stage = "asking"] /\ UNCHANGED readers
    /\ UNCHANGED <<aliases, active, snaps, queue, task, lastId, steady>>

\* A peer answers or the connection fails, which is the same: the answer is not sealed, so
\* that rpc_call refuses it (module Tunnel), and the next peer is asked.
AskPeer(l, p) ==
    /\ look[l].stage = "asking" /\ p \in look[l].left
    /\ look' = [look EXCEPT ![l].left = @ \ {p}]
    /\ UNCHANGED <<aliases, active, snaps, queue, readers, task, lastId, steady>>

NobodyKnows(l) ==
    /\ look[l].stage = "asking" /\ look[l].left = {}
    /\ End(l, 0)
    /\ UNCHANGED <<aliases, active, snaps, queue, task, lastId, steady>>

SaveSnapshot(l) ==
    /\ look[l].stage = "cloned" /\ Keep
    /\ look' = [look EXCEPT ![l] = [NewLook EXCEPT !.stage = "done", !.got = look[l].got]]
    /\ UNCHANGED <<aliases, active, queue, readers, task, steady>>

\* A client sends what it exported, here or elsewhere.
ImportSnapshot ==
    /\ Keep
    /\ UNCHANGED <<aliases, active, queue, readers, task, look, steady>>

SnapshotsNext ==
    \/ \E r \in Task :
          \/ \E a \in Name \cup {Nameless} :
                HandleExecute(r, a) \/ \E s \in snaps : HandleFork(r, a, s)
          \/ \E s \in snaps : InvokeFork(r, s)
          \/ QueueWriter(r) \/ PutMemory(r) \/ PutSnapshot(r) \/ DropParent(r) \/ Sleep(r)
    \/ \E l \in Look :
          \/ \E name \in Name \cup {lastId} :   \* bound: one execution, or none, is asked for
                \/ HandleSnapshot(l, name) \/ InvokeSnapshot(l, name)
                \/ HandleMemoryQuery(l, name) \/ ExportManifest(l, name)
          \/ GrantReader(l) \/ LookUp(l) \/ NobodyKnows(l) \/ SaveSnapshot(l)
          \/ \E p \in Neighbour : AskPeer(l, p)
    \/ ImportSnapshot
    \/ \E a \in Name : Leave(a)

SnapshotsSpec == SnapshotsInit /\ [][SnapshotsNext]_snapshotVars

-----------------------------------------------------------------------------
(* Properties *)

SnapshotsTypeOK ==
    /\ aliases \in [Name -> SUBSET [tet : 1..MaxId, snap : 0..MaxId]]
    /\ active \subseteq 1..MaxId
    /\ snaps \subseteq 1..MaxId
    /\ readers \subseteq Look
    /\ \A l \in Look : /\ look[l].stage \in {"new", "waiting", "looking", "asking", "cloned", "done"}
                       /\ l \in readers <=> look[l].stage \in {"looking", "asking"}
                       /\ look[l].got \in active \cup {0}
    /\ \A r \in Task : task[r].stage \in {"idle", "ran", "queued", "stored", "snapped", "pruned"}
    /\ lastId \in 0..MaxId

\* A look-up finds the memory of an agent that hibernates all along, whichever of its
\* replicas is picked, and whatever runs, forks and imports come in between.  One that is
\* registered but not stored yet is not found, another replica notwithstanding
\* (snapshot, query_memory, export_manifest, execute).
HibernatingIsFound ==
    \A l \in Look : look[l].stage = "done" /\ steady[l] => look[l].got # 0
=============================================================================
