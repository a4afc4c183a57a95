------------------------------ MODULE MeshNode ------------------------------
(***************************************************************************)
(* One trytet node: the alias registry of the Tet-Mesh, the bounded        *)
(* channel of mesh messages, the single worker task that drains it, and    *)
(* the execution pipeline of the Wasmtime sandbox that API tasks, forked   *)
(* tasks and the worker all run.  Every lock acquisition of                *)
(* WasmtimeSandbox::execute is a step of its own, because another task may *)
(* run between two of them.                                                *)
(*                                                                         *)
(* A guest program is any sequence of the steps it could take: burn fuel,  *)
(* call another agent, send an economy packet or a fork request, return or *)
(* trap.  The code takes fuel for every instruction, so each of those      *)
(* steps but the last costs one unit and a guest always stops.             *)
(*                                                                         *)
(* A client may hang up: the server then drops the task of its request at  *)
(* whatever await it stands.  An alias the node does not know is looked    *)
(* for with the other nodes of the hive, whose answers may never come.     *)
(***************************************************************************)
EXTENDS Naturals, Sequences, FiniteSets

CONSTANTS
    Alias,          \* names under which agents are registered
    NoAlias,        \* an execution request without an alias
    Client,         \* API tasks (one request at a time each)
    Forked,         \* tasks the worker may spawn for MeshMessage::Fork
    Worker,         \* the task of spawn_mesh_worker
    NoTask,         \* the caller of a call whose answer nobody waits for
    Capacity,       \* capacity of the mpsc channel
    MaxDepth,       \* the call depth execute_inner accepts
    InputDepth,     \* values of call_depth a request body may carry
    MaxFuel,        \* bound: largest allocated_fuel of a request
    MaxRequests,    \* bound: number of API requests in a behaviour
    ClientOps,      \* API requests the clients send
    GuestOps,       \* host functions a guest run by an API task calls
    WorkerGuestOps  \* host functions a guest run by the worker calls

Task == Client \cup Forked \cup {Worker}
NoTet == 0          \* Option<String>::None for tet and snapshot ids

ASSUME MeshAssumption ==
    /\ NoAlias \notin Alias
    /\ Client \cap Forked = {}
    /\ Worker \notin Client \cup Forked
    /\ NoTask \notin Client \cup Forked \cup {Worker}
    /\ Capacity \in Nat \ {0}
    /\ MaxDepth \in Nat
    /\ InputDepth \subseteq Nat
    /\ MaxFuel \in Nat \ {0}
    /\ MaxRequests \in Nat

Id == Nat \ {NoTet}
Entry == [tet : Id, snap : Nat]   \* snap = NoTet: registered, not hibernating
Kinds == {"call", "packet", "fork"}
Message == [kind : Kinds, from : Task \cup {NoTask}, alias : Alias \cup {NoAlias},
            fuel : Nat, depth : Nat]
NoMessage == [kind |-> "packet", from |-> NoTask, alias |-> NoAlias,
              fuel |-> 0, depth |-> 0]
Reply == [present : BOOLEAN, used : Nat, work : Nat]
NoReply == [present |-> FALSE, used |-> 0, work |-> 0]

Stages == {"idle", "asking", "boot", "run", "send", "await",
           "ran", "registered", "stored", "snapped", "pruned"}
Frame == [stage : Stages, alias : Alias \cup {NoAlias},
          parent : Nat, tet : Nat, fuel : Nat, limit : Nat,
          owed : Nat, work : Nat, depth : Nat]
IdleFrame == [stage |-> "idle", alias |-> NoAlias, parent |-> NoTet,
              tet |-> NoTet, fuel |-> 0, limit |-> 0,
              owed |-> 0, work |-> 0, depth |-> 0]

VARIABLES
    registry,   \* TetMesh.registry: the entries of each alias
    snapshots,  \* WasmtimeSandbox.snapshots: id -> the tet whose memory it holds
    memories,   \* the keys of WasmtimeSandbox.active_memories
    channel,    \* the mpsc channel between the host functions and the worker
    outbox,     \* the message a task is waiting to enqueue
    frame,      \* the execution each task is in
    serving,    \* the call the worker is executing
    reply,      \* the oneshot each caller waits on
    nextId,     \* fresh uuids are numbered
    requests,   \* number of API requests so far (bound only)
    superseded, \* history: <<alias, tet>> whose memory was resumed under alias
    dropped     \* history: executions dropped between their two registrations

vars == <<registry, snapshots, memories, channel, outbox, frame, serving,
          reply, nextId, requests, superseded, dropped>>

Init ==
    /\ registry = [a \in Alias |-> {}]
    /\ snapshots = [s \in {} |-> NoTet]
    /\ memories = {}
    /\ channel = <<>>
    /\ outbox = [t \in Task |-> NoMessage]
    /\ frame = [t \in Task |-> IdleFrame]
    /\ serving = NoMessage
    /\ reply = [t \in Task |-> NoReply]
    /\ nextId = 1
    /\ requests = 0
    /\ superseded = {}
    /\ dropped = {}

-----------------------------------------------------------------------------
(* TetMesh *)

\* Mutant: the entry is always appended.
WithEntryAppended(entries, e) == entries \cup {e}

\* register: an entry with the same tet_id is replaced, otherwise appended.
WithEntry(entries, e) == {x \in entries : x.tet # e.tet} \cup {e}

\* Mutants: nothing is removed; the whole alias is removed.
WithoutSnapshotKept(entries, s) == entries
WithoutSnapshotAll(entries, s) == {}

\* remove_by_snapshot: a retain over the entries of the alias.
WithoutSnapshot(entries, s) == {x \in entries : x.snap # s}

\* Mutant: the bound of the channel is off by one.
RoomOffByOne == Len(channel) <= Capacity

Room == Len(channel) < Capacity

\* send_call, send_fork, send_economy_packet: wait for room in the channel.
\* A call then waits for its oneshot; a packet or a fork returns at once.
Enqueue(t) ==
    /\ frame[t].stage = "send"
    /\ Room
    /\ channel' = Append(channel, outbox[t])
    /\ outbox' = [outbox EXCEPT ![t] = NoMessage]
    /\ frame' = [frame EXCEPT ![t].stage =
                    IF outbox[t].kind = "call" THEN "await" ELSE "run"]
    /\ UNCHANGED <<registry, snapshots, memories, serving, reply, nextId,
                   requests, superseded, dropped>>

Send(t, kind, a, f, d) ==
    outbox' = [outbox EXCEPT ![t] = [kind |-> kind, from |-> t, alias |-> a,
                                     fuel |-> f, depth |-> d]]

-----------------------------------------------------------------------------
(* API handlers *)

NewFrame(a, p, f, d) ==
    [IdleFrame EXCEPT !.stage = "boot", !.alias = a, !.parent = p,
                      !.limit = f, !.depth = d]

\* A request a client task accepts; MaxRequests bounds the behaviour.
Accept(c, op) ==
    /\ op \in ClientOps
    /\ frame[c].stage = "idle"
    /\ requests < MaxRequests
    /\ requests' = requests + 1

\* The copies of memories that the API stored and named to its clients: no other
\* snapshot is under an id of its own.
Copies == {s \in DOMAIN snapshots : snapshots[s] # s}

\* handle_execute and handle_fork: from a payload, or from a copy under any name; only
\* handle_fork takes a request without fuel.
ExecuteRequest(c) ==
    /\ Accept(c, "execute")
    /\ \E a \in Alias \cup {NoAlias}, p \in {NoTet} \cup Copies, f \in 0..MaxFuel, d \in InputDepth :
          /\ p = NoTet => f > 0
          /\ frame' = [frame EXCEPT ![c] = NewFrame(a, p, f, d)]
    /\ UNCHANGED <<registry, snapshots, memories, channel, outbox, serving,
                   reply, nextId, superseded, dropped>>

\* TetSandbox::snapshot: a stored memory under a new id.
Copy(v) ==
    /\ snapshots' = [s \in DOMAIN snapshots \cup {nextId} |->
                        IF s = nextId THEN v ELSE snapshots[s]]
    /\ nextId' = nextId + 1

\* An alias the node does not know: the task asks the other nodes.
Asking(a, f) == [IdleFrame EXCEPT !.stage = "asking", !.alias = a, !.limit = f]

\* handle_snapshot of an execution, or of an alias (TetSandbox::snapshot): what is not
\* found is answered 404.  The read guard of active_memories is held while peers are asked.
SnapshotRequest(c) ==
    /\ Accept(c, "snapshot")
    /\ \/ \E v \in memories : Copy(v) /\ UNCHANGED frame
       \/ \E a \in Alias : /\ registry[a] = {}
                           /\ frame' = [frame EXCEPT ![c] = Asking(a, 0)]
                           /\ UNCHANGED <<snapshots, nextId>>
    /\ UNCHANGED <<registry, memories, channel, outbox, serving, reply,
                   superseded, dropped>>

\* handle_topup: the memory of a resolved replica is stored under a new snapshot id and
\* resumed.  Nothing happens when the replica has no stored memory (404).
TopUpRequest(c) ==
    /\ Accept(c, "topup")
    /\ \E a \in Alias, f \in 0..MaxFuel :
          \/ /\ registry[a] = {}
             /\ frame' = [frame EXCEPT ![c] = Asking(a, 0)]
             /\ UNCHANGED <<snapshots, nextId>>
          \/ \E e \in registry[a] :
                \/ /\ e.tet \in memories
                   /\ Copy(e.tet)
                   /\ frame' = [frame EXCEPT ![c] = NewFrame(a, nextId, f, 0)]
                \/ e.tet \notin memories /\ UNCHANGED <<snapshots, nextId, frame>>
    /\ UNCHANGED <<registry, memories, channel, outbox, serving, reply,
                   superseded, dropped>>

\* handle_cartridge_invoke and Gateway::handle_request: a mesh call that no
\* guest makes, at depth 0.
CallRequest(c) ==
    /\ Accept(c, "call")
    /\ \E a \in Alias, f \in 0..MaxFuel : Send(c, "call", a, f, 0)
    /\ frame' = [frame EXCEPT ![c].stage = "send"]
    /\ UNCHANGED <<registry, snapshots, memories, channel, serving, reply,
                   nextId, superseded, dropped>>

-----------------------------------------------------------------------------
(* The end of an execution *)

Answer(used, work) == [present |-> TRUE, used |-> used, work |-> work]

\* A reply reaches its caller, if that one still waits.
Delivered(m, r) == [t \in Task |-> IF t = m.from THEN r ELSE reply[t]]

\* The worker answers the call it serves and takes the next message; any
\* other task just returns to its caller.
Conclude(t, r) ==
    /\ frame' = [frame EXCEPT ![t] = IdleFrame]
    /\ IF t = Worker
       THEN /\ reply' = Delivered(serving, r)
            /\ serving' = NoMessage
       ELSE UNCHANGED <<reply, serving>>

\* TetMesh::resolve ends: the peers asked, one after the other and each for as long as it
\* takes, do not know the alias or failed, or one knows it, and then names a snapshot that
\* this node does not have.  The call is refused, the snapshot or top-up not found.
PeersAnswer(t) ==
    /\ frame[t].stage = "asking"
    /\ Conclude(t, Answer(0, 0))
    /\ UNCHANGED <<registry, snapshots, memories, channel, outbox, nextId, requests,
                   superseded, dropped>>

\* What a task owns that nobody waits for any more: its oneshot is closed.
Unheard(m, c) == IF m.from = c THEN [m EXCEPT !.from = NoTask] ELSE m

InStoring == {"registered", "stored", "snapped", "pruned"}

\* The client hangs up: the server drops the task of its request at the await it stands
\* at.  What it put into the channel, the registry and the stores stays.
Disconnect(c) ==
    /\ "disconnect" \in ClientOps
    /\ frame[c].stage # "idle"
    /\ frame' = [frame EXCEPT ![c] = IdleFrame]
    /\ outbox' = [outbox EXCEPT ![c] = NoMessage]
    /\ reply' = [reply EXCEPT ![c] = NoReply]
    /\ channel' = [i \in DOMAIN channel |-> Unheard(channel[i], c)]
    /\ serving' = Unheard(serving, c)
    /\ dropped' = IF frame[c].stage \in InStoring THEN dropped \cup {frame[c].tet} ELSE dropped
    /\ UNCHANGED <<registry, snapshots, memories, nextId, requests, superseded>>

-----------------------------------------------------------------------------
(* WasmtimeSandbox::execute *)

\* execute_inner up to the instantiation: refused when too deep, and the
\* module may fail to compile or to instantiate; the reply then says that no
\* fuel was used.
Boot(t) ==
    /\ frame[t].stage = "boot"
    /\ \/ /\ Conclude(t, Answer(0, 0))
          /\ UNCHANGED nextId
       \/ /\ frame[t].depth <= MaxDepth
          /\ frame' = [frame EXCEPT ![t].stage = "run", ![t].tet = nextId,
                                    ![t].fuel = frame[t].limit]
          /\ nextId' = nextId + 1
          /\ UNCHANGED <<reply, serving>>
    /\ UNCHANGED <<registry, snapshots, memories, channel, outbox, requests,
                   superseded, dropped>>

MayUse(t, op) == op \in IF t = Worker THEN WorkerGuestOps ELSE GuestOps

\* The guest executes an instruction that calls no host function.
Compute(t) ==
    /\ frame[t].stage = "run" /\ frame[t].fuel > 0
    /\ frame' = [frame EXCEPT ![t].fuel = @ - 1, ![t].work = @ + 1]
    /\ UNCHANGED <<registry, snapshots, memories, channel, outbox, serving,
                   reply, nextId, requests, superseded, dropped>>

\* trytet::invoke up to send_call: the caller offers at most the fuel it has
\* and keeps it while it waits.
Invoke(t) ==
    /\ frame[t].stage = "run" /\ frame[t].fuel > 0 /\ MayUse(t, "invoke")
    /\ \E a \in Alias, f \in 0..(frame[t].fuel - 1) :
          Send(t, "call", a, f, frame[t].depth)
    /\ frame' = [frame EXCEPT ![t].stage = "send", ![t].fuel = @ - 1,
                              ![t].work = @ + 1]
    /\ UNCHANGED <<registry, snapshots, memories, channel, serving, reply,
                   nextId, requests, superseded, dropped>>

\* Bound: one fork is in flight at a time.
ForkSlot == /\ \A t \in Forked : frame[t].stage = "idle"
            /\ \A t \in Task : outbox[t].kind # "fork"
            /\ \A i \in DOMAIN channel : channel[i].kind # "fork"

\* The amount leaves the caller's fuel before the message is sent.
Transfer(t, kind, f) ==
    /\ frame[t].stage = "run" /\ f < frame[t].fuel /\ MayUse(t, kind)
    /\ Send(t, kind, frame[t].alias, f, 0)
    /\ frame' = [frame EXCEPT ![t].stage = "send", ![t].fuel = @ - 1 - f,
                              ![t].work = @ + 1 + f]
    /\ UNCHANGED <<registry, snapshots, memories, channel, serving, reply,
                   nextId, requests, superseded, dropped>>

\* trytet::pay, and trytet::withdraw while the channel is open.
Pay(t) == \E f \in 0..MaxFuel : Transfer(t, "packet", f)

\* trytet::bill and trytet::reclaim: a packet that carries no fuel.
Notify(t) == Transfer(t, "packet", 0)

\* trytet::fork.
Fork(t) == ForkSlot /\ \E f \in 0..MaxFuel : Transfer(t, "fork", f)

\* Mutant: what the callee used is not burned.
MonusNothing(m, n) == m

Monus(m, n) == IF m < n THEN 0 ELSE m - n

\* The rest of trytet::invoke.  The fuel the callee used is added to
\* fuel_to_burn_from_parent; when the response cannot be written to the
\* guest's memory the host function traps before burn_fuel runs.
TakeReply(t) ==
    /\ frame[t].stage = "await" /\ reply[t].present
    /\ reply' = [reply EXCEPT ![t] = NoReply]
    /\ LET owed == frame[t].owed + reply[t].used
           work == frame[t].work + reply[t].work
       IN  \/ /\ frame[t].tet = NoTet          \* an API task: no guest
              /\ frame' = [frame EXCEPT ![t] = IdleFrame]
           \/ /\ frame[t].tet # NoTet
              /\ frame' = [frame EXCEPT ![t].stage = "run",
                              ![t].fuel = Monus(@, owed), ![t].owed = 0,
                              ![t].work = work]
           \/ /\ frame[t].tet # NoTet
              /\ frame' = [frame EXCEPT ![t].stage = "ran",
                              ![t].owed = owed, ![t].work = work]
    /\ UNCHANGED <<registry, snapshots, memories, channel, outbox, serving,
                   nextId, requests, superseded, dropped>>

\* The guest returns, traps, suspends or runs out of fuel; its memory is
\* captured whatever the status is.
Return(t) ==
    /\ frame[t].stage = "run"
    /\ frame' = [frame EXCEPT ![t].stage = "ran"]
    /\ UNCHANGED <<registry, snapshots, memories, channel, outbox, serving,
                   reply, nextId, requests, superseded, dropped>>

\* Mutant: the alias is only registered when the execution is over.
RegisterActiveNever(t) ==
    /\ frame[t].stage = "ran"
    /\ frame' = [frame EXCEPT ![t].stage = "registered"]
    /\ UNCHANGED <<registry, snapshots, memories, channel, outbox, serving,
                   reply, nextId, requests, superseded, dropped>>

\* execute_inner registers the alias as active, without a snapshot.
RegisterActive(t) ==
    /\ frame[t].stage = "ran"
    /\ registry' = [a \in Alias |->
                      IF a = frame[t].alias
                      THEN WithEntry(registry[a], [tet |-> frame[t].tet, snap |-> NoTet])
                      ELSE registry[a]]
    /\ frame' = [frame EXCEPT ![t].stage = "registered"]
    /\ UNCHANGED <<snapshots, memories, channel, outbox, serving, reply,
                   nextId, requests, superseded, dropped>>

\* active_memories.insert: not while a client's request that holds the read guard waits
\* for a peer.
StoreMemory(t) ==
    /\ frame[t].stage = "registered"
    /\ \A c \in Client : frame[c].stage # "asking"
    /\ memories' = memories \cup {frame[t].tet}
    /\ frame' = [frame EXCEPT ![t].stage = "stored"]
    /\ UNCHANGED <<registry, snapshots, channel, outbox, serving, reply,
                   nextId, requests, superseded, dropped>>

\* Mutant: the snapshot is not inserted.
StoreSnapshotLost(t) ==
    /\ frame[t].stage = "stored"
    /\ frame' = [frame EXCEPT ![t].stage = "snapped"]
    /\ UNCHANGED <<registry, snapshots, memories, channel, outbox, serving,
                   reply, nextId, requests, superseded, dropped>>

\* The id of the automatic snapshot of an execution is as fresh as its
\* tet_id; the model gives both the same number.
StoreSnapshot(t) ==
    /\ frame[t].stage = "stored"
    /\ snapshots' = [s \in DOMAIN snapshots \cup {frame[t].tet} |->
                       IF s = frame[t].tet THEN frame[t].tet ELSE snapshots[s]]
    /\ frame' = [frame EXCEPT ![t].stage = "snapped"]
    /\ UNCHANGED <<registry, memories, channel, outbox, serving, reply,
                   nextId, requests, superseded, dropped>>

\* "Remove old snapshot entry".
RemoveParent(t) ==
    /\ frame[t].stage = "snapped"
    /\ IF frame[t].parent # NoTet /\ frame[t].alias \in Alias
       THEN /\ registry' = [registry EXCEPT ![frame[t].alias] =
                                WithoutSnapshot(@, frame[t].parent)]
            /\ superseded' = superseded \cup
                                {<<frame[t].alias, snapshots[frame[t].parent]>>}
       ELSE UNCHANGED <<registry, superseded>>
    /\ frame' = [frame EXCEPT ![t].stage = "pruned"]
    /\ UNCHANGED <<snapshots, memories, channel, outbox, serving, reply,
                   nextId, requests, dropped>>

\* The alias now points to the snapshot; the execution is over.
Hibernate(t) ==
    /\ frame[t].stage = "pruned"
    /\ registry' = [a \in Alias |->
                      IF a = frame[t].alias
                      THEN WithEntry(registry[a], [tet |-> frame[t].tet,
                                                   snap |-> frame[t].tet])
                      ELSE registry[a]]
    /\ Conclude(t, Answer(frame[t].limit - frame[t].fuel, frame[t].work))
    /\ UNCHANGED <<snapshots, memories, channel, outbox, nextId, requests,
                   superseded, dropped>>

-----------------------------------------------------------------------------
(* spawn_mesh_worker *)

\* Mutant: the loop goes on without an answer.
RefuseSilently(m) == UNCHANGED <<frame, reply, serving>>

\* The reply of a call that is not executed.
Refuse(m) == /\ reply' = Delivered(m, Answer(0, 0))
             /\ UNCHANGED <<frame, serving>>

\* The alias is unknown here, and the worker asks the peers; or the replica it resolves to
\* is not hibernating (then execute finds neither a payload nor a snapshot); or the worker
\* executes from the replica's snapshot.
ServeCall(m) ==
    /\ m.kind = "call"
    /\ \/ /\ registry[m.alias] = {}
          /\ frame' = [frame EXCEPT ![Worker] = Asking(m.alias, m.fuel)]
          /\ serving' = m
          /\ UNCHANGED reply
       \/ \E e \in registry[m.alias] :
             \/ e.snap \notin DOMAIN snapshots /\ Refuse(m)
             \/ /\ e.snap \in DOMAIN snapshots
                /\ frame' = [frame EXCEPT ![Worker] =
                                NewFrame(m.alias, e.snap, m.fuel, m.depth + 1)]
                /\ serving' = m
                /\ UNCHANGED reply

\* A fork runs in a task of its own; a packet is only logged.
ServeFork(m) ==
    /\ m.kind = "fork"
    /\ \E t \in Forked :
          /\ frame[t].stage = "idle"
          /\ frame' = [frame EXCEPT ![t] = NewFrame(m.alias, NoTet, m.fuel, 0)]
    /\ UNCHANGED <<reply, serving>>

ServePacket(m) == m.kind = "packet" /\ UNCHANGED <<frame, reply, serving>>

Dequeue ==
    /\ frame[Worker].stage = "idle"
    /\ channel # <<>>
    /\ channel' = Tail(channel)
    /\ \/ ServeCall(Head(channel))
       \/ ServeFork(Head(channel))
       \/ ServePacket(Head(channel))
    /\ UNCHANGED <<registry, snapshots, memories, outbox, nextId, requests,
                   superseded, dropped>>

-----------------------------------------------------------------------------
Request(c) == \/ ExecuteRequest(c) \/ SnapshotRequest(c) \/ TopUpRequest(c)
              \/ CallRequest(c)

Guest(t) == \/ Compute(t) \/ Invoke(t) \/ Return(t)
            \/ Pay(t) \/ Notify(t) \/ Fork(t)

Pipeline(t) == \/ Boot(t) \/ RegisterActive(t) \/ StoreMemory(t)
               \/ StoreSnapshot(t) \/ RemoveParent(t) \/ Hibernate(t)

Step(t) == Guest(t) \/ Pipeline(t) \/ TakeReply(t)

Next == \/ \E c \in Client : Request(c) \/ Disconnect(c)
        \/ \E t \in Task : Step(t) \/ Enqueue(t) \/ PeersAnswer(t)
        \/ Dequeue

Spec == Init /\ [][Next]_vars

\* The runtime polls every runnable task again and again, fuel stops every
\* guest, and waiting senders of a tokio channel are served first come, first
\* served, so a sender is not overtaken for ever.  Clients may stop, and nothing makes
\* a peer answer: rpc_call has no timeout.
Fairness == /\ WF_vars(Dequeue)
            /\ \A t \in Task : WF_vars(Step(t)) /\ SF_vars(Enqueue(t))

FairSpec == Spec /\ Fairness

-----------------------------------------------------------------------------
(* Properties *)

TypeOK ==
    /\ registry \in [Alias -> SUBSET Entry]
    /\ DOMAIN snapshots \subseteq Id /\ \A s \in DOMAIN snapshots : snapshots[s] \in Id
    /\ memories \subseteq Id
    /\ channel \in Seq(Message) /\ Len(channel) <= Capacity
    /\ outbox \in [Task -> Message]
    /\ frame \in [Task -> Frame]
    /\ serving \in Message
    /\ reply \in [Task -> Reply]
    /\ nextId \in Id
    /\ requests \in Nat
    /\ superseded \subseteq Alias \X Id
    /\ dropped \subseteq Id

\* An entry that says the agent hibernates can be woken: its snapshot is in
\* the store and holds the memory of the entry's own execution.
HibernatingIsStored ==
    \A a \in Alias : \A e \in registry[a] :
        e.snap # NoTet => /\ e.snap \in DOMAIN snapshots
                          /\ snapshots[e.snap] = e.tet
                          /\ e.tet \in memories

\* "Remove old snapshot entry to prevent time-travel bugs": once an execution
\* resumed some memory under an alias and pruned it, the alias does not lead
\* to that memory again.
NoTimeTravel ==
    \A p \in superseded : \A e \in registry[p[1]] :
        e.snap # NoTet => snapshots[e.snap] # p[2]

\* When no execution of an alias is between its first registration and its
\* last one, every replica of the alias can be woken, unless the very execution
\* that registered it was dropped in between with its client: a hang-up is the one
\* way to a half-registered replica that nobody is going to finish.
Finishing(a) == \E t \in Task : frame[t].alias = a /\ frame[t].stage \in InStoring

QuietAliasIsCallable ==
    \A a \in Alias : ~Finishing(a) =>
        \A e \in registry[a] : e.snap # NoTet \/ e.tet \in dropped

\* A guest and all the agents it called never use more fuel than the request
\* allocated, and are never billed for more than they used.
WithinBudget ==
    \A t \in Task : frame[t].tet # NoTet =>
        /\ frame[t].work <= frame[t].limit
        /\ frame[t].limit - frame[t].fuel <= frame[t].work

\* Waking an agent never makes its name disappear: an alias that has a
\* replica keeps one, although the old entry is removed before the new one
\* hibernates.
AliasNeverLost ==
    [][\A a \in Alias : registry[a] # {} => registry'[a] # {}]_registry

\* "receiving MeshCallRequests from host functions, executing the
\* sub-requests ... and passing the results back": whoever waits for a reply
\* gets one, or gives up, unless a peer stays silent for ever towards a task that
\* asks for an alias: the worker, or a client whose request keeps the memories locked.
EveryCallAnswered ==
    \/ \E t \in Task : <>[](frame[t].stage = "asking")
    \/ \A t \in Task : frame[t].stage = "await" ~> frame[t].stage # "await"

\* The versions an alias can be woken from.  While the worker replaces one by
\* the next, the alias keeps the old one.
Live == [a \in Alias |->
           {e.snap : e \in {x \in registry[a] : x.snap # NoTet}} \cup
           (IF frame[Worker].stage = "pruned" /\ frame[Worker].alias = a
            THEN {frame[Worker].parent} ELSE {})]

\* The memories that executions left behind.
Used == {v \in memories : \A t \in Task : frame[t].tet # v}

\* The node implements the agent store: a wake-up replaces one version of one
\* alias in a single step, at the moment the new snapshot is registered.
Store == INSTANCE AgentStore WITH live <- Live, used <- Used

ImplementsStore == Store!Spec
=============================================================================
