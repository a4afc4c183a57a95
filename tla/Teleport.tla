------------------------------ MODULE Teleport ------------------------------
(***************************************************************************)
(* Teleportation of agents from one node (the source) to another (the      *)
(* target).  The source snapshots the agent and either streams it as a     *)
(* handshake, chunks and a commit, each over a connection of its own, or   *)
(* pushes it to the registry and sends a notice.  The target collects the  *)
(* packets of all migrations in one table and resurrects the agent in a    *)
(* spawned task.  When the last command is acknowledged the source         *)
(* deregisters the agent.                                                  *)
(*                                                                         *)
(* No packet but the handshake says which migration it belongs to.         *)
(***************************************************************************)
EXTENDS Naturals, Sequences, FiniteSets

CONSTANTS
    Agent,          \* aliases of agents
    Movable,        \* agents whose manifest has can_teleport
    Request,        \* teleport requests; each is made at most once
    Path,           \* "stream" and "registry": the paths the requests use
    Chunks,         \* number of chunks of a serialized agent
    MaxRuns,        \* bound: executions at the source per agent
    Circumstances,  \* what may happen besides undisturbed transfers: requests
                    \* that "overlap", executions at the source ("busy"), a
                    \* failing "network" or registry, API clients that "hangup",
                    \* resurrections whose "fork" fails, a "restart" of the target
    NoAgent,
    Garbage         \* memory put together from chunks of several agents

\* The memory of an agent after its n-th execution; executions start at 1.
Memory == [of : Agent, n : Nat \ {0}]
None == 0

ASSUME TeleportAssumption ==
    /\ Movable \subseteq Agent
    /\ Path \subseteq {"stream", "registry"}
    /\ Chunks \in Nat \ {0}
    /\ MaxRuns \in Nat
    /\ Circumstances \subseteq {"overlap", "busy", "network", "hangup", "fork", "restart"}
    /\ NoAgent \notin Agent \cup Memory /\ Garbage \notin Memory

Chunk == [seq : 0..(Chunks - 1), mem : Memory]
Command == {"none", "handshake", "payload", "commit", "notice"}
Wire == [cmd : Command, seq : 0..(Chunks - 1),
         state : {"closed", "sent", "acked", "refused"}]
Closed == [cmd |-> "none", seq |-> 0, state |-> "closed"]

Stages == {"idle", "captured", "push", "sending", "purge", "done", "failed"}
Task == [stage : Stages, path : {"stream", "registry"},
         agent : Agent \cup {NoAgent}, n : Nat]
IdleTask == [stage |-> "idle", path |-> "stream", agent |-> NoAgent, n |-> None]

VARIABLES
    source,   \* source[a]: the execution whose memory the source's registry holds
    running,  \* running[a]: the execution a run in flight at the source resumed
    runs,     \* runs[a]: how many executions a has had
    task,     \* the teleport requests
    wire,     \* the connection of each request
    tag,      \* tag[a]: what the registry holds under "{a}-state:temp"
    pending,  \* MigrationManager.pending, in the iteration order of the map
    forks,    \* forks the target has spawned and not yet run
    target    \* target[a]: memories resurrected under the alias a at the target

vars == <<source, running, runs, task, wire, tag, pending, forks, target>>

Init ==
    /\ source = [a \in Agent |-> 1]
    /\ running = [a \in Agent |-> None]
    /\ runs = [a \in Agent |-> 1]
    /\ task = [r \in Request |-> IdleTask]
    /\ wire = [r \in Request |-> Closed]
    /\ tag = [a \in Agent |-> None]
    /\ pending = <<>>
    /\ forks = {}
    /\ target = [a \in Agent |-> {}]

Sent(cmd, seq) == [cmd |-> cmd, seq |-> seq, state |-> "sent"]
MemoryOf(r) == [of |-> task[r].agent, n |-> task[r].n]

-----------------------------------------------------------------------------
(* Executions at the source *)

\* An execution resumes the agent; its memory is registered when it is over,
\* whatever happened to the alias in between.
StartRun(a) ==
    /\ source[a] # None /\ running[a] = None /\ runs[a] <= MaxRuns
    /\ "busy" \in Circumstances \/ \A r \in Request : task[r].stage \in {"idle", "done", "failed"}
    /\ running' = [running EXCEPT ![a] = source[a]]
    /\ UNCHANGED <<source, runs, task, wire, tag, pending, forks, target>>

EndRun(a) ==
    /\ running[a] # None
    /\ runs' = [runs EXCEPT ![a] = @ + 1]
    /\ source' = [source EXCEPT ![a] = runs[a] + 1]
    /\ running' = [running EXCEPT ![a] = None]
    /\ UNCHANGED <<task, wire, tag, pending, forks, target>>

-----------------------------------------------------------------------------
(* TeleportRequest::execute *)

Idle == \A r \in Request : task[r].stage \in {"idle", "done", "failed"}

\* resolve_local and snapshot: the memory that will be moved, if the alias is
\* registered here.
Capture(r) ==
    /\ task[r].stage = "idle"
    /\ "overlap" \in Circumstances \/ Idle
    /\ \E a \in Agent, p \in Path :
          /\ "busy" \in Circumstances \/ running[a] = None
          /\ task' = [task EXCEPT ![r] =
                [stage |-> IF source[a] = None THEN "failed" ELSE "captured",
                 path |-> p, agent |-> a, n |-> source[a]]]
    /\ UNCHANGED <<source, running, runs, wire, tag, pending, forks, target>>

\* export_manifest resolves the alias again; then the permission is checked.
Check(r) ==
    /\ task[r].stage = "captured"
    /\ IF source[task[r].agent] = None \/ task[r].agent \notin Movable
       THEN task' = [task EXCEPT ![r].stage = "failed"] /\ UNCHANGED wire
       ELSE IF task[r].path = "registry"
       THEN task' = [task EXCEPT ![r].stage = "push"] /\ UNCHANGED wire
       ELSE /\ task' = [task EXCEPT ![r].stage = "sending"]
            /\ wire' = [wire EXCEPT ![r] = Sent("handshake", 0)]
    /\ UNCHANGED <<source, running, runs, tag, pending, forks, target>>

\* push_state under a tag that only depends on the agent.  When it does not
\* return Ok, the registry may still have accepted the state.
Push(r) ==
    /\ task[r].stage = "push"
    /\ \/ /\ tag' = [tag EXCEPT ![task[r].agent] = task[r].n]
          /\ task' = [task EXCEPT ![r].stage = "sending"]
          /\ wire' = [wire EXCEPT ![r] = Sent("notice", 0)]
       \/ /\ Circumstances \cap {"network", "hangup"} # {}
          /\ tag' \in {tag, [tag EXCEPT ![task[r].agent] = task[r].n]}
          /\ task' = [task EXCEPT ![r].stage = "failed"]
          /\ UNCHANGED wire
    /\ UNCHANGED <<source, running, runs, pending, forks, target>>

\* Mutant: one chunk too many.
FollowingTooMany(w) ==
    CASE w.cmd = "handshake" -> Sent("payload", 0)
      [] w.cmd = "payload" -> IF w.seq < Chunks THEN Sent("payload", w.seq + 1)
                                                ELSE Sent("commit", 0)
      [] OTHER -> Closed

\* The command that follows an acknowledged one.
Following(w) ==
    CASE w.cmd = "handshake" -> Sent("payload", 0)
      [] w.cmd = "payload" -> IF w.seq + 1 < Chunks THEN Sent("payload", w.seq + 1)
                                                    ELSE Sent("commit", 0)
      [] OTHER -> Closed

\* send_command returns Ok: the next command, or the end of the transfer.
Acked(r) ==
    /\ task[r].stage = "sending" /\ wire[r].state = "acked"
    /\ wire' = [wire EXCEPT ![r] = Following(wire[r])]
    /\ task' = [task EXCEPT ![r].stage =
                   IF Following(wire[r]) = Closed THEN "purge" ELSE "sending"]
    /\ UNCHANGED <<source, running, runs, tag, pending, forks, target>>

\* send_command returns an error because the target closed the connection.
Refused(r) ==
    /\ task[r].stage = "sending" /\ wire[r].state = "refused"
    /\ task' = [task EXCEPT ![r].stage = "failed"]
    /\ wire' = [wire EXCEPT ![r] = Closed]
    /\ UNCHANGED <<source, running, runs, tag, pending, forks, target>>

\* The request ends at the source whatever its command meets at the target: a
\* command under way is dropped or still arrives.
Abandon(r) ==
    /\ task' = [task EXCEPT ![r].stage = "failed"]
    /\ \/ wire' = [wire EXCEPT ![r] = Closed]
       \/ wire[r].state = "sent" /\ UNCHANGED wire
    /\ UNCHANGED <<source, running, runs, tag, pending, forks, target>>

\* send_command returns an error because the connection failed, before or
\* after the target handled the command.
Disconnect(r) ==
    /\ "network" \in Circumstances
    /\ task[r].stage = "sending"
    /\ Abandon(r)

\* The API client goes away and handle_teleport is dropped at an await.
HangUp(r) ==
    /\ "hangup" \in Circumstances
    /\ task[r].stage \in {"captured", "push", "sending", "purge"}
    /\ Abandon(r)

\* Mutant: the agent is purged as soon as the transfer starts.
PurgeEarly(r) ==
    /\ task[r].stage = "sending"
    /\ source' = [source EXCEPT ![task[r].agent] = None]
    /\ task' = [task EXCEPT ![r].stage = "done"]
    /\ UNCHANGED <<running, runs, wire, tag, pending, forks, target>>

\* Mutant: the agent stays registered.
PurgeNothing(r) ==
    /\ task[r].stage = "purge"
    /\ task' = [task EXCEPT ![r].stage = "done"]
    /\ UNCHANGED <<source, running, runs, wire, tag, pending, forks, target>>

\* publish_dht_route, whose result is ignored, and deregister.
Purge(r) ==
    /\ task[r].stage = "purge"
    /\ source' = [source EXCEPT ![task[r].agent] = None]
    /\ task' = [task EXCEPT ![r].stage = "done"]
    /\ UNCHANGED <<running, runs, wire, tag, pending, forks, target>>

-----------------------------------------------------------------------------
(* HiveServer: one connection task per command *)

Reply(r, state) == wire' = [wire EXCEPT ![r].state = state]

\* The map iterates in an order that depends on the hashes of its keys: a new
\* key may land anywhere.
Inserted(e) ==
    {SubSeq(pending, 1, i) \o <<e>> \o SubSeq(pending, i + 1, Len(pending)) :
        i \in 0..Len(pending)}

HandleHandshake(r) ==
    /\ wire[r].cmd = "handshake"
    /\ pending' \in Inserted([agent |-> task[r].agent, chunks |-> <<>>])
    /\ Reply(r, "acked")
    /\ UNCHANGED forks

\* Mutant: a chunk that belongs to no migration is not acknowledged.
HandlePayloadSilently(r) ==
    /\ wire[r].cmd = "payload"
    /\ pending # <<>>
    /\ pending' = [pending EXCEPT ![Len(pending)].chunks =
                      Append(@, [seq |-> wire[r].seq, mem |-> MemoryOf(r)])]
    /\ Reply(r, "acked")
    /\ UNCHANGED forks

\* The chunk goes to the last migration of the table, if there is one.
HandlePayload(r) ==
    /\ wire[r].cmd = "payload"
    /\ IF pending = <<>>
       THEN UNCHANGED pending
       ELSE pending' = [pending EXCEPT ![Len(pending)].chunks =
                           Append(@, [seq |-> wire[r].seq, mem |-> MemoryOf(r)])]
    /\ Reply(r, "acked")
    /\ UNCHANGED forks

\* Where the chunks with sequence number k arrived.
Numbered(chunks, k) == {i \in 1..Len(chunks) : chunks[i].seq = k}

\* The concatenation starts with the complete encoding of m; what follows it is
\* ignored by bincode.  The sort by sequence number is stable: of the chunks with
\* the last number the first to arrive counts.
StartsWith(chunks, m) ==
    /\ \A k \in 0..(Chunks - 2) : \E i \in 1..Len(chunks) :
          Numbered(chunks, k) = {i} /\ chunks[i].mem = m
    /\ \E i \in Numbered(chunks, Chunks - 1) :
          /\ chunks[i].mem = m
          /\ \A j \in Numbered(chunks, Chunks - 1) : i <= j

\* The concatenation is a proper prefix of the encoding of one memory: bincode
\* finds the input too short.
Truncated(chunks) ==
    /\ Len(chunks) < Chunks
    /\ \A i \in 1..Len(chunks) : /\ chunks[i].mem = chunks[1].mem
                                 /\ \E j \in 1..Len(chunks) : chunks[j].seq = i - 1

\* What deserialization may yield; NoAgent stands for an error.
Decoded(chunks) ==
    LET whole == {m \in {chunks[i].mem : i \in 1..Len(chunks)} : StartsWith(chunks, m)}
    IN  IF whole # {} THEN whole
        ELSE IF Truncated(chunks) THEN {NoAgent} ELSE {NoAgent, Garbage}

\* The commit takes the first migration of the table.  A failed decoding
\* leaves the table without the migration and closes the connection.
HandleCommit(r) ==
    /\ wire[r].cmd = "commit"
    /\ IF pending = <<>>
       THEN Reply(r, "acked") /\ UNCHANGED <<pending, forks>>
       ELSE /\ pending' = Tail(pending)
            /\ \E m \in Decoded(Head(pending).chunks) :
                  IF m = NoAgent
                  THEN Reply(r, "refused") /\ UNCHANGED forks
                  ELSE /\ Reply(r, "acked")
                       /\ forks' = forks \cup {[by |-> r, agent |-> Head(pending).agent, mem |-> m]}

\* Mutant: a tag shared by all agents.
PulledAny(a) == {[of |-> b, n |-> tag[b]] : b \in {c \in Agent : tag[c] # None}}

\* pull_state: the registry's content under the tag of the agent.
Pulled(a) == {[of |-> b, n |-> tag[b]] : b \in {c \in {a} : tag[c] # None}}

HandleNotice(r) ==
    /\ wire[r].cmd = "notice"
    /\ \/ /\ \E m \in Pulled(task[r].agent) :
                forks' = forks \cup {[by |-> r, agent |-> task[r].agent, mem |-> m]}
          /\ Reply(r, "acked")
       \/ "network" \in Circumstances /\ Reply(r, "refused") /\ UNCHANGED forks
    /\ UNCHANGED pending

Handle(r) ==
    /\ wire[r].state = "sent"
    /\ HandleHandshake(r) \/ HandlePayload(r) \/ HandleCommit(r) \/ HandleNotice(r)
    /\ UNCHANGED <<source, running, runs, task, tag, target>>

\* The spawned task executes from the imported snapshot under the alias of the
\* manifest.  Nobody looks at its result.
Resurrect(f) ==
    /\ \/ target' = [target EXCEPT ![f.agent] = @ \cup {f.mem}]
       \/ ("fork" \in Circumstances \/ f.mem = Garbage) /\ UNCHANGED target
    /\ forks' = forks \ {f}
    /\ UNCHANGED <<source, running, runs, task, wire, tag, pending>>

\* The target restarts.  Its table is in memory only, and so are its agents: to
\* lose those is no matter of the transfer, so the bound is that it has none yet.
Restart ==
    /\ "restart" \in Circumstances
    /\ forks = {} /\ \A a \in Agent : target[a] = {}
    /\ pending' = <<>>
    /\ wire' = [r \in Request |->
                  IF wire[r].state = "sent" THEN [wire[r] EXCEPT !.state = "refused"]
                                            ELSE wire[r]]
    /\ UNCHANGED <<source, running, runs, task, tag, forks, target>>

-----------------------------------------------------------------------------
Teleporting(r) == Check(r) \/ Push(r) \/ Acked(r) \/ Refused(r) \/ Purge(r)

Next == \/ \E a \in Agent : StartRun(a) \/ EndRun(a)
        \/ \E r \in Request :
              Capture(r) \/ Teleporting(r) \/ Disconnect(r) \/ HangUp(r) \/ Handle(r)
        \/ \E f \in forks : Resurrect(f)
        \/ Restart

Spec == Init /\ [][Next]_vars

\* The runtime polls every task until it is done.  Nothing obliges the network
\* to fail or a client to hang up.
Fairness == /\ \A r \in Request : WF_vars(Teleporting(r)) /\ WF_vars(Handle(r))
            /\ WF_vars(\E f \in forks : Resurrect(f))

FairSpec == Spec /\ Fairness

-----------------------------------------------------------------------------
(* Properties *)

Fork == [by : Request, agent : Agent, mem : Memory \cup {Garbage}]

TypeOK ==
    /\ source \in [Agent -> Nat] /\ running \in [Agent -> Nat] /\ tag \in [Agent -> Nat]
    /\ runs \in [Agent -> Nat \ {0}]
    /\ task \in [Request -> Task]
    /\ wire \in [Request -> Wire]
    /\ pending \in Seq([agent : Agent, chunks : Seq(Chunk)])
    /\ forks \subseteq Fork
    /\ target \in [Agent -> SUBSET (Memory \cup {Garbage})]

Arrived(a) == target[a] \cup {f.mem : f \in {g \in forks : g.agent = a}}

\* "Serialize an agent's Wasm memory + VFS state ... Deserialize and resume on
\* the target node": what is resumed under an alias is that agent's memory.
Authentic ==
    \A a \in Agent : \A m \in Arrived(a) : m # Garbage /\ m.of = a

\* "Purge local if successful": an agent is always somewhere, at the source, in
\* a task that is about to register it, or at the target.
Survives ==
    \A a \in Agent :
        \/ source[a] # None \/ running[a] # None
        \/ \E m \in Arrived(a) : m # Garbage /\ m.of = a

\* Split-brain prevention: when nothing is in flight an agent is not registered
\* on both nodes.
AtRest == /\ Idle /\ forks = {}
          /\ \A r \in Request : wire[r].state # "sent"
          /\ \A a \in Agent : running[a] = None
NoSplitBrain ==
    AtRest => \A a \in Agent : source[a] = None \/ target[a] = {}

\* Atomic handoff: an agent that has left the source is resumed from its last
\* execution, not from an earlier one.
LastStateMoves ==
    AtRest => \A a \in Agent :
        source[a] = None => [of |-> a, n |-> runs[a]] \in target[a]

\* A teleport request that has started gets a receipt or an error.
EveryTeleportEnds ==
    \A r \in Request : task[r].stage # "idle" ~> task[r].stage \in {"done", "failed"}
=============================================================================
