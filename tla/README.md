# Trytet in TLA+

This directory is the formal side of the Trytet repository: TLA+ modules that
model the parts of a node where interleaving, failure and accounting decide
whether the program is right, the TLC configurations that check them on small
instances, and theorems that TLAPS proves for instances of any size.

Everything is translated from the Rust sources under `src/src/`; the paths
below are relative to that directory. `PROJECT.json` maps each definition to
the lines it stands for and lists every hazard at the line where it bites.

    tlc -workers 2 -config MeshCalls.cfg MCMeshNode.tla    # any run of the table in section 4
    tlapm MeshNode_proofs.tla                              # the proofs, one module at a time

Contents: 1 the system, 2 the plan, 3 modules and code, 4 the runs, 5 bounds,
6 fairness, 7 what is proved, 8 what is only model-checked, 9 known
disagreements between the code and its documentation, 10 what is not modelled.

## 1. The system

A Trytet node runs agents ("tets"): WebAssembly guests with a fuel budget, a
virtual file system, a vector memory and an alias. An agent that has run is kept
as a snapshot and woken when somebody calls its alias. Guests reach the world
through host functions; nodes form a hive over TCP and exchange agents.

| component (files) | state | operations | interacts with | hard part | correct when | module |
| --- | --- | --- | --- | --- | --- | --- |
| Mesh (`mesh.rs`, `mesh_worker.rs`) | registry: alias to a list of replicas; one bounded channel; a oneshot per call | register, resolve, remove_by_snapshot, deregister, send_call, send_fork, send_economy_packet; the worker loop | every guest, every API task, the hive server | one worker executes calls inline and asks the peers inline; producers wait for room | a name leads to a replica that can be woken, to none that was superseded; every call is answered | `MeshNode` |
| Sandbox pipeline (`sandbox/sandbox_wasmtime.rs`, `engine.rs`) | snapshots, active_memories, vouchers | execute (instantiate, run, register, store memory, store snapshot, prune, hibernate), snapshot, fork, import, query_memory, export_manifest | the mesh registry; host functions | seven lock acquisitions per execution, other tasks between any two, an API task dropped at any of them; a read guard held while peers are asked | what the registry says can be woken is stored and found; nothing comes back that was replaced | `MeshNode`, `Snapshots` |
| Mesh host functions (`sandbox/host_api/inter_agent_invoke.rs`, `economy_*.rs`, `reclaim.rs`, `fork.rs`) | fuel of the guest, fuel_to_burn_from_parent | invoke, pay, withdraw, bill, reclaim, fork | the channel | a caller keeps its fuel while the callee runs | a call chain never uses or bills more than was allocated | `MeshNode` |
| API handlers (`api/handlers/all.rs`) | none of their own | execute, snapshot, fork, top-up, cartridge invoke, teleport, keys, benchmark | everything | legal sequences of several requests | each request leaves the node consistent | the module of what they call |
| Teleport (`teleport.rs`, `hive.rs`, `hive/connection.rs`) | `MigrationManager.pending`; the registry's tag | handshake, payload, commit; push and notice; resurrect | sandbox of both nodes, registry client | packets name no migration; acknowledgements can be lost; the source may run the agent meanwhile | an agent is neither lost, nor doubled, nor mixed up, nor set back | `Teleport` |
| Vector memory (`memory.rs`, `shards.rs`, `host_api/memory_ops.rs`) | layers (tier 1, tier 2), handles with tombstones, handle counts, files | remember, forget, recall, spawn_cow_child, compaction, serialize, drop | the sandbox's snapshots | a compaction beside writers; layers shared by relatives | what was remembered is recalled, what was forgotten is not, relatives diverge | `VectorMemory` |
| Cartridges, egress, models, sessions (`cartridge.rs`, `fortress.rs`, `oracle.rs`, `model_proxy.rs`, `inference.rs`, `sandbox/host_api/{cartridge_invoke,fetch,model_ops,predict}.rs`) | compiled cache; usage per tenant; answers recorded in the work directory; node-wide sessions | invoke_component, precompile, fetch, model_predict, model_load, predict, restore | guest fuel, HTTP, snapshots (records travel with them) | test, await, record; the refund depends on the kind of failure; sessions are copied, changed and written back | what is rendered is paid for, quotas hold, a lineage hears one answer per question, sessions are whole | `GuestServices` |
| Economy (`economy.rs`, `economy/*.rs`, `consensus.rs`) | nonces, balances, deposits, votes | verify_and_claim, transfer, mint, process_deposit | sandbox pre-flight | transfer holds the nonce lock to its end, mint and readers do not take it; claimed nonces live in memory | no fuel is created or spent twice | `Vouchers`, `FuelLedger` |
| Market (`market.rs`, `host_api/equilibrium.rs`, `host_api/migration.rs`) | bids per node, the agent's target | process_bid, find_best_arbitrage, seek_equilibrium | hive, teleport | bids overtake each other and never expire | an agent is not sent back and forth | `Market` |
| Vitality (`network/vitality.rs`) | last-seen times and status of peers | record_heartbeat, calculate_unresponsive | hive | late heartbeats, a clock that is set back, a sweep beside both | the verdict follows the silence, a death is reported once | `Vitality` |
| Gateway and ingress (`gateway.rs`, `api/handlers/all.rs`, `host_api/gateway_listen.rs`, `hive/dht.rs`) | two route tables, registries of aliases | listen, handle_request, resolve_alias, proxy | mesh worker, peers | a read guard held until a guest has answered | requests reach the route and the alias they name; no guest waits for a request that waits for the guest's worker | `Ingress` |
| Hive connections (`hive.rs`, `hive/connection.rs`, `hive/link.rs`, `network/tunnel.rs`) | the two ends of a connection, the tunnel's counters | dial, handshake, seal, send, process, answer | everything that talks to a peer | no timeouts, either end may vanish, limits on both ends | success means the command was carried out (a live migration's failure is acknowledged all the same); the ends never wait for each other | `Tunnel` |
| OCI client (`registry/oci.rs`) | blobs and tags of a registry | push, pull | teleport, CLI | partial uploads, shared blobs, a registry that loses or damages | a pulled artifact is whole | `OciRegistry` |
| Artifact stores (`registry/identity.rs`, `registry/mod.rs`, `server/purge.rs`) | files | push_artifact, sweep, pull_artifact, push, pull, hourly purge | file system | truncate-then-write, look-then-read, look-then-remove | the cache is bounded; an undisturbed pull finds the last push | `ArtifactStores` |
| API keys (`auth.rs`) | key records | create, revoke, has_keys, validate | middleware | two looks at a table that changes; the open mode without keys | every admission and refusal is justified | `Keys` |
| MCP server (`mcp/server.rs`) | compiled cache, tools, a call per lane | tools/call over stdio and HTTP, ensure_loaded | cartridges, disk | concurrent loads of a cartridge whose file changes | a tool that works is not taken away | `ToolServer` |
| Context router (`api/context/*.rs`) | a session's blocks | optimize, three strategies | API | rounding, ties, which block goes | what is returned fits and loses no more than it must | `ContextRouter` |
| Llama backend, telemetry, server start, health, console, studio, builder, crypto, configuration, benchmarks, command line, TUI, resurrection, recovery | - | - | - | pure, sequential, or I/O | - | none |

The hard behaviours are those of tasks of a multi-threaded tokio runtime that
interleave between any two lock acquisitions or awaits (`MeshNode`, `Snapshots`,
`Ingress`, `FuelLedger`), of two nodes and an unreliable network (`Teleport`,
`Tunnel`, `OciRegistry`), of background work beside readers and writers
(`VectorMemory`, `ArtifactStores`, `Vitality`), and of values that are looked at
first and used later (`GuestServices`, `Vouchers`, `Keys`, `ToolServer`).

## 2. The plan

| order | module | what | status |
| --- | --- | --- | --- |
| 1 | `AgentStore` | abstract: what a node promises about versions of agents | done |
| 2 | `MeshNode` | registry, channel, worker, execution pipeline, mesh host functions; implements `AgentStore` | done, proved in `MeshNode_proofs` |
| 3 | `Teleport` | both teleport paths of two nodes | done, proved in `Teleport_proofs` |
| 4 | `VectorMemory` | layers, tombstones, compaction, copy-on-write, snapshots | done, proved in `VectorMemory_proofs` |
| 5 | `GuestServices` | what guests pay for: egress, models, cartridges; the inference sessions | done, proved in `GuestServices_proofs` |
| 6 | `Ledger`, `FuelLedger` | abstract: atomic payments; the ledger that implements them with locks | done, proved in `Economy_proofs` |
| 7 | `Vouchers`, `Market` | the pre-flight guard and the claimed nonces, with restarts; bids and moves | done, proved in `Economy_proofs` |
| 8 | `Vitality`, `Ingress`, `Tunnel` | the hive around the node | done, proved in `Hive_proofs` |
| 9 | `OciRegistry`, `ArtifactStores` | artifacts | done, proved in `Artifacts_proofs` |
| 10 | `Keys`, `Snapshots`, `ToolServer`, `ContextRouter` | what requests meet in a node | done, proved in `Requests_proofs` |
| 11 | `MCNode` | the parts that share no variable, together | done, proved in `Hive_proofs` |

Composition: `MeshNode` is shown to implement `AgentStore`, `FuelLedger` to
implement `Ledger`. `Teleport` abstracts a node's executions to the number of the
last one, which is what `AgentStore` allows it to do; `VectorMemory` is the part
of a snapshot that the other modules treat as one opaque memory; `Snapshots`
takes the end of an execution from `MeshNode` and puts beside it what
`MeshNode` has in outline only, the look-ups that hold the lock of `active_memories`;
`Tunnel` is the exchange that one command of `Teleport`, `Market`, `Vitality` or
`Ingress` makes.

## 3. Modules and code

### MeshNode

One node. Tasks are API tasks (`Client`), tasks the worker spawns for forks
(`Forked`) and the `Worker` of `spawn_mesh_worker`. A task is in at most one
execution, its `frame`; the frame's stage says how far
`WasmtimeSandbox::execute` has come:

    boot -> run <-> send/await -> ran -> registered -> stored -> snapped -> pruned -> idle
    asking -> idle      (an alias this node does not know: the peers are asked)

| action | code |
| --- | --- |
| `ExecuteRequest` | `handle_execute` and `handle_fork`: a payload, or the id of a copy that a snapshot or a top-up made, under any name, with any fuel and depth, as often as the client likes |
| `SnapshotRequest`, `TopUpRequest` | `handle_snapshot`; `handle_topup` up to the execution it starts |
| `CallRequest` | `handle_cartridge_invoke` and the gateway's mesh call |
| `Disconnect` | the client hangs up and the server drops its task at the await it stands at |
| `Boot` | `execute_inner` up to the start of the guest: depth check, compile, instantiate, each may fail |
| `Compute`, `Return` | the guest burns fuel; it returns, traps, suspends or runs out of fuel |
| `Invoke`, `TakeReply` | `trytet::invoke` before and after `send_call` |
| `Pay`, `Notify`, `Fork` | `trytet::pay` and `withdraw`; `bill` and `reclaim`; `trytet::fork` |
| `Enqueue` | the send on the bounded channel, which waits for room |
| `RegisterActive`, `StoreMemory`, `StoreSnapshot`, `RemoveParent`, `Hibernate` | the lock acquisitions after the guest, in the order of the code |
| `Dequeue` | one turn of the worker's loop (`ServeCall`, `ServeFork`, `ServePacket`) |
| `PeersAnswer` | the end of `TetMesh::resolve` for an alias unknown here |

Fresh uuids are numbered by `nextId`; the tet id of an execution and the id of its
automatic snapshot are two fresh ids in the code and one number here. `superseded` and
`dropped` are history variables. A guest program is any sequence of steps; a step needs
fuel and takes one unit. The runtime checks fuel at function entries and loop headers
only, so "a step" is a stretch of code between two checks.

Facts of the code the model follows: the worker drops the payload of an RPC and
resumes the callee from its snapshot (`mesh_worker.rs:39-48`); an alias that is not
registered here is looked for with the peers, one after the other and without a
timeout (`mesh.rs:131-145`, `hive.rs:345`), by the worker inside its loop and by API
tasks that hold the read guard of `active_memories` meanwhile (so `StoreMemory` waits
for them), and in the end not found, because the answer of `connection.rs:107-115`
is plain while `hive.rs:392-396` decrypts it; a TLS peer's answer that can be read
names a snapshot this node does not have; the host functions deduct what they
transfer before they send.

A client that hangs up between the registration of its execution as active
(`sandbox_wasmtime.rs:576`) and the next one (`:751`) leaves an entry without a
snapshot, which nothing ever removes: `dropped` remembers these executions, and
`QuietAliasIsCallable` says that they are the only way to such an entry.

Simplifications: the id of an automatic snapshot is never told to a client, so a
request can name `Copies` only; a fork requested by a guest goes to the alias of the
guest, where the code takes the name in its manifest (`fork.rs:29`); the model takes the two
to be the same.

### AgentStore

Versions of agents: `Deploy` adds a replica, `Advance` replaces the version of a
replica by the next one in a single step, and a version is live at most once.
`MeshNode!Store` instantiates it: the live versions of an alias are the snapshots
of its hibernating entries, plus the one the worker has already removed and is
about to replace (`stage = "pruned"`).

### Snapshots

The look-ups of the API, the tool server and teleport (`snapshot`,
`query_memory`, `export_manifest`) beside the ends of executions. All of them
read `active_memories` under one fair lock; a look-up keeps its read guard while
it asks the mesh who an alias is, and the mesh then asks the peers one after the
other. `queue` and `readers` are that lock, `QueueWriter` and `PutMemory` the
write of an execution's end, `LookUp`, `AskPeer`, `NobodyKnows` the search. A
peer that does not answer therefore stalls every execution that ends; the model
shows it and no property forbids it.

### Teleport

Two nodes. `task[r]` is a teleport request at the source, `wire[r]` the
connection of its current command, `pending` the target's table of migrations,
`forks` the resurrections it has spawned, `tag` the registry's content.
`Circumstances` says what may happen besides undisturbed transfers, so that a run
can state exactly under which conditions a property holds: `overlap`, `busy`,
`network`, `hangup`, `fork`, `restart`. `MCTeleport` puts two scenes in one
instance: the quiet one, whose circumstances the cfg gives, and a troubled one on
the registry path.

Simplifications: one replica per alias at the source; the manifest's name, under which
the target resumes an agent (`connection.rs:248`, `:340`), is taken to be the alias that
is moved; a restart of the target is bounded to the time before it has agents, since
what a restart does to resident agents is not the transfer's matter. A `MigrateRequest`
packet has no sender in the repository and is left out.

### VectorMemory

Agents with a handle stack (`vfs[a].active`, `vfs[a].base`), layers with two
tiers, one worker per agent. `Admit` and `Insert` are the two halves of
`remember`, `TakeRequest`, `Visit` and `Swap` the steps of a compaction, `Flush`
and `Drop` the file of a frozen layer, `Resume` a snapshot and what
deserialization leaves of it. `latest` and `lineage` are history variables.

The similarity search is abstracted to an exact one: a query is the set of record
versions that match it. One collection is modelled; collections share nothing but the
layer's worker. `recall` takes five times its limit of neighbours from the index of a
tier 2 before it drops tombstones and duplicates (`memory.rs:300`), so that many
forgotten or stale neighbours can crowd out a live one; the model looks at all of them,
and its properties speak of a recall whose limit is not reached. A `remember` in a
resumed store, which has no shards, panics (`memory.rs:211`): in the model it changes
nothing of the memory; that the panic also ends the task that runs the guest, which may
be the mesh worker, is not modelled. `Resume` applies to stores without base layers,
because the sandbox never spawns by copy-on-write. Behaviours the model has and no
property forbids: a file written after the last handle was dropped stays on disk; a
tier-2 hit returns the oldest record of an id, with its old metadata; after a spawn the
parent's compaction requests may go to a worker that finds no collection, and
`is_compacting` then stays set.

### GuestServices

Executions (`run[e]`) of tenants, each with fuel, a work directory that holds the
recorded answers, and the image it leaves. A host function is cut where it awaits:
`Fetch` or `Predict` up to the question, `ServerAnswers`, `ProviderAnswers` or
`OutsideFails`, then `FetchReturns` or `PredictReturns` with the charges that come
after. `Consult` and `Resolve` look the question up in the directory first.
`FetchDenied` and `FetchRefused` are the policy and the quota; `InvokeComponent`
is the host function with the gift, the outcome (`Outcomes`) and the refund
(`Refund`), `Precompile` the cache. `InferBegins` and `InferEnds` are the two ends of
a prediction of the API on a copy of a session. `Start` takes the image of an
execution that ended, sessions included; `End` and `Cancel` leave one or none, and
`InferDropped` is the API client that leaves during its prediction.

A guest can write where the node keeps its records: the work directory is preopened
for it with all permissions, `oracle_cache` of every tenant included
(`sandbox_wasmtime.rs:318-325`, `:348-355`), and what is read back is not verified
(`oracle.rs:97-102`). `RewriteRecord` is that guest: it may delete a record, put in a
well-formed one of its own (`Forged`), or copy any record it finds (`Writable`), its
own tenant's or another's. `touched` remembers, along a lineage, which records were
rewritten; `Replays` and `TenantsApart` are about the others (`Intact`). So they say
what the host functions do, and not that an image keeps a secret from a guest that is
resumed from it: such a guest reads the files.

The outside world may answer anything: each of its answers is a new version, so
that "the same answer" is a statement about versions. `heard`, `sent`, `touched` and
`due` are history variables.

### FuelLedger and Ledger

`BeginTransfer` spends the nonce and keeps its lock; `Debit`, `Credit` and
`EndTransfer` follow with the entry lock of one account each, and `Mint` comes
between any two of them. `ConfirmDeposit` and `SettleDeposit` are
`process_deposit`: its proposal carries no signatures (`Signatures == 0`), so
there is never a majority. `Ledger` has atomic payments and refusals; the
refinement counts what is in flight as the receiver's and a nonce as spent when
its transfer is decided. Balances have no width here; in the code an addition that
passes 2^64 panics or wraps. Nothing under `src/src/` calls `transfer`, `mint` or
the bridge; tests do.

### Vouchers

`CheckVoucher` and `Claim` are the two parts of `verify_and_claim`, `Run` what
follows it in `execute`, `Restart` the loss of `used_nonces`. A voucher that is
not expired can be spent again after a restart; the properties say what holds in
one life and what holds across lives. `server/start.rs` starts nodes that do not
ask for vouchers; tests start nodes that do.

### Market

Bids are messages that overtake each other and get lost (`Announce`,
`ProcessBid`, `LoseBid`); `BestArbitrage` is `find_best_arbitrage` with its buffer of
15 %; `SeekEquilibrium` sets the target, `Migrate` or `Stay` is what comes of it.
Facts the model follows: the guest compares bids with its own id, not the node's,
so a bid that the node sent to itself counts; bids never expire and their
timestamp is not compared. Nothing under `src/src/` announces bids: that action is
external.

### Vitality

The clock counts units of 5 s and may be set back. `RecordHeartbeat` comes between
the entries of a sweep (`StartSweep`, `SweepEntry`). `silence` and `obituaries` are
history variables. Nothing under `src/src/` calls the sweep.

### Ingress

A node has two `Gateway`s: the sandbox makes one, with which guests register
routes, and the server makes another for its proxy handler (`wiring = "own"`);
tests give one gateway to both (`"given"`). `HandleRequest` takes the read guard of
a shard of the table and keeps it until the guest has answered (`EndRun`,
`CallFails`); `Listen` and `RegisterRoute` are the two halves of `listen`, the wait for
the write guard between them. `Resolution` is `resolve_alias` of the three
registries, `Proxy` the hop. `NeverStuck` says that no guest waits in `listen` for a
guard that the request it serves holds. No run checks it: as the node is wired
(`"own"`) no request gets as far as holding a guard, so it would say nothing there,
and with `"given"` it does not hold (section 9).

### Tunnel

One command over one connection: `Dial`, `Greet`, `SendCommand`, `TakeCommand`,
`ProcessCommand`, `TakeAnswer`; `Break` cuts what is on its way at any point, and
`ClientReadFails`, `ServerReadFails` are the ends of streams. A failing command ends
the connection before its answer, unless it is one of those whose failure is logged
and acknowledged (`acksFailure`): `handle_live_migration` writes its acknowledgement
whether or not `import_snapshot` succeeded (`connection.rs:313`). `SealedSize` is the
chunking of `encrypt_command`. The cryptography is a library's. TLS is configured
by tests only (`start.rs` passes none); the exchange inside it is the same. A TLS
client that met a plain server would wait with it for ever; that pairing is a
misconfiguration and not in the model.

### OciRegistry and ArtifactStores

`OciRegistry`: a push goes blob by blob (`CheckBlob`, `UploadBlob`) and ends with
`PutManifest`; a pull gets a manifest and then all blobs (`FetchBlob`), which it
verifies. The registry is external: it may fail before or after taking effect, and
lose or damage blobs (`Damage`); a blob that it has, damaged or not, is not
uploaded again. `ArtifactStores`: the block cache and the local store file
operation by file operation, with the sweep after a push (`Measure`, `Sweep`) and
the hourly purge (`StartPurge`, `LookAt`, `RemoveDoomed`). `fresh` and `faults` are
history variables. Facts the model follows: a push that fails leaves the cache over
its limit until a later sweep; a block that is missing is pulled as no bytes, with
success; the purge removes a file that was pushed anew after it had been found
old; tags that differ in `/` and `:` only share a file.

### Keys, ToolServer, ContextRouter

`Keys`: `Scan` is `has_keys`, entry by entry, `Validate` the middleware's second
look; keys come and go meanwhile. Without an active key requests pass, and that is
so again once the last key is revoked. `ToolServer`: `BeginCall`, `ReadCandidate`,
`Precompile`, `Invoke`, `EndCall` of a tool call; two lanes may load one cartridge at
the same time, so that it is compiled twice although `cartridge.rs:108` says "we do
it once". `ContextRouter`: `optimize` step by step (`Measured`, `Evict`, `Pruned`,
`TooLarge`) against a definition of its result without the loop
(`PrunedAsSpecified`). A text is its length; the code cuts texts at bytes, and
panics when that is inside a character (`api/context/router.rs:53`). When nothing
more can be evicted the error leaves the session pruned.

### MCNode

The twelve modules from `FuelLedger` to `Snapshots` share no variable. `MCNode`
extends them all and lets one, the `focus`, take steps while the others are in
their initial states: every behaviour of all of them together is one of each, and
each property is about one. `NodeTypeOK` is the type invariant of the part in
focus.

## 4. The runs

| run | module, cfg | question | outcome |
| --- | --- | --- | --- |
| mesh_calls | MCMeshNode, MeshCalls | executions, nested calls and packets of two clients who may hang up, lock by lock: types, no time travel, no alias stranded but by a hang-up, budget, no lost name | holds |
| mesh_replicas | MCMeshNode, MeshReplicas | replicas made by top-ups, forks, deployments and copies resumed under another name, woken concurrently: hibernating entries are stored; the node implements `AgentStore` | holds |
| mesh_answers | MCMeshNode, MeshAnswers | is every call answered while guests of the worker make no calls, or a peer silent for ever? | holds |
| nested_call | MCMeshNode, NestedCall | and when they do? | violated |
| top_up | MCMeshNode, TopUp | does the pruning prevent time travel after a top-up? | violated |
| teleport_safety | MCTeleport, TeleportSafety | undisturbed transfers one after the other on both paths: one place, last state (`QuietHandoff`); the registry path under overlap, executions, failing network, hang-ups, restarts: own memory, never lost (`Authentic`, `Survives`) | holds |
| teleport_ends | Teleport, TeleportEnds | does every teleport end, failures included? | holds |
| teleport_retry | Teleport, TeleportRetry | does a stream after a broken one carry its own memory? | violated |
| vector_memory | MCVectorMemory, VectorMemory | remember, forget, spawn, compact, drop, resume of three agents: all five properties | holds |
| vector_snapshot | MCVectorMemory, VectorSnapshot | does a memory survive a snapshot? | violated |
| guest_services | MCGuestServices, GuestServices | two executions of two tenants, one perhaps resumed from the other's image, with every service and guests that rewrite the recorded answers, beside two clients on one session: `Replays`, `TenantsApart`, `EgressWithinQuota`, `ServicesArePaid`, `HistoryInOrder` | holds |
| node | MCNode, Node | the twelve parts that share no variable, each with its properties (table below) | holds |

| property of `node` | part | says |
| --- | --- | --- |
| `BalancesFollowLog` | `FuelLedger` | a balance is what was minted plus what the audit log and the transfer under way moved |
| `ImplementsLedger` | `FuelLedger` | the ledger implements atomic, signed, covered payments with nonces spent once |
| `PaidOncePerLife` | `Vouchers` | two requests that passed in one life of a node hold vouchers of different nonces |
| `ExecutionsAreFunded` | `Vouchers` | the fuel of a paid execution comes from a signed voucher for this node that had not expired when it was checked |
| `NoFlapping` | `Market` | while all bids are current, an agent is not sent back to a node it left |
| `VerdictsFollowSilence` | `Vitality` | the status is what the longest silence calls for, a death is reported once |
| `NeverBothWait` | `Tunnel` | the two ends of an unbroken connection never wait for each other |
| `AnswersAreTrue` | `Tunnel` | reported success means carried out, but for commands whose failure is acknowledged; nothing above a limit is carried out |
| `HibernatingIsFound` | `Snapshots` | a look-up finds the memory of an agent that hibernates all along |
| `AdmissionsJustified` | `Keys` | an admitted request showed a key active at some moment of it, or none was active throughout |
| `ArtifactsWhole` | `OciRegistry` | what is pulled with success is complete and was pushed under that tag |
| `CacheBounded` | `ArtifactStores` | the cache is within its limit unless a push is under way or one failed without a later sweep |
| `QuietPulls` | `ArtifactStores` | a pull that nobody disturbs finds the last push |
| `MissesAreGenuine` | `ToolServer` | a tool that ran is not reported missing later |
| `PrunedAsSpecified` | `ContextRouter` | the result of `optimize`, said without its loop |

What the passing runs show of the code, and what would break it: the order of
the five steps after a guest matters (a call must not find an entry that says
"hibernating" before memory and snapshot are stored), the active registration
before the pruning is what keeps the name, the second `retain` of the pruning is
what keeps old memory away; the nonce that is spent before anything else is what
makes a transfer happen once; the manifest that is put last is what makes an
artifact whole; the answer that is recorded before it is returned is what makes a
resumed agent hear the same. Each property has a mutant, an operator of the module
that changes one definition the way a plausible bug would, and TLC finds the
property violated with it.

## 5. Bounds

Every bound is a constant or is named in a comment at the action it limits.

- Mesh (`MaxFuel`, `MaxRequests`, one fork in flight). `MeshCalls`: three requests of
  two clients on one alias make two replicas of it and a call, a deployment and two
  calls that race for one replica, or one that is dropped half-way beside another that
  ends; what one call may burn of another's fuel does not depend on names, and
  `MeshReplicas` has two aliases; fuel 2 pays for a call and leaves something to lend.
  `MeshReplicas`: three requests of one client, who may leave each of them running,
  deploy, copy and resume the copy under the other name, with a guest's fork and the
  worker beside it. `Capacity = 1` makes every producer wait (the channel is full
  after one message). `MaxDepth = 5` is the code's; `InputDepth` contains 5 where the
  depth limit must bite (`MeshAnswers`), because a request body may carry a depth of
  its own.
- Teleport (`MaxRuns`, one try per `Request`, `Chunks`): two chunks are the least
  that can be interleaved or truncated; three sequential requests move two agents
  and repeat one; in the troubled scene two overlapping ones share the table,
  whose iteration order is arbitrary.
- Vector memory (`MaxWrites`, `MaxLayers`): `Cap = 1` makes every second write ask
  for a compaction; five layers allow two spawns, so a grandchild, or two children
  of one parent; three writes put an id in tier 2, tier 1 and a base layer.
- Guest services: `Budget = 2` pays for one fetch of price 2 or for two of the cheaper
  services, so that fuel runs out between a charge and the next; `Limit = {2}` is a
  quota that a request and its response use up, and that a second request beside the
  first reaches before its response; `MaxCalls = 3` asks a question, resumes and asks it
  again beside another execution; two predictions (`MaxInfers`) on one session lose an
  update.
- Ledger: two accounts, two payers, two nonces, `MaxSupply = 2` per account: a
  transfer each way, a refused one, and mints in between; clusters of 0, 1 and 3.
- Vouchers: three requests, two nodes, vouchers that share a nonce, one expired
  after `MaxTime`'s one tick, one unsigned; one restart per node (`MaxLife`).
- Market: two nodes are enough to go back and forth; one change of a price
  (`MaxChanges`) and two bids on their way (`MaxBids`) let an old bid overtake a new
  one. Of costs 50, 100 and 200 any two are apart by more than the buffer.
- Vitality: two nodes, a clock of 0 to 4 (dead is 3), set to any value at any time.
- Ingress: two requests, one agent, one path in front of another, one run that no
  request asks for; all kinds of registry and both wirings.
- Keys: two keys with one prefix, so that a revocation may take either, and two
  requests. `OciRegistry`: two artifacts that share a blob, one tag, one push of each of
  two pushers, one blob damaged. `ArtifactStores`: blocks of sizes 1, 2 and 3 in a cache
  of 1 (`CacheLimit`), so that one fits, one does not and one is larger than what is
  left to subtract it from; totals wrap at 8 (`Wrap`, 2^64 in the code), which the
  removal of a block reaches that was being written when the total was taken; one shared
  tag file, one push per writer.
- `ToolServer`: one built-in cartridge and one registered later, two candidate
  files, one stdio lane and one HTTP lane, two changes on disk.
- `ContextRouter`: all sessions of up to three blocks (`MaxBlocks`) with lengths 0, 20
  and 60 and windows of 10, 20 and 40 tokens: sessions that fit, that fit after cutting,
  that lose one or more blocks, and that cannot fit.
- `Tunnel`: one connection; chunks of 4 bytes, limits 9 and 10, and commands on both
  sides of each, of every kind of answer, that succeed, fail, or fail and are
  acknowledged. `Snapshots`: two executing tasks, one look-up, one peer, four ids
  (`MaxId`): an execution that hibernates, a fork of it, and the look-up's own
  snapshot. Of executions, a look-up may name the latest.

Symmetry is used for agents, aliases, clients, requests, executions and tenants
that no property tells apart, and never in a run with a liveness property.
`CHECK_DEADLOCK FALSE` is given where all requests are bounded and everything
comes to rest.

## 6. Fairness

`MeshNode`: weak fairness of every step of every task and of `Dequeue`, because
the runtime polls every runnable task again and fuel stops every guest; strong
fairness of `Enqueue`, because the senders of a tokio mpsc channel wait in a
first-come, first-served queue, so a sender cannot be overtaken for ever although
the channel keeps filling. Requests are not fair: clients may stop. Peers are not fair
either: `PeersAnswer` may never come, since `rpc_call` has no timeout (`mesh.rs:131`,
`hive.rs:345`), and a peer that accepts a connection and says nothing stalls the
worker, and with it every caller, for ever; so does one asked by a client's request,
which holds the lock that executions store their memory under. `EveryCallAnswered`
therefore says that every call is answered, or some task asks a peer for ever. In its
first part it is a statement about everything else that could keep a caller waiting: the
channel, refusals, the depth limit, hang-ups and the pipeline.

`Teleport`: weak fairness of the source's steps, of the target's handlers and of
resurrections. Network failures, hang-ups, restarts and executions are not fair:
nothing forces them, and nothing forces them to stop. `Acked` and `Refused` are
part of the source's steps: a command that arrived is answered, because the
target closes the connection at the latest. There is no timeout in
`send_command`; a network that is silent for ever without an error is therefore
not a behaviour of the fair specification, and the code would wait for ever in
it.

The other modules state safety only. Where waiting could be for ever, in `Tunnel`,
the property (`NeverBothWait`) says that the ends do not wait for each other; that a
wait ends would need fairness of a network, which nothing in the code has.

## 7. What is proved

Every safety invariant, action property and refinement that a passing run checks is
also a theorem, for every value of the constants that satisfies the named assumption
of its module. The two liveness properties are not (section 8). The eight proof
modules:

| module | theorem | statement |
| --- | --- | --- |
| `MeshNode_proofs` | `TypeCorrect` | `Spec => []TypeOK`, the capacity of the channel included |
| | `HibernatingCorrect` | `Spec => []HibernatingIsStored` |
| | `CallableCorrect` | `Spec => []QuietAliasIsCallable`, hang-ups included |
| | `AliasCorrect` | `Spec => AliasNeverLost` (an action property) |
| | `TimeTravelNeedsACopy` | if `ClientOps` has neither `"snapshot"` nor `"topup"`, `Spec => []NoTimeTravel` |
| | `BudgetCorrect` | `Spec => []WithinBudget` |
| | `StoreImplemented` | `Spec => ImplementsStore`: the node implements `AgentStore` |
| `Teleport_proofs` | `TypeCorrect` | `Spec => []TypeOK` |
| | `RegistryMovesAreGenuine` | on the registry path, whatever goes wrong, `Spec => []Authentic` |
| | `RegistryMovesLoseNobody` | the same, if no fork fails, `Spec => []Survives` |
| | `QuietMoves`, `QuietHandoffs` | undisturbed, on both paths: `Authentic`, `Survives`, `NoSplitBrain`, `LastStateMoves`, and `QuietHandoff` of the scenes TLC runs |
| `VectorMemory_proofs` | `TypeCorrect` | `Spec => []TypeOK` |
| | `RecallFindsRemembered`, `ForgettingLasts` | `Spec => []RecallsRemembered`, `Spec => []ForgottenStaysForgotten` |
| | `KnowledgeStaysApart`, `HeldLayersSurvive` | `Spec => []KnowledgeDiverges`, `Spec => []HeldLayersStayOnDisk` |
| `GuestServices_proofs` | `TypeCorrect` | `Spec => []TypeOK` |
| | `ReplaysAlways`, `TenantsApartAlways` | `Spec => []Replays`, `Spec => []TenantsApart`, with guests that rewrite records |
| | `EgressStaysWithinQuota`, `ServicesArePaidAlways` | `Spec => []EgressWithinQuota`, `Spec => []ServicesArePaid` |
| | `HistoriesStayInOrder` | `Spec => []HistoryInOrder` |
| `Economy_proofs` | `LedgerInvariance`, `LedgerTypeCorrect` | one transfer at a time; balances never below zero |
| | `LedgerImplemented` | `Spec => ImplementsLedger`: the refinement |
| | `BalancesAreExplained` | `Spec => []BalancesFollowLog` |
| | `OnePaymentPerVoucher`, `PaidExecutionsAreFunded` | `VoucherSpec => []PaidOncePerLife`, `... []ExecutionsAreFunded` |
| | `MarketTypeCorrect`, `MovesAreForGood` | `MarketSpec => []MarketTypeOK`, `MarketSpec => NoFlapping` (an action property) |
| `Requests_proofs` | `EveryAdmissionJustified` | `KeysSpec => []AdmissionsJustified` |
| | `SleepersAreFound`, `SnapshotsTypeCorrect` | `SnapshotsSpec => []HibernatingIsFound`, `... []SnapshotsTypeOK` |
| | `MissesAreGenuineAlways` | `ToolsSpec => []MissesAreGenuine` |
| | `ContextPrunes`, `ContextTypeCorrect` | `ContextSpec => []PrunedAsSpecified`, `... []ContextTypeOK` |
| `Artifacts_proofs` | `PulledArtifactsAreWhole`, `OciTypeCorrect` | `OciSpec => []ArtifactsWhole`, `... []OciTypeOK` |
| | `StoresTypeCorrect`, `PullsAreQuiet`, `CacheStaysBounded` | `StoresSpec => []StoresTypeOK`, `... []QuietPulls`, `... []CacheBounded` |
| `Hive_proofs` | `VerdictsAreRight` | `VitalitySpec => []VerdictsFollowSilence` |
| | `EveryAnswerTrue`, `NoDeadlock` | `TunnelSpec => []AnswersAreTrue`, `... []NeverBothWait` |
| | `IngressTypeCorrect` | `IngressSpec => []IngressTypeOK` |
| | `NodeIsItsParts` | `MCSpec` implies the specification of each part |
| | `NodeTypeCorrect`, `NodeKeepsItsPromises` | `MCSpec => []NodeTypeOK`, and all the properties of the run `node` |

Each has the same course: an invariant that is a conjunction of named parts, a lemma
for its initial states, a lemma for each action and the parts it can disturb, a
theorem that it always holds, and the properties read off it. Hypotheses beyond the
assumptions of the constants are said in the theorem: `TimeTravelNeedsACopy` and the
theorems about `Teleport` name the causes that the violation runs and section 9 show
to break the property. An ASSUME that a proof turned out to need is one that the code
gives: `Places >= 1` of `ToolServer`, since the list of candidates is never empty;
`Garbage` and `NoAgent` of `Teleport` being no memory and no agent; the three kinds
of registry of `Ingress`.

**MeshNode.** `IInv` is a conjunction of named parts:

- `TypeOK` and `Shape`: what each stage of a frame implies about its other fields;
  a restored frame restored a stored snapshot.
- `CallsNamed`: a call in an outbox or in the channel names an alias.
- `Ids`: the ids in use are below `nextId`, and no two executions share one.
  Without it a fresh id could overwrite a stored snapshot.
- `Stored`: every hibernating entry, and every execution past its storing steps,
  is backed by snapshot and memory. This is `HibernatingIsStored` extended to the
  stages before `Hibernate`; the property alone is not inductive, since
  `Hibernate` must know what `StoreMemory` and `StoreSnapshot` did.
- `Active`: an entry that does not hibernate belongs to a task that is between its two
  registrations, or to an execution that was dropped there. `QuietAliasIsCallable`
  follows, and with the order of `RegisterActive` and `RemoveParent` also
  `AliasNeverLost`.

`StepKinds` sorts the actions: *quiet* steps only move a task between stages that
hold nothing, and preserve every part by one lemma each; the *loud* ones (a boot,
a copy, a hang-up, `RegisterActive`, `StoreMemory`, `StoreSnapshot`,
`RemoveParent`, `Hibernate`) are treated one by one (`LoudIds`, `LoudStored`, `LoudActive`).
`TimeTravelNeedsACopy` adds `Aged` (without copies a snapshot has the id of its
own execution, entries and superseded memories are older than running
executions) and `Outdated` (no entry leads to superseded memory). Its hypothesis
names the cause that the run `top_up` exhibits.

`BudgetCorrect` adds `CallsInv`, which follows a call and its fuel from the outbox
through the channel to the worker and back: `Asked`, `Queued` (at most one call of a
task is in the channel), `Served` (the worker serves no call of its own, and one that
waits for it), `Answered` (what is reported as used is what was burned, and the
caller still has it) and `BooksKept` (fuel, work and debts of an execution add up to
its limit).

`StoreImplemented` adds `Replaced`: what the worker woke is registered until the
worker removes it (`Woken`), only the worker starts from a snapshot that the registry
leads to (`Private`), and the id of an execution is no live version before its end
(`Saved`, `Over`, `Apart`, `Fresh`). Each step is then a `Deploy`, an `Advance`, or a
stutter of `AgentStore`.

**Teleport.** `Named`: a request under way, and a command on the wire, is about a
memory there was. On the registry path `Noticed` (the table of migrations is not
used), `Genuine` (what arrived under an alias is that agent's), `Handed` (who was told
of success left a memory at the target) and `Somewhere` give the two theorems with
every circumstance but the failing fork. When nothing disturbs, `Alone` (one request
at a time) and `OnTheWay`, which says for each command on the wire how much the table
holds, lead to `Moved`: an agent has arrived exactly when it is gone from the source
or about to go.

**VectorMemory.** `Owned`: a layer that is written is read by its writer only;
`Counted`: the count of a frozen layer is the number of stacks that hold it;
`Compacting`: a worker has nothing yet of what it did not visit; `Inherited`: what an
agent reads is of its lineage; `Stacked`: a forgotten id is hidden under a tombstone
wherever it has a record, one that is remembered is not, the records in the hands of a
compacting worker counted in.

**GuestServices.** `Waiting`: while a function waits, the directory does not have what
it waits for, and once answered it does; `Lineage`: what was heard is written, unless
the directory is lost or a guest of the lineage rewrote that record; `Origins`: a
version of an answer that is heard or written in an intact record was made for one
tenant;
`Quotas`: requests sent and about to leave are within what is counted, and that within
the limit of some execution; `Bills`: fuel left and fuel due are within the budget;
`Histories`: sessions, copies of them and images are in order.

**FuelLedger.** `LockHeld`: who is in a transfer holds the lock of the nonces, and
who holds it is in one, so that at most one transfer is in flight and `Funds` differs
from the balances in one account only. `NonceTaken`: the nonce of a transfer under
way is used. Each step is then a payment (`Debit`), a refusal (`RefuseTransfer`), a
mint or a stutter of `Ledger`; a debit is never below zero because only transfers
take from an account and there is one at a time. `BalancesAreExplained` needs what a
sum over the audit log becomes when an entry is appended. The library's theorems of
induction take an operator and cannot be instantiated here; where a proof is by
induction over a length it takes the least counterexample instead (`LeastNatural`).

**Vouchers.** `Checked` carries what was tested at the look to the later stages,
with the life of the node it was tested in; `OfThisLife`: a restart ends what has not
started, so a request that is about to claim is of the present life;
`ClaimsRemembered`: what paid in the present life is among the claimed nonces. Without
`OfThisLife` a request could claim after the restart on behalf of the life before.

**Market.** `Downhill`: as long as bids are current and nothing changes, an agent lives
where it pays no more than at any node its choices took it to, and is about to move to
one where it pays less. The first attempt at this proof failed on a move decided while
a bid was out of date and made after, which the history variable `visited` took for a
choice of the agent's; it now begins anew when bids become current.

**Keys.** `Seen`: a request under way has witnessed the present state of every
key; `Scanned`: the keys its scan has left behind were inactive when it looked.
An admission at the end of a scan follows because the scan has then left all behind.

**Snapshots.** `Stored`: what hibernates has its memory stored; `Ending`: so have the
executions past that step; `Found`: a look-up of an agent that hibernates all along
is on the way to one of its replicas and never asks peers. The types need `Guarded`:
who looks holds the read guard, and nobody else does.

**ToolServer.** `InCache`: what ran is compiled; a cached component is never dropped, so
no change of the file on disk can make the tool go missing.

**ContextRouter.** `Oldest` and `Largest` say of each state of the loop what the two
strategies have lost so far. That no fewer blocks would have done for the largest-first
strategy is an exchange argument (`Exchange`): of sets of as many blocks, the largest ones
leave the fewest tokens. An estimate is of a set of blocks, which is what a session is,
since no two of its blocks have one id.

**OciRegistry.** `Uploaded`: the blobs before a push's next one were given to the
registry; `Complete`: so were all of a tagged artifact; `Pulled`: a pull that has not
failed holds verified bytes of blobs of an artifact pushed under its tag.

**ArtifactStores.** For quiet pulls, `Known` and `Mixing`: a file of which it is known what
a pull finds has that content, nobody writes it, the purge has nothing against it, and
two that write one file know it; `Due`: what a pull has to find is there until it has
read it. For the cache, `Accounted`: a cache that is too large has a push that will
measure it, a sweep whose total and list still cover what is cached, or a fault;
`AnswersHold` and `Chain`: a sweep that makes up for faults makes up for those of the
sweeps before it. A file that was being written when the total was taken may be larger
than the total when it is removed; the unsigned total then wraps round in a release build
(`registry/identity.rs`), everything left is removed, and the invariant holds all the
same. The proof, which has to say what a subtraction gives, brought `Wrap` into the model.

**Vitality.** `SweepsKnown`: a sweep visits nodes that were heard of. The lemma
`AfterFollows` says that the two tests applied to the verdict of the longest
silence so far give the verdict of the new longest one.

**Tunnel.** The exchange is one of five phases by the state of the server
(`Accepting`, `Listening`, `Working`, `Ended`, `Failed`), each saying what can be on its
way and where the client can be; unbroken connections are at one point of the
exchange exactly. Both properties can be read off the phases; a command that is
acknowledged though it failed is `Ended` like one that succeeded.

**MCNode.** `NodeSteps`: a step of the node is one of each part or leaves it alone, so
that a behaviour of the node is one of each part; `RouterInv`: the context router is
called on nothing while another part takes steps.

## 8. What is only model-checked

- Liveness (`EveryCallAnswered`, `EveryTeleportEnds`): temporal properties under
  fairness need ENABLED, which the provers here cannot handle.
- That the properties of the violation runs fail, and the facts of section 9 that are
  reached by changing a cfg.
- That the scenes of `MCTeleport` together have `Authentic` and `Survives`: the theorems
  state them of `Teleport`, once for the registry path in trouble and once for both
  paths undisturbed.

## 9. Known disagreements

Each of the first four is a run that TLC ends with a counterexample.

1. **A guest woken by a call cannot call** (`nested_call`). The worker awaits the
   execution inside its receive loop (`mesh_worker.rs:59`); a call by that guest
   waits for the worker that runs it.
2. **A top-up leaves the old replica callable** (`top_up`). `remove_by_snapshot`
   looks for the snapshot the top-up just made, which no entry has.
3. **A broken stream poisons the next** (`teleport_retry`). The table keeps the
   handshake of a stream that failed, and the following commit takes it.
4. **A snapshot loses the vector memory** (`vector_snapshot`). `memory_shards` is
   skipped by serde and never rebuilt.

Others are reached by changing a constant of a cfg or adding an invariant to one:

- `TeleportSafety` with `Circumstances = {"network"}`: the acknowledgement of the
  last command is lost, the agent runs on both nodes (`QuietHandoff`).
- `TeleportSafety` with `{"busy"}`: an execution during the transfer is lost, or its
  end registers the alias again after the purge (`QuietHandoff`).
- `TeleportSafety` with `Path = {"registry"}` and `{"fork"}`: the acknowledged
  resurrection fails and the source has already purged (`QuietHandoff`, and
  `Survives` without it). The same with `Path = {"stream"}` and `{"restart"}`: a
  commit for a table that was lost is acknowledged.
- `TeleportSafety` with `Path = {"stream"}` and `{"overlap"}`: the chunks of two
  streams end up in one agent (`Authentic`).
- `MeshAnswers` with `WorkerGuestOps = {"packet"}`: a guest of the worker that pays
  while the channel is full waits for the worker (`EveryCallAnswered`).
- `Node` with the invariant `RoutesServe` of `Ingress`: the first line of
  `host_api/gateway_listen.rs` says "`listen` — register a gateway route for HTTP
  ingress", but the route is registered with a gateway the proxy handler does not
  ask. With one gateway for both (`Wiring = {"given"}`, what tests do) routes serve, and
  `NeverStuck` fails: a guest that the worker runs for a
  request waits in `listen` for the guard that the request holds.

Facts of the code that the models have and no property forbids:

- When the response of a call cannot be written to the caller's memory, the host
  function traps before it burns the callee's fuel
  (`inter_agent_invoke.rs:55-57`): the caller is billed too little.
  `WithinBudget` states the direction that holds.
- A cartridge that traps, or lacks the interface, reports no consumption: all the
  fuel given comes back, what it burned included. One that exceeds its memory
  gives nothing back, although `ARCHITECTURE.md:66` says "Unused fuel is
  refunded."
- A client that hangs up while its execution is between its two registrations leaves
  its alias with an entry that cannot be woken, for good; `resolve` hands it out in
  turn with the others (`MeshNode!Disconnect`, `dropped`).
- One silent peer stalls the mesh worker, and with it every call on the node
  (`MeshNode!PeersAnswer`).
- A live migration that could not be imported is acknowledged, and its client reports
  success (`connection.rs:313`, `Tunnel!Answered`).
- A guest can rewrite, delete and read the recorded answers of every tenant in its
  image, and nothing verifies them when they are used (`GuestServices!RewriteRecord`).
- A service may be rendered to an execution whose remaining fuel does not pay for
  it; the charge takes what is left (`ServicesArePaid` is about executions that
  have fuel left). The bytes of a response are recorded but never refused.
- Two predictions on one session may lose an exchange, and a resumed execution
  overwrites sessions of the node with those of its image; what remains is in
  order, but it is not the history "of all prompts" of `inference.rs:71`.
- Remote aliases and registry queries are never found: the peer answers in plain
  (`hive/connection.rs:107-115`) and the client decrypts (`Ingress!Reply`,
  `Snapshots!AskPeer`, the answer `"plain"` of `Tunnel`).
- A command may be carried out and its acknowledgement lost.
- An agent that is registered and running but not stored yet cannot be
  snapshotted, even when another replica of its alias could be.
- A failed transfer has spent its nonce; a voucher is spent though its execution
  never starts.
- The WebSocket request `request_teleport` (`api/handlers/all.rs`) passes an alias
  where `export_snapshot` wants a snapshot id, and never finds one.

## 10. What is not modelled

- The cut of a recall at five times its limit (`memory.rs:300`); what becomes of the
  task in which a `remember` without shards panics (`memory.rs:211`); manifests whose
  name is not the alias of their agent (`fork.rs:29`, `connection.rs:248`, `:340`).
- Restarts of a node in the middle of an execution: what it keeps is in memory, and the
  next life begins like the first.
- The encoding of what is stored: `query_memory` reads the vector index with
  another bincode configuration than it was written with
  (`sandbox_wasmtime.rs:840`, `:533`); snapshots, manifests and packets are
  values.
- Widths: balances, deposits and fuel have none (the cache's total has, `Wrap`).
- `handle_ingress_register`, whose table nothing reads; the shard locations of
  `QuorumRegistry`; `load_from_disk`, `hydrate_ref`, `evict`, `reset_all` and
  `resolve_inference`, which nothing calls; the fuel limit of a prediction, which the
  API passes as unlimited.
- `swarm up` of the command line, which is several executions at once and so in
  `MeshNode`'s reach; the other commands, the artifact cache they use, the TUI, the
  builder, configuration and benchmarks: sequential programs without state shared
  with the node.
- Telemetry, which fans events out to whoever listens; server start, health,
  console and studio, which wire and print; cryptography and the llama backend,
  which compute; `resurrection.rs`, the recovery and fork modules, which start
  one artifact in a process of its own or are called by nothing.

`PROJECT.json` gives the reason for each component.
