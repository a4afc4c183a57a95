------------------------------ MODULE Ingress -------------------------------
(***************************************************************************)
(* HTTP ingress: routes that guests register with `listen`, the proxy      *)
(* handler that looks for one in a Gateway and calls the guest over the    *)
(* mesh, and the registry it asks otherwise.                               *)
(*                                                                         *)
(* A node has two Gateways: the sandbox makes one, which guests see, and   *)
(* the server makes another for its handlers.  A route is looked up under  *)
(* the read guard of a shard of the route table, held until the guest has  *)
(* answered; `listen` blocks for the write guard.                          *)
(***************************************************************************)
EXTENDS Integers, Sequences, SequencesExt

CONSTANTS
    Agent,        \* aliases of agents
    ShardOf,      \* ShardOf[a]: the shard of the route table an alias is in
    Path,         \* paths, sequences of segments
    Handler,      \* functions guests export
    Hit,          \* ingress requests, each made once
    Peers,        \* other nodes of the hive
    Resolver,     \* kinds of registry the ingress gateway may be made with
    Wiring,       \* "own": the node as it is started; "given": with_gateway, as tests do
    MaxRuns       \* bound: executions that no ingress request asks for

ASSUME IngressAssumption ==
    MaxRuns \in Nat /\ Resolver \subseteq {"noop", "hive", "quorum"} /\ Wiring \subseteq {"own", "given"}

VARIABLES
    routes,       \* routes[g][a]: local_routes of a gateway
    guest,        \* guest[a]: what the guest of an alias does, and who runs it
    hit,          \* hit[h]: how far a request is
    onWorker,     \* what the mesh worker serves: a request, or nothing
    wiring,       \* whose gateway guests see
    registry,     \* kind of registry of the ingress gateway
    aliasStatus,  \* alias_map of a QuorumRegistry
    runs,         \* executions asked for otherwise
    due           \* due[h]: an agent listened on that path already when h came (not in the code)

ingressVars == <<routes, guest, hit, onWorker, wiring, registry, aliasStatus, runs, due>>

Nothing == "nothing"
NoHit == [stage |-> "new", agent |-> Nothing, path |-> <<>>]
IdleGuest == [stage |-> "idle", by |-> Nothing, path |-> <<>>, handler |-> Nothing]

\* What `listen` registers with: the sandbox makes a gateway of its own unless given one.
GatewayOfGuests == IF wiring = "given" THEN "server" ELSE "sandbox"
\* What the proxy handler asks: the server makes another.
GatewayOfIngress == "server"

IngressInit ==
    /\ routes = [g \in {"sandbox", "server"} |-> [a \in Agent |-> <<>>]]
    /\ guest = [a \in Agent |-> IdleGuest]
    /\ hit = [h \in Hit |-> NoHit]
    /\ onWorker = Nothing
    /\ wiring \in Wiring
    /\ registry \in Resolver
    /\ aliasStatus = [a \in Agent |-> "none"]
    /\ runs = 0
    /\ due = [h \in Hit |-> FALSE]

\* A deployment or another call starts a guest.
StartRun(a) ==
    /\ guest[a] = IdleGuest /\ runs < MaxRuns
    /\ guest' = [guest EXCEPT ![a].stage = "running"]
    /\ runs' = runs + 1
    /\ UNCHANGED <<routes, hit, onWorker, wiring, registry, aliasStatus, due>>

\* The guest calls `listen` ...
Listen(a, p, f) ==
    /\ guest[a].stage = "running"
    /\ guest' = [guest EXCEPT ![a] = [@ EXCEPT !.stage = "listening", !.path = p, !.handler = f]]
    /\ UNCHANGED <<routes, hit, onWorker, wiring, registry, aliasStatus, runs, due>>

\* Requests that keep a read guard of the shard of an alias.
Readers(g, a) == {h \in Hit : /\ g = GatewayOfIngress /\ hit[h].stage = "calling"
                              /\ ShardOf[hit[h].agent] = ShardOf[a]}

\* ... and gets the write guard: a path is registered once, its first handler stays.
RegisterRoute(a) ==
    LET g == GatewayOfGuests p == guest[a].path IN
    /\ guest[a].stage = "listening" /\ Readers(g, a) = {}
    /\ routes' = IF \E i \in DOMAIN routes[g][a] : routes[g][a][i].path = p THEN routes
                 ELSE [routes EXCEPT ![g][a] = Append(@, [path |-> p, handler |-> guest[a].handler])]
    /\ guest' = [guest EXCEPT ![a] = [IdleGuest EXCEPT !.stage = "running", !.by = guest[a].by]]
    /\ UNCHANGED <<hit, onWorker, wiring, registry, aliasStatus, runs, due>>

Matching(g, a, p) == {i \in DOMAIN routes[g][a] : IsPrefix(routes[g][a][i].path, p)}

\* The proxy handler passes a request to handle_request, which looks for a route.
HandleRequest(h, a, p) ==
    /\ hit[h] = NoHit
    /\ hit' = [hit EXCEPT ![h] =
          [stage |-> IF Matching(GatewayOfIngress, a, p) # {} THEN "calling" ELSE "resolving",
           agent |-> a, path |-> p]]
    /\ due' = [due EXCEPT ![h] = \E g \in DOMAIN routes : Matching(g, a, p) # {}]
    /\ UNCHANGED <<routes, guest, onWorker, wiring, registry, aliasStatus, runs>>

Answer(h, outcome) == hit' = [hit EXCEPT ![h].stage = outcome]

\* The worker takes the call, one at a time, and wakes the guest ...
WorkerTakes(h) ==
    LET a == hit[h].agent IN
    /\ hit[h].stage = "calling" /\ onWorker = Nothing /\ guest[a] = IdleGuest
    /\ onWorker' = h
    /\ guest' = [guest EXCEPT ![a] = [@ EXCEPT !.stage = "running", !.by = h]]
    /\ UNCHANGED <<routes, hit, wiring, registry, aliasStatus, runs, due>>

\* ... which ends well or not: GatewayError::ExecutionFailed.
EndRun(a) ==
    /\ guest[a].stage = "running"
    /\ guest' = [guest EXCEPT ![a] = IdleGuest]
    /\ \/ guest[a].by = Nothing /\ UNCHANGED <<hit, onWorker>>
       \/ /\ guest[a].by # Nothing
          /\ \E outcome \in {"ok", "failed"} : Answer(guest[a].by, outcome)
          /\ onWorker' = Nothing
    /\ UNCHANGED <<routes, wiring, registry, aliasStatus, runs, due>>

\* The call is refused: channel, depth, no such agent any more.
CallFails(h) ==
    /\ hit[h].stage = "calling" /\ onWorker # h
    /\ Answer(h, "failed")
    /\ UNCHANGED <<routes, guest, onWorker, wiring, registry, aliasStatus, runs, due>>

\* How a peer answers ResolveAlias: with an unencrypted frame, whatever it knows.
Reply(peer, a) == [encrypted |-> FALSE, known |-> TRUE]
\* rpc_call decrypts what it reads, and an answer it cannot read is no answer.
Located(a) == \E peer \in Peers : Reply(peer, a).encrypted /\ Reply(peer, a).known

\* resolve_alias of the three registries.
Resolution(a) ==
    CASE registry = "noop" -> "notFound"
      [] registry = "hive" -> IF Located(a) THEN "proxying" ELSE "notFound"
      [] registry = "quorum" -> CASE aliasStatus[a] = "committed" -> "proxying"
                                  [] aliasStatus[a] = "locked" -> "failed"
                                  [] OTHER -> "notFound"

Resolve(h) ==
    /\ hit[h].stage = "resolving"
    /\ Answer(h, Resolution(hit[h].agent))
    /\ UNCHANGED <<routes, guest, onWorker, wiring, registry, aliasStatus, runs, due>>

\* The hop to the other node: an answer, an error status or no answer.
Proxy(h) ==
    /\ hit[h].stage = "proxying"
    /\ \E outcome \in {"ok", "failed", "unreachable"} : Answer(h, outcome)
    /\ UNCHANGED <<routes, guest, onWorker, wiring, registry, aliasStatus, runs, due>>

\* QuorumRegistry: a route is updated whether its alias is locked or not.
UpdateRoute(a) ==
    /\ registry = "quorum" /\ aliasStatus' = [aliasStatus EXCEPT ![a] = "committed"]
    /\ UNCHANGED <<routes, guest, hit, onWorker, wiring, registry, runs, due>>

\* Whoever holds the table locks an alias in it.
LockAlias(a) ==
    /\ registry = "quorum" /\ aliasStatus' = [aliasStatus EXCEPT ![a] = "locked"]
    /\ UNCHANGED <<routes, guest, hit, onWorker, wiring, registry, runs, due>>

IngressNext ==
    \/ \E a \in Agent :
          \/ StartRun(a) \/ RegisterRoute(a) \/ EndRun(a) \/ UpdateRoute(a) \/ LockAlias(a)
          \/ \E p \in Path : \/ \E f \in Handler : Listen(a, p, f)
                             \/ \E h \in Hit : HandleRequest(h, a, p)
    \/ \E h \in Hit : WorkerTakes(h) \/ CallFails(h) \/ Resolve(h) \/ Proxy(h)

IngressSpec == IngressInit /\ [][IngressNext]_ingressVars

-----------------------------------------------------------------------------
(* Properties *)

IngressTypeOK ==
    /\ routes \in [{"sandbox", "server"} -> [Agent -> Seq([path : Path, handler : Handler])]]
    /\ \A a \in Agent : /\ guest[a].stage \in {"idle", "running", "listening"}
                        /\ guest[a].by \in Hit \cup {Nothing}
                        /\ guest[a].stage = "listening" =>
                              guest[a].path \in Path /\ guest[a].handler \in Handler
    /\ \A h \in Hit : hit[h].stage \in {"new", "calling", "resolving", "proxying",
                                        "ok", "failed", "notFound", "unreachable"}
    /\ onWorker \in Hit \cup {Nothing}
    /\ wiring \in Wiring /\ registry \in Resolver
    /\ aliasStatus \in [Agent -> {"none", "committed", "locked"}]
    /\ runs \in 0..MaxRuns
    /\ due \in [Hit -> BOOLEAN]

\* A guest that the mesh worker runs never waits in `listen` for a request that itself
\* waits, with the route table read-locked, for the worker: neither would ever end
\* (handle_request, register_route).  Given one gateway for both, as tests give it,
\* nothing prevents it, and it fails; on a node as it is started no request ever gets
\* so far, and it says nothing.
NeverStuck ==
    \A a \in Agent : guest[a].stage = "listening" /\ guest[a].by # Nothing
                        => Readers(GatewayOfGuests, a) = {}

\* On a node as it is started, a request for a path on which an agent of the node
\* listens is not told that there is no such route: what the first line of
\* gateway_listen.rs says `listen` is for.
RoutesServe == wiring = "own" => \A h \in Hit : due[h] => hit[h].stage # "notFound"
=============================================================================
