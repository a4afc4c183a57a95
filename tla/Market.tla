------------------------------- MODULE Market -------------------------------
(***************************************************************************)
(* HiveMarket on every node, and the agents that move to where fuel is     *)
(* cheaper (seek_equilibrium).                                             *)
(*                                                                         *)
(* A bid travels on a connection of its own, so bids of one node overtake  *)
(* each other, and the one that arrives last is the one that stands.       *)
(* Nothing in src sends bids: the announcing node is external.             *)
(***************************************************************************)
EXTENDS Integers, FiniteSets

CONSTANTS
    Seller,       \* nodes with a market
    Settler,      \* agents that seek equilibrium
    Cost,         \* fuel multipliers times 100, as calculate_local_bid makes them
    MaxChanges,   \* bound: changes of the vitals of nodes
    MaxBids,      \* bound: bids on the wire
    NoBid         \* no bid of that node

ASSUME MarketAssumption ==
    /\ Cost \subseteq 50..500 /\ NoBid \notin Cost /\ NoBid \notin Seller
    /\ MaxChanges \in Nat /\ MaxBids \in Nat

VARIABLES
    cost,         \* cost[n]: what calculate_local_bid would bid now
    bids,         \* bids[n][m]: the bid of m in active_bids of n
    wire,         \* bids on their way
    lives,        \* lives[a]: the node of an agent
    target,       \* target[a]: its migration_target
    visited,      \* visited[a]: where its choices took it since all bids are current and
                  \* no vitals changed (not in the code)
    changes       \* changes of vitals so far

marketVars == <<cost, bids, wire, lives, target, visited, changes>>

MarketInit ==
    /\ cost \in [Seller -> Cost]
    /\ bids = [n \in Seller |-> [m \in Seller |-> NoBid]]
    /\ wire = {}
    /\ lives \in [Settler -> Seller]
    /\ target = [a \in Settler |-> NoBid]
    /\ visited = [a \in Settler |-> {}]
    /\ changes = 0

\* Every bid that is held or on its way is what its node would bid now.
Current(c, b, w) == /\ \A n, m \in Seller : b[n][m] \in {NoBid, c[m]}
                    /\ \A msg \in w : msg.cost = c[msg.from]

\* There is no history while some bid is out of date.
Since(been) == IF Current(cost', bids', wire') THEN been ELSE [a \in Settler |-> {}]

\* Temperature, memory or processor load of a node change.
VitalsChange(n) ==
    /\ changes < MaxChanges
    /\ \E c \in Cost \ {cost[n]} : cost' = [cost EXCEPT ![n] = c]
    /\ changes' = changes + 1
    /\ visited' = [a \in Settler |-> {}]
    /\ UNCHANGED <<bids, wire, lives, target>>

\* A node, whoever asks it to, sends its bid to another one or to itself.
Announce(n, to) ==
    /\ Cardinality(wire) < MaxBids
    /\ wire' = wire \cup {[from |-> n, to |-> to, cost |-> cost[n]]}
    /\ UNCHANGED <<cost, bids, lives, target, changes>>
    /\ visited' = Since(visited)

\* The bid that arrives stands; its timestamp is not looked at.
ProcessBid(msg) ==
    /\ msg \in wire
    /\ wire' = wire \ {msg}
    /\ bids' = [bids EXCEPT ![msg.to][msg.from] = msg.cost]
    /\ UNCHANGED <<cost, lives, target, changes>>
    /\ visited' = Since(visited)

LoseBid(msg) ==
    /\ msg \in wire
    /\ wire' = wire \ {msg}
    /\ UNCHANGED <<cost, bids, lives, target, changes>>
    /\ visited' = Since(visited)

\* Mutant: the buffer of 15% is left out and a bid as low as the cost will do.
CheaperWithoutBuffer(n, current) ==
    {m \in Seller : bids[n][m] # NoBid /\ bids[n][m] <= current}
\* Bids at least 15% below the cost of the node.  The guest is told apart by its own
\* id, not by the node's, so that a bid the node sent to itself counts too.
Cheaper(n, current) ==
    {m \in Seller : bids[n][m] # NoBid /\ bids[n][m] * 100 <= current * 85
                    /\ bids[n][m] < current}

\* find_best_arbitrage: the first of the cheapest in the order of the table.
BestArbitrage(n) == {m \in Cheaper(n, cost[n]) :
                        \A k \in Cheaper(n, cost[n]) : bids[n][m] <= bids[n][k]}

\* The agent asks for the best bid, which becomes its target; that may happen again
\* before anything is done about it.
SeekEquilibrium(a) ==
    /\ \E m \in BestArbitrage(lives[a]) : target' = [target EXCEPT ![a] = m]
    /\ UNCHANGED <<cost, bids, wire, lives, changes>>
    /\ visited' = Since([visited EXCEPT ![a] = @ \cup {lives[a]}])

\* Its execution ends Migrated and whoever asked for it takes it to its target ...
Migrate(a) ==
    /\ target[a] # NoBid
    /\ lives' = [lives EXCEPT ![a] = target[a]]
    /\ target' = [target EXCEPT ![a] = NoBid]
    /\ UNCHANGED <<cost, bids, wire, changes>>
    /\ visited' = Since([visited EXCEPT ![a] = IF @ = {} THEN {} ELSE @ \cup {target[a]}])

\* ... or ends otherwise, and the request is without effect.
Stay(a) ==
    /\ target[a] # NoBid
    /\ target' = [target EXCEPT ![a] = NoBid]
    /\ UNCHANGED <<cost, bids, wire, lives, visited, changes>>

MarketNext ==
    \/ \E n \in Seller : VitalsChange(n) \/ \E to \in Seller : Announce(n, to)
    \/ \E msg \in wire : ProcessBid(msg) \/ LoseBid(msg)
    \/ \E a \in Settler : SeekEquilibrium(a) \/ Migrate(a) \/ Stay(a)

MarketSpec == MarketInit /\ [][MarketNext]_marketVars

-----------------------------------------------------------------------------
(* Properties *)

MarketTypeOK ==
    /\ cost \in [Seller -> Cost]
    /\ bids \in [Seller -> [Seller -> Cost \cup {NoBid}]]
    /\ wire \subseteq [from : Seller, to : Seller, cost : Cost]
    /\ lives \in [Settler -> Seller]
    /\ target \in [Settler -> Seller \cup {NoBid}]
    /\ visited \in [Settler -> SUBSET Seller]
    /\ changes \in 0..MaxChanges

\* As long as every bid that is held or on its way is still what its node asks, and no
\* node changes what it asks, an agent is never sent back to a node it left: a move is
\* worth it for good, whatever bids were lost or overtaken (find_best_arbitrage,
\* seek_equilibrium).
NoFlapping ==
    [][\A a \in Settler :
          target'[a] \notin {target[a], NoBid} /\ Current(cost, bids, wire)
             => target'[a] \notin visited[a]]_marketVars
=============================================================================
