------------------------------ MODULE Vouchers ------------------------------
(***************************************************************************)
(* Fuel vouchers: the VoucherManager of each node and the pre-flight guard *)
(* an execution request has to pass when the node asks to be paid.         *)
(***************************************************************************)
EXTENDS Integers, FiniteSets

CONSTANTS
    Node,         \* providers
    Voucher,      \* vouchers that exist
    Request,      \* execution requests, each made once
    MaxTime,      \* bound: the clock
    MaxLife,      \* bound: restarts of a node
    NoOne          \* no node, no voucher

ASSUME VouchersAssumption ==
    /\ Voucher \subseteq [provider : Node, expiry : Nat, nonce : Nat, fuel : Nat,
                          signed : BOOLEAN]
    /\ NoOne \notin Voucher /\ NoOne \notin Node
    /\ MaxTime \in Nat /\ MaxLife \in Nat

VARIABLES
    now,          \* the clock, the same on all nodes
    life,         \* life[n]: restarts of a node
    claimed,      \* claimed[n]: used_nonces of its VoucherManager
    request       \* request[r]: how far an execution request is

voucherVars == <<now, life, claimed, request>>

NoRequest == [at |-> "new", voucher |-> NoOne, node |-> NoOne, life |-> 0, checked |-> 0,
              fuel |-> 0]

VoucherInit ==
    /\ now = 0
    /\ life = [n \in Node |-> 0]
    /\ claimed = [n \in Node |-> {}]
    /\ request = [r \in Request |-> NoRequest]

Tick == /\ now < MaxTime
        /\ now' = now + 1
        /\ UNCHANGED <<life, claimed, request>>

\* Mutant: the provider is not compared.
CheckVoucherOfAny(r, n, v) ==
    /\ request[r].at = "new"
    /\ v.expiry >= now /\ v.signed
    /\ request' = [request EXCEPT ![r] = [NoRequest EXCEPT !.at = "checked", !.voucher = v,
                      !.node = n, !.life = life[n], !.checked = now]]
    /\ UNCHANGED <<now, life, claimed>>

\* Expiry, provider and signature, against the clock read first.
CheckVoucher(r, n, v) ==
    /\ request[r].at = "new"
    /\ v.expiry >= now /\ v.provider = n /\ v.signed
    /\ request' = [request EXCEPT ![r] = [NoRequest EXCEPT !.at = "checked", !.voucher = v,
                      !.node = n, !.life = life[n], !.checked = now]]
    /\ UNCHANGED <<now, life, claimed>>

\* Mutant: the nonces are looked at here and inserted when the execution ends.
ClaimUnspent(r) ==
    LET n == request[r].node
        v == request[r].voucher
    IN  /\ request[r].at = "checked"
        /\ request' = [request EXCEPT
              ![r].at = IF v.nonce \in claimed[n] THEN "refused" ELSE "claimed",
              ![r].fuel = IF v.nonce \in claimed[n] THEN 0 ELSE v.fuel]
        /\ UNCHANGED <<now, life, claimed>>

\* The insertion is the test: the first request claims, later ones are refused.
Claim(r) ==
    LET n == request[r].node
        v == request[r].voucher
    IN  /\ request[r].at = "checked"
        /\ claimed' = [claimed EXCEPT ![n] = @ \cup {v.nonce}]
        /\ request' = [request EXCEPT
              ![r].at = IF v.nonce \in claimed[n] THEN "refused" ELSE "claimed",
              ![r].fuel = IF v.nonce \in claimed[n] THEN 0 ELSE v.fuel]
        /\ UNCHANGED <<now, life>>

\* The execution starts with the voucher's fuel, or it fails before it does: no
\* snapshot of that id, no payload.  The voucher is spent either way.
Run(r) ==
    /\ request[r].at = "claimed"
    /\ \E end \in {"running", "failed"} : request' = [request EXCEPT ![r].at = end]
    /\ UNCHANGED <<now, life, claimed>>

\* The claimed nonces live in memory only.
Restart(n) ==
    /\ life[n] < MaxLife
    /\ life' = [life EXCEPT ![n] = @ + 1]
    /\ claimed' = [claimed EXCEPT ![n] = {}]
    /\ request' = [r \in Request |->
                     IF request[r].node = n /\ request[r].at \in {"checked", "claimed"}
                     THEN [request[r] EXCEPT !.at = "refused"] ELSE request[r]]
    /\ UNCHANGED <<now>>

VoucherNext ==
    \/ Tick
    \/ \E r \in Request : \/ \E n \in Node, v \in Voucher : CheckVoucher(r, n, v)
                          \/ Claim(r) \/ Run(r)
    \/ \E n \in Node : Restart(n)

VoucherSpec == VoucherInit /\ [][VoucherNext]_voucherVars

-----------------------------------------------------------------------------
(* Properties *)

VoucherTypeOK ==
    /\ now \in 0..MaxTime
    /\ life \in [Node -> 0..MaxLife]
    /\ claimed \in [Node -> SUBSET Nat]
    /\ request \in [Request -> [at : {"new", "checked", "refused", "claimed", "running", "failed"},
                                voucher : Voucher \cup {NoOne}, node : Node \cup {NoOne},
                                life : 0..MaxLife, checked : 0..MaxTime, fuel : Nat]]

Funded == {r \in Request : request[r].at \in {"claimed", "running", "failed"}}

\* One voucher pays for one execution, as long as its provider keeps running: two
\* requests that both passed the guard in one life of a node hold vouchers of
\* different nonces (verify_and_claim).
PaidOncePerLife ==
    \A r, s \in Funded :
        /\ r # s /\ request[r].node = request[s].node /\ request[r].life = request[s].life
        => request[r].voucher.nonce # request[s].voucher.nonce

\* Across restarts and nodes: an execution runs on the fuel of a signed voucher
\* made out to its node, which had not expired when it was looked at (execute,
\* verify_and_claim).
ExecutionsAreFunded ==
    \A r \in Funded :
        LET v == request[r].voucher
        IN  /\ v \in Voucher /\ v.signed /\ v.provider = request[r].node
            /\ request[r].checked <= v.expiry /\ request[r].fuel = v.fuel
=============================================================================
