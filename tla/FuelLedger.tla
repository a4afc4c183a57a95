---------------------------- MODULE FuelLedger ----------------------------
(***************************************************************************)
(* Fuel as money: VoucherRegistry with its transfers and mints, and the    *)
(* settlement bridge that would mint deposits made on another chain.       *)
(*                                                                         *)
(* A transfer keeps the write lock of the nonces from its first step to    *)
(* its last; mints and readers of balances do not take it and come between *)
(* the debit and the credit.                                               *)
(***************************************************************************)
EXTENDS Integers, Sequences, FiniteSets

CONSTANTS
    Account,      \* public keys with a balance
    Amount,       \* what a transfer or a mint may be about
    TxNonce,      \* nonces of transfers
    Payer,        \* tasks that call transfer
    Deposit,      \* deposits on the external chain, [to, amount]
    ClusterSize,  \* total_nodes a deposit may be processed with
    MaxSupply,    \* bound: fuel minted (the code's balances are 64 bits wide)
    None          \* no payer, no transfer

\* signed: the bytes parse and the signature is the sender's.
Transaction == [from : Account, to : Account, amount : Amount, nonce : TxNonce,
                signed : BOOLEAN]

ASSUME FuelLedgerAssumption ==
    /\ Amount \subseteq Nat \ {0} /\ MaxSupply \in Nat /\ ClusterSize \subseteq Nat
    /\ Deposit \subseteq [to : Account, amount : Nat]
    /\ None \notin Payer /\ None \notin Transaction

VARIABLES
    balances,     \* balances[a]
    usedNonces,   \* used_nonces
    nonceLock,    \* the payer that holds its write lock
    paying,       \* paying[p]: the transfer of a payer and how far it is
    auditLog,     \* audit_log
    minted,       \* minted[a]: what was rightly minted to a (not in the code)
    deposits      \* deposits[d]: a deposit the bridge works on

vars == <<balances, usedNonces, nonceLock, paying, auditLog, minted, deposits>>

Init ==
    /\ balances = [a \in Account |-> 0]
    /\ usedNonces = {} /\ nonceLock = None
    /\ paying = [p \in Payer |-> [at |-> "idle", tx |-> None]]
    /\ auditLog = <<>>
    /\ minted = [a \in Account |-> 0]
    /\ deposits = [d \in Deposit |-> "asked"]

-----------------------------------------------------------------------------
(* VoucherRegistry *)

\* The entry lock of one account only.
Mint(a, n) ==
    /\ minted[a] + n <= MaxSupply
    /\ balances' = [balances EXCEPT ![a] = @ + n]
    /\ minted' = [minted EXCEPT ![a] = @ + n]
    /\ UNCHANGED <<usedNonces, nonceLock, paying, auditLog, deposits>>

\* Mutant: the nonce is tested but inserted with the audit log entry.
BeginTransferUnspent(p, tx) ==
    /\ nonceLock = None /\ paying[p].at = "idle"
    /\ tx.nonce \notin usedNonces
    /\ nonceLock' = p
    /\ paying' = [paying EXCEPT ![p] = [at |-> "locked", tx |-> tx]]
    /\ UNCHANGED <<balances, usedNonces, auditLog, minted, deposits>>

\* The nonce is spent first, whatever comes of the transfer.  A used one is
\* refused and nothing changes.
BeginTransfer(p, tx) ==
    /\ nonceLock = None /\ paying[p].at = "idle"
    /\ tx.nonce \notin usedNonces
    /\ usedNonces' = usedNonces \cup {tx.nonce}
    /\ nonceLock' = p
    /\ paying' = [paying EXCEPT ![p] = [at |-> "locked", tx |-> tx]]
    /\ UNCHANGED <<balances, auditLog, minted, deposits>>

Covered(tx) == tx.amount <= balances[tx.from]

\* A bad signature or missing funds end the transfer.
RefuseTransfer(p) ==
    LET tx == paying[p].tx
    IN  /\ paying[p].at = "locked"
        /\ ~tx.signed \/ ~Covered(tx)
        /\ nonceLock' = None
        /\ paying' = [paying EXCEPT ![p] = [at |-> "idle", tx |-> None]]
        /\ UNCHANGED <<balances, usedNonces, auditLog, minted, deposits>>

\* Mutant: the funds are not looked at again under the entry lock.
DebitUncovered(p) ==
    LET tx == paying[p].tx
    IN  /\ paying[p].at = "locked" /\ tx.signed
        /\ balances' = [balances EXCEPT ![tx.from] = @ - tx.amount]
        /\ paying' = [paying EXCEPT ![p].at = "debited"]
        /\ UNCHANGED <<usedNonces, nonceLock, auditLog, minted, deposits>>

Debit(p) ==
    LET tx == paying[p].tx
    IN  /\ paying[p].at = "locked" /\ tx.signed /\ Covered(tx)
        /\ balances' = [balances EXCEPT ![tx.from] = @ - tx.amount]
        /\ paying' = [paying EXCEPT ![p].at = "debited"]
        /\ UNCHANGED <<usedNonces, nonceLock, auditLog, minted, deposits>>

\* Mutant: the receiver's balance is overwritten with one read before the lock.
CreditUnlogged(p) ==
    LET tx == paying[p].tx
    IN  /\ paying[p].at = "debited"
        /\ balances' = [balances EXCEPT ![tx.to] = minted[tx.to] + tx.amount]
        /\ paying' = [paying EXCEPT ![p].at = "credited"]
        /\ UNCHANGED <<usedNonces, nonceLock, auditLog, minted, deposits>>

Credit(p) ==
    LET tx == paying[p].tx
    IN  /\ paying[p].at = "debited"
        /\ balances' = [balances EXCEPT ![tx.to] = @ + tx.amount]
        /\ paying' = [paying EXCEPT ![p].at = "credited"]
        /\ UNCHANGED <<usedNonces, nonceLock, auditLog, minted, deposits>>

\* The audit log, then the lock of the nonces is released.
EndTransfer(p) ==
    /\ paying[p].at = "credited"
    /\ auditLog' = Append(auditLog, paying[p].tx)
    /\ nonceLock' = None
    /\ paying' = [paying EXCEPT ![p] = [at |-> "idle", tx |-> None]]
    /\ UNCHANGED <<balances, usedNonces, minted, deposits>>

-----------------------------------------------------------------------------
(* SettlementBridge and HiveConsensus *)

\* The listener of the chain confirms the deposit; nothing keeps a caller from
\* asking for it again.
ConfirmDeposit(d) ==
    /\ deposits[d] = "asked"
    /\ deposits' = [deposits EXCEPT ![d] = "confirmed"]
    /\ UNCHANGED <<balances, usedNonces, nonceLock, paying, auditLog, minted>>

\* Mutant: the one vote of the node itself is taken for granted.
MajorityOfOthers(signatures, nodes) == signatures >= nodes \div 2
\* verify_deposit_majority: more than half of the nodes.
Majority(signatures, nodes) == signatures >= (nodes \div 2) + 1

\* The proposal of the bridge carries no signatures yet.
Signatures == 0

\* A confirmed deposit that has a majority is minted at a thousand to one; one
\* that has none fails.
SettleDeposit(d, nodes) ==
    /\ deposits[d] = "confirmed"
    /\ deposits' = [deposits EXCEPT ![d] = "asked"]
    /\ balances' = IF Majority(Signatures, nodes)
                   THEN [balances EXCEPT ![d.to] = @ + d.amount * 1000] ELSE balances
    /\ UNCHANGED <<usedNonces, nonceLock, paying, auditLog, minted>>

Next ==
    \/ \E a \in Account, n \in Amount : Mint(a, n)
    \/ \E p \in Payer : \/ \E tx \in Transaction : BeginTransfer(p, tx)
                        \/ RefuseTransfer(p) \/ Debit(p) \/ Credit(p) \/ EndTransfer(p)
    \/ \E d \in Deposit : ConfirmDeposit(d) \/ \E k \in ClusterSize : SettleDeposit(d, k)

Spec == Init /\ [][Next]_vars

-----------------------------------------------------------------------------
(* Properties *)

Paying == [at : {"idle"}, tx : {None}]
          \cup [at : {"locked", "debited", "credited"}, tx : Transaction]

\* Type correctness; a balance is never negative (VoucherRegistry).
TypeOK ==
    /\ balances \in [Account -> Nat]
    /\ usedNonces \subseteq TxNonce /\ nonceLock \in Payer \cup {None}
    /\ paying \in [Payer -> Paying]
    /\ auditLog \in Seq(Transaction)
    /\ minted \in [Account -> Nat]
    /\ deposits \in [Deposit -> {"asked", "confirmed"}]

\* The transfer under way, at most one since the nonces are locked meanwhile: what
\* it has taken from an account, and what it has given to one or is about to.
Stage == IF nonceLock = None THEN "idle" ELSE paying[nonceLock].at
Taken == [a \in Account |->
    IF Stage \in {"debited", "credited"} /\ paying[nonceLock].tx.from = a
    THEN paying[nonceLock].tx.amount ELSE 0]
Given == [a \in Account |->
    IF Stage = "credited" /\ paying[nonceLock].tx.to = a
    THEN paying[nonceLock].tx.amount ELSE 0]
InFlight == [a \in Account |->
    IF Stage = "debited" /\ paying[nonceLock].tx.to = a
    THEN paying[nonceLock].tx.amount ELSE 0]

\* sums[i]: what the first i entries of the audit log brought to an account.
Moved(tx, a) == (IF tx.to = a THEN tx.amount ELSE 0) - (IF tx.from = a THEN tx.amount ELSE 0)
MovedUpTo(log, a) ==
    LET sums[i \in 0 .. Len(log)] == IF i = 0 THEN 0 ELSE sums[i - 1] + Moved(log[i], a)
    IN  sums
Logged(log, a) == MovedUpTo(log, a)[Len(log)]

\* Whatever mints and transfers interleave, a balance is what was minted and what
\* the audit log and the transfer under way moved: nothing is lost, made or moved
\* without trace, and nothing is minted for a deposit no majority signed (mint,
\* transfer, process_deposit).
BalancesFollowLog ==
    \A a \in Account :
        balances[a] = minted[a] + Logged(auditLog, a) + Given[a] - Taken[a]

\* The ledger implements the abstract one: a payment takes place when its sender
\* is debited, and what is in flight already belongs to the receiver; a nonce is
\* spent when its transfer is decided (VoucherRegistry::transfer).
Undecided == {tx.nonce : tx \in {paying[p].tx : p \in {q \in Payer : paying[q].at = "locked"}}}
Funds == [a \in Account |-> balances[a] + InFlight[a]]
Spent == usedNonces \ Undecided
Abstract == INSTANCE Ledger WITH funds <- Funds, spent <- Spent
ImplementsLedger == Abstract!Spec
=============================================================================
