--------------------------- MODULE Economy_proofs ---------------------------
(* Theorems about the economy for every set of accounts, amounts, nonces,   *)
(* payers, nodes, vouchers and requests, and every number of restarts.      *)
EXTENDS FuelLedger, Vouchers, Market, WellFoundedInduction, TLAPS

-----------------------------------------------------------------------------
(* FuelLedger: it is well typed and implements the abstract Ledger.         *)

\* The lock of the nonces is held by the one transfer under way.
LockHeld == /\ \A p \in Payer : paying[p].at # "idle" => nonceLock = p
            /\ nonceLock # None => paying[nonceLock].at # "idle"

\* The nonce of a transfer under way is used.
NonceTaken == \A p \in Payer : paying[p].at # "idle" => paying[p].tx.nonce \in usedNonces

LedgerInv == TypeOK /\ LockHeld /\ NonceTaken

LEMMA NoMajority == ASSUME NEW k \in Nat PROVE ~Majority(Signatures, k)
BY DEF Majority, Signatures

LEMMA TransactionFields ==
    ASSUME NEW tx \in Transaction
    PROVE  /\ tx.from \in Account /\ tx.to \in Account /\ tx.amount \in Amount
           /\ tx.nonce \in TxNonce /\ tx.signed \in BOOLEAN
BY DEF Transaction

\* What a payer that is not idle works on.
LEMMA InProgress ==
    ASSUME TypeOK, NEW p \in Payer, paying[p].at # "idle"
    PROVE  /\ paying[p].tx \in Transaction
           /\ paying[p].at \in {"locked", "debited", "credited"}
BY DEF TypeOK, Paying

LEMMA InitLedgerInv == ASSUME FuelLedgerAssumption, Init PROVE LedgerInv
<1>1. TypeOK
  BY DEF FuelLedgerAssumption, Init, TypeOK, Paying
<1>2. LockHeld /\ NonceTaken
  BY DEF Init, LockHeld, NonceTaken
<1>3. QED
  BY <1>1, <1>2 DEF LedgerInv

\* A transfer moves on, under the lock it has: what is left of LedgerInv to show.
LEMMA StageKeepsLock ==
    ASSUME LedgerInv, NEW p \in Payer, paying[p].at # "idle", NEW st \in {"locked", "debited", "credited"},
           paying' = [paying EXCEPT ![p].at = st], UNCHANGED <<nonceLock, usedNonces>>
    PROVE  paying' \in [Payer -> Paying] /\ LockHeld' /\ NonceTaken'
<1>1. paying[p].tx \in Transaction /\ paying \in [Payer -> Paying]
  BY InProgress DEF LedgerInv, TypeOK
<1>2. /\ paying'[p].at = st /\ paying'[p].tx = paying[p].tx
      /\ \A q \in Payer \ {p} : paying'[q] = paying[q]
  BY <1>1
<1>3. [paying[p] EXCEPT !.at = st] \in Paying
  BY <1>1 DEF Paying
<1>4. paying' \in [Payer -> Paying]
  BY <1>1, <1>3
<1>5. nonceLock = p
  BY DEF LedgerInv, LockHeld
<1>6. LockHeld'
  BY <1>2, <1>5 DEF LedgerInv, LockHeld
<1>7. NonceTaken'
  BY <1>2 DEF LedgerInv, NonceTaken
<1>8. QED
  BY <1>4, <1>6, <1>7

\* A transfer ends and frees the lock.
LEMMA EndKeepsLock ==
    ASSUME LedgerInv, NEW p \in Payer, paying[p].at # "idle",
           paying' = [paying EXCEPT ![p] = [at |-> "idle", tx |-> None]],
           nonceLock' = None, UNCHANGED usedNonces
    PROVE  paying' \in [Payer -> Paying] /\ LockHeld' /\ NonceTaken'
<1>1. paying \in [Payer -> Paying] /\ [at |-> "idle", tx |-> None] \in Paying
  BY DEF LedgerInv, TypeOK, Paying
<1>2. /\ paying'[p].at = "idle"
      /\ \A q \in Payer \ {p} : paying'[q] = paying[q] /\ paying[q].at = "idle"
  BY <1>1 DEF LedgerInv, LockHeld
<1>3. QED
  BY <1>1, <1>2 DEF LedgerInv, LockHeld, NonceTaken

LEMMA BeginKeepsLedgerInv ==
    ASSUME FuelLedgerAssumption, LedgerInv, NEW p \in Payer, NEW tx \in Transaction,
           BeginTransfer(p, tx)
    PROVE  LedgerInv'
<1>1. /\ TypeOK /\ nonceLock = None /\ nonceLock' = p
      /\ usedNonces' = usedNonces \cup {tx.nonce} /\ tx.nonce \in TxNonce
      /\ paying' = [paying EXCEPT ![p] = [at |-> "locked", tx |-> tx]]
      /\ UNCHANGED <<balances, auditLog, minted, deposits>>
  BY TransactionFields DEF LedgerInv, BeginTransfer
<1>2. [at |-> "locked", tx |-> tx] \in Paying
  BY DEF Paying
<1>3. paying' \in [Payer -> Paying]
  BY <1>1, <1>2 DEF TypeOK
<1>4. TypeOK'
  BY <1>1, <1>3 DEF TypeOK
<1>5. /\ paying'[p] = [at |-> "locked", tx |-> tx]
      /\ \A q \in Payer \ {p} : paying'[q] = paying[q]
  BY <1>1 DEF TypeOK
<1>6. \A q \in Payer : paying[q].at = "idle"
  BY <1>1 DEF LedgerInv, LockHeld, FuelLedgerAssumption
<1>7. QED
  BY <1>1, <1>4, <1>5, <1>6 DEF LedgerInv, LockHeld, NonceTaken

LEMMA RefuseKeepsLedgerInv ==
    ASSUME FuelLedgerAssumption, LedgerInv, NEW p \in Payer, RefuseTransfer(p)
    PROVE  LedgerInv'
<1>1. /\ paying[p].at = "locked"
      /\ paying' = [paying EXCEPT ![p] = [at |-> "idle", tx |-> None]]
      /\ nonceLock' = None
      /\ UNCHANGED <<balances, usedNonces, auditLog, minted, deposits>>
  BY DEF RefuseTransfer
<1>2. QED
  BY <1>1, EndKeepsLock DEF LedgerInv, TypeOK

LEMMA DebitKeepsLedgerInv ==
    ASSUME FuelLedgerAssumption, LedgerInv, NEW p \in Payer, Debit(p)
    PROVE  LedgerInv'
<1> DEFINE tx == paying[p].tx
<1>1. /\ TypeOK /\ paying[p].at = "locked" /\ tx.amount <= balances[tx.from]
      /\ balances' = [balances EXCEPT ![tx.from] = @ - tx.amount]
      /\ paying' = [paying EXCEPT ![p].at = "debited"]
      /\ UNCHANGED <<usedNonces, nonceLock, auditLog, minted, deposits>>
  BY DEF LedgerInv, Debit, Covered
<1>2. tx.from \in Account /\ tx.amount \in Nat
  BY <1>1, InProgress, TransactionFields DEF FuelLedgerAssumption
<1>3. balances' \in [Account -> Nat]
  BY <1>1, <1>2 DEF TypeOK
<1>4. QED
  BY <1>1, <1>3, StageKeepsLock DEF LedgerInv, TypeOK

LEMMA CreditKeepsLedgerInv ==
    ASSUME FuelLedgerAssumption, LedgerInv, NEW p \in Payer, Credit(p)
    PROVE  LedgerInv'
<1> DEFINE tx == paying[p].tx
<1>1. /\ TypeOK /\ paying[p].at = "debited"
      /\ balances' = [balances EXCEPT ![tx.to] = @ + tx.amount]
      /\ paying' = [paying EXCEPT ![p].at = "credited"]
      /\ UNCHANGED <<usedNonces, nonceLock, auditLog, minted, deposits>>
  BY DEF LedgerInv, Credit
<1>2. tx.to \in Account /\ tx.amount \in Nat
  BY <1>1, InProgress, TransactionFields DEF FuelLedgerAssumption
<1>3. balances' \in [Account -> Nat]
  BY <1>1, <1>2 DEF TypeOK
<1>4. QED
  BY <1>1, <1>3, StageKeepsLock DEF LedgerInv, TypeOK

LEMMA EndKeepsLedgerInv ==
    ASSUME FuelLedgerAssumption, LedgerInv, NEW p \in Payer, EndTransfer(p)
    PROVE  LedgerInv'
<1>1. /\ TypeOK /\ paying[p].at = "credited"
      /\ auditLog' = Append(auditLog, paying[p].tx)
      /\ paying' = [paying EXCEPT ![p] = [at |-> "idle", tx |-> None]]
      /\ nonceLock' = None
      /\ UNCHANGED <<balances, usedNonces, minted, deposits>>
  BY DEF LedgerInv, EndTransfer
<1>2. auditLog' \in Seq(Transaction)
  BY <1>1, InProgress DEF TypeOK
<1>3. QED
  BY <1>1, <1>2, EndKeepsLock DEF LedgerInv, TypeOK

LEMMA MintKeepsLedgerInv ==
    ASSUME FuelLedgerAssumption, LedgerInv, NEW a \in Account, NEW n \in Amount, Mint(a, n)
    PROVE  LedgerInv'
<1>1. n \in Nat
  BY DEF FuelLedgerAssumption
<1>2. balances' \in [Account -> Nat] /\ minted' \in [Account -> Nat]
  BY <1>1 DEF LedgerInv, TypeOK, Mint
<1>3. QED
  BY <1>2 DEF LedgerInv, TypeOK, LockHeld, NonceTaken, Mint

\* No deposit is minted: the proposal of the bridge carries no signatures.
LEMMA DepositKeepsLedgerInv ==
    ASSUME FuelLedgerAssumption, LedgerInv, NEW d \in Deposit,
           ConfirmDeposit(d) \/ \E k \in ClusterSize : SettleDeposit(d, k)
    PROVE  /\ LedgerInv'
           /\ UNCHANGED <<balances, usedNonces, nonceLock, paying, auditLog, minted>>
<1>1. /\ UNCHANGED <<balances, usedNonces, nonceLock, paying, auditLog, minted>>
      /\ \E s \in {"asked", "confirmed"} : deposits' = [deposits EXCEPT ![d] = s]
  <2>1. CASE ConfirmDeposit(d)
    BY <2>1 DEF ConfirmDeposit
  <2>2. CASE \E k \in ClusterSize : SettleDeposit(d, k)
    BY <2>2, NoMajority DEF SettleDeposit, FuelLedgerAssumption
  <2>3. QED
    BY <2>1, <2>2
<1>2. QED
  BY <1>1 DEF LedgerInv, TypeOK, LockHeld, NonceTaken

LEMMA NextKeepsLedgerInv == ASSUME FuelLedgerAssumption, LedgerInv, [Next]_vars PROVE LedgerInv'
<1>1. CASE \E a \in Account, n \in Amount : Mint(a, n)
  BY <1>1, MintKeepsLedgerInv
<1>2. CASE \E p \in Payer, tx \in Transaction : BeginTransfer(p, tx)
  BY <1>2, BeginKeepsLedgerInv
<1>3. CASE \E p \in Payer : RefuseTransfer(p) \/ Debit(p) \/ Credit(p) \/ EndTransfer(p)
  BY <1>3, RefuseKeepsLedgerInv, DebitKeepsLedgerInv, CreditKeepsLedgerInv, EndKeepsLedgerInv
<1>4. CASE \E d \in Deposit : ConfirmDeposit(d) \/ \E k \in ClusterSize : SettleDeposit(d, k)
  BY <1>4, DepositKeepsLedgerInv
<1>5. CASE UNCHANGED vars
  BY <1>5 DEF vars, LedgerInv, TypeOK, LockHeld, NonceTaken
<1>6. QED
  BY <1>1, <1>2, <1>3, <1>4, <1>5 DEF Next

(* One transfer is under way at a time, under the lock of the nonces, and    *)
(* its nonce is used (VoucherRegistry::transfer).                            *)
THEOREM LedgerInvariance == ASSUME FuelLedgerAssumption PROVE Spec => []LedgerInv
<1>1. Init => LedgerInv
  BY InitLedgerInv
<1>2. LedgerInv /\ [Next]_vars => LedgerInv'
  BY NextKeepsLedgerInv
<1>3. QED
  BY <1>1, <1>2, PTL DEF Spec

(* Balances never go below zero, however mints and transfers interleave      *)
(* (VoucherRegistry::transfer, mint).                                        *)
THEOREM LedgerTypeCorrect == ASSUME FuelLedgerAssumption PROVE Spec => []TypeOK
<1>1. LedgerInv => TypeOK
  BY DEF LedgerInv
<1>2. QED
  BY <1>1, LedgerInvariance, PTL

-----------------------------------------------------------------------------
(* The refinement: funds that are in flight already belong to the receiver,  *)
(* and a nonce is spent when its transfer is decided.                        *)

\* At rest nothing is in flight; otherwise only the transfer that has the lock is.
LEMMA FundsAtRest ==
    ASSUME FuelLedgerAssumption, LedgerInv,
           nonceLock = None \/ paying[nonceLock].at # "debited"
    PROVE  Funds = [a \in Account |-> balances[a]]
BY DEF Funds, InFlight, Stage, LedgerInv, TypeOK

LEMMA FundsInFlight ==
    ASSUME FuelLedgerAssumption, LedgerInv, NEW p \in Payer, paying[p].at = "debited"
    PROVE  Funds = [a \in Account |->
                       balances[a] + IF a = paying[p].tx.to THEN paying[p].tx.amount ELSE 0]
<1>1. nonceLock = p /\ p # None
  BY DEF LedgerInv, LockHeld, FuelLedgerAssumption
<1>2. QED
  BY <1>1 DEF Funds, InFlight, Stage

\* Only the transfer that has the lock can be undecided.
LEMMA UndecidedOne ==
    ASSUME LedgerInv, NEW p \in Payer, paying[p].at # "idle"
    PROVE  Undecided = IF paying[p].at = "locked" THEN {paying[p].tx.nonce} ELSE {}
BY DEF Undecided, LedgerInv, LockHeld

LEMMA UndecidedNone ==
    ASSUME \A p \in Payer : paying[p].at # "locked"
    PROVE  Undecided = {}
BY DEF Undecided

\* A step that touches neither balances nor transfers is a stutter.
LEMMA Stutters ==
    ASSUME UNCHANGED <<balances, usedNonces, nonceLock, paying>>
    PROVE  UNCHANGED <<Funds, Spent>>
BY DEF Funds, Spent, InFlight, Stage, Undecided

LEMMA InitRefines == ASSUME FuelLedgerAssumption, Init PROVE Abstract!Init
<1>1. LedgerInv
  BY InitLedgerInv
<1>2. Funds = [a \in Account |-> 0]
  BY <1>1, FundsAtRest DEF Init
<1>3. Spent = {}
  BY DEF Spent, Init
<1>4. QED
  BY <1>2, <1>3 DEF Abstract!Init

LEMMA MintRefines ==
    ASSUME FuelLedgerAssumption, LedgerInv, NEW a \in Account, NEW n \in Amount, Mint(a, n)
    PROVE  Abstract!Next
<1>1. /\ balances \in [Account -> Nat] /\ n \in Nat \ {0}
      /\ balances' = [balances EXCEPT ![a] = @ + n]
      /\ UNCHANGED <<usedNonces, nonceLock, paying>>
  BY DEF LedgerInv, TypeOK, Mint, FuelLedgerAssumption
<1>2. \A b \in Account : InFlight[b] \in Nat
  <2>1. nonceLock # None => nonceLock \in Payer
    BY DEF LedgerInv, TypeOK
  <2>2. nonceLock # None => paying[nonceLock].tx.amount \in Nat
    BY <2>1, InProgress, TransactionFields DEF LedgerInv, LockHeld, FuelLedgerAssumption
  <2>3. QED
    BY <2>2 DEF InFlight, Stage
<1>3. InFlight' = InFlight
  BY <1>1 DEF InFlight, Stage
<1>4. Funds' = [b \in Account |-> balances'[b] + InFlight[b]]
  BY <1>3 DEF Funds
<1>5. Funds' = [Funds EXCEPT ![a] = @ + n]
  <2>1. \A b \in Account : balances'[b] + InFlight[b] = IF b = a THEN Funds[b] + n ELSE Funds[b]
    BY <1>1, <1>2 DEF Funds
  <2>2. QED
    BY <1>4, <2>1 DEF Funds
<1>6. Funds[a] \in Nat
  BY <1>1, <1>2 DEF Funds
<1>7. Funds'[a] = Funds[a] + n
  BY <1>5 DEF Funds
<1>8. Funds'[a] > Funds[a] /\ Funds'[a] - Funds[a] = n
  BY <1>1, <1>6, <1>7
<1>9. Spent' = Spent
  BY <1>1 DEF Spent, Undecided
<1>10. Abstract!Mint(a, Funds'[a] - Funds[a])
  BY <1>5, <1>8, <1>9 DEF Abstract!Mint
<1>11. QED
  BY <1>8, <1>10 DEF Abstract!Next

\* The nonce is used and undecided: not yet spent.
LEMMA BeginStutters ==
    ASSUME FuelLedgerAssumption, LedgerInv, NEW p \in Payer, NEW tx \in Transaction,
           BeginTransfer(p, tx)
    PROVE  UNCHANGED <<Funds, Spent>>
<1>1. LedgerInv' /\ nonceLock = None /\ p # None
  BY BeginKeepsLedgerInv DEF BeginTransfer, FuelLedgerAssumption
<1>2. /\ paying'[p] = [at |-> "locked", tx |-> tx] /\ balances' = balances
      /\ usedNonces' = usedNonces \cup {tx.nonce} /\ tx.nonce \notin usedNonces
      /\ nonceLock' = p
  BY DEF LedgerInv, TypeOK, BeginTransfer
<1>3. Funds = [a \in Account |-> balances[a]]
  BY <1>1, FundsAtRest
<1>4. Funds' = [a \in Account |-> balances'[a]]
  BY <1>2, <1>1 DEF Funds, InFlight, Stage, LedgerInv, TypeOK
<1>5. Undecided = {}
  BY <1>1, UndecidedNone DEF LedgerInv, LockHeld
<1>6. Undecided' = {tx.nonce}
  BY <1>1, <1>2 DEF Undecided, LedgerInv, LockHeld
<1>7. QED
  BY <1>2, <1>3, <1>4, <1>5, <1>6 DEF Spent

LEMMA RefuseRefines ==
    ASSUME FuelLedgerAssumption, LedgerInv, NEW p \in Payer, RefuseTransfer(p)
    PROVE  Abstract!Next
<1> DEFINE tx == paying[p].tx
<1>1. /\ LedgerInv' /\ nonceLock' = None /\ UNCHANGED <<balances, usedNonces>>
      /\ paying[p].at = "locked"
      /\ paying' = [paying EXCEPT ![p] = [at |-> "idle", tx |-> None]]
  BY RefuseKeepsLedgerInv DEF RefuseTransfer
<1>2. nonceLock = p /\ tx \in Transaction /\ tx.nonce \in usedNonces
  BY <1>1, InProgress DEF LedgerInv, LockHeld, NonceTaken
<1>3. Funds' = Funds
  BY <1>1, <1>2 DEF Funds, InFlight, Stage
<1>4. Undecided = {tx.nonce}
  BY <1>1, UndecidedOne
<1>5. \A q \in Payer : paying'[q].at # "locked"
  BY <1>1, <1>2 DEF LedgerInv, LockHeld, FuelLedgerAssumption
<1>6. Undecided' = {}
  BY <1>5 DEF Undecided
<1>7. tx.nonce \notin Spent /\ Spent' = Spent \cup {tx.nonce}
  BY <1>1, <1>2, <1>4, <1>6 DEF Spent
<1>8. QED
  BY <1>2, <1>3, <1>7 DEF Abstract!Next, Abstract!Refuse

\* The payment: funded and signed when the sender is debited.
LEMMA DebitRefines ==
    ASSUME FuelLedgerAssumption, LedgerInv, NEW p \in Payer, Debit(p)
    PROVE  Abstract!Next
<1> DEFINE tx == paying[p].tx
<1>1. /\ LedgerInv' /\ UNCHANGED <<nonceLock, usedNonces>>
      /\ paying[p].at = "locked" /\ tx.signed /\ tx.amount <= balances[tx.from]
      /\ balances' = [balances EXCEPT ![tx.from] = @ - tx.amount]
      /\ paying' = [paying EXCEPT ![p].at = "debited"]
      /\ balances \in [Account -> Nat] /\ paying \in [Payer -> Paying]
  BY DebitKeepsLedgerInv DEF Debit, Covered, LedgerInv, TypeOK
<1>2. /\ nonceLock = p /\ p # None /\ tx \in Transaction /\ tx.nonce \in usedNonces
      /\ tx.from \in Account /\ tx.to \in Account /\ tx.amount \in Nat
  BY <1>1, InProgress, TransactionFields DEF LedgerInv, LockHeld, NonceTaken, FuelLedgerAssumption
<1>3. /\ paying'[p].at = "debited" /\ paying'[p].tx = tx
      /\ \A q \in Payer \ {p} : paying'[q] = paying[q]
  BY <1>1
<1>4. Funds = [a \in Account |-> balances[a]]
  BY <1>1, <1>2, FundsAtRest
<1>5. Funds' = [a \in Account |-> balances'[a] + IF a = tx.to THEN tx.amount ELSE 0]
  BY <1>1, <1>2, <1>3 DEF Funds, InFlight, Stage
<1>6. Funds' = Abstract!Moved(Funds, tx.from, tx.to, tx.amount)
  <2>1. \A a \in Account : balances'[a] = balances[a] - IF a = tx.from THEN tx.amount ELSE 0
    BY <1>1, <1>2
  <2>2. QED
    BY <1>1, <1>2, <1>4, <1>5, <2>1 DEF Abstract!Moved
<1>7. Undecided = {tx.nonce}
  BY <1>1, UndecidedOne
<1>8. \A q \in Payer : paying'[q].at # "locked"
  BY <1>2, <1>3 DEF LedgerInv, LockHeld
<1>9. Undecided' = {}
  BY <1>8 DEF Undecided
<1>10. tx.nonce \notin Spent /\ Spent' = Spent \cup {tx.nonce}
  BY <1>1, <1>2, <1>7, <1>9 DEF Spent
<1>11. tx.amount <= Funds[tx.from]
  BY <1>1, <1>2, <1>4
<1>12. Abstract!Pay(tx)
  BY <1>1, <1>6, <1>10, <1>11 DEF Abstract!Pay
<1>13. QED
  BY <1>2, <1>10, <1>12 DEF Abstract!Next

LEMMA CreditStutters ==
    ASSUME FuelLedgerAssumption, LedgerInv, NEW p \in Payer, Credit(p)
    PROVE  UNCHANGED <<Funds, Spent>>
<1> DEFINE tx == paying[p].tx
<1>1. /\ UNCHANGED <<nonceLock, usedNonces>> /\ paying[p].at = "debited"
      /\ balances' = [balances EXCEPT ![tx.to] = @ + tx.amount]
      /\ paying' = [paying EXCEPT ![p].at = "credited"]
      /\ balances \in [Account -> Nat] /\ paying \in [Payer -> Paying]
  BY DEF Credit, LedgerInv, TypeOK
<1>2. nonceLock = p /\ tx.to \in Account /\ tx.amount \in Nat
  BY <1>1, InProgress, TransactionFields DEF LedgerInv, LockHeld, FuelLedgerAssumption
<1>3. /\ paying'[p].at = "credited"
      /\ \A q \in Payer \ {p} : paying'[q] = paying[q] /\ paying[q].at = "idle"
  BY <1>1, <1>2 DEF LedgerInv, LockHeld
<1>4. Funds = [a \in Account |-> balances[a] + IF a = tx.to THEN tx.amount ELSE 0]
  BY <1>1, FundsInFlight
<1>5. Funds' = [a \in Account |-> balances'[a]]
  <2>1. \A a \in Account : balances'[a] \in Nat
    BY <1>1, <1>2
  <2>2. QED
    BY <1>1, <1>2, <1>3, <2>1 DEF Funds, InFlight, Stage
<1>6. Funds' = Funds
  BY <1>1, <1>2, <1>4, <1>5
<1>7. Undecided = {}
  BY <1>1, <1>3, UndecidedNone
<1>8. Undecided' = {}
  BY <1>3 DEF Undecided
<1>9. QED
  BY <1>1, <1>6, <1>7, <1>8 DEF Spent

LEMMA EndStutters ==
    ASSUME FuelLedgerAssumption, LedgerInv, NEW p \in Payer, EndTransfer(p)
    PROVE  UNCHANGED <<Funds, Spent>>
<1>1. /\ UNCHANGED <<balances, usedNonces>> /\ paying[p].at = "credited" /\ nonceLock' = None
      /\ paying' = [paying EXCEPT ![p] = [at |-> "idle", tx |-> None]]
      /\ paying \in [Payer -> Paying]
  BY DEF EndTransfer, LedgerInv, TypeOK
<1>2. nonceLock = p
  BY <1>1 DEF LedgerInv, LockHeld
<1>3. /\ paying'[p].at = "idle"
      /\ \A q \in Payer \ {p} : paying'[q] = paying[q] /\ paying[q].at = "idle"
  BY <1>1, <1>2 DEF LedgerInv, LockHeld
<1>4. Funds' = Funds
  BY <1>1, <1>2 DEF Funds, InFlight, Stage
<1>5. Undecided = {}
  BY <1>1, <1>3, UndecidedNone
<1>6. Undecided' = {}
  BY <1>3 DEF Undecided
<1>7. QED
  BY <1>1, <1>4, <1>5, <1>6 DEF Spent

LEMMA NextRefines ==
    ASSUME FuelLedgerAssumption, LedgerInv, [Next]_vars
    PROVE  [Abstract!Next]_<<Funds, Spent>>
<1>1. CASE \E a \in Account, n \in Amount : Mint(a, n)
  BY <1>1, MintRefines
<1>2. CASE \E p \in Payer, tx \in Transaction : BeginTransfer(p, tx)
  BY <1>2, BeginStutters
<1>3. CASE \E p \in Payer : RefuseTransfer(p)
  BY <1>3, RefuseRefines
<1>4. CASE \E p \in Payer : Debit(p)
  BY <1>4, DebitRefines
<1>5. CASE \E p \in Payer : Credit(p) \/ EndTransfer(p)
  BY <1>5, CreditStutters, EndStutters
<1>6. CASE \E d \in Deposit : ConfirmDeposit(d) \/ \E k \in ClusterSize : SettleDeposit(d, k)
  BY <1>6, DepositKeepsLedgerInv, Stutters
<1>7. CASE UNCHANGED vars
  BY <1>7, Stutters DEF vars
<1>8. QED
  BY <1>1, <1>2, <1>3, <1>4, <1>5, <1>6, <1>7 DEF Next

(* The detailed ledger, with its locks and its three writes per transfer,    *)
(* implements the one whose payments are atomic: no payment is made twice,   *)
(* uncovered or unsigned, whoever comes between its steps                    *)
(* (VoucherRegistry::transfer, mint, SettlementBridge::process_deposit).     *)
THEOREM LedgerImplemented == ASSUME FuelLedgerAssumption PROVE Spec => ImplementsLedger
<1>1. Init => Abstract!Init
  BY InitRefines
<1>2. LedgerInv /\ [Next]_vars => [Abstract!Next]_<<Funds, Spent>>
  BY NextRefines
<1>3. QED
  BY <1>1, <1>2, LedgerInvariance, PTL DEF Spec, ImplementsLedger, Abstract!Spec, Abstract!lvars

-----------------------------------------------------------------------------
(* The audit log explains every balance.                                     *)

LEMMA LeastNatural ==
    ASSUME NEW S \in SUBSET Nat, S # {}
    PROVE  \E m \in S : \A k \in S : m <= k
<1> DEFINE R == {ss \in Nat \X Nat : ss[1] < ss[2]}
<1>1. IsWellFoundedOn(R, Nat)
  BY NatLessThanWellFounded DEF OpToRel
<1>2. \A k, m \in Nat : k < m => <<k, m>> \in R
  OBVIOUS
<1> HIDE DEF R
<1>3. PICK m \in S : \A k \in S : ~(<<k, m>> \in R)
  BY <1>1, WFMin
<1>4. \A k \in S : ~(k < m)
  BY <1>2, <1>3
<1>5. QED
  BY <1>4

\* The sums of a log exist: a counterexample of least length would be one step
\* longer than a log that has them.
LEMMA SumsExist ==
    ASSUME NEW n \in Nat, NEW v \in [1 .. n -> Int]
    PROVE  \E f \in [0 .. n -> Int] :
               f = [i \in 0 .. n |-> IF i = 0 THEN 0 ELSE f[i - 1] + v[i]]
<1> DEFINE Sums(f, k) == f = [i \in 0 .. k |-> IF i = 0 THEN 0 ELSE f[i - 1] + v[i]]
           Has(k) == \E f \in [0 .. k -> Int] : Sums(f, k)
           Bad == {k \in 0 .. n : ~Has(k)}
<1> HIDE DEF Has
<1>1. ASSUME NEW k \in Bad, \A m \in Bad : k <= m PROVE FALSE
  <2>1. CASE k = 0
    <3>1. [i \in 0 .. 0 |-> 0] \in [0 .. 0 -> Int] /\ Sums([i \in 0 .. 0 |-> 0], 0)
      OBVIOUS
    <3>2. Has(0)
      BY <3>1 DEF Has
    <3>3. QED
      BY <2>1, <3>2
  <2>2. CASE k # 0
    <3>1. k \in 1 .. n /\ k - 1 \in 0 .. n
      BY <1>1, <2>2
    <3>2. Has(k - 1)
      BY <1>1, <3>1
    <3>3. PICK f \in [0 .. k - 1 -> Int] : Sums(f, k - 1)
      BY <3>2 DEF Has
    <3>4. \A i \in 0 .. k - 1 : f[i] = IF i = 0 THEN 0 ELSE f[i - 1] + v[i]
      BY <3>3
    <3> DEFINE g == [i \in 0 .. k |-> IF i = k THEN f[k - 1] + v[k] ELSE f[i]]
    <3>5. v[k] \in Int /\ f[k - 1] \in Int
      BY <3>1, <3>3
    <3>6. g \in [0 .. k -> Int]
      BY <3>1, <3>5
    <3>7. ASSUME NEW i \in 0 .. k PROVE g[i] = IF i = 0 THEN 0 ELSE g[i - 1] + v[i]
      <4>1. CASE i = k
        BY <3>1, <4>1
      <4>2. CASE i # k
        <5>1. i \in 0 .. k - 1 /\ (i # 0 => i - 1 \in 0 .. k - 1)
          BY <3>1, <4>2
        <5>2. g[i] = f[i] /\ (i # 0 => g[i - 1] = f[i - 1])
          BY <3>1, <5>1
        <5>3. QED
          BY <3>4, <5>1, <5>2
      <4>3. QED
        BY <4>1, <4>2
    <3>8. Sums(g, k)
      BY <3>6, <3>7
    <3>9. Has(k)
      BY <3>6, <3>8 DEF Has
    <3>10. QED
      BY <3>9
  <2>3. QED
    BY <2>1, <2>2
<1>2. Bad \in SUBSET Nat
  OBVIOUS
<1>3. Bad = {}
  <2> HIDE DEF Bad
  <2>1. QED
    BY <1>1, <1>2, LeastNatural
<1>4. Has(n)
  BY <1>3
<1>5. QED
  BY <1>4 DEF Has

\* What a log of transactions moves, entry by entry.
LEMMA MovedType ==
    ASSUME FuelLedgerAssumption, NEW tx \in Transaction, NEW a \in Account
    PROVE  Moved(tx, a) \in Int
<1>1. tx.amount \in Nat
  BY TransactionFields DEF FuelLedgerAssumption
<1>2. QED
  BY <1>1 DEF Moved

LEMMA SumsOfLog ==
    ASSUME FuelLedgerAssumption, NEW log \in Seq(Transaction), NEW a \in Account
    PROVE  /\ MovedUpTo(log, a) \in [0 .. Len(log) -> Int]
           /\ \A i \in 0 .. Len(log) : MovedUpTo(log, a)[i] =
                  IF i = 0 THEN 0 ELSE MovedUpTo(log, a)[i - 1] + Moved(log[i], a)
<1> DEFINE n == Len(log)
           v == [i \in 1 .. n |-> Moved(log[i], a)]
           Sums(f) == f = [i \in 0 .. n |-> IF i = 0 THEN 0 ELSE f[i - 1] + Moved(log[i], a)]
<1>1. n \in Nat /\ v \in [1 .. n -> Int]
  BY MovedType
<1>2. PICK g \in [0 .. n -> Int] : g = [i \in 0 .. n |-> IF i = 0 THEN 0 ELSE g[i - 1] + v[i]]
  BY <1>1, SumsExist
<1>3. Sums(g)
  <2>1. ASSUME NEW i \in 0 .. n
        PROVE  g[i] = IF i = 0 THEN 0 ELSE g[i - 1] + Moved(log[i], a)
    <3>1. g[i] = IF i = 0 THEN 0 ELSE g[i - 1] + v[i]
      BY <1>2
    <3>2. i # 0 => v[i] = Moved(log[i], a)
      BY <1>1
    <3>3. QED
      BY <3>1, <3>2
  <2>2. QED
    BY <2>1, <1>2
<1>4. \A f : Sums(f) => f \in [0 .. n -> Int]
  <2>1. SUFFICES ASSUME NEW f, Sums(f) PROVE f \in [0 .. n -> Int]
    OBVIOUS
  <2>2. /\ DOMAIN f = 0 .. n /\ f = [i \in 0 .. n |-> f[i]]
        /\ \A i \in 0 .. n : f[i] = IF i = 0 THEN 0 ELSE f[i - 1] + Moved(log[i], a)
    BY <2>1
  <2> DEFINE Bad == {i \in 0 .. n : f[i] \notin Int}
  <2>3. ASSUME Bad # {} PROVE FALSE
    <3>0. Bad \in SUBSET Nat
      BY <1>1
    <3>1. PICK i \in Bad : \A m \in Bad : i <= m
      <4> HIDE DEF Bad
      <4>1. QED
        BY <2>3, <3>0, LeastNatural
    <3>2. i # 0
      BY <2>2
    <3>3. i \in 1 .. n /\ i - 1 \in 0 .. n /\ f[i - 1] \in Int
      BY <3>1, <3>2
    <3>4. Moved(log[i], a) \in Int
      BY <3>3, MovedType
    <3>5. QED
      BY <2>2, <3>1, <3>2, <3>3, <3>4
  <2>4. QED
    BY <2>2, <2>3
<1>5. MovedUpTo(log, a) = CHOOSE f : Sums(f)
  BY DEF MovedUpTo
<1>6. Sums(MovedUpTo(log, a))
  BY <1>3, <1>5
<1>7. QED
  BY <1>4, <1>6

\* One more entry in the log: its sums grow by what that entry moves.
LEMMA SumOfAppend ==
    ASSUME FuelLedgerAssumption, NEW log \in Seq(Transaction), NEW tx \in Transaction,
           NEW a \in Account
    PROVE  Logged(Append(log, tx), a) = Logged(log, a) + Moved(tx, a)
<1> DEFINE n == Len(log)
           longer == Append(log, tx)
           f == MovedUpTo(log, a)
           g == MovedUpTo(longer, a)
<1>1. /\ longer \in Seq(Transaction) /\ Len(longer) = n + 1 /\ n \in Nat
      /\ longer[n + 1] = tx /\ \A i \in 1 .. n : longer[i] = log[i]
  OBVIOUS
<1>2. /\ f \in [0 .. n -> Int]
      /\ \A i \in 0 .. n : f[i] = IF i = 0 THEN 0 ELSE f[i - 1] + Moved(log[i], a)
  BY SumsOfLog
<1>3. /\ g \in [0 .. n + 1 -> Int]
      /\ \A i \in 0 .. n + 1 : g[i] = IF i = 0 THEN 0 ELSE g[i - 1] + Moved(longer[i], a)
  BY <1>1, SumsOfLog
<1> HIDE DEF f, g, longer, n
<1>4. g[n] = f[n]
  <2> DEFINE Bad == {i \in 0 .. n : g[i] # f[i]}
  <2>1. ASSUME Bad # {} PROVE FALSE
    <3>0. Bad \in SUBSET Nat
      BY <1>1
    <3>1. PICK i \in Bad : \A m \in Bad : i <= m
      <4> HIDE DEF Bad
      <4>1. QED
        BY <2>1, <3>0, LeastNatural
    <3>2. i # 0 /\ i \in 0 .. n
      BY <1>1, <1>2, <1>3, <3>1
    <3>3. i \in 1 .. n /\ i - 1 \in 0 .. n /\ g[i - 1] = f[i - 1]
      BY <1>1, <3>1, <3>2
    <3>4. Moved(longer[i], a) = Moved(log[i], a)
      BY <1>1, <3>3
    <3>5. g[i] = g[i - 1] + Moved(longer[i], a)
      BY <1>1, <1>3, <3>2
    <3>6. f[i] = f[i - 1] + Moved(log[i], a)
      BY <1>2, <3>2
    <3>7. QED
      BY <3>1, <3>3, <3>4, <3>5, <3>6
  <2>2. QED
    BY <1>1, <2>1
<1>5. g[n + 1] = g[n] + Moved(tx, a)
  BY <1>1, <1>3
<1>6. QED
  BY <1>1, <1>4, <1>5 DEF Logged, f, g, longer, n

LEMMA SumOfNothing ==
    ASSUME FuelLedgerAssumption, NEW a \in Account
    PROVE  Logged(<<>>, a) = 0
<1> DEFINE log == <<>>
<1>1. log \in Seq(Transaction) /\ Len(log) = 0 /\ 0 \in 0 .. 0
  OBVIOUS
<1> HIDE DEF log
<1>2. MovedUpTo(log, a)[0] = 0
  BY <1>1, SumsOfLog
<1>3. QED
  BY <1>1, <1>2 DEF Logged, log

LEMMA LoggedType ==
    ASSUME FuelLedgerAssumption, NEW log \in Seq(Transaction), NEW a \in Account
    PROVE  Logged(log, a) \in Int
<1>1. Len(log) \in 0 .. Len(log)
  OBVIOUS
<1>2. MovedUpTo(log, a) \in [0 .. Len(log) -> Int]
  BY SumsOfLog
<1>3. QED
  BY <1>1, <1>2 DEF Logged

\* What the transfer under way has given to an account and taken from it.
LEMMA NoneUnderWay ==
    ASSUME nonceLock = None \/ paying[nonceLock].at = "locked", NEW a \in Account
    PROVE  Given[a] = 0 /\ Taken[a] = 0
BY DEF Given, Taken, Stage

LEMMA OneUnderWay ==
    ASSUME FuelLedgerAssumption, LedgerInv, NEW p \in Payer, paying[p].at # "idle", NEW a \in Account
    PROVE  /\ nonceLock = p /\ nonceLock # None
           /\ Given[a] = IF paying[p].at = "credited" /\ paying[p].tx.to = a
                         THEN paying[p].tx.amount ELSE 0
           /\ Taken[a] = IF paying[p].at \in {"debited", "credited"} /\ paying[p].tx.from = a
                         THEN paying[p].tx.amount ELSE 0
<1>1. nonceLock = p /\ p # None
  BY DEF LedgerInv, LockHeld, FuelLedgerAssumption
<1>2. QED
  BY <1>1 DEF Given, Taken, Stage

\* A step that moves no money.
LEMMA BooksUnmoved ==
    ASSUME BalancesFollowLog, UNCHANGED <<balances, minted, auditLog>>,
           \A a \in Account : Given'[a] = Given[a] /\ Taken'[a] = Taken[a]
    PROVE  BalancesFollowLog'
BY DEF BalancesFollowLog, Logged, MovedUpTo

LEMMA MintKeepsBooks ==
    ASSUME FuelLedgerAssumption, LedgerInv, BalancesFollowLog,
           NEW a \in Account, NEW n \in Amount, Mint(a, n)
    PROVE  BalancesFollowLog'
<1>1. /\ UNCHANGED <<nonceLock, paying, auditLog>> /\ n \in Nat
      /\ \A b \in Account : /\ balances'[b] = balances[b] + IF b = a THEN n ELSE 0
                            /\ minted'[b] = minted[b] + IF b = a THEN n ELSE 0
                            /\ balances[b] \in Nat /\ minted[b] \in Nat
                            /\ Logged(auditLog, b) \in Int
  BY LoggedType DEF Mint, LedgerInv, TypeOK, FuelLedgerAssumption
<1>2. Given' = Given /\ Taken' = Taken
  BY <1>1 DEF Given, Taken, Stage
<1>3. SUFFICES ASSUME NEW b \in Account
               PROVE  balances'[b] = minted'[b] + Logged(auditLog, b) + Given[b] - Taken[b]
  BY <1>1, <1>2 DEF BalancesFollowLog
<1>4. Given[b] \in Nat /\ Taken[b] \in Nat
  <2>1. CASE nonceLock = None
    BY <2>1, NoneUnderWay
  <2>2. CASE nonceLock # None
    <3>1. nonceLock \in Payer /\ paying[nonceLock].at # "idle" /\ TypeOK
      BY <2>2 DEF LedgerInv, TypeOK, LockHeld
    <3>2. paying[nonceLock].tx.amount \in Nat
      BY <3>1, InProgress, TransactionFields DEF FuelLedgerAssumption
    <3>3. QED
      BY <3>1, <3>2, OneUnderWay
  <2>3. QED
    BY <2>1, <2>2
<1>5. QED
  BY <1>1, <1>4 DEF BalancesFollowLog

LEMMA TransferKeepsBooks ==
    ASSUME FuelLedgerAssumption, LedgerInv, LedgerInv', BalancesFollowLog, NEW p \in Payer,
           Debit(p) \/ Credit(p) \/ EndTransfer(p)
    PROVE  BalancesFollowLog'
<1> DEFINE tx == paying[p].tx
<1>1. paying[p].at # "idle" /\ paying \in [Payer -> Paying] /\ TypeOK /\ UNCHANGED minted
  BY DEF Debit, Credit, EndTransfer, LedgerInv, TypeOK
<1>2. tx \in Transaction /\ tx.from \in Account /\ tx.to \in Account /\ tx.amount \in Nat
  BY <1>1, InProgress, TransactionFields DEF FuelLedgerAssumption
<1>3. \A a \in Account : /\ balances[a] \in Nat /\ minted[a] \in Nat
                         /\ Logged(auditLog, a) \in Int
                         /\ balances[a] = minted[a] + Logged(auditLog, a) + Given[a] - Taken[a]
  BY <1>1, LoggedType DEF TypeOK, BalancesFollowLog
<1>4. CASE Debit(p) \/ Credit(p)
  <2>1. /\ UNCHANGED auditLog /\ paying'[p].tx = tx /\ paying'[p].at # "idle"
        /\ paying'[p].at = IF paying[p].at = "locked" THEN "debited" ELSE "credited"
        /\ paying[p].at \in {"locked", "debited"}
        /\ \A a \in Account :
               balances'[a] = balances[a] + IF paying[p].at = "locked"
                                            THEN IF a = tx.from THEN -tx.amount ELSE 0
                                            ELSE IF a = tx.to THEN tx.amount ELSE 0
    <3>1. CASE Debit(p)
      <4>1. /\ paying[p].at = "locked" /\ UNCHANGED auditLog
            /\ paying' = [paying EXCEPT ![p].at = "debited"]
            /\ balances' = [balances EXCEPT ![tx.from] = @ - tx.amount]
        BY <3>1 DEF Debit
      <4>2. paying'[p].tx = tx /\ paying'[p].at = "debited"
        BY <1>1, <4>1
      <4>3. QED
        BY <1>1, <1>2, <4>1, <4>2 DEF TypeOK
    <3>2. CASE Credit(p)
      <4>1. /\ paying[p].at = "debited" /\ UNCHANGED auditLog
            /\ paying' = [paying EXCEPT ![p].at = "credited"]
            /\ balances' = [balances EXCEPT ![tx.to] = @ + tx.amount]
        BY <3>2 DEF Credit
      <4>2. paying'[p].tx = tx /\ paying'[p].at = "credited"
        BY <1>1, <4>1
      <4>3. QED
        BY <1>1, <1>2, <4>1, <4>2 DEF TypeOK
    <3>3. QED
      BY <1>4, <3>1, <3>2
  <2>2. \A a \in Account : Logged(auditLog', a) = Logged(auditLog, a)
    BY <2>1
  <2>3. SUFFICES ASSUME NEW a \in Account
                 PROVE  balances'[a] = minted[a] + Logged(auditLog, a) + Given'[a] - Taken'[a]
    BY <1>1, <2>1 DEF BalancesFollowLog
  <2>4. /\ Given[a] = 0
        /\ Taken[a] = IF paying[p].at = "debited" /\ tx.from = a THEN tx.amount ELSE 0
    BY <1>1, <2>1, OneUnderWay
  <2>5. /\ Given'[a] = IF paying[p].at = "debited" /\ tx.to = a THEN tx.amount ELSE 0
        /\ Taken'[a] = IF tx.from = a THEN tx.amount ELSE 0
    <3>1. nonceLock' = p /\ p # None
      BY <2>1 DEF LedgerInv, LockHeld, FuelLedgerAssumption
    <3>2. QED
      BY <2>1, <3>1 DEF Given, Taken, Stage
  <2>6. QED
    BY <1>2, <1>3, <2>1, <2>4, <2>5
<1>5. CASE EndTransfer(p)
  <2>1. /\ paying[p].at = "credited" /\ auditLog' = Append(auditLog, tx)
        /\ nonceLock' = None /\ UNCHANGED balances /\ auditLog \in Seq(Transaction)
    BY <1>1, <1>5 DEF EndTransfer, TypeOK
  <2>2. SUFFICES ASSUME NEW a \in Account
                 PROVE  balances[a] = minted[a] + Logged(Append(auditLog, tx), a) + Given'[a] - Taken'[a]
    BY <1>1, <2>1 DEF BalancesFollowLog
  <2>3. Given'[a] = 0 /\ Taken'[a] = 0
    BY <2>1 DEF Given, Taken, Stage
  <2>4. Given[a] - Taken[a] = Moved(tx, a)
    BY <1>1, <1>2, <2>1, OneUnderWay DEF Moved
  <2>5. Given[a] \in Int /\ Taken[a] \in Int /\ Moved(tx, a) \in Int
    <3>1. Moved(tx, a) \in Int
      BY <1>2, MovedType
    <3>2. Given[a] \in Int /\ Taken[a] \in Int
      BY <1>1, <1>2, OneUnderWay
    <3>3. QED
      BY <3>1, <3>2
  <2>6. Logged(Append(auditLog, tx), a) = Logged(auditLog, a) + Moved(tx, a)
    BY <1>2, <2>1, SumOfAppend
  <2>7. QED
    BY <1>3, <2>3, <2>4, <2>5, <2>6
<1>6. QED
  BY <1>4, <1>5

LEMMA NextKeepsBooks ==
    ASSUME FuelLedgerAssumption, LedgerInv, BalancesFollowLog, [Next]_vars
    PROVE  BalancesFollowLog'
<1>1. LedgerInv'
  BY NextKeepsLedgerInv
<1>2. CASE \E a \in Account, n \in Amount : Mint(a, n)
  BY <1>2, MintKeepsBooks
<1>3. ASSUME NEW p \in Payer, NEW tx \in Transaction, BeginTransfer(p, tx)
      PROVE  BalancesFollowLog'
  <2>1. /\ UNCHANGED <<balances, minted, auditLog>> /\ nonceLock = None /\ nonceLock' = p
        /\ paying'[p].at = "locked"
    BY <1>3 DEF BeginTransfer, LedgerInv, TypeOK
  <2>2. \A a \in Account : Given[a] = 0 /\ Taken[a] = 0 /\ Given'[a] = 0 /\ Taken'[a] = 0
    BY <2>1 DEF Given, Taken, Stage
  <2>3. QED
    BY <2>1, <2>2, BooksUnmoved
<1>4. ASSUME NEW p \in Payer, RefuseTransfer(p) PROVE BalancesFollowLog'
  <2>1. /\ UNCHANGED <<balances, minted, auditLog>> /\ nonceLock' = None /\ paying[p].at = "locked"
    BY <1>4 DEF RefuseTransfer
  <2>2. \A a \in Account : Given[a] = 0 /\ Taken[a] = 0
    BY <2>1, OneUnderWay
  <2>3. \A a \in Account : Given'[a] = 0 /\ Taken'[a] = 0
    BY <2>1 DEF Given, Taken, Stage
  <2>4. QED
    BY <2>1, <2>2, <2>3, BooksUnmoved
<1>5. CASE \E p \in Payer : Debit(p) \/ Credit(p) \/ EndTransfer(p)
  BY <1>1, <1>5, TransferKeepsBooks
<1>6. CASE \/ UNCHANGED vars
           \/ \E d \in Deposit : ConfirmDeposit(d) \/ \E k \in ClusterSize : SettleDeposit(d, k)
  <2>1. UNCHANGED <<balances, nonceLock, paying, auditLog, minted>>
    BY <1>6, DepositKeepsLedgerInv DEF vars
  <2>2. Given' = Given /\ Taken' = Taken
    BY <2>1 DEF Given, Taken, Stage
  <2>3. QED
    BY <2>1, <2>2, BooksUnmoved
<1>7. QED
  BY <1>2, <1>3, <1>4, <1>5, <1>6 DEF Next

(* A balance is what was minted and what the audit log and the transfer under *)
(* way moved, for logs of any length (VoucherRegistry, SettlementBridge).    *)
THEOREM BalancesAreExplained == ASSUME FuelLedgerAssumption PROVE Spec => []BalancesFollowLog
<1>1. Init => BalancesFollowLog
  BY SumOfNothing DEF Init, BalancesFollowLog, Given, Taken, Stage
<1>2. LedgerInv /\ BalancesFollowLog /\ [Next]_vars => BalancesFollowLog'
  BY NextKeepsBooks
<1>3. QED
  BY <1>1, <1>2, LedgerInvariance, PTL DEF Spec

-----------------------------------------------------------------------------
(* Vouchers: one payment per voucher and life, on fuel that is due.         *)

Admitted == {r \in Request : request[r].at \in {"checked", "claimed", "running", "failed"}}

\* Who passed the look at the voucher holds one that is good for his node.
Checked ==
    \A r \in Admitted :
        LET v == request[r].voucher
        IN  /\ v \in Voucher /\ v.signed /\ v.provider = request[r].node
            /\ request[r].node \in Node
            /\ request[r].checked <= v.expiry
            /\ request[r].life <= life[request[r].node]

Filled == \A r \in Funded : request[r].fuel = request[r].voucher.fuel

\* A restart ends the requests that have not started, and only those.
OfThisLife == \A r \in Request : request[r].at = "checked" => request[r].life = life[request[r].node]

\* What paid in the present life of a node is among its claimed nonces.
ClaimsRemembered ==
    \A r \in Funded : request[r].life = life[request[r].node]
                      => request[r].voucher.nonce \in claimed[request[r].node]

VoucherInv == VoucherTypeOK /\ Checked /\ Filled /\ OfThisLife /\ ClaimsRemembered /\ PaidOncePerLife

LEMMA InitVoucherInv == VouchersAssumption /\ VoucherInit => VoucherInv
<1> SUFFICES ASSUME VouchersAssumption, VoucherInit PROVE VoucherInv
  OBVIOUS
<1>1. \A r \in Request : request[r] = NoRequest
  BY DEF VoucherInit
<1>2. NoRequest.at = "new"
  BY DEF NoRequest
<1>3. VoucherTypeOK
  BY DEF VoucherInit, VoucherTypeOK, VouchersAssumption, NoRequest
<1>4. Admitted = {} /\ Funded = {}
  BY <1>1, <1>2 DEF Admitted, Funded
<1>5. OfThisLife
  BY <1>1, <1>2 DEF OfThisLife
<1>6. QED
  BY <1>3, <1>4, <1>5 DEF VoucherInv, Checked, Filled, ClaimsRemembered, PaidOncePerLife

LEMMA CheckKeepsVoucherInv ==
    ASSUME VouchersAssumption, VoucherInv, NEW r \in Request, NEW n \in Node, NEW v \in Voucher,
           CheckVoucher(r, n, v)
    PROVE  VoucherInv'
<1> DEFINE q == [NoRequest EXCEPT !.at = "checked", !.voucher = v, !.node = n,
                                  !.life = life[n], !.checked = now]
<1>1. /\ VoucherTypeOK /\ request[r].at = "new"
      /\ request' = [request EXCEPT ![r] = q]
      /\ UNCHANGED <<now, life, claimed>>
      /\ v.expiry >= now /\ v.provider = n /\ v.signed
  BY DEF VoucherInv, CheckVoucher
<1>2. /\ q.at = "checked" /\ q.voucher = v /\ q.node = n /\ q.life = life[n]
      /\ q.checked = now /\ q.fuel = 0
  BY DEF NoRequest
<1>3. request'[r] = q /\ \A s \in Request \ {r} : request'[s] = request[s]
  BY <1>1 DEF VoucherTypeOK
<1>4. VoucherTypeOK'
  <2>1. q \in [at : {"new", "checked", "refused", "claimed", "running", "failed"},
               voucher : Voucher \cup {NoOne}, node : Node \cup {NoOne},
               life : 0..MaxLife, checked : 0..MaxTime, fuel : Nat]
    BY <1>1 DEF NoRequest, VoucherTypeOK
  <2>2. QED
    BY <1>1, <2>1 DEF VoucherTypeOK
<1>5. Funded' = Funded /\ Admitted' = Admitted \cup {r} /\ r \notin Funded
  <2>1. \A s \in Request : s \in Funded' <=> s \in Funded
    BY <1>1, <1>2, <1>3 DEF Funded
  <2>2. \A s \in Request : s \in Admitted' <=> s \in Admitted \/ s = r
    BY <1>1, <1>2, <1>3 DEF Admitted
  <2>3. QED
    BY <1>1, <2>1, <2>2 DEF Funded, Admitted
<1>6. now \in Int /\ v.expiry \in Int /\ life[n] \in Int
  BY <1>1 DEF VoucherTypeOK, VouchersAssumption
<1>7. Checked'
  BY <1>1, <1>2, <1>3, <1>5, <1>6 DEF VoucherInv, Checked, Admitted
<1>8. Filled' /\ ClaimsRemembered' /\ PaidOncePerLife'
  <2>1. \A s \in Funded : s \in Request \ {r} /\ request'[s] = request[s]
    BY <1>3, <1>5 DEF Funded
  <2>2. QED
    BY <1>1, <1>5, <2>1 DEF VoucherInv, Filled, ClaimsRemembered, PaidOncePerLife
<1>9. OfThisLife'
  BY <1>1, <1>2, <1>3 DEF VoucherInv, OfThisLife
<1>10. QED
  BY <1>4, <1>7, <1>8, <1>9 DEF VoucherInv

LEMMA ClaimKeepsVoucherInv ==
    ASSUME VouchersAssumption, VoucherInv, NEW r \in Request, Claim(r)
    PROVE  VoucherInv'
<1> DEFINE n == request[r].node
           v == request[r].voucher
           fresh == v.nonce \notin claimed[n]
<1>1. /\ VoucherTypeOK /\ request[r].at = "checked"
      /\ claimed' = [claimed EXCEPT ![n] = @ \cup {v.nonce}]
      /\ UNCHANGED <<now, life>>
  BY DEF VoucherInv, Claim
<1>2. /\ r \in Admitted /\ r \notin Funded
      /\ v \in Voucher /\ n \in Node /\ v.nonce \in Nat /\ v.fuel \in Nat
      /\ request[r].life = life[n]
  <2>1. r \in Admitted /\ r \notin Funded
    BY <1>1 DEF Admitted, Funded
  <2>2. v \in Voucher /\ n \in Node /\ request[r].life = life[n]
    BY <1>1, <2>1 DEF VoucherInv, Checked, OfThisLife
  <2>3. QED
    BY <2>1, <2>2 DEF VouchersAssumption
<1>3. request' = [request EXCEPT ![r].at = IF fresh THEN "claimed" ELSE "refused",
                                 ![r].fuel = IF fresh THEN v.fuel ELSE 0]
  BY DEF Claim
<1>4. /\ request'[r].at = IF fresh THEN "claimed" ELSE "refused"
      /\ request'[r].fuel = IF fresh THEN v.fuel ELSE 0
      /\ request'[r].voucher = v /\ request'[r].node = n
      /\ request'[r].life = request[r].life /\ request'[r].checked = request[r].checked
      /\ \A s \in Request \ {r} : request'[s] = request[s]
  BY <1>1, <1>3 DEF VoucherTypeOK
<1>5. VoucherTypeOK'
  <2>1. claimed' \in [Node -> SUBSET Nat]
    BY <1>1, <1>2 DEF VoucherTypeOK
  <2> DEFINE at == IF fresh THEN "claimed" ELSE "refused"
             fuel == IF fresh THEN v.fuel ELSE 0
  <2>2. at \in {"claimed", "refused"} /\ fuel \in Nat
    BY <1>2
  <2> HIDE DEF at, fuel
  <2>3. [request[r] EXCEPT !.at = at, !.fuel = fuel]
           \in [at : {"new", "checked", "refused", "claimed", "running", "failed"},
                voucher : Voucher \cup {NoOne}, node : Node \cup {NoOne},
                life : 0..MaxLife, checked : 0..MaxTime, fuel : Nat]
    BY <1>1, <2>2 DEF VoucherTypeOK
  <2>4. request' = [request EXCEPT ![r] = [request[r] EXCEPT !.at = at, !.fuel = fuel]]
    BY <1>1, <1>3 DEF VoucherTypeOK, at, fuel
  <2>5. QED
    BY <1>1, <2>1, <2>3, <2>4 DEF VoucherTypeOK
<1>6. claimed[n] \subseteq claimed'[n] /\ v.nonce \in claimed'[n]
      /\ \A k \in Node : claimed[k] \subseteq claimed'[k]
  BY <1>1, <1>2 DEF VoucherTypeOK
<1>7. /\ Admitted' \subseteq Admitted
      /\ Funded' = IF fresh THEN Funded \cup {r} ELSE Funded
  BY <1>1, <1>2, <1>4 DEF Admitted, Funded
<1>8. \A s \in Funded : s \in Request \ {r} /\ s \in Admitted /\ request[s].node \in Node
  BY <1>2 DEF VoucherInv, Checked, Admitted, Funded
<1>9. Checked'
  <2> SUFFICES ASSUME NEW s \in Admitted'
               PROVE  (/\ request[s].voucher \in Voucher /\ request[s].voucher.signed
                       /\ request[s].voucher.provider = request[s].node
                       /\ request[s].node \in Node
                       /\ request[s].checked <= request[s].voucher.expiry
                       /\ request[s].life <= life[request[s].node])'
    BY DEF Checked
  <2>1. s \in Admitted
    BY <1>7
  <2>2. /\ request'[s].voucher = request[s].voucher /\ request'[s].node = request[s].node
        /\ request'[s].life = request[s].life /\ request'[s].checked = request[s].checked
    BY <1>4, <2>1 DEF Admitted
  <2>3. QED
    BY <1>1, <2>1, <2>2 DEF VoucherInv, Checked
<1>10. Filled'
  BY <1>4, <1>7, <1>8 DEF VoucherInv, Filled
<1>11. OfThisLife'
  BY <1>1, <1>4 DEF VoucherInv, OfThisLife
<1>12. ClaimsRemembered'
  BY <1>1, <1>4, <1>6, <1>7, <1>8 DEF VoucherInv, ClaimsRemembered
<1>13. PaidOncePerLife'
  <2> SUFFICES ASSUME NEW s \in Funded', NEW t \in Funded', s # t,
                      request'[s].node = request'[t].node, request'[s].life = request'[t].life
               PROVE  request'[s].voucher.nonce # request'[t].voucher.nonce
    BY DEF PaidOncePerLife
  <2>1. CASE s \in Funded /\ t \in Funded
    BY <1>4, <1>8, <2>1 DEF VoucherInv, PaidOncePerLife
  \* The one that is new and one of the same life: the nonce of the latter was
  \* remembered, that of the former was not.
  <2>2. ASSUME NEW u \in Funded, fresh, request[u].node = n, request[u].life = request[r].life
        PROVE  request[u].voucher.nonce # v.nonce
    BY <1>2, <2>2 DEF VoucherInv, ClaimsRemembered
  <2>3. CASE s = r /\ t \in Funded
    BY <1>4, <1>7, <1>8, <1>2, <2>2, <2>3
  <2>4. CASE t = r /\ s \in Funded
    BY <1>4, <1>7, <1>8, <1>2, <2>2, <2>4
  <2>5. QED
    BY <1>7, <2>1, <2>3, <2>4
<1>14. QED
  BY <1>5, <1>9, <1>10, <1>11, <1>12, <1>13 DEF VoucherInv

LEMMA RunKeepsVoucherInv ==
    ASSUME VouchersAssumption, VoucherInv, NEW r \in Request, Run(r)
    PROVE  VoucherInv'
<1>1. PICK end \in {"running", "failed"} : request' = [request EXCEPT ![r].at = end]
  BY DEF Run
<1>2. /\ VoucherTypeOK /\ request[r].at = "claimed" /\ UNCHANGED <<now, life, claimed>>
  BY DEF VoucherInv, Run
<1>3. /\ request'[r].at = end
      /\ \A s \in Request : /\ s # r => request'[s] = request[s]
                            /\ request'[s].voucher = request[s].voucher
                            /\ request'[s].node = request[s].node
                            /\ request'[s].life = request[s].life
                            /\ request'[s].checked = request[s].checked
                            /\ request'[s].fuel = request[s].fuel
  BY <1>1, <1>2 DEF VoucherTypeOK
<1>4. VoucherTypeOK'
  BY <1>1, <1>2 DEF VoucherTypeOK
<1>5. Admitted' = Admitted /\ Funded' = Funded
  BY <1>2, <1>3 DEF Admitted, Funded
<1>6. Checked' /\ Filled'
  BY <1>2, <1>3, <1>5 DEF VoucherInv, Checked, Filled, Admitted, Funded
<1>7. OfThisLife'
  BY <1>2, <1>3 DEF VoucherInv, OfThisLife
<1>8. ClaimsRemembered' /\ PaidOncePerLife'
  BY <1>2, <1>3, <1>5 DEF VoucherInv, ClaimsRemembered, PaidOncePerLife, Funded
<1>9. QED
  BY <1>4, <1>6, <1>7, <1>8 DEF VoucherInv

LEMMA RestartKeepsVoucherInv ==
    ASSUME VouchersAssumption, VoucherInv, NEW n \in Node, Restart(n)
    PROVE  VoucherInv'
<1> DEFINE ends(r) == request[r].node = n /\ request[r].at \in {"checked", "claimed"}
<1>1. /\ VoucherTypeOK /\ life[n] < MaxLife
      /\ life' = [life EXCEPT ![n] = @ + 1]
      /\ claimed' = [claimed EXCEPT ![n] = {}]
      /\ request' = [r \in Request |->
                        IF ends(r) THEN [request[r] EXCEPT !.at = "refused"] ELSE request[r]]
      /\ now' = now
  BY DEF VoucherInv, Restart
<1>2. \A r \in Request : /\ request'[r].at = IF ends(r) THEN "refused" ELSE request[r].at
                         /\ request'[r].voucher = request[r].voucher
                         /\ request'[r].node = request[r].node
                         /\ request'[r].life = request[r].life
                         /\ request'[r].checked = request[r].checked
                         /\ request'[r].fuel = request[r].fuel
  BY <1>1 DEF VoucherTypeOK
<1>3. VoucherTypeOK'
  <2>1. life' \in [Node -> 0..MaxLife]
    BY <1>1 DEF VoucherTypeOK, VouchersAssumption
  <2>2. claimed' \in [Node -> SUBSET Nat]
    BY <1>1 DEF VoucherTypeOK
  <2>3. \A r \in Request : [request[r] EXCEPT !.at = "refused"]
           \in [at : {"new", "checked", "refused", "claimed", "running", "failed"},
                voucher : Voucher \cup {NoOne}, node : Node \cup {NoOne},
                life : 0..MaxLife, checked : 0..MaxTime, fuel : Nat]
    BY <1>1 DEF VoucherTypeOK
  <2>4. QED
    BY <1>1, <2>1, <2>2, <2>3 DEF VoucherTypeOK
<1>4. Admitted' \subseteq Admitted /\ Funded' \subseteq Funded
  BY <1>2 DEF Admitted, Funded
<1>5. \A k \in Node : /\ life[k] \in Int /\ life'[k] \in Int /\ life[k] <= life'[k]
                      /\ k # n => life'[k] = life[k] /\ claimed'[k] = claimed[k]
                      /\ k = n => life'[k] = life[k] + 1
  BY <1>1 DEF VoucherTypeOK
<1>6. Checked'
  <2> SUFFICES ASSUME NEW r \in Admitted'
               PROVE  (/\ request[r].voucher \in Voucher /\ request[r].voucher.signed
                       /\ request[r].voucher.provider = request[r].node
                       /\ request[r].node \in Node
                       /\ request[r].checked <= request[r].voucher.expiry
                       /\ request[r].life <= life[request[r].node])'
    BY DEF Checked
  <2>1. r \in Admitted /\ r \in Request
    BY <1>4 DEF Admitted
  <2>2. request[r].life \in Int /\ request[r].node \in Node
    BY <1>1, <2>1 DEF VoucherTypeOK, VoucherInv, Checked
  <2>3. request[r].life <= life[request[r].node]
    BY <2>1 DEF VoucherInv, Checked
  <2>4. request[r].life <= life'[request[r].node]
    BY <1>5, <2>2, <2>3
  <2>5. QED
    BY <1>2, <2>1, <2>4 DEF VoucherInv, Checked
<1>7. Filled'
  BY <1>2, <1>4 DEF VoucherInv, Filled, Funded
<1>8. OfThisLife'
  <2> SUFFICES ASSUME NEW r \in Request, request'[r].at = "checked"
               PROVE  request'[r].life = life'[request'[r].node]
    BY DEF OfThisLife
  <2>1. request[r].at = "checked" /\ request[r].node # n
    BY <1>2
  <2>2. request[r].node \in Node
    BY <2>1 DEF VoucherInv, Checked, Admitted
  <2>3. QED
    BY <1>2, <1>5, <2>1, <2>2 DEF VoucherInv, OfThisLife
<1>9. ClaimsRemembered'
  <2> SUFFICES ASSUME NEW r \in Funded', request'[r].life = life'[request'[r].node]
               PROVE  request'[r].voucher.nonce \in claimed'[request'[r].node]
    BY DEF ClaimsRemembered
  <2>1. r \in Funded /\ r \in Request /\ r \in Admitted
    BY <1>4 DEF Funded, Admitted
  <2>2. request[r].node \in Node /\ request[r].life <= life[request[r].node]
    BY <2>1 DEF VoucherInv, Checked
  <2>3. request[r].life = life'[request[r].node]
    BY <1>2, <2>1
  <2>4. request[r].node # n
    BY <1>5, <2>2, <2>3
  <2>5. QED
    BY <1>2, <1>5, <2>1, <2>2, <2>3, <2>4 DEF VoucherInv, ClaimsRemembered
<1>10. PaidOncePerLife'
  BY <1>2, <1>4 DEF VoucherInv, PaidOncePerLife, Funded
<1>11. QED
  BY <1>3, <1>6, <1>7, <1>8, <1>9, <1>10 DEF VoucherInv

LEMMA StutterKeepsVoucherInv ==
    ASSUME VouchersAssumption, VoucherInv, Tick \/ UNCHANGED voucherVars
    PROVE  VoucherInv'
<1>1. UNCHANGED <<life, claimed, request>> /\ now' \in 0..MaxTime
  BY DEF VoucherInv, VoucherTypeOK, Tick, voucherVars, VouchersAssumption
<1>2. Admitted' = Admitted /\ Funded' = Funded
  BY <1>1 DEF Admitted, Funded
<1>3. QED
  BY <1>1, <1>2 DEF VoucherInv, VoucherTypeOK, Checked, Filled, OfThisLife, ClaimsRemembered, PaidOncePerLife

(* The inductive invariant: what paid in the present life of a node is       *)
(* remembered there, and what was checked is of the present life.            *)
THEOREM VoucherInvariance == ASSUME VouchersAssumption PROVE VoucherSpec => []VoucherInv
<1>1. VoucherInit => VoucherInv
  BY InitVoucherInv
<1>2. VoucherInv /\ [VoucherNext]_voucherVars => VoucherInv'
  <2> SUFFICES ASSUME VoucherInv, [VoucherNext]_voucherVars PROVE VoucherInv'
    OBVIOUS
  <2>1. CASE Tick \/ UNCHANGED voucherVars
    BY <2>1, StutterKeepsVoucherInv
  <2>2. CASE \E r \in Request, n \in Node, v \in Voucher : CheckVoucher(r, n, v)
    BY <2>2, CheckKeepsVoucherInv
  <2>3. CASE \E r \in Request : Claim(r)
    BY <2>3, ClaimKeepsVoucherInv
  <2>4. CASE \E r \in Request : Run(r)
    BY <2>4, RunKeepsVoucherInv
  <2>5. CASE \E n \in Node : Restart(n)
    BY <2>5, RestartKeepsVoucherInv
  <2>6. QED
    BY <2>1, <2>2, <2>3, <2>4, <2>5 DEF VoucherNext
<1>3. QED
  BY <1>1, <1>2, PTL DEF VoucherSpec

(* Within one life of its provider a voucher nonce pays for one execution,   *)
(* whatever requests, vouchers and restarts there are (verify_and_claim).    *)
THEOREM OnePaymentPerVoucher ==
    ASSUME VouchersAssumption PROVE VoucherSpec => []PaidOncePerLife
<1>1. VoucherInv => PaidOncePerLife
  BY DEF VoucherInv
<1>2. QED
  BY <1>1, VoucherInvariance, PTL

(* An execution that was paid for runs on the fuel of a signed, unexpired    *)
(* voucher made out to its node (execute, verify_and_claim).                 *)
THEOREM PaidExecutionsAreFunded ==
    ASSUME VouchersAssumption PROVE VoucherSpec => []ExecutionsAreFunded
<1>1. VoucherInv => ExecutionsAreFunded
  BY DEF VoucherInv, Checked, Filled, ExecutionsAreFunded, Admitted, Funded
<1>2. QED
  BY <1>1, VoucherInvariance, PTL

-----------------------------------------------------------------------------
(* Market: agents only ever move downhill while nothing changes.             *)

\* Where an agent lives asks no more than any node its choices took it to, and the
\* node it is about to move to asks less.
Downhill ==
    \A a \in Settler : visited[a] # {} =>
        /\ Current(cost, bids, wire)
        /\ \A v \in visited[a] : cost[lives[a]] <= cost[v]
        /\ target[a] # NoBid => cost[target[a]] < cost[lives[a]]

MarketInv == MarketTypeOK /\ Downhill

LEMMA InitMarketInv == ASSUME MarketAssumption, MarketInit PROVE MarketInv
BY DEF MarketAssumption, MarketInit, MarketInv, MarketTypeOK, Downhill

LEMMA CostsOrdered ==
    ASSUME MarketAssumption, MarketTypeOK
    PROVE  /\ \A n \in Seller : cost[n] \in Int
           /\ \A a \in Settler : target[a] # NoBid => target[a] \in Seller /\ cost[target[a]] \in Int
<1>1. \A c \in Cost : c \in Int
  BY DEF MarketAssumption
<1>2. QED
  BY <1>1 DEF MarketTypeOK

\* A step that leaves costs and agents alone: bids that are current stay so.
LEMMA BidsKeepDownhill ==
    ASSUME MarketInv, UNCHANGED <<cost, lives, target>>, visited' = Since(visited)
    PROVE  Downhill' /\ visited' \in [Settler -> SUBSET Seller]
<1>1. visited \in [Settler -> SUBSET Seller]
  BY DEF MarketInv, MarketTypeOK
<1>2. CASE Current(cost', bids', wire')
  BY <1>1, <1>2 DEF MarketInv, Downhill, Since
<1>3. CASE ~Current(cost', bids', wire')
  BY <1>3 DEF Downhill, Since
<1>4. QED
  BY <1>2, <1>3, <1>1 DEF Since

\* The best bid is what a node really asks, and less than what the agent pays.
LEMMA BestIsCheaper ==
    ASSUME MarketAssumption, MarketTypeOK, Current(cost, bids, wire), NEW n \in Seller,
           NEW m \in BestArbitrage(n)
    PROVE  m \in Seller /\ cost[m] < cost[n]
BY DEF BestArbitrage, Cheaper, Current

LEMMA SeekKeepsMarketInv ==
    ASSUME MarketAssumption, MarketInv, NEW a \in Settler, SeekEquilibrium(a)
    PROVE  /\ MarketInv'
           /\ \A b \in Settler : target'[b] # target[b] /\ Current(cost, bids, wire)
                                   => target'[b] \notin visited[b]
<1>1. /\ MarketTypeOK /\ Downhill /\ lives[a] \in Seller /\ lives[a] \in Seller
      /\ UNCHANGED <<cost, bids, wire, lives, changes>>
      /\ visited' = Since([visited EXCEPT ![a] = @ \cup {lives[a]}])
  BY DEF MarketInv, MarketTypeOK, SeekEquilibrium
<1>2. PICK m \in BestArbitrage(lives[a]) : target' = [target EXCEPT ![a] = m]
  BY DEF SeekEquilibrium
<1>3. m \in Seller
  BY <1>2 DEF BestArbitrage, Cheaper
<1>4. /\ target' \in [Settler -> Seller \cup {NoBid}] /\ target'[a] = m
      /\ \A b \in Settler \ {a} : target'[b] = target[b]
  BY <1>1, <1>2, <1>3 DEF MarketTypeOK
<1>5. CASE Current(cost, bids, wire)
  <2>1. visited' = [visited EXCEPT ![a] = @ \cup {lives[a]}]
    BY <1>1, <1>5 DEF Since
  <2>2. /\ visited' \in [Settler -> SUBSET Seller] /\ visited'[a] = visited[a] \cup {lives[a]}
        /\ \A b \in Settler \ {a} : visited'[b] = visited[b]
    <3>1. visited \in [Settler -> SUBSET Seller] /\ visited[a] \cup {lives[a]} \in SUBSET Seller
      BY <1>1 DEF MarketTypeOK
    <3>2. QED
      BY <2>1, <3>1
  <2>3. cost[m] < cost[lives[a]]
    BY <1>1, <1>2, <1>5, BestIsCheaper
  <2>4. \A n \in Seller : cost[n] \in Int
    BY <1>1, CostsOrdered
  <2>5. \A v \in visited[a] : v \in Seller /\ cost[lives[a]] <= cost[v]
    BY <1>1 DEF Downhill, MarketTypeOK
  <2>6. m \notin visited[a]
    BY <1>1, <1>3, <2>3, <2>4, <2>5
  <2>7. Downhill'
    <3>1. SUFFICES ASSUME NEW b \in Settler, visited'[b] # {}
                   PROVE  /\ \A v \in visited'[b] : cost[lives[b]] <= cost[v]
                          /\ target'[b] # NoBid => cost[target'[b]] < cost[lives[b]]
      BY <1>1, <1>5 DEF Downhill
    <3>2. CASE b = a
      <4>1. \A v \in visited'[a] : cost[lives[a]] <= cost[v]
        <5>1. cost[lives[a]] <= cost[lives[a]]
          BY <1>1, <2>4
        <5>2. QED
          BY <2>2, <2>5, <5>1
      <4>2. QED
        BY <1>1, <1>4, <2>3, <3>2, <4>1
    <3>3. CASE b # a
      BY <1>1, <1>4, <2>2, <3>1, <3>3 DEF Downhill
    <3>4. QED
      BY <3>2, <3>3
  <2>8. QED
    BY <1>1, <1>4, <2>2, <2>6, <2>7 DEF MarketInv, MarketTypeOK
<1>6. CASE ~Current(cost, bids, wire)
  BY <1>1, <1>4, <1>6 DEF MarketInv, MarketTypeOK, Downhill, Since
<1>7. QED
  BY <1>5, <1>6

LEMMA MigrateKeepsMarketInv ==
    ASSUME MarketAssumption, MarketInv, NEW a \in Settler, Migrate(a)
    PROVE  MarketInv'
<1>1. /\ MarketTypeOK /\ Downhill /\ target[a] \in Seller
      /\ UNCHANGED <<cost, bids, wire, changes>>
      /\ lives' = [lives EXCEPT ![a] = target[a]] /\ target' = [target EXCEPT ![a] = NoBid]
      /\ visited' = Since([visited EXCEPT ![a] = IF @ = {} THEN {} ELSE @ \cup {target[a]}])
  BY DEF MarketInv, MarketTypeOK, Migrate
<1>2. /\ lives' \in [Settler -> Seller] /\ target' \in [Settler -> Seller \cup {NoBid}]
      /\ lives'[a] = target[a] /\ target'[a] = NoBid
      /\ \A b \in Settler \ {a} : lives'[b] = lives[b] /\ target'[b] = target[b]
  BY <1>1 DEF MarketTypeOK
<1>3. CASE Current(cost, bids, wire)
  <2>1. visited' = [visited EXCEPT ![a] = IF @ = {} THEN {} ELSE @ \cup {target[a]}]
    BY <1>1, <1>3 DEF Since
  <2>2. /\ visited' \in [Settler -> SUBSET Seller]
        /\ visited'[a] = IF visited[a] = {} THEN {} ELSE visited[a] \cup {target[a]}
        /\ \A b \in Settler \ {a} : visited'[b] = visited[b]
    <3>1. /\ visited \in [Settler -> SUBSET Seller]
          /\ visited[a] \cup {target[a]} \in SUBSET Seller /\ {} \in SUBSET Seller
      BY <1>1 DEF MarketTypeOK
    <3>2. QED
      BY <2>1, <3>1
  <2>3. \A n \in Seller : cost[n] \in Int
    BY <1>1, CostsOrdered
  <2>4. visited[a] # {} => /\ cost[target[a]] < cost[lives[a]] /\ lives[a] \in Seller
                           /\ \A v \in visited[a] : v \in Seller /\ cost[lives[a]] <= cost[v]
    BY <1>1 DEF Downhill, MarketTypeOK, MarketAssumption
  <2>5. Downhill'
    <3>1. SUFFICES ASSUME NEW b \in Settler, visited'[b] # {}
                   PROVE  /\ \A v \in visited'[b] : cost[lives'[b]] <= cost[v]
                          /\ target'[b] # NoBid => cost[target'[b]] < cost[lives'[b]]
      BY <1>1, <1>3 DEF Downhill
    <3>2. CASE b = a
      <4>1. visited[a] # {}
        BY <2>2, <3>1, <3>2
      <4>2. ASSUME NEW v \in visited'[a] PROVE cost[target[a]] <= cost[v]
        BY <1>1, <2>2, <2>3, <2>4, <4>1
      <4>3. QED
        BY <1>2, <3>2, <4>2
    <3>3. CASE b # a
      BY <1>1, <1>2, <2>2, <3>1, <3>3 DEF Downhill
    <3>4. QED
      BY <3>2, <3>3
  <2>6. QED
    BY <1>1, <1>2, <2>2, <2>5 DEF MarketInv, MarketTypeOK
<1>4. CASE ~Current(cost, bids, wire)
  BY <1>1, <1>2, <1>4 DEF MarketInv, MarketTypeOK, Downhill, Since
<1>5. QED
  BY <1>3, <1>4

LEMMA OthersKeepMarketInv ==
    ASSUME MarketAssumption, MarketInv,
           \/ \E n \in Seller : VitalsChange(n) \/ \E to \in Seller : Announce(n, to)
           \/ \E msg \in wire : ProcessBid(msg) \/ LoseBid(msg)
           \/ \E a \in Settler : Stay(a)
           \/ UNCHANGED marketVars
    PROVE  /\ MarketInv'
           /\ \A a \in Settler : target'[a] \in {target[a], NoBid}
<1>1. ASSUME NEW n \in Seller, VitalsChange(n)
      PROVE  MarketInv' /\ target' = target
  <2>1. cost' \in [Seller -> Cost] /\ changes' \in 0 .. MaxChanges
    BY <1>1 DEF VitalsChange, MarketInv, MarketTypeOK, MarketAssumption
  <2>2. QED
    BY <1>1, <2>1 DEF VitalsChange, MarketInv, MarketTypeOK, Downhill
<1>2. ASSUME NEW n \in Seller, NEW to \in Seller, Announce(n, to)
      PROVE  MarketInv' /\ target' = target
  <2>1. /\ UNCHANGED <<cost, lives, target>> /\ visited' = Since(visited)
        /\ wire' \subseteq [from : Seller, to : Seller, cost : Cost]
        /\ UNCHANGED <<bids, changes>>
    BY <1>2 DEF Announce, MarketInv, MarketTypeOK
  <2>2. QED
    BY <2>1, BidsKeepDownhill DEF MarketInv, MarketTypeOK
<1>3. ASSUME NEW msg \in wire, ProcessBid(msg) \/ LoseBid(msg)
      PROVE  MarketInv' /\ target' = target
  <2>1. /\ UNCHANGED <<cost, lives, target, changes>> /\ visited' = Since(visited)
        /\ wire' = wire \ {msg}
    BY <1>3 DEF ProcessBid, LoseBid
  <2>2. bids' \in [Seller -> [Seller -> Cost \cup {NoBid}]]
    <3>1. msg.to \in Seller /\ msg.from \in Seller /\ msg.cost \in Cost
      BY DEF MarketInv, MarketTypeOK
    <3>2. QED
      <4>1. CASE ProcessBid(msg)
        <5>1. bids' = [bids EXCEPT ![msg.to][msg.from] = msg.cost]
          BY <4>1 DEF ProcessBid
        <5>2. bids \in [Seller -> [Seller -> Cost \cup {NoBid}]]
          BY DEF MarketInv, MarketTypeOK
        <5>3. [bids[msg.to] EXCEPT ![msg.from] = msg.cost] \in [Seller -> Cost \cup {NoBid}]
          BY <3>1, <5>2
        <5>4. QED
          BY <3>1, <5>1, <5>2, <5>3
      <4>2. CASE LoseBid(msg)
        BY <4>2 DEF LoseBid, MarketInv, MarketTypeOK
      <4>3. QED
        BY <1>3, <4>1, <4>2
  <2>3. QED
    BY <2>1, <2>2, BidsKeepDownhill DEF MarketInv, MarketTypeOK
<1>4. ASSUME NEW a \in Settler, Stay(a)
      PROVE  MarketInv' /\ \A b \in Settler : target'[b] \in {target[b], NoBid}
  <2>1. /\ UNCHANGED <<cost, bids, wire, lives, visited, changes>>
        /\ target' = [target EXCEPT ![a] = NoBid]
    BY <1>4 DEF Stay
  <2>2. /\ target' \in [Settler -> Seller \cup {NoBid}]
        /\ \A b \in Settler : target'[b] \in {target[b], NoBid}
    BY <2>1 DEF MarketInv, MarketTypeOK
  <2>3. QED
    BY <2>1, <2>2 DEF MarketInv, MarketTypeOK, Downhill
<1>5. CASE UNCHANGED marketVars
  BY <1>5 DEF marketVars, MarketInv, MarketTypeOK, Downhill
<1>6. QED
  BY <1>1, <1>2, <1>3, <1>4, <1>5

LEMMA NextKeepsMarketInv ==
    ASSUME MarketAssumption, MarketInv, [MarketNext]_marketVars
    PROVE  /\ MarketInv'
           /\ \A a \in Settler :
                  target'[a] \notin {target[a], NoBid} /\ Current(cost, bids, wire)
                      => target'[a] \notin visited[a]
<1>1. ASSUME NEW a \in Settler, Migrate(a)
      PROVE  \A b \in Settler : target'[b] \in {target[b], NoBid}
  BY <1>1 DEF Migrate, MarketInv, MarketTypeOK
<1>2. QED
  BY <1>1, SeekKeepsMarketInv, MigrateKeepsMarketInv, OthersKeepMarketInv DEF MarketNext

(* While no bid is out of date and nothing changes, an agent is not sent back *)
(* to a node it left, for every number of nodes, agents and bids              *)
(* (find_best_arbitrage, seek_equilibrium).                                   *)
THEOREM MovesAreForGood == ASSUME MarketAssumption PROVE MarketSpec => NoFlapping
<1>1. MarketInit => MarketInv
  BY InitMarketInv
<1>2. MarketInv /\ [MarketNext]_marketVars => MarketInv'
  BY NextKeepsMarketInv
<1>3. MarketInv /\ [MarketNext]_marketVars
         => [\A a \in Settler :
                target'[a] \notin {target[a], NoBid} /\ Current(cost, bids, wire)
                    => target'[a] \notin visited[a]]_marketVars
  BY NextKeepsMarketInv
<1>4. QED
  BY <1>1, <1>2, <1>3, PTL DEF MarketSpec, NoFlapping

(* What a node bids, holds and has on its way is a cost it may ask, from     *)
(* whom it says, and an agent lives with a seller.                           *)
THEOREM MarketTypeCorrect == ASSUME MarketAssumption PROVE MarketSpec => []MarketTypeOK
<1>1. MarketInv => MarketTypeOK
  BY DEF MarketInv
<1>2. MarketInit => MarketInv
  BY InitMarketInv
<1>3. MarketInv /\ [MarketNext]_marketVars => MarketInv'
  BY NextKeepsMarketInv
<1>4. QED
  BY <1>1, <1>2, <1>3, PTL DEF MarketSpec
=============================================================================
