------------------------------- MODULE Ledger -------------------------------
(***************************************************************************)
(* What the fuel ledger promises, without saying how: payments are atomic, *)
(* each is signed by who pays and covered by what he has, and a nonce is   *)
(* spent once, by a payment or by one that was refused.                    *)
(***************************************************************************)
EXTENDS Integers

CONSTANTS Account, Transaction

VARIABLES funds,   \* funds[a]
          spent    \* nonces of payments made or refused

lvars == <<funds, spent>>

Init == /\ funds = [a \in Account |-> 0]
        /\ spent = {}

Mint(a, n) == /\ funds' = [funds EXCEPT ![a] = @ + n]
              /\ UNCHANGED spent

\* Paying oneself changes nothing.
Moved(f, from, to, n) ==
    [a \in Account |-> f[a] - (IF a = from THEN n ELSE 0) + (IF a = to THEN n ELSE 0)]

Pay(tx) == /\ tx.signed
           /\ tx.nonce \notin spent
           /\ tx.amount <= funds[tx.from]
           /\ funds' = Moved(funds, tx.from, tx.to, tx.amount)
           /\ spent' = spent \cup {tx.nonce}

Refuse(tx) == /\ tx.nonce \notin spent
              /\ spent' = spent \cup {tx.nonce}
              /\ UNCHANGED funds

\* For a model checker, the amount of a mint is found in funds', and that a payment is
\* decided in spent'.
Next == \/ \E a \in Account : funds'[a] > funds[a] /\ Mint(a, funds'[a] - funds[a])
        \/ spent' # spent /\ \E tx \in Transaction : Pay(tx) \/ Refuse(tx)

Spec == Init /\ [][Next]_lvars
=============================================================================
