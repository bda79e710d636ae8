------------------------------- MODULE Ledger ---------------------------------
(***************************************************************************)
(* What a wallet promises: an account whose entries are posted one at a    *)
(* time, each with the balance it leaves, and which is never overdrawn.    *)
(***************************************************************************)
EXTENDS Integers, Sequences

VARIABLES
  balance,  \* what the account holds
  entries   \* [amount, after], in the order they were posted

ledgerVars == <<balance, entries>>

Init ==
  /\ balance = 0
  /\ entries = << >>

Post(amount) ==
  /\ balance + amount >= 0
  /\ balance' = balance + amount
  /\ entries' = Append(entries, [amount |-> amount, after |-> balance'])

\* The amount is whatever the balance has changed by.
Next == Post(balance' - balance)

Spec == Init /\ [][Next]_ledgerVars
=============================================================================
