-------------------------------- MODULE Outbox --------------------------------
(***************************************************************************)
(* What a persistent submission queue promises, without its table, locks   *)
(* or batches: an entry is offered to the chain only while it is pending,  *)
(* it is reported submitted only after the chain has recorded it, and it   *)
(* is given up only after MaxRetries refusals.  At least once, not exactly *)
(* once: a crash or a lost answer may make the chain record it again.      *)
(***************************************************************************)
EXTENDS Naturals

CONSTANTS Entries, MaxRetries

VARIABLES
  state,      \* state of each entry
  recorded,   \* how many times the chain has recorded each entry
  refusals    \* how many failures have been reported for each entry

vars == <<state, recorded, refusals>>

States == {"absent", "pending", "submitted", "failed"}

Init ==
  /\ state = [e \in Entries |-> "absent"]
  /\ recorded = [e \in Entries |-> 0]
  /\ refusals = [e \in Entries |-> 0]

Become(e, from, to) ==
  /\ state[e] = from
  /\ state' = [state EXCEPT ![e] = to]
  /\ UNCHANGED <<recorded, refusals>>

Enqueue(e) == Become(e, "absent", "pending")

\* The chain is asked: it may record the entry, and a failure may be reported.
Offer(e) ==
  /\ state[e] = "pending"
  /\ recorded' \in {recorded, [recorded EXCEPT ![e] = @ + 1]}
  /\ refusals' \in {refusals, [refusals EXCEPT ![e] = @ + 1]}
  /\ UNCHANGED state

Settle(e) == recorded[e] > 0 /\ Become(e, "pending", "submitted")

GiveUp(e) == refusals[e] >= MaxRetries /\ Become(e, "pending", "failed")

Next == \E e \in Entries : Enqueue(e) \/ Offer(e) \/ Settle(e) \/ GiveUp(e)

Spec == Init /\ [][Next]_vars
===============================================================================
