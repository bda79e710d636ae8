------------------------------- MODULE TxQueue -------------------------------
(***************************************************************************)
(* dronesync/tx_queue.py: the SQLite table of proofs waiting to be         *)
(* submitted to the chain.  TxQueue() is built wherever it is needed       *)
(* (synapse.py:291 for every mission, dashboard/app.py:74, main.py:544),   *)
(* always on the same file, and each object has a threading.Lock of its    *)
(* own around submit_pending.                                              *)
(*                                                                         *)
(* submit_pending reads the pending rows once, then for each of them sends *)
(* and writes the outcome in a transaction of its own; other threads and   *)
(* processes run between any two of those steps, and the process may stop  *)
(* there.                                                                  *)
(***************************************************************************)
EXTENDS Integers, Sequences

CONSTANTS
  Queues,      \* TxQueue objects on one file
  Callers,     \* threads that call submit_pending
  MaxRetries,  \* MAX_RETRIES
  Faults,      \* how the chain may misbehave: "refuse", "lose", "raise"
  MaxRows,     \* bound on the rows enqueued
  MaxAborts,   \* bound on crashes and exceptions
  Nobody       \* no caller

ASSUME TxAssumption ==
  /\ MaxRetries \in Nat \ {0}
  /\ Faults \subseteq {"refuse", "lose", "raise"}
  /\ MaxRows \in Nat
  /\ MaxAborts \in Nat
  /\ Nobody \notin Callers

Ids == 1 .. MaxRows
Row == [status: {"pending", "submitted", "failed"}, retries: Nat]

VARIABLES
  rows,      \* the table: row id -> status and retries
  lock,      \* caller inside submit_pending of each queue object
  pc,        \* where each caller is
  at,        \* the queue object each caller uses
  batch,     \* rows SELECTed and not yet handled: the retries read
  answer,    \* what _send_to_chain answered for the row being handled
  recorded,  \* how many times the chain has recorded each row (external)
  refusals,  \* history: failures _send_to_chain reported for each row
  aborts     \* history: crashes and exceptions so far

vars == <<rows, lock, pc, at, batch, answer, recorded, refusals, aborts>>

Out == -1                            \* the row is not in the batch
Batches == [Ids -> Nat \cup {Out}]
NoBatch == [i \in Ids |-> Out]

Init ==
  /\ rows = << >>
  /\ lock = [q \in Queues |-> Nobody]
  /\ pc = [c \in Callers |-> "idle"]
  /\ at \in [Callers -> Queues]
  /\ batch = [c \in Callers |-> NoBatch]
  /\ answer = [c \in Callers |-> "none"]
  /\ recorded = [i \in Ids |-> 0]
  /\ refusals = [i \in Ids |-> 0]
  /\ aborts = 0

-----------------------------------------------------------------------------
(* Helpers *)

\* Faulty variant: the SELECT lost its WHERE clause.
SnapshotAll == [i \in Ids |-> IF i \in DOMAIN rows THEN rows[i].retries ELSE Out]

\* SELECT id, ..., retries FROM tx_queue WHERE status='pending'
Snapshot ==
  [i \in Ids |-> IF i \in DOMAIN rows /\ rows[i].status = "pending"
                 THEN rows[i].retries ELSE Out]

\* The SELECT returns the rows by id, and they are handled in that order.
IsNext(c, i) ==
  /\ batch[c][i] # Out
  /\ \A j \in Ids : batch[c][j] # Out => i <= j

Handled(c, i) == batch' = [batch EXCEPT ![c][i] = Out]

\* Faulty variant: the answer of an interrupted call is left behind.
LeaveDirty(c) ==
  /\ lock' = [lock EXCEPT ![at[c]] = Nobody]
  /\ pc' = [pc EXCEPT ![c] = "idle"]
  /\ batch' = [batch EXCEPT ![c] = NoBatch]
  /\ UNCHANGED answer

\* Leaving submit_pending: the `with self._lock` block ends.
Leave(c) ==
  /\ lock' = [lock EXCEPT ![at[c]] = Nobody]
  /\ pc' = [pc EXCEPT ![c] = "idle"]
  /\ batch' = [batch EXCEPT ![c] = NoBatch]
  /\ answer' = [answer EXCEPT ![c] = "none"]

\* Faulty variant: one failure too few before a row is given up.
UpdatedEarly(row, retries, reply) ==
  IF reply = "success" THEN [row EXCEPT !.status = "submitted"]
  ELSE [status |-> IF retries + 2 >= MaxRetries THEN "failed" ELSE "pending",
        retries |-> retries + 1]

\* The two UPDATEs.  The one after a failure depends on the retries read by the
\* SELECT, not on what the row holds by then.
Updated(row, retries, reply) ==
  IF reply = "success" THEN [row EXCEPT !.status = "submitted"]
  ELSE [status |-> IF retries + 1 >= MaxRetries THEN "failed" ELSE "pending",
        retries |-> retries + 1]

-----------------------------------------------------------------------------
(* Actions *)

\* enqueue() of a result that is on_chain_ready: one INSERT, no queue lock.
Enqueue ==
  /\ Len(rows) < MaxRows
  /\ rows' = Append(rows, [status |-> "pending", retries |-> 0])
  /\ UNCHANGED <<lock, pc, at, batch, answer, recorded, refusals, aborts>>

\* Faulty variant: submit_pending without `with self._lock`.
TakeBatchNoLock(c, q) ==
  /\ pc[c] = "idle"
  /\ lock' = [lock EXCEPT ![q] = c]
  /\ pc' = [pc EXCEPT ![c] = "send"]
  /\ at' = [at EXCEPT ![c] = q]
  /\ batch' = [batch EXCEPT ![c] = Snapshot]
  /\ UNCHANGED <<rows, answer, recorded, refusals, aborts>>

\* submit_pending() takes the lock of its queue object and reads the rows.
TakeBatch(c, q) ==
  /\ pc[c] = "idle"
  /\ lock[q] = Nobody
  /\ lock' = [lock EXCEPT ![q] = c]
  /\ pc' = [pc EXCEPT ![c] = "send"]
  /\ at' = [at EXCEPT ![c] = q]
  /\ batch' = [batch EXCEPT ![c] = Snapshot]
  /\ UNCHANGED <<rows, answer, recorded, refusals, aborts>>

\* _send_to_chain answers.  Today it always reports success; with the SDK it is
\* meant for, the chain may refuse, or record the entry and lose the answer.
Send(c, i) ==
  /\ pc[c] = "send"
  /\ IsNext(c, i)
  /\ pc' = [pc EXCEPT ![c] = "record"]
  /\ \/ /\ answer' = [answer EXCEPT ![c] = "success"]
        /\ recorded' = [recorded EXCEPT ![i] = @ + 1]
        /\ UNCHANGED refusals
     \/ /\ "refuse" \in Faults
        /\ answer' = [answer EXCEPT ![c] = "failure"]
        /\ refusals' = [refusals EXCEPT ![i] = @ + 1]
        /\ UNCHANGED recorded
     \/ /\ "lose" \in Faults
        /\ answer' = [answer EXCEPT ![c] = "failure"]
        /\ refusals' = [refusals EXCEPT ![i] = @ + 1]
        /\ recorded' = [recorded EXCEPT ![i] = @ + 1]
  /\ UNCHANGED <<rows, lock, at, batch, aborts>>

\* _send_to_chain raises, before or after the chain has recorded the entry.
\* Nothing catches it: the rest of the batch is left, no retry is counted.
SendRaises(c, i) ==
  /\ pc[c] = "send"
  /\ IsNext(c, i)
  /\ "raise" \in Faults
  /\ aborts < MaxAborts
  /\ aborts' = aborts + 1
  /\ recorded' \in {recorded, [recorded EXCEPT ![i] = @ + 1]}
  /\ Leave(c)
  /\ UNCHANGED <<rows, at, refusals>>

\* UPDATE ... WHERE id=?, in a transaction of its own, whatever the row's status.
Record(c, i) ==
  /\ pc[c] = "record"
  /\ IsNext(c, i)
  /\ rows' = [rows EXCEPT ![i] = Updated(@, batch[c][i], answer[c])]
  /\ pc' = [pc EXCEPT ![c] = "send"]
  /\ answer' = [answer EXCEPT ![c] = "none"]
  /\ Handled(c, i)
  /\ UNCHANGED <<lock, at, recorded, refusals, aborts>>

Finish(c) ==
  /\ pc[c] = "send"
  /\ batch[c] = NoBatch
  /\ Leave(c)
  /\ UNCHANGED <<rows, at, recorded, refusals, aborts>>

\* The process of a caller stops; the table and the chain keep what they have.
Crash(c) ==
  /\ pc[c] # "idle"
  /\ aborts < MaxAborts
  /\ aborts' = aborts + 1
  /\ Leave(c)
  /\ UNCHANGED <<rows, at, recorded, refusals>>

Next ==
  \/ Enqueue
  \/ \E c \in Callers :
       \/ \E q \in Queues : TakeBatch(c, q)
       \/ \E i \in Ids : Send(c, i) \/ SendRaises(c, i) \/ Record(c, i)
       \/ Finish(c)
       \/ Crash(c)

Spec == Init /\ [][Next]_vars

-----------------------------------------------------------------------------
(* Properties *)

\* Every variable keeps its type; a caller awaiting an answer has a batch.
TypeOK ==
  /\ rows \in Seq(Row) /\ Len(rows) <= MaxRows
  /\ lock \in [Queues -> Callers \cup {Nobody}]
  /\ pc \in [Callers -> {"idle", "send", "record"}]
  /\ at \in [Callers -> Queues]
  /\ batch \in [Callers -> Batches]
  /\ \A c \in Callers, i \in Ids : batch[c][i] # Out => i \in DOMAIN rows
  /\ answer \in [Callers -> {"none", "success", "failure"}]
  /\ \A c \in Callers : pc[c] = "record" <=> answer[c] # "none"
  /\ recorded \in [Ids -> Nat]
  /\ refusals \in [Ids -> Nat]
  /\ aborts \in Nat

\* What the table says of a row has happened: a row marked submitted is on the
\* chain, a failed one was refused MAX_RETRIES times, a pending one is below
\* that limit; for any number of queue objects, whatever they overwrite of
\* each other (tx_queue.py:101-120).
Truthful ==
  \A i \in DOMAIN rows :
     /\ rows[i].status = "submitted" => recorded[i] > 0
     /\ rows[i].status = "failed" => refusals[i] >= MaxRetries
     /\ rows[i].status = "pending" => rows[i].retries < MaxRetries
     /\ rows[i].retries <= refusals[i]

\* With one queue object, a row marked submitted or failed is final.
Settled ==
  [][\A i \in DOMAIN rows :
        rows[i].status # "pending" => rows'[i] = rows[i]]_vars

\* With one queue object the chain records a row again only after a stop between the
\* send and the UPDATE, or after a failure reported for it: once for each of them.
\* This is what the lock of submit_pending is for (tests/test_tx_queue.py:47-49).
RecordedOncePerFault == \A i \in Ids : recorded[i] <= 1 + aborts + refusals[i]

\* With one queue object, the table, the batches and the lock implement the
\* outbox: a row is offered to the chain only while it is pending.
Promise == INSTANCE Outbox WITH
  Entries <- Ids,
  state <- [i \in Ids |-> IF i \in DOMAIN rows THEN rows[i].status ELSE "absent"]

OutboxPromise == Promise!Spec
=============================================================================
