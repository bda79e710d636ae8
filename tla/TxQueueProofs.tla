---------------------------- MODULE TxQueueProofs ----------------------------
(***************************************************************************)
(* Proofs about TxQueue for every number of callers, rows, retries and     *)
(* aborts and every set of chain faults: the table tells the truth with    *)
(* any number of queue objects, and one queue object implements Outbox.    *)
(***************************************************************************)
EXTENDS TxQueue, TLAPS

\* What a batch remembers is below the limit and was really refused that often.
Remembered ==
  \A c \in Callers, i \in Ids : batch[c][i] # Out =>
     /\ batch[c][i] < MaxRetries
     /\ batch[c][i] <= refusals[i]

\* The answer a caller is about to write is about its next row.
Answered ==
  \A c \in Callers, i \in Ids : pc[c] = "record" /\ IsNext(c, i) =>
     /\ answer[c] = "success" => recorded[i] > 0
     /\ answer[c] = "failure" => batch[c][i] < refusals[i]

IndInv == TypeOK /\ Remembered /\ Answered /\ Truthful

-----------------------------------------------------------------------------
(* Types *)

LEMMA OutIsNoNat == Out \notin Nat /\ NoBatch \in Batches
  BY DEF Out, NoBatch, Batches

LEMMA RowsTyped ==
  ASSUME TypeOK
  PROVE  /\ DOMAIN rows = 1 .. Len(rows) /\ Len(rows) \in Nat
         /\ DOMAIN rows \subseteq Ids
         /\ \A i \in DOMAIN rows : /\ rows[i] \in Row
                                   /\ rows[i].retries \in Nat
  <1>1. rows \in Seq(Row) /\ Len(rows) \in Nat /\ Len(rows) <= MaxRows
    BY DEF TypeOK
  <1>2. \A i \in DOMAIN rows : rows[i] \in Row
    BY <1>1
  <1> QED BY <1>1, <1>2, TxAssumption DEF Ids, Row

LEMMA UpdatedTyped ==
  ASSUME NEW row \in Row, NEW retries \in Nat, NEW reply
  PROVE  Updated(row, retries, reply) \in Row
  BY DEF Updated, Row

LEMMA Bumped ==
  ASSUME NEW f \in [Ids -> Nat], NEW i \in Ids
  PROVE  /\ [f EXCEPT ![i] = @ + 1] \in [Ids -> Nat]
         /\ [f EXCEPT ![i] = @ + 1][i] = f[i] + 1
         /\ \A j \in Ids : f[j] <= [f EXCEPT ![i] = @ + 1][j]
  OBVIOUS

\* The counters never decrease.
LEMMA Counters ==
  ASSUME TypeOK, [Next]_vars, NEW i \in Ids
  PROVE  recorded[i] <= recorded'[i] /\ refusals[i] <= refusals'[i]
  <1> DEFINE Up(f, g) == g = f \/ \E j \in Ids : g = [f EXCEPT ![j] = @ + 1]
  <1>1. ASSUME NEW f \in [Ids -> Nat], NEW g, Up(f, g) PROVE f[i] <= g[i]
    BY <1>1, Bumped
  <1>2. Up(recorded, recorded') /\ Up(refusals, refusals')
    BY DEF Next, Enqueue, TakeBatch, Send, SendRaises, Record, Finish, Crash, vars
  <1> HIDE DEF Up
  <1> QED BY <1>1, <1>2 DEF TypeOK

LEMMA TypeInit == Init => TypeOK
  BY TxAssumption, OutIsNoNat DEF Init, TypeOK, NoBatch, Ids, Row

LEMMA LeaveTyped ==
  ASSUME TypeOK, NEW c \in Callers, Leave(c), UNCHANGED <<rows, at>>
  PROVE  /\ lock' \in [Queues -> Callers \cup {Nobody}]
         /\ pc' \in [Callers -> {"idle", "send", "record"}]
         /\ batch' \in [Callers -> Batches]
         /\ \A d \in Callers, i \in Ids : batch'[d][i] # Out => i \in DOMAIN rows'
         /\ answer' \in [Callers -> {"none", "success", "failure"}]
         /\ \A d \in Callers : pc'[d] = "record" <=> answer'[d] # "none"
  BY OutIsNoNat DEF TypeOK, Leave, NoBatch

LEMMA TypeNext == TypeOK /\ [Next]_vars => TypeOK'
  <1> SUFFICES ASSUME TypeOK, [Next]_vars PROVE TypeOK'
    OBVIOUS
  <1> USE TxAssumption
  <1>1. CASE Enqueue
    <2>1. [status |-> "pending", retries |-> 0] \in Row
      BY DEF Row
    <2>2. /\ rows' \in Seq(Row) /\ Len(rows') <= MaxRows
          /\ DOMAIN rows \subseteq DOMAIN rows'
      BY <1>1, <2>1 DEF Enqueue, TypeOK
    <2> QED BY <1>1, <2>2 DEF Enqueue, TypeOK
  <1>2. ASSUME NEW c \in Callers, NEW q \in Queues, TakeBatch(c, q)
        PROVE  TypeOK'
    <2>1. Snapshot \in Batches
      BY RowsTyped DEF Snapshot, Batches
    <2>2. \A i \in Ids : Snapshot[i] # Out => i \in DOMAIN rows
      BY DEF Snapshot
    <2> QED BY <1>2, <2>1, <2>2 DEF TakeBatch, TypeOK
  <1>3. ASSUME NEW c \in Callers, NEW i \in Ids, Send(c, i) PROVE TypeOK'
    <2>1. recorded' \in [Ids -> Nat] /\ refusals' \in [Ids -> Nat]
      <3>1. /\ recorded' \in {recorded, [recorded EXCEPT ![i] = @ + 1]}
            /\ refusals' \in {refusals, [refusals EXCEPT ![i] = @ + 1]}
        BY <1>3 DEF Send
      <3>2. recorded \in [Ids -> Nat] /\ refusals \in [Ids -> Nat]
        BY DEF TypeOK
      <3>3. /\ [recorded EXCEPT ![i] = @ + 1] \in [Ids -> Nat]
            /\ [refusals EXCEPT ![i] = @ + 1] \in [Ids -> Nat]
        BY <3>2, Bumped
      <3> QED BY <3>1, <3>2, <3>3
    <2>2. /\ answer' \in [Callers -> {"none", "success", "failure"}]
          /\ pc' \in [Callers -> {"idle", "send", "record"}]
          /\ \A d \in Callers : pc'[d] = "record" <=> answer'[d] # "none"
      BY <1>3 DEF Send, TypeOK
    <2>3. UNCHANGED <<rows, lock, at, batch, aborts>>
      BY <1>3 DEF Send
    <2> QED BY <2>1, <2>2, <2>3 DEF TypeOK
  <1>4. ASSUME NEW c \in Callers, NEW i \in Ids, SendRaises(c, i) PROVE TypeOK'
    <2>1. recorded' \in [Ids -> Nat] /\ refusals' \in [Ids -> Nat] /\ aborts' \in Nat
      BY <1>4, SMTT(30) DEF SendRaises, TypeOK
    <2>2. Leave(c) /\ UNCHANGED <<rows, at>>
      BY <1>4 DEF SendRaises
    <2> QED BY <2>1, <2>2, LeaveTyped DEF TypeOK
  <1>5. ASSUME NEW c \in Callers, NEW i \in Ids, Record(c, i) PROVE TypeOK'
    <2>1. i \in DOMAIN rows /\ batch[c][i] \in Nat
      BY <1>5 DEF Record, IsNext, TypeOK, Batches
    <2>2. /\ rows' \in Seq(Row) /\ Len(rows') = Len(rows)
          /\ DOMAIN rows' = DOMAIN rows
      BY <1>5, <2>1, RowsTyped, UpdatedTyped DEF Record, TypeOK
    <2>3. /\ batch' \in [Callers -> Batches]
          /\ \A d \in Callers, j \in Ids : batch'[d][j] # Out => batch[d][j] # Out
      BY <1>5 DEF Record, Handled, TypeOK, Batches
    <2> QED BY <1>5, <2>2, <2>3 DEF Record, TypeOK
  <1>6. ASSUME NEW c \in Callers, Finish(c) PROVE TypeOK'
    BY <1>6, LeaveTyped DEF Finish, TypeOK
  <1>7. ASSUME NEW c \in Callers, Crash(c) PROVE TypeOK'
    BY <1>7, LeaveTyped DEF Crash, TypeOK
  <1>8. CASE UNCHANGED vars
    BY <1>8 DEF vars, TypeOK
  <1> QED BY <1>1, <1>2, <1>3, <1>4, <1>5, <1>6, <1>7, <1>8 DEF Next

\* Type correctness of every behaviour of the queue.
THEOREM TypeCorrect == Spec => []TypeOK
  BY TypeInit, TypeNext, PTL DEF Spec

-----------------------------------------------------------------------------
(* The table tells the truth *)

LEMMA IndInit == Init => IndInv
  <1> SUFFICES ASSUME Init PROVE IndInv
    OBVIOUS
  <1>1. TypeOK
    BY TypeInit
  <1>2. \A c \in Callers, i \in Ids : batch[c][i] = Out /\ pc[c] = "idle"
    BY DEF Init, NoBatch
  <1>3. DOMAIN rows = {}
    BY DEF Init
  <1> QED BY <1>1, <1>2, <1>3 DEF IndInv, Remembered, Answered, Truthful

\* A batch gets its retries from pending rows, which Truthful bounds.
LEMMA RememberedNext == IndInv /\ [Next]_vars => Remembered'
  <1> SUFFICES ASSUME IndInv, [Next]_vars, NEW c \in Callers, NEW i \in Ids,
                      batch'[c][i] # Out
               PROVE  batch'[c][i] < MaxRetries /\ batch'[c][i] <= refusals'[i]
    BY DEF Remembered
  <1>1. CASE batch'[c][i] = batch[c][i]
    <2>1. batch[c][i] \in Nat /\ refusals[i] \in Nat /\ refusals'[i] \in Nat
      BY <1>1, TypeNext DEF IndInv, TypeOK, Batches
    <2>2. batch[c][i] < MaxRetries /\ batch[c][i] <= refusals[i]
      BY <1>1 DEF IndInv, Remembered
    <2> QED BY <1>1, <2>1, <2>2, Counters DEF IndInv
  <1>2. CASE \E q \in Queues : TakeBatch(c, q)
    <2>1. batch'[c] = Snapshot /\ refusals' = refusals
      BY <1>2 DEF TakeBatch, IndInv, TypeOK
    <2>2. /\ i \in DOMAIN rows /\ rows[i].status = "pending"
          /\ batch'[c][i] = rows[i].retries
      BY <2>1 DEF Snapshot
    <2> QED BY <2>1, <2>2 DEF IndInv, Truthful
  <1>3. CASE ~ \E q \in Queues : TakeBatch(c, q)
    <2>1. batch'[c][i] = batch[c][i] \/ batch'[c][i] = Out
      BY <1>3 DEF Next, Enqueue, TakeBatch, Send, SendRaises, Record, Handled,
                  Finish, Crash, Leave, NoBatch, vars, IndInv, TypeOK, Batches
    <2> QED BY <1>1, <2>1
  <1> QED BY <1>2, <1>3

LEMMA AnsweredNext == IndInv /\ [Next]_vars => Answered'
  <1> SUFFICES ASSUME IndInv, [Next]_vars, NEW c \in Callers, NEW i \in Ids,
                      pc'[c] = "record", IsNext(c, i)'
               PROVE  /\ answer'[c] = "success" => recorded'[i] > 0
                      /\ answer'[c] = "failure" => batch'[c][i] < refusals'[i]
    BY DEF Answered
  <1>1. ASSUME NEW j \in Ids, Send(c, j) PROVE i = j
    BY <1>1 DEF Send, IsNext, Ids
  <1>2. CASE Send(c, i)
    <2>1. batch'[c][i] = batch[c][i] /\ batch[c][i] \in Nat
      BY <1>2 DEF Send, IsNext, IndInv, TypeOK, Batches
    <2>2. batch[c][i] <= refusals[i] /\ refusals[i] \in Nat /\ recorded[i] \in Nat
      BY <1>2 DEF Send, IsNext, IndInv, Remembered, TypeOK
    <2>3. answer'[c] = "success" => recorded'[i] = recorded[i] + 1
      BY <1>2, Bumped DEF Send, IndInv, TypeOK
    <2>4. answer'[c] = "failure" => refusals'[i] = refusals[i] + 1
      BY <1>2, Bumped DEF Send, IndInv, TypeOK
    <2> QED BY <2>1, <2>2, <2>3, <2>4
  <1>3. CASE ~ \E j \in Ids : Send(c, j)
    <2>1. pc[c] = "record" /\ answer'[c] = answer[c] /\ batch'[c] = batch[c]
      BY <1>3 DEF Next, Enqueue, TakeBatch, Send, SendRaises, Record, Handled,
                  Finish, Crash, Leave, vars, IndInv, TypeOK
    <2>2. IsNext(c, i) /\ batch[c][i] \in Nat
      BY <2>1 DEF IsNext, IndInv, TypeOK, Batches
    <2>3. /\ answer[c] = "success" => recorded[i] > 0
          /\ answer[c] = "failure" => batch[c][i] < refusals[i]
      BY <2>1, <2>2 DEF IndInv, Answered
    <2>4. /\ recorded[i] \in Nat /\ recorded'[i] \in Nat
          /\ refusals[i] \in Nat /\ refusals'[i] \in Nat
      BY TypeNext DEF IndInv, TypeOK
    <2> QED BY <2>1, <2>2, <2>3, <2>4, Counters DEF IndInv
  <1> QED BY <1>1, <1>2, <1>3

LEMMA TruthfulNext == IndInv /\ [Next]_vars => Truthful'
  <1> SUFFICES ASSUME IndInv, [Next]_vars PROVE Truthful'
    OBVIOUS
  <1> USE TxAssumption
  <1>1. \A i \in Ids : /\ recorded[i] \in Nat /\ recorded'[i] \in Nat
                       /\ refusals[i] \in Nat /\ refusals'[i] \in Nat
                       /\ recorded[i] <= recorded'[i]
                       /\ refusals[i] <= refusals'[i]
    BY TypeNext, Counters DEF IndInv, TypeOK
  <1>2. CASE rows' = rows
    BY <1>1, <1>2, RowsTyped DEF IndInv, Truthful
  <1>3. CASE Enqueue
    <2>1. /\ DOMAIN rows' = DOMAIN rows \cup {Len(rows) + 1}
          /\ \A i \in DOMAIN rows : rows'[i] = rows[i]
          /\ rows'[Len(rows) + 1] = [status |-> "pending", retries |-> 0]
          /\ Len(rows) + 1 \in Ids
      BY <1>3, RowsTyped, SMTT(30) DEF Enqueue, IndInv, TypeOK, Ids
    <2>2. UNCHANGED <<recorded, refusals>>
      BY <1>3 DEF Enqueue
    <2> QED BY <1>1, <2>1, <2>2 DEF IndInv, Truthful
  <1>4. ASSUME NEW c \in Callers, NEW i \in Ids, Record(c, i) PROVE Truthful'
    <2>1. /\ i \in DOMAIN rows /\ batch[c][i] \in Nat
          /\ batch[c][i] < MaxRetries /\ answer[c] \in {"success", "failure"}
          /\ answer[c] = "success" => recorded[i] > 0
          /\ answer[c] = "failure" => batch[c][i] < refusals[i]
      BY <1>4 DEF Record, IsNext, IndInv, TypeOK, Batches, Remembered, Answered
    <2>2. /\ DOMAIN rows' = DOMAIN rows
          /\ rows'[i] = Updated(rows[i], batch[c][i], answer[c])
          /\ \A j \in DOMAIN rows \ {i} : rows'[j] = rows[j]
          /\ UNCHANGED <<recorded, refusals>>
      BY <1>4, <2>1 DEF Record
    <2>3. CASE answer[c] = "success"
      <3>1. rows'[i].status = "submitted" /\ rows'[i].retries = rows[i].retries
        BY <2>1, <2>2, <2>3, RowsTyped DEF Updated, Row, IndInv
      <3> QED BY <2>1, <2>2, <2>3, <3>1 DEF IndInv, Truthful
    <2>4. CASE answer[c] = "failure"
      <3>1. /\ rows'[i].retries = batch[c][i] + 1
            /\ rows'[i].status \in {"pending", "failed"}
            /\ rows'[i].status = "failed" <=> batch[c][i] + 1 >= MaxRetries
        BY <2>2, <2>4 DEF Updated
      <3> QED BY <1>1, <2>1, <2>2, <2>4, <3>1 DEF IndInv, Truthful
    <2> QED BY <2>1, <2>3, <2>4
  <1>5. CASE ~ (Enqueue \/ \E c \in Callers, i \in Ids : Record(c, i))
    <2>1. rows' = rows
      BY <1>5 DEF Next, TakeBatch, Send, SendRaises, Finish, Crash, vars
    <2> QED BY <1>2, <2>1
  <1> QED BY <1>3, <1>4, <1>5

LEMMA IndNext == IndInv /\ [Next]_vars => IndInv'
  BY TypeNext, RememberedNext, AnsweredNext, TruthfulNext DEF IndInv

\* What holds of tx_queue.py's table with any number of queue objects on it.
THEOREM Inductive == Spec => []IndInv
  BY IndInit, IndNext, PTL DEF Spec

\* Whatever the queue objects overwrite of each other, a row marked submitted is
\* on the chain and a failed one was refused MAX_RETRIES times.
THEOREM TableTruthful == Spec => []Truthful
  <1>1. IndInv => Truthful
    BY DEF IndInv
  <1> QED BY <1>1, Inductive, PTL

-----------------------------------------------------------------------------
(* One queue object implements the outbox *)

\* A running call holds the lock of its queue object, an idle caller has no
\* batch, and what is in a batch is still pending.
Exclusive ==
  /\ \A c \in Callers : IF pc[c] = "idle" THEN batch[c] = NoBatch
                        ELSE lock[at[c]] = c
  /\ \A c \in Callers, i \in Ids : batch[c][i] # Out => rows[i].status = "pending"

LEMMA ExclusiveInit == Init => Exclusive
  BY DEF Init, Exclusive, NoBatch

\* With one queue object at most one call runs.
LEMMA OneRuns ==
  ASSUME IndInv, Exclusive, NEW q, Queues = {q}, NEW c \in Callers,
         NEW d \in Callers, pc[c] # "idle", d # c
  PROVE  pc[d] = "idle" /\ batch[d] = NoBatch /\ lock[q] = c
  <1>1. at[c] = q /\ at[d] = q
    BY DEF IndInv, TypeOK
  <1> QED BY <1>1 DEF Exclusive

LEMMA ExclusiveNext ==
  ASSUME NEW q, Queues = {q}, IndInv, Exclusive, [Next]_vars
  PROVE  Exclusive'
  <1> USE TxAssumption
  <1>1. CASE Enqueue
    <2>1. \A i \in DOMAIN rows : rows'[i] = rows[i]
      BY <1>1, RowsTyped DEF Enqueue, IndInv, TypeOK
    <2> QED BY <1>1, <2>1 DEF Enqueue, Exclusive, IndInv, TypeOK
  <1>2. ASSUME NEW c \in Callers, TakeBatch(c, q) PROVE Exclusive'
    <2>1. \A d \in Callers : pc[d] = "idle"
      BY <1>2, OneRuns DEF TakeBatch, IndInv, TypeOK, Exclusive
    <2>2. \A i \in Ids : Snapshot[i] # Out => rows[i].status = "pending"
      BY DEF Snapshot
    <2> QED BY <1>2, <2>1, <2>2 DEF TakeBatch, Exclusive, IndInv, TypeOK
  <1>3. ASSUME NEW c \in Callers, NEW i \in Ids, Send(c, i) PROVE Exclusive'
    BY <1>3 DEF Send, Exclusive, IndInv, TypeOK
  <1>4. ASSUME NEW c \in Callers, pc[c] # "idle", Leave(c), UNCHANGED <<rows, at>>
        PROVE  Exclusive'
    <2>1. \A d \in Callers \ {c} : pc[d] = "idle" /\ batch[d] = NoBatch
      BY <1>4, OneRuns
    <2> QED BY <1>4, <2>1 DEF Leave, Exclusive, IndInv, TypeOK, NoBatch
  <1>5. ASSUME NEW c \in Callers, NEW i \in Ids, Record(c, i) PROVE Exclusive'
    <2>1. \A d \in Callers \ {c} : pc[d] = "idle" /\ batch[d] = NoBatch
      BY <1>5, OneRuns DEF Record
    <2>2. \A j \in Ids : batch'[c][j] # Out => j # i /\ batch[c][j] # Out
      BY <1>5 DEF Record, Handled, IndInv, TypeOK, Batches
    <2>3. \A j \in Ids \ {i} : rows'[j] = rows[j]
      BY <1>5, RowsTyped DEF Record, IndInv, TypeOK
    <2>4. /\ \A d \in Callers \ {c} : batch'[d] = batch[d] /\ pc'[d] = pc[d]
          /\ pc'[c] # "idle" /\ UNCHANGED <<lock, at>> /\ pc[c] # "idle"
      BY <1>5 DEF Record, Handled, IndInv, TypeOK
    <2> QED BY <2>1, <2>2, <2>3, <2>4 DEF Exclusive, NoBatch
  <1>6. CASE UNCHANGED vars
    BY <1>6 DEF vars, Exclusive
  <1> QED BY <1>1, <1>2, <1>3, <1>4, <1>5, <1>6
          DEF Next, SendRaises, Finish, Crash

\* A row that is not pending is never written again.
LEMMA SettledStep ==
  ASSUME NEW q, Queues = {q}, IndInv, Exclusive, [Next]_vars,
         NEW i \in DOMAIN rows, rows[i].status # "pending"
  PROVE  rows'[i] = rows[i]
  <1>1. CASE Enqueue
    BY <1>1, RowsTyped DEF Enqueue, IndInv, TypeOK
  <1>2. ASSUME NEW c \in Callers, NEW j \in Ids, Record(c, j)
        PROVE  rows'[i] = rows[i]
    <2>1. i # j
      BY <1>2 DEF Record, IsNext, Exclusive
    <2> QED BY <1>2, <2>1, RowsTyped DEF Record, IndInv, TypeOK
  <1> QED BY <1>1, <1>2
          DEF Next, TakeBatch, Send, SendRaises, Finish, Crash, vars

\* With one queue object, submitted and failed rows are final.
THEOREM OneQueueSettles ==
  ASSUME NEW q, Queues = {q}
  PROVE  Spec => Settled
  <1>1. IndInv /\ Exclusive /\ [Next]_vars =>
          [\A i \in DOMAIN rows :
             rows[i].status # "pending" => rows'[i] = rows[i]]_vars
    BY SettledStep
  <1>2. IndInv /\ Exclusive /\ [Next]_vars => Exclusive'
    BY ExclusiveNext
  <1> QED BY <1>1, <1>2, IndInit, ExclusiveInit, IndNext, PTL DEF Spec, Settled

\* The state the outbox sees.
Seen == [i \in Ids |-> IF i \in DOMAIN rows THEN rows[i].status ELSE "absent"]

LEMMA OutboxInit == Init => Promise!Init
  BY DEF Init, Promise!Init

LEMMA OutboxNext ==
  ASSUME NEW q, Queues = {q}, IndInv, Exclusive, [Next]_vars
  PROVE  [Promise!Next]_(Promise!vars)
  <1> USE TxAssumption
  <1> DEFINE Same == Seen' = Seen /\ UNCHANGED <<recorded, refusals>>
  <1>1. Same => UNCHANGED Promise!vars
    BY DEF Promise!vars, Seen
  <1>2. ASSUME Enqueue PROVE Promise!Next
    <2>1. PICK id \in Ids : id = Len(rows) + 1
      BY <1>2, RowsTyped DEF Enqueue, IndInv, Ids
    <2>2. DOMAIN rows' = DOMAIN rows \cup {id} /\ id \notin DOMAIN rows
      BY <1>2, <2>1, RowsTyped DEF Enqueue, IndInv, TypeOK
    <2>3. /\ rows'[id].status = "pending"
          /\ \A i \in DOMAIN rows : rows'[i] = rows[i]
      BY <1>2, <2>1, RowsTyped DEF Enqueue, IndInv, TypeOK
    <2>4. Seen[id] = "absent" /\ Seen' = [Seen EXCEPT ![id] = "pending"]
      BY <2>2, <2>3 DEF Seen
    <2>5. UNCHANGED <<recorded, refusals>>
      BY <1>2 DEF Enqueue
    <2>6. Promise!Enqueue(id)
      BY <2>4, <2>5 DEF Promise!Enqueue, Promise!Become, Seen
    <2> QED BY <2>6 DEF Promise!Next
  <1>3. ASSUME NEW c \in Callers, NEW i \in Ids, Send(c, i) \/ SendRaises(c, i)
        PROVE  Promise!Next
    <2>1. i \in DOMAIN rows /\ rows[i].status = "pending" /\ rows' = rows
      BY <1>3 DEF Send, SendRaises, IsNext, Exclusive, IndInv, TypeOK
    <2>2. /\ recorded' \in {recorded, [recorded EXCEPT ![i] = @ + 1]}
          /\ refusals' \in {refusals, [refusals EXCEPT ![i] = @ + 1]}
      BY <1>3 DEF Send, SendRaises
    <2>3. Promise!Offer(i)
      BY <2>1, <2>2 DEF Promise!Offer
    <2> QED BY <2>3 DEF Promise!Next
  <1>4. ASSUME NEW c \in Callers, NEW i \in Ids, Record(c, i)
        PROVE  Same \/ Promise!Next
    <2>1. /\ i \in DOMAIN rows /\ rows[i].status = "pending"
          /\ batch[c][i] \in Nat /\ answer[c] \in {"success", "failure"}
          /\ answer[c] = "success" => recorded[i] > 0
          /\ answer[c] = "failure" => batch[c][i] < refusals[i]
      BY <1>4 DEF Record, IsNext, Exclusive, IndInv, TypeOK, Batches, Answered
    <2> DEFINE new == Updated(rows[i], batch[c][i], answer[c])
    <2>2. /\ DOMAIN rows' = DOMAIN rows /\ rows'[i] = new
          /\ \A j \in DOMAIN rows \ {i} : rows'[j] = rows[j]
          /\ UNCHANGED <<recorded, refusals>>
      BY <1>4, <2>1 DEF Record
    <2> HIDE DEF new
    <2>3. Seen[i] = "pending" /\ Seen' = [Seen EXCEPT ![i] = new.status]
      BY <2>1, <2>2 DEF Seen
    <2>4. CASE new.status = "pending"
      BY <2>2, <2>3, <2>4 DEF Seen
    <2>5. CASE new.status = "submitted"
      <3>1. recorded[i] > 0
        BY <2>1, <2>5 DEF new, Updated
      <3>2. Promise!Settle(i)
        BY <2>2, <2>3, <2>5, <3>1 DEF Promise!Settle, Promise!Become, Seen
      <3> QED BY <3>2 DEF Promise!Next
    <2>6. CASE new.status = "failed"
      <3>1. answer[c] = "failure" /\ batch[c][i] + 1 >= MaxRetries
        <4>1. answer[c] # "success"
          BY <2>1, <2>6, RowsTyped DEF new, Updated, IndInv, Row
        <4> QED BY <2>1, <2>6, <4>1 DEF new, Updated
      <3>2. refusals[i] >= MaxRetries
        BY <2>1, <3>1 DEF IndInv, TypeOK
      <3>3. Promise!GiveUp(i)
        BY <2>2, <2>3, <2>6, <3>2 DEF Promise!GiveUp, Promise!Become, Seen
      <3> QED BY <3>3 DEF Promise!Next
    <2>7. new \in Row
      BY <2>1, RowsTyped, UpdatedTyped DEF IndInv, new
    <2> QED BY <2>4, <2>5, <2>6, <2>7 DEF Row
  <1>5. ASSUME NEW c \in Callers,
               (\E p \in Queues : TakeBatch(c, p)) \/ Finish(c) \/ Crash(c)
        PROVE  Same
    BY <1>5 DEF TakeBatch, Finish, Crash, Seen
  <1>6. ASSUME UNCHANGED vars PROVE Same
    BY <1>6 DEF vars, Seen
  <1>7. Same \/ Promise!Next
    <2> HIDE DEF Same
    <2> QED BY <1>2, <1>3, <1>4, <1>5, <1>6 DEF Next
  <1> HIDE DEF Same
  <1> QED BY <1>1, <1>7

\* One queue object, whatever the chain's faults, implements the outbox.
THEOREM OneQueueKeepsPromise ==
  ASSUME NEW q, Queues = {q}
  PROVE  Spec => OutboxPromise
  <1>1. IndInv /\ Exclusive /\ [Next]_vars => [Promise!Next]_(Promise!vars)
    BY OutboxNext
  <1>2. IndInv /\ Exclusive /\ [Next]_vars => Exclusive'
    BY ExclusiveNext
  <1> QED BY <1>1, <1>2, IndInit, ExclusiveInit, OutboxInit, IndNext, PTL
          DEF Spec, OutboxPromise, Promise!Spec
-----------------------------------------------------------------------------
(* One queue object records a row once more for each fault only *)

\* The one recording of a row that no fault is to blame for: the row is marked
\* submitted, or its caller is about to mark it.
Owed(i) ==
  \/ i \in DOMAIN rows /\ rows[i].status = "submitted"
  \/ \E c \in Callers : pc[c] = "record" /\ answer[c] = "success" /\ IsNext(c, i)

Accounted ==
  \A i \in Ids : /\ recorded[i] <= 1 + aborts + refusals[i]
                 /\ ~Owed(i) => recorded[i] <= aborts + refusals[i]

LEMMA AccountedInit == Init => Accounted
  BY DEF Init, Accounted

\* A step that records nothing and after which every recording is still owed, or
\* an abort more is there to blame.
LEMMA AccountedQuiet ==
  ASSUME IndInv, Accounted, UNCHANGED recorded, aborts' \in Nat, aborts <= aborts',
         \A i \in Ids : refusals'[i] \in Nat /\ refusals[i] <= refusals'[i],
         \A i \in Ids : Owed(i) => Owed(i)' \/ aborts < aborts'
  PROVE  Accounted'
  <1> SUFFICES ASSUME NEW i \in Ids
               PROVE  /\ recorded'[i] <= 1 + aborts' + refusals'[i]
                      /\ ~Owed(i)' => recorded'[i] <= aborts' + refusals'[i]
    BY DEF Accounted
  <1>1. /\ recorded[i] \in Nat /\ refusals[i] \in Nat /\ aborts \in Nat
    BY DEF IndInv, TypeOK
  <1>2. /\ recorded[i] <= 1 + aborts + refusals[i]
        /\ ~Owed(i) => recorded[i] <= aborts + refusals[i]
    BY DEF Accounted
  <1>3. refusals'[i] \in Nat /\ refusals[i] <= refusals'[i]
    OBVIOUS
  <1>4. Owed(i) => Owed(i)' \/ aborts < aborts'
    OBVIOUS
  <1>5. recorded'[i] = recorded[i]
    OBVIOUS
  <1> QED BY <1>1, <1>2, <1>3, <1>4, <1>5

LEMMA AccountedNext ==
  ASSUME NEW q, Queues = {q}, IndInv, Exclusive, Accounted, [Next]_vars
  PROVE  Accounted'
  <1> USE TxAssumption
  <1>1. /\ aborts \in Nat /\ aborts' \in Nat
        /\ \A i \in Ids : /\ recorded[i] \in Nat /\ recorded'[i] \in Nat
                          /\ refusals[i] \in Nat /\ refusals'[i] \in Nat
                          /\ refusals[i] <= refusals'[i]
    BY TypeNext, Counters DEF IndInv, TypeOK
  <1>2. ASSUME NEW c \in Callers, NEW i \in Ids, pc[c] = "send", IsNext(c, i)
        PROVE  /\ ~Owed(i)
               /\ \A j \in Ids : Owed(j) => j \in DOMAIN rows /\ rows[j].status = "submitted"
    <2>1. \A d \in Callers : pc[d] # "record"
      BY <1>2, OneRuns
    <2>2. i \in DOMAIN rows /\ rows[i].status = "pending"
      BY <1>2 DEF IsNext, Exclusive, IndInv, TypeOK
    <2> QED BY <2>1, <2>2 DEF Owed
  <1>3. ASSUME NEW c \in Callers, NEW i \in Ids, Send(c, i) PROVE Accounted'
    <2>1. /\ pc[c] = "send" /\ IsNext(c, i) /\ UNCHANGED <<rows, batch, aborts>>
          /\ pc' = [pc EXCEPT ![c] = "record"]
          /\ \/ /\ answer' = [answer EXCEPT ![c] = "success"]
                /\ recorded' = [recorded EXCEPT ![i] = @ + 1]
                /\ refusals' = refusals
             \/ /\ refusals' = [refusals EXCEPT ![i] = @ + 1]
                /\ recorded' \in {recorded, [recorded EXCEPT ![i] = @ + 1]}
      BY <1>3 DEF Send
    <2>2. recorded[i] <= aborts + refusals[i]
      BY <1>2, <2>1 DEF Accounted
    <2>3. answer' = [answer EXCEPT ![c] = "success"] => Owed(i)'
      BY <2>1 DEF Owed, IsNext, IndInv, TypeOK
    <2>4. /\ recorded'[i] <= 1 + aborts' + refusals'[i]
          /\ ~Owed(i)' => recorded'[i] <= aborts' + refusals'[i]
      <3>1. \/ recorded'[i] = recorded[i] + 1 /\ refusals'[i] = refusals[i] /\ Owed(i)'
            \/ recorded'[i] <= recorded[i] + 1 /\ refusals'[i] = refusals[i] + 1
        BY <2>1, <2>3, <1>1 DEF IndInv, TypeOK
      <3> QED BY <1>1, <2>1, <2>2, <3>1
    <2>5. ASSUME NEW j \in Ids \ {i}
          PROVE  /\ recorded'[j] <= 1 + aborts' + refusals'[j]
                 /\ ~Owed(j)' => recorded'[j] <= aborts' + refusals'[j]
      <3>1. recorded'[j] = recorded[j] /\ refusals'[j] = refusals[j]
        BY <2>1 DEF IndInv, TypeOK
      <3>2. Owed(j) => Owed(j)'
        BY <1>2, <2>1 DEF Owed
      <3> QED BY <2>1, <3>1, <3>2 DEF Accounted
    <2> QED BY <2>4, <2>5 DEF Accounted
  <1>4. ASSUME NEW c \in Callers, NEW i \in Ids, SendRaises(c, i) PROVE Accounted'
    <2>1. /\ pc[c] = "send" /\ IsNext(c, i) /\ UNCHANGED <<rows, refusals>>
          /\ aborts' = aborts + 1
          /\ recorded' \in {recorded, [recorded EXCEPT ![i] = @ + 1]}
      BY <1>4 DEF SendRaises
    <2>2. recorded[i] <= aborts + refusals[i]
      BY <1>2, <2>1 DEF Accounted
    <2>3. \A j \in Ids : recorded[j] <= 1 + aborts + refusals[j]
      BY DEF Accounted
    <2>4. \A j \in Ids : recorded'[j] <= aborts' + refusals'[j]
      <3> SUFFICES ASSUME NEW j \in Ids PROVE recorded'[j] <= aborts' + refusals'[j]
        OBVIOUS
      <3>1. refusals'[j] = refusals[j]
        BY <2>1
      <3>2. recorded'[j] = recorded[j] \/ (j = i /\ recorded'[j] = recorded[j] + 1)
        BY <2>1 DEF IndInv, TypeOK
      <3> QED BY <1>1, <2>1, <2>2, <2>3, <3>1, <3>2
    <2> QED BY <1>1, <2>4 DEF Accounted
  <1>5. ASSUME NEW c \in Callers, NEW i \in Ids, Record(c, i) PROVE Accounted'
    <2>1. /\ pc[c] = "record" /\ IsNext(c, i) /\ UNCHANGED <<recorded, refusals, aborts>>
          /\ rows' = [rows EXCEPT ![i] = Updated(rows[i], batch[c][i], answer[c])]
      BY <1>5 DEF Record
    <2>2. \A d \in Callers \ {c} : pc[d] = "idle"
      BY <2>1, OneRuns
    <2>3. /\ i \in DOMAIN rows /\ rows[i] \in Row
          /\ \A j \in Ids : IsNext(c, j) => j = i
      BY <2>1, RowsTyped DEF IsNext, IndInv, TypeOK, Ids
    <2>4. ASSUME NEW j \in Ids, Owed(j) PROVE Owed(j)'
      <3>1. CASE j = i
        <4>1. answer[c] = "success"
          BY <2>1, <2>2, <2>4, <3>1 DEF Owed, Exclusive, IsNext
        <4>2. rows'[i].status = "submitted" /\ i \in DOMAIN rows'
          BY <2>1, <2>3, <4>1 DEF Updated, Row
        <4> QED BY <3>1, <4>2 DEF Owed
      <3>2. CASE j # i
        <4>1. j \in DOMAIN rows /\ rows[j].status = "submitted"
          BY <2>2, <2>3, <2>4, <3>2 DEF Owed
        <4>2. rows'[j] = rows[j] /\ j \in DOMAIN rows'
          BY <2>1, <3>2, <4>1
        <4> QED BY <4>1, <4>2 DEF Owed
      <3> QED BY <3>1, <3>2
    <2> QED BY <1>1, <2>1, <2>4, AccountedQuiet
  <1>6. ASSUME Enqueue PROVE Accounted'
    <2>1. \A i \in DOMAIN rows : i \in DOMAIN rows' /\ rows'[i] = rows[i]
      BY <1>6, RowsTyped DEF Enqueue, IndInv, TypeOK
    <2>2. \A i \in Ids : Owed(i) => Owed(i)'
      BY <1>6, <2>1 DEF Enqueue, Owed, IsNext
    <2> QED BY <1>1, <1>6, <2>2, AccountedQuiet DEF Enqueue
  <1>7. ASSUME NEW c \in Callers, TakeBatch(c, q) PROVE Accounted'
    <2>1. \A d \in Callers : pc[d] = "idle"
      BY <1>7, OneRuns DEF TakeBatch, IndInv, TypeOK, Exclusive
    <2>2. \A i \in Ids : Owed(i) => Owed(i)'
      BY <1>7, <2>1 DEF TakeBatch, Owed
    <2> QED BY <1>1, <1>7, <2>2, AccountedQuiet DEF TakeBatch
  <1>8. ASSUME NEW c \in Callers, Finish(c) PROVE Accounted'
    <2>1. \A d \in Callers : pc[d] # "record"
      BY <1>8, OneRuns DEF Finish
    <2>2. \A i \in Ids : Owed(i) => Owed(i)'
      BY <1>8, <2>1 DEF Finish, Owed
    <2> QED BY <1>1, <1>8, <2>2, AccountedQuiet DEF Finish
  <1>9. ASSUME NEW c \in Callers, Crash(c) PROVE Accounted'
    <2>1. UNCHANGED <<recorded, refusals>> /\ aborts < aborts'
      BY <1>1, <1>9 DEF Crash
    <2> QED BY <1>1, <2>1, AccountedQuiet
  <1>10. CASE UNCHANGED vars
    <2>1. \A i \in Ids : Owed(i) => Owed(i)'
      BY <1>10 DEF vars, Owed, IsNext
    <2> QED BY <1>1, <1>10, <2>1, AccountedQuiet DEF vars
  <1> QED BY <1>3, <1>4, <1>5, <1>6, <1>7, <1>8, <1>9, <1>10 DEF Next

\* With one queue object the chain records a row once, and once more for each
\* stop and each failure reported for it: what the lock of submit_pending is for
\* (tx_queue.py:82-120, tests/test_tx_queue.py:47-49).
THEOREM OneQueueRecordsOnce ==
  ASSUME NEW q, Queues = {q}
  PROVE  Spec => []RecordedOncePerFault
  <1>1. IndInv /\ Exclusive /\ Accounted /\ [Next]_vars => (Exclusive /\ Accounted)'
    BY ExclusiveNext, AccountedNext
  <1>2. Accounted => RecordedOncePerFault
    BY DEF Accounted, RecordedOncePerFault
  <1> QED BY <1>1, <1>2, IndInit, ExclusiveInit, AccountedInit, IndNext, PTL DEF Spec
=============================================================================
