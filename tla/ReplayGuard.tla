----------------------------- MODULE ReplayGuard -----------------------------
(***************************************************************************)
(* dronesync/replay_guard.py: the table of mission ids a deployment has    *)
(* already let through.  Every mission handler builds a ReplayGuard of its *)
(* own on the same default path (synapse.py:137), so one SQLite file is    *)
(* shared by several guards, each with one connection and one              *)
(* threading.Lock that excludes only the threads calling that guard.       *)
(*                                                                         *)
(* A call is split where other threads can run: it reads the clock, takes  *)
(* the guard's lock, SELECTs, INSERTs and commits.  The SQLite facts the   *)
(* code depends on are part of the model: one writer per database file, an *)
(* implicit transaction opened by the first INSERT and closed only by      *)
(* commit (an exception leaves it open), and a SELECT inside an open       *)
(* transaction that pins the connection's snapshot.                        *)
(***************************************************************************)
EXTENDS Integers, Sequences, FiniteSets

CONSTANTS
  Guards,     \* ReplayGuard objects open on one database file
  Threads,    \* threads that call them
  Missions,   \* mission ids
  Created,    \* created_at values a request may carry
  MaxAge,     \* MAX_AGE_SECONDS
  Skew,       \* how far in the future created_at may lie (the 60 of check)
  CallTime,   \* longest time a call takes from reading the clock to returning
  SlowCommit, \* whether a live INSERT-commit may outlast the 10 s busy timeout
  Horizon,    \* bound on the clock, for model checking
  Nobody      \* no thread, no guard

ASSUME ReplayAssumption ==
  /\ Created \subseteq Nat
  /\ MaxAge \in Nat
  /\ Skew \in Nat
  /\ CallTime \in Nat
  /\ SlowCommit \in BOOLEAN
  /\ Horizon \in Nat
  /\ Nobody \notin Guards \cup Threads

Never == -1               \* no row for the mission
Rows == [Missions -> Nat \cup {Never}]
NoSnapshot == [m \in {} |-> Never]
NoCall == [op |-> "none"]

VARIABLES
  clock,      \* time.time(), assumed not to jump back
  seen,       \* committed table: mission_id -> first_seen_at
  writer,     \* guard whose connection holds SQLite's write lock
  tx,         \* "open" when the connection of the guard is inside a transaction
  snap,       \* rows pinned by a SELECT inside an open transaction
  stale,      \* another connection has committed since the snapshot was pinned
  lock,       \* thread that holds the guard's threading.Lock
  pc,         \* where each thread is in its call
  call,       \* arguments and locals of each thread's call
  accepted    \* history: the calls of check that answered allowed, in order

vars == <<clock, seen, writer, tx, snap, stale, lock, pc, call, accepted>>

Checks == [op: {"check"}, guard: Guards, mission: Missions,
           created: Created, now: Nat]
OtherCalls == [op: {"register", "read"}, guard: Guards, mission: Missions,
               now: Nat]
Acceptances == [mission: Missions, created: Created, at: Nat, done: Nat]

Init ==
  /\ clock = 0
  /\ seen = [m \in Missions |-> Never]
  /\ writer = Nobody
  /\ tx = [g \in Guards |-> "none"]
  /\ snap = [g \in Guards |-> NoSnapshot]
  /\ stale = [g \in Guards |-> FALSE]
  /\ lock = [g \in Guards |-> Nobody]
  /\ pc = [t \in Threads |-> "idle"]
  /\ call = [t \in Threads |-> NoCall]
  /\ accepted = << >>

-----------------------------------------------------------------------------
(* Helpers *)

\* What a SELECT on the guard's connection reads.
View(g) == IF snap[g] = NoSnapshot THEN seen ELSE snap[g]

\* The two early returns of check: FUTURE_TIMESTAMP and MISSION_EXPIRED.
Fresh(created, now) ==
  /\ created <= now + Skew
  /\ now - created <= MaxAge

Goto(t, label) == pc' = [pc EXCEPT ![t] = label]

\* Leaving the `with self._lock` block, by return or by exception.
Return(t) ==
  /\ lock' = [lock EXCEPT ![call[t].guard] = Nobody]
  /\ pc' = [pc EXCEPT ![t] = "idle"]
  /\ call' = [call EXCEPT ![t] = NoCall]

\* DELETE FROM seen_missions WHERE first_seen_at < now - MAX_AGE_SECONDS
Purged(rows, now) ==
  [m \in Missions |-> IF rows[m] < now - MaxAge THEN Never ELSE rows[m]]

-----------------------------------------------------------------------------
(* Actions *)

\* check() reads the clock and passes the two age tests, before any lock.
BeginCheck(t, g, m, c) ==
  /\ pc[t] = "idle"
  /\ Fresh(c, clock)
  /\ Goto(t, "acquire")
  /\ call' = [call EXCEPT ![t] = [op |-> "check", guard |-> g, mission |-> m,
                                  created |-> c, now |-> clock]]
  /\ UNCHANGED <<clock, seen, writer, tx, snap, stale, lock, accepted>>

\* register() and the two readers, is_seen() and get_status(), start with the lock.
BeginOther(t, g, m, op) ==
  /\ pc[t] = "idle"
  /\ Goto(t, "acquire")
  /\ call' = [call EXCEPT ![t] = [op |-> op, guard |-> g, mission |-> m,
                                  now |-> clock]]
  /\ UNCHANGED <<clock, seen, writer, tx, snap, stale, lock, accepted>>

Acquire(t) ==
  /\ pc[t] = "acquire"
  /\ lock[call[t].guard] = Nobody
  /\ lock' = [lock EXCEPT ![call[t].guard] = t]
  /\ Goto(t, IF call[t].op = "register" THEN "write" ELSE "select")
  /\ UNCHANGED <<clock, seen, writer, tx, snap, stale, call, accepted>>

\* The SELECT.  Outside a transaction it reads the committed table; inside one
\* that an earlier exception left open it pins the snapshot it reads.
Select(t) ==
  LET g == call[t].guard IN
  /\ pc[t] = "select"
  /\ snap' = IF tx[g] = "open" THEN [snap EXCEPT ![g] = View(g)] ELSE snap
  /\ \/ /\ call[t].op = "check"
        /\ View(g)[call[t].mission] = Never
        /\ Goto(t, "write")
        /\ UNCHANGED <<lock, call>>
     \/ /\ call[t].op = "read" \/ View(g)[call[t].mission] # Never
        /\ Return(t)                                        \* REPLAY_DETECTED
  /\ UNCHANGED <<clock, seen, writer, tx, stale, accepted>>

\* SQLite lets one connection write, and only from an up-to-date snapshot.
MayWrite(g) == writer \in {Nobody, g} /\ ~stale[g]

\* Faulty variant: check() uses INSERT OR REPLACE, which no key refuses.
WriteOrReplace(t) ==
  LET g == call[t].guard IN
  /\ pc[t] = "write"
  /\ MayWrite(g)
  /\ writer' = g
  /\ tx' = [tx EXCEPT ![g] = "open"]
  /\ Goto(t, "commit")
  /\ UNCHANGED <<clock, seen, snap, stale, lock, call, accepted>>

\* The INSERT gets SQLite's write lock.  check() uses a plain INSERT, which the
\* primary key refuses when the row has appeared since the SELECT: the
\* exception leaves the `with` block but not the transaction.
Write(t) ==
  LET g == call[t].guard IN
  /\ pc[t] = "write"
  /\ MayWrite(g)
  /\ writer' = g
  /\ tx' = [tx EXCEPT ![g] = "open"]
  /\ \/ /\ call[t].op = "check" => seen[call[t].mission] = Never
        /\ Goto(t, "commit")
        /\ call' = IF call[t].op = "register"
                   THEN [call EXCEPT ![t].now = clock] ELSE call
        /\ UNCHANGED lock
     \/ /\ call[t].op = "check" /\ seen[call[t].mission] # Never
        /\ Return(t)                                        \* IntegrityError
  /\ UNCHANGED <<clock, seen, snap, stale, accepted>>

\* Faulty variant: the INSERT waits for the write lock without a timeout.
WriteFailsNoTimeout(t) ==
  LET g == call[t].guard IN
  /\ pc[t] = "write"
  /\ stale[g]
  /\ tx' = [tx EXCEPT ![g] = "open"]
  /\ Return(t)
  /\ UNCHANGED <<clock, seen, writer, snap, stale, accepted>>

\* The INSERT raises "database is locked" when this connection's snapshot is
\* outdated, or when another connection kept the write lock for the 10 s of
\* timeout=10: for good when no call is about to commit it.  The implicit BEGIN
\* has already happened and nothing rolls it back.
Outwaited(g) ==
  /\ writer \notin {Nobody, g}
  /\ \/ SlowCommit
     \/ \A u \in Threads : pc[u] = "commit" => call[u].guard # writer

WriteFails(t) ==
  LET g == call[t].guard IN
  /\ pc[t] = "write"
  /\ stale[g] \/ Outwaited(g)
  /\ tx' = [tx EXCEPT ![g] = "open"]
  /\ Return(t)
  /\ UNCHANGED <<clock, seen, writer, snap, stale, accepted>>

\* Faulty variant: the purge takes one second too much.
CommittedRowsEarly(c) ==
  LET inserted == IF seen[c.mission] = Never
                  THEN [seen EXCEPT ![c.mission] = c.now] ELSE seen
  IN  IF c.op = "register" THEN Purged(inserted, clock + 1) ELSE inserted

\* commit(): the rows become visible, the connection's transaction ends, and
\* every snapshot pinned by another connection is outdated.
CommittedRows(c) ==
  LET inserted == IF seen[c.mission] = Never
                  THEN [seen EXCEPT ![c.mission] = c.now] ELSE seen
  IN  IF c.op = "register" THEN Purged(inserted, clock) ELSE inserted

Commit(t) ==
  LET g == call[t].guard IN
  /\ pc[t] = "commit"
  /\ seen' = CommittedRows(call[t])
  /\ accepted' = IF call[t].op = "check"
                 THEN Append(accepted, [mission |-> call[t].mission,
                                        created |-> call[t].created,
                                        at |-> call[t].now, done |-> clock])
                 ELSE accepted
  /\ writer' = Nobody
  /\ tx' = [tx EXCEPT ![g] = "none"]
  /\ snap' = [snap EXCEPT ![g] = NoSnapshot]
  /\ stale' = [h \in Guards |-> /\ h # g
                                /\ \/ stale[h]
                                   \/ snap[h] # NoSnapshot /\ seen' # seen]
  /\ Return(t)
  /\ UNCHANGED clock

\* Faulty variant: the restart forgets that the calls in progress are over.
CrashKeepsPc(g) ==
  /\ writer' = IF writer = g THEN Nobody ELSE writer
  /\ tx' = [tx EXCEPT ![g] = "none"]
  /\ snap' = [snap EXCEPT ![g] = NoSnapshot]
  /\ stale' = [stale EXCEPT ![g] = FALSE]
  /\ lock' = [lock EXCEPT ![g] = Nobody]
  /\ call' = [t \in Threads |-> IF pc[t] # "idle" /\ call[t].guard = g
                               THEN NoCall ELSE call[t]]
  /\ UNCHANGED <<clock, seen, pc, accepted>>

\* The process that owns a guard stops: SQLite rolls its transaction back, and
\* the restarted process opens a new guard on the same file.
Crash(g) ==
  LET victims == {t \in Threads : pc[t] # "idle" /\ call[t].guard = g} IN
  /\ writer' = IF writer = g THEN Nobody ELSE writer
  /\ tx' = [tx EXCEPT ![g] = "none"]
  /\ snap' = [snap EXCEPT ![g] = NoSnapshot]
  /\ stale' = [stale EXCEPT ![g] = FALSE]
  /\ lock' = [lock EXCEPT ![g] = Nobody]
  /\ pc' = [t \in Threads |-> IF t \in victims THEN "idle" ELSE pc[t]]
  /\ call' = [t \in Threads |-> IF t \in victims THEN NoCall ELSE call[t]]
  /\ UNCHANGED <<clock, seen, accepted>>

\* Time passes, but no call is suspended for longer than CallTime.
Tick ==
  /\ clock < Horizon
  /\ \A t \in Threads : pc[t] # "idle" => clock < call[t].now + CallTime
  /\ clock' = clock + 1
  /\ UNCHANGED <<seen, writer, tx, snap, stale, lock, pc, call, accepted>>

Step(t) == Acquire(t) \/ Select(t) \/ Write(t) \/ WriteFails(t) \/ Commit(t)

\* What the mission handlers do: synapse.py calls check() and nothing else.
HandlerNext ==
  \/ \E t \in Threads, g \in Guards, m \in Missions :
        \E c \in Created : BeginCheck(t, g, m, c)
  \/ \E t \in Threads : Step(t)
  \/ \E g \in Guards : Crash(g)
  \/ Tick

\* The whole interface: register() purges (demo_chain.py:80, the tests).
Next ==
  \/ HandlerNext
  \/ \E t \in Threads, g \in Guards, m \in Missions, op \in {"register", "read"} :
        BeginOther(t, g, m, op)

Spec == Init /\ [][Next]_vars
HandlerSpec == Init /\ [][HandlerNext]_vars

\* A thread that can take its next step is eventually scheduled.  Nothing is
\* assumed about which waiter a released threading.Lock goes to.
FairSpec == Spec /\ \A t \in Threads : WF_vars(Step(t))

-----------------------------------------------------------------------------
(* Properties *)

\* Every variable keeps its type; a call in progress has its arguments set.
TypeOK ==
  /\ clock \in Nat
  /\ seen \in Rows
  /\ writer \in Guards \cup {Nobody}
  /\ tx \in [Guards -> {"none", "open"}]
  /\ snap \in [Guards -> Rows \cup {NoSnapshot}]
  /\ stale \in [Guards -> BOOLEAN]
  /\ lock \in [Guards -> Threads \cup {Nobody}]
  /\ pc \in [Threads -> {"idle", "acquire", "select", "write", "commit"}]
  /\ call \in [Threads -> {NoCall} \cup Checks \cup OtherCalls]
  /\ \A t \in Threads : pc[t] # "idle" => call[t] # NoCall
  /\ accepted \in Seq(Acceptances)

\* The deduplication window: two acceptances of one mission id, by whatever
\* guards and threads, are separated by the purge of the first one's row, so
\* the second is committed more than MAX_AGE_SECONDS after the first read its
\* clock (check and register, replay_guard.py:49-87).
SpacedAcceptances ==
  \A j, k \in DOMAIN accepted :
     /\ j < k
     /\ accepted[j].mission = accepted[k].mission
     => accepted[k].done > accepted[j].at + MaxAge

\* The age test and the window fit together: a request is let through twice
\* only if it was younger than one call's duration (or dated in the future)
\* when it was first let through.  An older one expires before its row is
\* purged (replay_guard.py:33-47 against line 84).
ReplayOnlyIfYoung ==
  \A j, k \in DOMAIN accepted :
     /\ j < k
     /\ accepted[j].mission = accepted[k].mission
     /\ accepted[j].created = accepted[k].created
     => accepted[j].created + CallTime > accepted[j].at

\* "Prevents resubmission of already processed missions" (replay_guard.py:3):
\* no mission id is let through a second time.
AcceptedOnce ==
  \A j, k \in DOMAIN accepted :
     accepted[j].mission = accepted[k].mission => j = k

\* "thread-safe ... storage" (replay_guard.py:4): when no call is running on a
\* guard, its connection has no transaction open.  An abandoned transaction
\* keeps SQLite's write lock, or a snapshot that makes every later INSERT of
\* that guard fail, until the process restarts.
NoAbandonedTransaction ==
  \A g \in Guards : tx[g] = "open" => lock[g] # Nobody

\* The guard's lock and SQLite's write lock never deadlock: whoever holds a
\* guard's lock gives it back, because the INSERT stops waiting (timeout=10).
LockReleased ==
  \A g \in Guards : lock[g] # Nobody ~> lock[g] = Nobody
=============================================================================
