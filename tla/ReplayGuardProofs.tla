-------------------------- MODULE ReplayGuardProofs --------------------------
(***************************************************************************)
(* Proofs about ReplayGuard for every number of guards, threads and        *)
(* missions, every window, skew and call duration.                         *)
(***************************************************************************)
EXTENDS ReplayGuard, TLAPS

Inside(t) == pc[t] \in {"select", "write", "commit"}

\* A thread inside the `with` block holds the lock of the guard it calls.
Holding == \A t \in Threads : Inside(t) => lock[call[t].guard] = t

\* A reader never gets to the INSERT.  A thread about to commit has SQLite's
\* write lock, and for a check the row it inserts is still absent from the
\* committed table.
Writing ==
  \A t \in Threads :
     /\ pc[t] \in {"write", "commit"} => call[t].op # "read"
     /\ pc[t] = "commit" =>
          /\ writer = call[t].guard
          /\ call[t].op = "check" => seen[call[t].mission] = Never

\* A call in progress read the clock at most CallTime ago, and a check passed
\* the age test then.
Timely ==
  \A t \in Threads : pc[t] # "idle" =>
     /\ call[t].now <= clock
     /\ clock <= call[t].now + CallTime
     /\ call[t].op = "check" => call[t].now - call[t].created <= MaxAge

\* What every acceptance satisfied when it was recorded.
Recorded ==
  \A j \in DOMAIN accepted :
     /\ accepted[j].done <= accepted[j].at + CallTime
     /\ accepted[j].at - accepted[j].created <= MaxAge

\* Until its window is over, an accepted mission has a row at least as young.
Covered ==
  \A j \in DOMAIN accepted :
     \/ clock > accepted[j].at + MaxAge
     \/ seen[accepted[j].mission] >= accepted[j].at

IndInv == TypeOK /\ Holding /\ Writing /\ Timely /\ Recorded /\ Covered
            /\ SpacedAcceptances

-----------------------------------------------------------------------------
(* Types *)

LEMMA NoCallIsNoCall == NoCall \notin Checks \cup OtherCalls
  BY DEF NoCall, Checks, OtherCalls

LEMMA TypeInit == Init => TypeOK
  BY ReplayAssumption DEF Init, TypeOK, Rows, Acceptances

\* What the type invariant says of a call in progress.
LEMMA CallTyped ==
  ASSUME TypeOK, NEW t \in Threads, pc[t] # "idle"
  PROVE  /\ call[t] \in Checks \cup OtherCalls
         /\ call[t].guard \in Guards
         /\ call[t].mission \in Missions
         /\ call[t].now \in Nat
         /\ call[t].op \in {"check", "register", "read"}
         /\ call[t].op = "check" => call[t] \in Checks /\ call[t].created \in Nat
         /\ call[t].op # "check" => call[t] \in OtherCalls
  BY ReplayAssumption DEF TypeOK, Checks, OtherCalls

LEMMA ReturnTyped ==
  ASSUME TypeOK, NEW t \in Threads, pc[t] # "idle", Return(t)
  PROVE  /\ lock' \in [Guards -> Threads \cup {Nobody}]
         /\ pc' \in [Threads -> {"idle", "acquire", "select", "write", "commit"}]
         /\ call' \in [Threads -> {NoCall} \cup Checks \cup OtherCalls]
         /\ \A u \in Threads : pc'[u] # "idle" => call'[u] # NoCall
  BY DEF TypeOK, Return

LEMMA PurgedTyped ==
  ASSUME NEW rows \in Rows, NEW now \in Nat
  PROVE  Purged(rows, now) \in Rows
  BY ReplayAssumption DEF Purged, Rows, Never

LEMMA CommittedTyped ==
  ASSUME TypeOK, NEW t \in Threads, pc[t] # "idle"
  PROVE  CommittedRows(call[t]) \in Rows
  <1> DEFINE inserted == IF seen[call[t].mission] = Never
                         THEN [seen EXCEPT ![call[t].mission] = call[t].now]
                         ELSE seen
  <1>1. inserted \in Rows
    BY CallTyped DEF TypeOK, Rows
  <1>2. Purged(inserted, clock) \in Rows
    BY <1>1, PurgedTyped DEF TypeOK
  <1> QED BY <1>1, <1>2 DEF CommittedRows

LEMMA TypeNext == TypeOK /\ [Next]_vars => TypeOK'
  <1> SUFFICES ASSUME TypeOK, [Next]_vars PROVE TypeOK'
    OBVIOUS
  <1> USE ReplayAssumption
  <1>1. ASSUME NEW t \in Threads, NEW g \in Guards, NEW m \in Missions,
               NEW c \in Created, BeginCheck(t, g, m, c)
        PROVE  TypeOK'
    <2>1. [op |-> "check", guard |-> g, mission |-> m, created |-> c,
           now |-> clock] \in Checks
      BY DEF TypeOK, Checks
    <2> QED BY <1>1, <2>1, NoCallIsNoCall DEF TypeOK, BeginCheck, Goto
  <1>2. ASSUME NEW t \in Threads, NEW g \in Guards, NEW m \in Missions,
               NEW op \in {"register", "read"}, BeginOther(t, g, m, op)
        PROVE  TypeOK'
    <2>1. [op |-> op, guard |-> g, mission |-> m, now |-> clock] \in OtherCalls
      BY DEF TypeOK, OtherCalls
    <2> QED BY <1>2, <2>1, NoCallIsNoCall DEF TypeOK, BeginOther, Goto
  <1>3. ASSUME NEW t \in Threads, Acquire(t) PROVE TypeOK'
    BY <1>3, CallTyped DEF TypeOK, Acquire, Goto
  <1>4. ASSUME NEW t \in Threads, Select(t) PROVE TypeOK'
    <2>1. pc[t] # "idle" /\ call[t].guard \in Guards
      BY <1>4, CallTyped DEF Select
    <2>2. snap' \in [Guards -> Rows \cup {NoSnapshot}]
      BY <1>4, <2>1 DEF Select, TypeOK, View
    <2>3. CASE Goto(t, "write") /\ UNCHANGED <<lock, call>>
      BY <1>4, <2>1, <2>2, <2>3 DEF TypeOK, Select, Goto
    <2>4. CASE Return(t)
      BY <1>4, <2>1, <2>2, <2>4, ReturnTyped DEF TypeOK, Select
    <2> QED BY <1>4, <2>3, <2>4 DEF Select
  <1>5. ASSUME NEW t \in Threads, Write(t) PROVE TypeOK'
    <2>1. pc[t] # "idle" /\ call[t].guard \in Guards
      BY <1>5, CallTyped DEF Write
    <2>2. writer' \in Guards \cup {Nobody} /\ tx' \in [Guards -> {"none", "open"}]
      BY <1>5, <2>1 DEF Write, TypeOK
    <2>3. CASE /\ Goto(t, "commit")
               /\ call' = IF call[t].op = "register"
                          THEN [call EXCEPT ![t].now = clock] ELSE call
               /\ UNCHANGED lock
      <3>1. call[t].op = "register" =>
              [call[t] EXCEPT !.now = clock] \in OtherCalls
        BY <2>1, CallTyped DEF OtherCalls, TypeOK
      <3>2. /\ call' \in [Threads -> {NoCall} \cup Checks \cup OtherCalls]
            /\ \A u \in Threads : call[u] # NoCall => call'[u] # NoCall
        BY <2>3, <3>1, NoCallIsNoCall DEF TypeOK
      <3> QED BY <1>5, <2>1, <2>2, <2>3, <3>2 DEF TypeOK, Write, Goto
    <2>4. CASE Return(t)
      BY <1>5, <2>1, <2>2, <2>4, ReturnTyped DEF TypeOK, Write
    <2> QED BY <1>5, <2>3, <2>4 DEF Write
  <1>6. ASSUME NEW t \in Threads, WriteFails(t) PROVE TypeOK'
    <2>1. pc[t] # "idle" /\ call[t].guard \in Guards
      BY <1>6, CallTyped DEF WriteFails
    <2> QED BY <1>6, <2>1, ReturnTyped DEF TypeOK, WriteFails
  <1>7. ASSUME NEW t \in Threads, Commit(t) PROVE TypeOK'
    <2>1. pc[t] # "idle" /\ call[t].guard \in Guards
      BY <1>7, CallTyped DEF Commit
    <2>2. seen' \in Rows
      BY <1>7, <2>1, CommittedTyped DEF Commit
    <2>3. accepted' \in Seq(Acceptances)
      <3>1. CASE call[t].op = "check"
        <4>1. [mission |-> call[t].mission, created |-> call[t].created,
               at |-> call[t].now, done |-> clock] \in Acceptances
          BY <2>1, <3>1, CallTyped DEF Acceptances, Checks, TypeOK
        <4> QED BY <1>7, <3>1, <4>1 DEF Commit, TypeOK
      <3>2. CASE call[t].op # "check"
        BY <1>7, <3>2 DEF Commit, TypeOK
      <3> QED BY <3>1, <3>2
    <2>4. /\ snap' \in [Guards -> Rows \cup {NoSnapshot}]
          /\ stale' \in [Guards -> BOOLEAN]
          /\ tx' \in [Guards -> {"none", "open"}]
      BY <1>7, <2>1 DEF Commit, TypeOK
    <2> QED BY <1>7, <2>1, <2>2, <2>3, <2>4, ReturnTyped DEF Commit, TypeOK
  <1>8. ASSUME NEW g \in Guards, Crash(g) PROVE TypeOK'
    BY <1>8 DEF TypeOK, Crash
  <1>9. CASE Tick
    BY <1>9 DEF TypeOK, Tick
  <1>10. CASE UNCHANGED vars
    BY <1>10 DEF TypeOK, vars
  <1> QED BY <1>1, <1>2, <1>3, <1>4, <1>5, <1>6, <1>7, <1>8, <1>9, <1>10
          DEF Next, HandlerNext, Step

\* Type correctness of every behaviour of the guards.
THEOREM TypeCorrect == Spec => []TypeOK
  BY TypeInit, TypeNext, PTL DEF Spec

-----------------------------------------------------------------------------
(* The inductive invariant *)

LEMMA IndInit == Init => IndInv
  <1> SUFFICES ASSUME Init PROVE IndInv
    OBVIOUS
  <1>1. TypeOK
    BY TypeInit
  <1>2. \A t \in Threads : pc[t] = "idle"
    BY DEF Init
  <1>3. DOMAIN accepted = {}
    BY DEF Init
  <1> QED BY <1>1, <1>2, <1>3 DEF IndInv, Holding, Inside, Writing, Timely,
             Recorded, Covered, SpacedAcceptances

\* Who holds the lock and where the other threads are, after a step of t that
\* keeps its lock or gives it back.
LEMMA HoldingNext == IndInv /\ [Next]_vars => Holding'
  <1> SUFFICES ASSUME IndInv, [Next]_vars PROVE Holding'
    OBVIOUS
  <1> USE ReplayAssumption DEF IndInv, Holding, Inside
  <1>1. ASSUME NEW t \in Threads, NEW g \in Guards, NEW m \in Missions,
               NEW c \in Created, BeginCheck(t, g, m, c)
        PROVE  Holding'
    BY <1>1 DEF BeginCheck, Goto, TypeOK
  <1>2. ASSUME NEW t \in Threads, NEW g \in Guards, NEW m \in Missions,
               NEW op \in {"register", "read"}, BeginOther(t, g, m, op)
        PROVE  Holding'
    BY <1>2 DEF BeginOther, Goto, TypeOK
  <1>3. ASSUME NEW t \in Threads, Acquire(t) PROVE Holding'
    <2>1. call[t].guard \in Guards
      BY <1>3, CallTyped DEF Acquire
    <2>2. \A u \in Threads \ {t} : Inside(u) => call[u].guard # call[t].guard
      BY <1>3 DEF Acquire
    <2> QED BY <1>3, <2>1, <2>2 DEF Acquire, Goto, TypeOK
  <1>4. ASSUME NEW t \in Threads, Inside(t), Return(t) PROVE Holding'
    <2>1. call[t].guard \in Guards
      BY <1>4, CallTyped
    <2>2. \A u \in Threads \ {t} : Inside(u) => call[u].guard # call[t].guard
      BY <1>4
    <2> QED BY <1>4, <2>1, <2>2 DEF Return, TypeOK
  <1>5. ASSUME NEW t \in Threads, Select(t) PROVE Holding'
    BY <1>4, <1>5 DEF Select, Goto, TypeOK
  <1>6. ASSUME NEW t \in Threads, Write(t) PROVE Holding'
    <2>1. CASE Return(t)
      BY <1>4, <1>6, <2>1 DEF Write
    <2>2. CASE /\ Goto(t, "commit")
               /\ call' = IF call[t].op = "register"
                          THEN [call EXCEPT ![t].now = clock] ELSE call
               /\ UNCHANGED lock
      <3>1. \A u \in Threads : pc[u] # "idle" => call'[u].guard = call[u].guard
        BY <2>2, CallTyped DEF TypeOK, OtherCalls
      <3>2. \A u \in Threads : pc'[u] \in {"select", "write", "commit"}
                               => Inside(u)
        BY <1>6, <2>2 DEF Write, Goto, TypeOK
      <3> QED BY <2>2, <3>1, <3>2
    <2> QED BY <1>6, <2>1, <2>2 DEF Write
  <1>7. ASSUME NEW t \in Threads, WriteFails(t) PROVE Holding'
    BY <1>4, <1>7 DEF WriteFails
  <1>8. ASSUME NEW t \in Threads, Commit(t) PROVE Holding'
    BY <1>4, <1>8 DEF Commit
  <1>9. ASSUME NEW g \in Guards, Crash(g) PROVE Holding'
    BY <1>9 DEF Crash, TypeOK
  <1>10. CASE Tick
    BY <1>10 DEF Tick
  <1>11. CASE UNCHANGED vars
    BY <1>11 DEF vars
  <1> QED BY <1>1, <1>2, <1>3, <1>5, <1>6, <1>7, <1>8, <1>9, <1>10, <1>11
          DEF Next, HandlerNext, Step

\* At most one thread is between its INSERT and its commit.
LEMMA OneWriter ==
  ASSUME IndInv, NEW t \in Threads, NEW u \in Threads,
         pc[t] = "commit", pc[u] = "commit"
  PROVE  t = u
  BY DEF IndInv, Holding, Inside, Writing

LEMMA WritingNext == IndInv /\ [Next]_vars => Writing'
  <1> SUFFICES ASSUME IndInv, [Next]_vars PROVE Writing'
    OBVIOUS
  <1> USE ReplayAssumption DEF IndInv, Writing
  <1>1. ASSUME NEW t \in Threads, NEW g \in Guards, NEW m \in Missions,
               NEW c \in Created, BeginCheck(t, g, m, c)
        PROVE  Writing'
    BY <1>1 DEF BeginCheck, Goto, TypeOK
  <1>2. ASSUME NEW t \in Threads, NEW g \in Guards, NEW m \in Missions,
               NEW op \in {"register", "read"}, BeginOther(t, g, m, op)
        PROVE  Writing'
    BY <1>2 DEF BeginOther, Goto, TypeOK
  <1>3. ASSUME NEW t \in Threads, Acquire(t) PROVE Writing'
    BY <1>3 DEF Acquire, Goto, TypeOK
  <1>4. ASSUME NEW t \in Threads, Select(t) PROVE Writing'
    BY <1>4 DEF Select, Goto, Return, TypeOK
  <1>5. ASSUME NEW t \in Threads, Write(t) PROVE Writing'
    <2>1. call[t].guard \in Guards /\ call[t].op # "read"
      BY <1>5, CallTyped DEF Write
    <2>2. \A u \in Threads : pc[u] # "commit"
      <3> SUFFICES ASSUME NEW u \in Threads, pc[u] = "commit" PROVE FALSE
        OBVIOUS
      <3>1. writer = call[u].guard /\ writer \in Guards
        BY CallTyped
      <3>2. writer = call[t].guard
        BY <1>5, <3>1 DEF Write, MayWrite
      <3> QED BY <1>5, <3>1, <3>2 DEF Write, Holding, Inside
    <2>3. CASE Return(t)
      BY <1>5, <2>2, <2>3 DEF Write, Return, TypeOK
    <2>4. CASE /\ call[t].op = "check" => seen[call[t].mission] = Never
               /\ Goto(t, "commit")
               /\ call' = IF call[t].op = "register"
                          THEN [call EXCEPT ![t].now = clock] ELSE call
      <3>1. \A u \in Threads : pc[u] # "idle" =>
              /\ call'[u].guard = call[u].guard
              /\ call'[u].op = call[u].op
              /\ call'[u].mission = call[u].mission
        BY <2>4, CallTyped DEF TypeOK, OtherCalls
      <3>2. writer' = call[t].guard /\ seen' = seen /\ pc[t] = "write"
        BY <1>5 DEF Write
      <3>3. \A u \in Threads \ {t} : pc'[u] = pc[u]
        BY <2>4 DEF Goto, TypeOK
      <3>4. pc'[t] = "commit"
        BY <2>4 DEF Goto, TypeOK
      <3> QED BY <2>1, <2>2, <2>4, <3>1, <3>2, <3>3, <3>4
    <2> QED BY <1>5, <2>3, <2>4 DEF Write
  <1>6. ASSUME NEW t \in Threads, WriteFails(t) PROVE Writing'
    BY <1>6 DEF WriteFails, Return, TypeOK
  <1>7. ASSUME NEW t \in Threads, Commit(t) PROVE Writing'
    <2>1. \A u \in Threads \ {t} : pc[u] # "commit"
      BY <1>7, OneWriter DEF Commit
    <2> QED BY <1>7, <2>1 DEF Commit, Return, TypeOK
  <1>8. ASSUME NEW g \in Guards, Crash(g) PROVE Writing'
    BY <1>8 DEF Crash, TypeOK
  <1>9. CASE Tick
    BY <1>9 DEF Tick
  <1>10. CASE UNCHANGED vars
    BY <1>10 DEF vars
  <1> QED BY <1>1, <1>2, <1>3, <1>4, <1>5, <1>6, <1>7, <1>8, <1>9, <1>10
          DEF Next, HandlerNext, Step

\* What a commit does to the table: it adds its own row if there was none, and
\* only register() removes rows, those older than the window.
LEMMA CommitRows ==
  ASSUME IndInv, NEW t \in Threads, Commit(t), NEW m \in Missions
  PROVE  \/ seen'[m] = seen[m]
         \/ seen[m] = Never /\ m = call[t].mission /\ seen'[m] = call[t].now
         \/ seen[m] # Never /\ seen[m] < clock - MaxAge
  <1>1. pc[t] # "idle" /\ call[t].mission \in Missions
    BY CallTyped DEF Commit, IndInv
  <1> DEFINE inserted == IF seen[call[t].mission] = Never
                         THEN [seen EXCEPT ![call[t].mission] = call[t].now]
                         ELSE seen
  <1>2. \/ inserted[m] = seen[m]
        \/ seen[m] = Never /\ m = call[t].mission /\ inserted[m] = call[t].now
    BY <1>1 DEF IndInv, TypeOK, Rows
  <1>3. \/ seen'[m] = inserted[m]
        \/ seen'[m] = Never /\ inserted[m] < clock - MaxAge
    BY DEF Commit, CommittedRows, Purged
  <1>4. seen[m] \in Nat \cup {Never} /\ Never = -1
    BY DEF IndInv, TypeOK, Rows, Never
  <1>5. CASE inserted[m] = seen[m]
    BY <1>3, <1>4, <1>5
  <1>6. CASE seen[m] = Never /\ inserted[m] = call[t].now
    BY <1>2, <1>3, <1>4, <1>6
  <1> HIDE DEF inserted
  <1> QED BY <1>2, <1>5, <1>6

\* A check commits only over a row that is absent.
LEMMA CheckCommits ==
  ASSUME IndInv, NEW t \in Threads, Commit(t), call[t].op = "check"
  PROVE  /\ seen[call[t].mission] = Never
         /\ seen'[call[t].mission] = call[t].now
         /\ accepted' = Append(accepted,
                              [mission |-> call[t].mission,
                               created |-> call[t].created,
                               at |-> call[t].now, done |-> clock])
  <1>1. seen[call[t].mission] = Never
    BY DEF IndInv, Writing, Commit
  <1>2. call[t].mission \in Missions
    BY CallTyped DEF Commit, IndInv
  <1> QED BY <1>1, <1>2 DEF Commit, CommittedRows, IndInv, TypeOK, Rows

LEMMA TimelyNext == IndInv /\ [Next]_vars => Timely'
  <1> SUFFICES ASSUME IndInv, [Next]_vars PROVE Timely'
    OBVIOUS
  <1> USE ReplayAssumption DEF IndInv, Timely
  <1>1. ASSUME NEW t \in Threads, NEW g \in Guards, NEW m \in Missions,
               NEW c \in Created, BeginCheck(t, g, m, c)
        PROVE  Timely'
    BY <1>1 DEF BeginCheck, Fresh, Goto, TypeOK
  <1>2. ASSUME NEW t \in Threads, NEW g \in Guards, NEW m \in Missions,
               NEW op \in {"register", "read"}, BeginOther(t, g, m, op)
        PROVE  Timely'
    BY <1>2 DEF BeginOther, Goto, TypeOK
  <1>3. ASSUME NEW t \in Threads, Acquire(t) PROVE Timely'
    BY <1>3 DEF Acquire, Goto, TypeOK
  <1>4. ASSUME NEW t \in Threads, Return(t), UNCHANGED clock PROVE Timely'
    BY <1>4 DEF Return, TypeOK
  <1>5. ASSUME NEW t \in Threads, Select(t) PROVE Timely'
    BY <1>4, <1>5 DEF Select, Goto, TypeOK
  <1>6. ASSUME NEW t \in Threads, Write(t) PROVE Timely'
    <2>1. CASE Return(t)
      BY <1>4, <1>6, <2>1 DEF Write
    <2>2. CASE /\ Goto(t, "commit")
               /\ call' = IF call[t].op = "register"
                          THEN [call EXCEPT ![t].now = clock] ELSE call
      <3>1. \A u \in Threads : pc[u] # "idle" =>
              /\ call'[u].op = call[u].op
              /\ call'[u].now \in {call[u].now, clock}
              /\ call[u].op = "check" => call'[u] = call[u]
        BY <2>2, CallTyped DEF TypeOK, OtherCalls
      <3>2. clock' = clock /\ \A u \in Threads : pc'[u] # "idle" => pc[u] # "idle"
        BY <1>6, <2>2 DEF Write, Goto, TypeOK
      <3> QED BY <3>1, <3>2, CallTyped DEF TypeOK
    <2> QED BY <1>6, <2>1, <2>2 DEF Write
  <1>7. ASSUME NEW t \in Threads, WriteFails(t) PROVE Timely'
    BY <1>4, <1>7 DEF WriteFails
  <1>8. ASSUME NEW t \in Threads, Commit(t) PROVE Timely'
    BY <1>4, <1>8 DEF Commit
  <1>9. ASSUME NEW g \in Guards, Crash(g) PROVE Timely'
    BY <1>9 DEF Crash, TypeOK
  <1>10. CASE Tick
    BY <1>10, CallTyped DEF Tick, TypeOK
  <1>11. CASE UNCHANGED vars
    BY <1>11 DEF vars
  <1> QED BY <1>1, <1>2, <1>3, <1>5, <1>6, <1>7, <1>8, <1>9, <1>10, <1>11
          DEF Next, HandlerNext, Step

\* Only the commit of a check extends the history, only a commit changes the
\* table, and only Tick moves the clock.
LEMMA QuietSteps ==
  ASSUME [Next]_vars, ~ \E t \in Threads : Commit(t)
  PROVE  /\ accepted' = accepted /\ seen' = seen
         /\ clock' = clock \/ clock' = clock + 1
  BY DEF Next, HandlerNext, Step, BeginCheck, BeginOther, Acquire, Select, Write,
         WriteFails, Crash, Tick, vars

LEMMA OtherCommits ==
  ASSUME NEW t \in Threads, Commit(t), call[t].op # "check"
  PROVE  accepted' = accepted
  BY DEF Commit

\* The shape of the history after the commit of a check.
LEMMA Appended ==
  ASSUME IndInv, NEW t \in Threads, Commit(t), call[t].op = "check"
  PROVE  /\ DOMAIN accepted' = DOMAIN accepted \cup {Len(accepted) + 1}
         /\ DOMAIN accepted = 1 .. Len(accepted) /\ Len(accepted) \in Nat
         /\ \A j \in DOMAIN accepted : accepted'[j] = accepted[j]
         /\ accepted'[Len(accepted) + 1].mission = call[t].mission
         /\ accepted'[Len(accepted) + 1].created = call[t].created
         /\ accepted'[Len(accepted) + 1].at = call[t].now
         /\ accepted'[Len(accepted) + 1].done = clock
  <1> DEFINE new == [mission |-> call[t].mission, created |-> call[t].created,
                     at |-> call[t].now, done |-> clock]
  <1>1. accepted' = Append(accepted, new)
    BY CheckCommits
  <1>2. new.mission = call[t].mission /\ new.created = call[t].created
        /\ new.at = call[t].now /\ new.done = clock
    OBVIOUS
  <1>3. accepted \in Seq(Acceptances)
    BY DEF IndInv, TypeOK
  <1> HIDE DEF new
  <1>4. /\ DOMAIN accepted = 1 .. Len(accepted) /\ Len(accepted) \in Nat
        /\ DOMAIN accepted' = 1 .. Len(accepted) + 1
        /\ accepted'[Len(accepted) + 1] = new
        /\ \A j \in DOMAIN accepted : accepted'[j] = accepted[j]
    BY <1>1, <1>3
  <1> QED BY <1>2, <1>4

LEMMA HistoryTyped ==
  ASSUME TypeOK, NEW j \in DOMAIN accepted
  PROVE  /\ accepted[j].mission \in Missions
         /\ accepted[j].at \in Nat /\ accepted[j].done \in Nat
         /\ accepted[j].created \in Nat
         /\ clock \in Nat /\ seen[accepted[j].mission] \in Nat \cup {Never}
  <1>1. accepted[j] \in Acceptances
    BY DEF TypeOK
  <1> QED BY <1>1, ReplayAssumption DEF Acceptances, TypeOK, Rows

LEMMA RecordedNext == IndInv /\ [Next]_vars => Recorded'
  <1> SUFFICES ASSUME IndInv, [Next]_vars PROVE Recorded'
    OBVIOUS
  <1>1. CASE accepted' = accepted
    BY <1>1 DEF IndInv, Recorded
  <1>2. ASSUME NEW t \in Threads, Commit(t), call[t].op = "check"
        PROVE  Recorded'
    <2>1. /\ clock <= call[t].now + CallTime
          /\ call[t].now - call[t].created <= MaxAge
      BY <1>2 DEF IndInv, Timely, Commit
    <2> QED BY <1>2, <2>1, Appended DEF IndInv, Recorded
  <1> QED BY <1>1, <1>2, QuietSteps, OtherCommits

LEMMA CoveredNext == IndInv /\ [Next]_vars => Covered'
  <1> SUFFICES ASSUME IndInv, [Next]_vars PROVE Covered'
    OBVIOUS
  <1> USE ReplayAssumption
  <1>1. CASE ~ \E t \in Threads : Commit(t)
    BY <1>1, QuietSteps, HistoryTyped DEF IndInv, Covered, Never
  <1>2. ASSUME NEW t \in Threads, Commit(t) PROVE Covered'
    <2>1. clock' = clock
      BY <1>2 DEF Commit
    \* Acceptances already recorded: a row is replaced only when it was absent,
    \* and removed only when its window is over.
    <2>2. ASSUME NEW j \in DOMAIN accepted
          PROVE  \/ clock > accepted[j].at + MaxAge
                 \/ seen'[accepted[j].mission] >= accepted[j].at
      <3> DEFINE m == accepted[j].mission
      <3>1. /\ m \in Missions /\ accepted[j].at \in Nat /\ clock \in Nat
            /\ seen[m] \in Nat \cup {Never}
        BY HistoryTyped DEF IndInv
      <3>2. clock > accepted[j].at + MaxAge \/ seen[m] >= accepted[j].at
        BY DEF IndInv, Covered
      <3>3. CASE seen[m] = Never
        BY <3>1, <3>2, <3>3 DEF Never
      <3>4. CASE seen'[m] = seen[m]
        BY <3>2, <3>4
      <3>5. CASE seen[m] # Never /\ seen[m] < clock - MaxAge
        BY <3>1, <3>2, <3>5 DEF Never
      <3>6. \/ seen'[m] = seen[m] \/ seen[m] = Never
            \/ seen[m] # Never /\ seen[m] < clock - MaxAge
        BY <1>2, <3>1, CommitRows
      <3> QED
        BY <3>3, <3>4, <3>5, <3>6
    <2>3. CASE call[t].op # "check"
      BY <1>2, <2>1, <2>2, <2>3, OtherCommits DEF Covered
    <2>4. CASE call[t].op = "check"
      <3>1. seen'[call[t].mission] = call[t].now
        BY <1>2, <2>4, CheckCommits
      <3>2. call[t].now \in Nat
        BY <1>2, CallTyped DEF IndInv, Commit
      <3>3. seen'[call[t].mission] >= call[t].now
        BY <3>1, <3>2
      <3> QED BY <1>2, <2>1, <2>2, <2>4, <3>3, Appended DEF Covered
    <2> QED BY <2>3, <2>4
  <1> QED BY <1>1, <1>2

LEMMA SpacedNext == IndInv /\ [Next]_vars => SpacedAcceptances'
  <1> SUFFICES ASSUME IndInv, [Next]_vars PROVE SpacedAcceptances'
    OBVIOUS
  <1>1. CASE accepted' = accepted
    BY <1>1 DEF IndInv, SpacedAcceptances
  <1>2. ASSUME NEW t \in Threads, Commit(t), call[t].op = "check"
        PROVE  SpacedAcceptances'
    \* The row of the accepted mission was absent, so by Covered the window of
    \* each earlier acceptance is over.
    <2>1. ASSUME NEW j \in DOMAIN accepted,
                 accepted[j].mission = call[t].mission
          PROVE  clock > accepted[j].at + MaxAge
      <3>1. seen[accepted[j].mission] = Never
        BY <1>2, <2>1, CheckCommits
      <3> QED BY <3>1, HistoryTyped DEF IndInv, Covered, Never
    <2>2. DOMAIN accepted = 1 .. Len(accepted) /\ Len(accepted) \in Nat
      BY <1>2, Appended
    <2> SUFFICES ASSUME NEW j \in DOMAIN accepted', NEW k \in DOMAIN accepted',
                        j < k, accepted'[j].mission = accepted'[k].mission
                 PROVE  accepted'[k].done > accepted'[j].at + MaxAge
      BY DEF SpacedAcceptances
    <2>3. j \in DOMAIN accepted
      BY <1>2, <2>2, Appended
    <2>4. CASE k \in DOMAIN accepted
      BY <1>2, <2>3, <2>4, Appended DEF IndInv, SpacedAcceptances
    <2>5. CASE k = Len(accepted) + 1
      BY <1>2, <2>1, <2>3, <2>5, Appended
    <2> QED BY <1>2, <2>4, <2>5, Appended
  <1> QED BY <1>1, <1>2, QuietSteps, OtherCommits

LEMMA IndNext == IndInv /\ [Next]_vars => IndInv'
  BY TypeNext, HoldingNext, WritingNext, TimelyNext, RecordedNext, CoveredNext,
     SpacedNext DEF IndInv

\* The invariant that is inductive, under which a window keeps two acceptances
\* of replay_guard.py apart.
THEOREM Inductive == Spec => []IndInv
  BY IndInit, IndNext, PTL DEF Spec

\* Two acceptances of one mission id lie more than the window apart, whatever
\* guards, threads, crashes and lock conflicts there are.
THEOREM WindowHolds == Spec => []SpacedAcceptances
  <1>1. IndInv => SpacedAcceptances
    BY DEF IndInv
  <1> QED BY <1>1, Inductive, PTL

\* A request is let through twice only if it was younger than a call's duration
\* the first time.
THEOREM OnlyYoungReplayed == Spec => []ReplayOnlyIfYoung
  <1>1. IndInv => ReplayOnlyIfYoung
    <2> SUFFICES ASSUME IndInv, NEW j \in DOMAIN accepted,
                        NEW k \in DOMAIN accepted, j < k,
                        accepted[j].mission = accepted[k].mission,
                        accepted[j].created = accepted[k].created
                 PROVE  accepted[j].created + CallTime > accepted[j].at
      BY DEF ReplayOnlyIfYoung
    <2>1. accepted[k].done > accepted[j].at + MaxAge
      BY DEF IndInv, SpacedAcceptances
    <2>2. /\ accepted[k].done <= accepted[k].at + CallTime
          /\ accepted[k].at - accepted[k].created <= MaxAge
      BY DEF IndInv, Recorded
    <2> QED BY <2>1, <2>2, HistoryTyped, ReplayAssumption DEF IndInv
  <1> QED BY <1>1, Inductive, PTL

-----------------------------------------------------------------------------
(* The handlers as they are wired never purge *)

\* Only checks are called, an accepted mission keeps its row, and so it is
\* accepted once.
Kept ==
  /\ \A t \in Threads : pc[t] # "idle" => call[t].op = "check"
  /\ \A j \in DOMAIN accepted : seen[accepted[j].mission] # Never
  /\ AcceptedOnce

LEMMA KeptNext == IndInv /\ Kept /\ [HandlerNext]_vars => Kept'
  <1> SUFFICES ASSUME IndInv, Kept, [HandlerNext]_vars PROVE Kept'
    OBVIOUS
  <1>1. [Next]_vars
    BY DEF Next
  <1>2. \A t \in Threads : pc'[t] # "idle" => call'[t].op = "check"
    <2>1. ASSUME NEW t \in Threads, NEW g \in Guards, NEW m \in Missions,
                 NEW c \in Created, BeginCheck(t, g, m, c)
          PROVE  \A u \in Threads : pc'[u] # "idle" => call'[u].op = "check"
      BY <2>1 DEF BeginCheck, Goto, Kept, IndInv, TypeOK
    <2>2. ASSUME NEW t \in Threads, Step(t)
          PROVE  \A u \in Threads : pc'[u] # "idle" => call'[u].op = "check"
      BY <2>2 DEF Step, Acquire, Select, Write, WriteFails, Commit, Return, Goto,
                  Kept, IndInv, TypeOK
    <2>3. ASSUME NEW g \in Guards, Crash(g)
          PROVE  \A u \in Threads : pc'[u] # "idle" => call'[u].op = "check"
      BY <2>3 DEF Crash, Kept
    <2>4. CASE Tick \/ UNCHANGED vars
      BY <2>4 DEF Tick, Kept, vars
    <2> QED BY <2>1, <2>2, <2>3, <2>4 DEF HandlerNext
  <1>3. CASE ~ \E t \in Threads : Commit(t)
    BY <1>1, <1>2, <1>3, QuietSteps DEF Kept, AcceptedOnce
  <1>4. ASSUME NEW t \in Threads, Commit(t) PROVE Kept'
    <2>1. call[t].op = "check"
      BY <1>4 DEF Kept, Commit
    <2>2. /\ seen[call[t].mission] = Never
          /\ seen' = [seen EXCEPT ![call[t].mission] = call[t].now]
      BY <1>4, <2>1, CheckCommits DEF Commit, CommittedRows
    <2>3. call[t].now \in Nat /\ call[t].mission \in Missions /\ seen \in Rows
      BY <1>4, CallTyped DEF Commit, IndInv, TypeOK
    <2>4. \A j \in DOMAIN accepted : accepted[j].mission # call[t].mission
      BY <2>2 DEF Kept
    <2>5. \A j \in DOMAIN accepted : seen'[accepted[j].mission] # Never
      BY <2>2, <2>3, HistoryTyped DEF Kept, IndInv, Rows, Never
    <2>6. seen'[call[t].mission] # Never
      BY <2>2, <2>3 DEF Rows, Never
    <2>7. \A j \in DOMAIN accepted' : seen'[accepted'[j].mission] # Never
      BY <1>4, <2>1, <2>5, <2>6, Appended
    <2>8. AcceptedOnce'
      BY <1>4, <2>1, <2>4, Appended DEF Kept, AcceptedOnce
    <2> QED BY <1>2, <2>7, <2>8 DEF Kept
  <1> QED BY <1>3, <1>4

\* With the handlers' calls alone, no mission id is ever let through twice, by
\* any guard on the file, before or after any restart.
THEOREM HandlersAcceptOnce == HandlerSpec => []AcceptedOnce
  <1>1. Init => IndInv /\ Kept
    <2>1. Init => DOMAIN accepted = {}
      BY DEF Init
    <2> QED BY <2>1, IndInit DEF Init, Kept, AcceptedOnce
  <1>2. [HandlerNext]_vars => [Next]_vars
    BY DEF Next
  <1>3. IndInv /\ Kept => AcceptedOnce
    BY DEF Kept
  <1> QED BY <1>1, <1>2, <1>3, IndNext, KeptNext, PTL DEF HandlerSpec
=============================================================================
