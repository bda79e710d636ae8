----------------------------- MODULE StationProofs ----------------------------
(***************************************************************************)
(* What the other parts of a station keep - histories and rewards, the     *)
(* evidence of a mission, the checks of a flight, signed commands, flights *)
(* of a swarm, lessons and averages, shared scores - and that the station  *)
(* keeps what its parts do: its parts share no variable, so that each      *)
(* behaves in it as it does alone.                                         *)
(***************************************************************************)
EXTENDS MCStation, ServerProofs, SequenceTheorems, FunctionTheorems

-----------------------------------------------------------------------------
(* The larger and the smaller of two integers *)

LEMMA MaxOfTwo ==
  ASSUME NEW a \in Int, NEW b \in Int
  PROVE  Max({a, b}) = IF a >= b THEN a ELSE b
<1> DEFINE m == IF a >= b THEN a ELSE b
<1>1. m \in {a, b} /\ \A y \in {a, b} : m >= y  OBVIOUS
<1>2. \A x \in {a, b} : (\A y \in {a, b} : x >= y) => x = m  OBVIOUS
<1> QED BY <1>1, <1>2 DEF Max

LEMMA MinOfTwo ==
  ASSUME NEW a \in Int, NEW b \in Int
  PROVE  Min({a, b}) = IF a <= b THEN a ELSE b
<1> DEFINE m == IF a <= b THEN a ELSE b
<1>1. m \in {a, b} /\ \A y \in {a, b} : m <= y  OBVIOUS
<1>2. \A x \in {a, b} : (\A y \in {a, b} : x <= y) => x = m  OBVIOUS
<1> QED BY <1>1, <1>2 DEF Min

-----------------------------------------------------------------------------
(* Rewards *)

RewardsSpec == RewardsInit /\ [][RewardsNext]_rewardVars

RewardsInv ==
  /\ better.streak \in Nat /\ worse.streak \in Nat
  /\ better.total \in Int /\ worse.total \in Int
  /\ better.streak >= worse.streak
  /\ better.total >= worse.total

\* A reward with the largest and smallest of two written out.
Bonus(streak) == IF MaxBonus <= 200 * streak THEN MaxBonus ELSE 200 * streak
Penalty(breaches) == IF 5000 <= 500 * breaches THEN 5000 ELSE 500 * breaches
Gain(streak, score, tier, breaches) ==
  (500 + 15 * score) * tier + Bonus(streak) - Penalty(breaches)

LEMMA RewardIs ==
  ASSUME NEW streak \in Nat, NEW score \in Nat, NEW tier \in Nat, NEW breaches \in Nat
  PROVE  /\ Gain(streak, score, tier, breaches) \in Int
         /\ Reward(streak, score, tier, breaches) =
              IF Gain(streak, score, tier, breaches) <= 0 THEN 0
              ELSE Gain(streak, score, tier, breaches)
<1>1. Min({MaxBonus, 200 * streak}) = Bonus(streak)
  BY MinOfTwo, MissionLogAssumption DEF Bonus, MissionLogAssumption
<1>2. Min({5000, 500 * breaches}) = Penalty(breaches)
  BY MinOfTwo DEF Penalty
<1>3. Gain(streak, score, tier, breaches) \in Int
  <2>1. (500 + 15 * score) * tier \in Int  OBVIOUS
  <2>2. Bonus(streak) \in Int /\ Penalty(breaches) \in Int
    BY MissionLogAssumption DEF Bonus, Penalty, MissionLogAssumption
  <2> QED BY <2>1, <2>2 DEF Gain
<1>4. Reward(streak, score, tier, breaches) = Max({0, Gain(streak, score, tier, breaches)})
  BY <1>1, <1>2 DEF Reward, Gain
<1> HIDE DEF Gain
<1>5. Max({0, Gain(streak, score, tier, breaches)}) =
        IF 0 >= Gain(streak, score, tier, breaches) THEN 0
        ELSE Gain(streak, score, tier, breaches)
  BY <1>3, MaxOfTwo
<1> QED BY <1>3, <1>4, <1>5

\* A better score, a longer streak and fewer breaches are never paid less.
LEMMA RewardMonotone ==
  ASSUME NEW long \in Nat, NEW short \in Nat, long >= short,
         NEW good \in Nat, NEW bad \in Nat, good >= bad,
         NEW few \in Nat, NEW many \in Nat, few <= many,
         NEW tier \in Nat
  PROVE  /\ Reward(long, good, tier, few) \in Nat
         /\ Reward(short, bad, tier, many) \in Nat
         /\ Reward(long, good, tier, few) >= Reward(short, bad, tier, many)
<1> DEFINE more == Gain(long, good, tier, few)
           less == Gain(short, bad, tier, many)
<1>1. more >= less
  <2>1. (500 + 15 * good) * tier >= (500 + 15 * bad) * tier
    <3>1. PICK d \in Nat : good = bad + d
      <4>1. good - bad \in Nat /\ good = bad + (good - bad)  OBVIOUS
      <4> QED BY <4>1
    <3>2. (500 + 15 * good) * tier = (500 + 15 * bad) * tier + 15 * (d * tier)  BY <3>1
    <3>3. d * tier \in Nat /\ (500 + 15 * bad) * tier \in Nat  BY <3>1
    <3> QED BY <3>2, <3>3
  <2>2. Bonus(long) >= Bonus(short) /\ Bonus(long) \in Int /\ Bonus(short) \in Int
    BY MissionLogAssumption DEF Bonus, MissionLogAssumption
  <2>3. Penalty(few) <= Penalty(many) /\ Penalty(few) \in Int /\ Penalty(many) \in Int
    BY DEF Penalty
  <2>4. (500 + 15 * good) * tier \in Int /\ (500 + 15 * bad) * tier \in Int  OBVIOUS
  <2> DEFINE x == (500 + 15 * good) * tier  y == (500 + 15 * bad) * tier
  <2>5. more = x + Bonus(long) - Penalty(few) /\ less = y + Bonus(short) - Penalty(many)
    BY DEF Gain
  <2> HIDE DEF x, y, more, less
  <2> QED BY <2>1, <2>2, <2>3, <2>4, <2>5 DEF x, y
<1>2. more \in Int /\ Reward(long, good, tier, few) = IF more <= 0 THEN 0 ELSE more
  BY RewardIs
<1>3. less \in Int /\ Reward(short, bad, tier, many) = IF less <= 0 THEN 0 ELSE less
  BY RewardIs
<1> HIDE DEF more, less
<1> QED BY <1>1, <1>2, <1>3

LEMMA RewardsInvariant == RewardsSpec => []RewardsInv
<1>1. RewardsInit => RewardsInv
  BY DEF RewardsInit, RewardsInv, NewCalculator
<1>2. ASSUME RewardsInv, [RewardsNext]_rewardVars  PROVE RewardsInv'
  <2>1. CASE UNCHANGED rewardVars  BY <1>2, <2>1 DEF RewardsInv, rewardVars
  <2>2. CASE RewardsNext
    <3>1. PICK good \in Points, bad \in Points, tier \in Multipliers, few \in Breaches, many \in Breaches :
            good >= bad /\ few <= many /\ Calculate(good, bad, tier, few, many)
      BY <2>2 DEF RewardsNext
    <3>2. good \in Nat /\ bad \in Nat /\ tier \in Nat /\ few \in Nat /\ many \in Nat
      BY MissionLogAssumption DEF MissionLogAssumption
    <3> DEFINE long == Streak(better, good)  short == Streak(worse, bad)
    <3>3. long \in Nat /\ short \in Nat /\ long >= short
      BY <1>2, <3>1, <3>2 DEF RewardsInv, Streak
    <3>4. /\ better' = [streak |-> long, total |-> better.total + Reward(long, good, tier, few)]
          /\ worse' = [streak |-> short, total |-> worse.total + Reward(short, bad, tier, many)]
      BY <3>1 DEF Calculate, Paid
    <3> HIDE DEF long, short
    <3>5. /\ Reward(long, good, tier, few) \in Nat
          /\ Reward(short, bad, tier, many) \in Nat
          /\ Reward(long, good, tier, few) >= Reward(short, bad, tier, many)
      BY <3>1, <3>2, <3>3, RewardMonotone
    <3> QED BY <1>2, <3>3, <3>4, <3>5 DEF RewardsInv
  <2> QED BY <1>2, <2>1, <2>2
<1> QED BY <1>1, <1>2, PTL DEF RewardsSpec

\* Whoever flies no mission worse than the other and breaks no more rules is never
\* paid less, at any time (economics.py:71-126).
THEOREM BetterFlyingPays == RewardsSpec => []BetterEarnsMore
<1>1. RewardsInv => BetterEarnsMore  BY DEF RewardsInv, BetterEarnsMore
<1> QED BY <1>1, RewardsInvariant, PTL

-----------------------------------------------------------------------------
(* The history *)

LogSpec == LogInit /\ [][LogNext]_logVars

Logged == [score : Points, prev : Seq(Points), hash : Seq(Points)]

\* The hash of an entry is one the history had: that of all missions up to one.
HashOf(e) == Len(e.hash) \in 1 .. Len(added) /\ e.hash = SubSeq(added, 1, Len(e.hash))

LogInv ==
  /\ added \in Seq(Points)
  /\ tip = added
  /\ edits \in Nat
  /\ log \in Seq(Logged)
  /\ \A i \in DOMAIN log : HashOf(log[i])
  /\ edits = 0 =>
       /\ Len(log) = Len(added)
       /\ \A i \in DOMAIN log : log[i].score = added[i] /\ Len(log[i].hash) = i

LEMMA ChangesKeep ==
  ASSUME log \in Seq(Logged), NEW new \in Changes
  PROVE  /\ new \in Seq(Logged)
         /\ \A i \in DOMAIN new : \E j \in DOMAIN log : new[i].hash = log[j].hash
<1>1. ASSUME NEW i \in DOMAIN log, new = RemoveAt(log, i)
      PROVE  /\ new \in Seq(Logged)
             /\ \A k \in DOMAIN new : \E j \in DOMAIN log : new[k] = log[j]
  <2>1. i \in 1 .. Len(log) /\ Len(log) \in Nat  OBVIOUS
  <2> DEFINE front == SubSeq(log, 1, i - 1)  back == SubSeq(log, i + 1, Len(log))
  <2>2. /\ front \in Seq(Logged) /\ Len(front) = i - 1
        /\ \A k \in 1 .. i - 1 : front[k] = log[k]
    BY <2>1
  <2>3. /\ back \in Seq(Logged) /\ Len(back) = Len(log) - i
        /\ \A k \in 1 .. Len(log) - i : back[k] = log[i + k]
    BY <2>1
  <2>4. new = front \o back  BY <1>1 DEF RemoveAt
  <2> HIDE DEF front, back
  <2>5. /\ new \in Seq(Logged) /\ Len(new) = Len(log) - 1
        /\ \A k \in 1 .. Len(new) : new[k] = IF k < i THEN front[k] ELSE back[k - (i - 1)]
    <3>1. /\ new \in Seq(Logged) /\ Len(new) = Len(front) + Len(back)
          /\ \A k \in 1 .. Len(new) : new[k] = IF k <= Len(front) THEN front[k] ELSE back[k - Len(front)]
      <4> DEFINE both == front \o back
      <4>1. /\ both \in Seq(Logged) /\ Len(both) = Len(front) + Len(back)
            /\ \A k \in 1 .. Len(front) + Len(back) :
                 both[k] = IF k <= Len(front) THEN front[k] ELSE back[k - Len(front)]
        BY <2>2, <2>3, ConcatProperties, Zenon
      <4> HIDE DEF both
      <4> QED BY <2>4, <4>1 DEF both
    <3>2. Len(new) = Len(log) - 1  BY <2>1, <2>2, <2>3, <3>1
    <3>3. \A k \in Int : k <= Len(front) <=> k < i  BY <2>1, <2>2
    <3>4. ASSUME NEW k \in 1 .. Len(new)
          PROVE  new[k] = IF k < i THEN front[k] ELSE back[k - (i - 1)]
      <4>1. k \in Int  OBVIOUS
      <4>2. CASE k < i  BY <3>1, <3>3, <4>1, <4>2
      <4>3. CASE ~(k < i)
        <5>1. new[k] = back[k - Len(front)]  BY <3>1, <3>3, <4>1, <4>3
        <5> QED BY <2>2, <4>3, <5>1
      <4> QED BY <4>2, <4>3
    <3> QED BY <3>1, <3>2, <3>4
  <2>6. ASSUME NEW k \in DOMAIN new  PROVE \E j \in DOMAIN log : new[k] = log[j]
    <3>0. k \in 1 .. Len(new) /\ DOMAIN log = 1 .. Len(log)  BY <2>5
    <3>1. CASE k < i  BY <2>1, <2>2, <2>5, <3>0, <3>1, SMTT(30)
    <3>2. CASE ~(k < i)
      <4>1. k - (i - 1) \in 1 .. Len(log) - i /\ i + (k - (i - 1)) = k + 1
        BY <2>1, <2>5, <3>0, <3>2
      <4>2. new[k] = back[k - (i - 1)]  BY <2>5, <3>0, <3>2
      <4>3. new[k] = log[k + 1]  BY <2>3, <4>1, <4>2
      <4> QED BY <2>1, <2>5, <3>0, <3>2, <4>3
    <3> QED BY <3>1, <3>2
  <2> QED BY <2>5, <2>6
<1>2. ASSUME NEW i \in 1 .. Len(log) - 1,
             new = [log EXCEPT ![i] = log[i + 1], ![i + 1] = log[i]]
      PROVE  /\ new \in Seq(Logged)
             /\ \A k \in DOMAIN new : \E j \in DOMAIN log : new[k] = log[j]
  <2>1. i \in DOMAIN log /\ i + 1 \in DOMAIN log /\ i # i + 1  OBVIOUS
  <2>2. /\ DOMAIN new = DOMAIN log /\ Len(new) = Len(log)
        /\ new[i] = log[i + 1] /\ new[i + 1] = log[i]
        /\ \A k \in DOMAIN log \ {i, i + 1} : new[k] = log[k]
    BY <1>2, <2>1
  <2>3. new \in Seq(Logged)  BY <1>2, <2>1
  <2> QED BY <2>1, <2>2, <2>3
<1>3. ASSUME NEW i \in DOMAIN log, NEW s \in Points, new = [log EXCEPT ![i].score = s]
      PROVE  /\ new \in Seq(Logged)
             /\ \A k \in DOMAIN new : \E j \in DOMAIN log : new[k].hash = log[j].hash
  <2> DEFINE e == [log[i] EXCEPT !.score = s]
  <2>1. e \in Logged /\ e.hash = log[i].hash
    <3>1. log[i] \in Logged  OBVIOUS
    <3> QED BY <3>1 DEF Logged
  <2>2. new = [log EXCEPT ![i] = e]  BY <1>3
  <2> HIDE DEF e
  <2>3. new \in Seq(Logged)  BY <2>1, <2>2
  <2> QED BY <2>1, <2>2, <2>3
<1>4. ASSUME NEW i \in DOMAIN log, new = [log EXCEPT ![i].prev = Zero]
      PROVE  /\ new \in Seq(Logged)
             /\ \A k \in DOMAIN new : \E j \in DOMAIN log : new[k].hash = log[j].hash
  <2> DEFINE e == [log[i] EXCEPT !.prev = Zero]
  <2>1. e \in Logged /\ e.hash = log[i].hash
    <3>1. log[i] \in Logged  OBVIOUS
    <3>2. Zero \in Seq(Points)  BY DEF Zero
    <3> HIDE DEF Zero
    <3> QED BY <3>1, <3>2 DEF Logged
  <2>2. new = [log EXCEPT ![i] = e]  BY <1>4
  <2> HIDE DEF e
  <2>3. new \in Seq(Logged)  BY <2>1, <2>2
  <2> QED BY <2>1, <2>2, <2>3
<1> QED BY <1>1, <1>2, <1>3, <1>4 DEF Changes

LEMMA LogInductive == LogInv /\ [LogNext]_logVars => LogInv'
<1> SUFFICES ASSUME LogInv, [LogNext]_logVars PROVE LogInv'  OBVIOUS
<1>1. CASE UNCHANGED logVars  BY <1>1 DEF LogInv, HashOf, logVars
<1>2. ASSUME NEW score \in Points, AddEntry(score)  PROVE LogInv'
  <2>0. PICK e : e = [score |-> score, prev |-> tip, hash |-> Hash(tip, score)]  OBVIOUS
  <2>1. /\ added' = Append(added, score) /\ tip' = Append(tip, score) /\ edits' = edits
        /\ log' = Append(log, e)
    BY <1>2, <2>0 DEF AddEntry, Hash
  <2>2. /\ added \in Seq(Points) /\ tip = added /\ log \in Seq(Logged) /\ edits \in Nat
    BY DEF LogInv
  <2>3. added' \in Seq(Points) /\ tip' = added' /\ Len(added') = Len(added) + 1
        /\ \A i \in 1 .. Len(added) : added'[i] = added[i]
        /\ added'[Len(added) + 1] = score
    BY <2>1, <2>2
  <2>4. e \in Logged /\ e.score = score /\ e.hash = added'
    BY <2>0, <2>1, <2>2, <2>3 DEF Logged, Hash
  <2>5. /\ log' \in Seq(Logged) /\ Len(log') = Len(log) + 1 /\ log'[Len(log) + 1] = e
        /\ \A i \in 1 .. Len(log) : log'[i] = log[i]
    BY <2>1, <2>2, <2>4
  <2>6. e.hash = SubSeq(added', 1, Len(e.hash)) /\ Len(e.hash) = Len(added) + 1
    BY <2>3, <2>4
  <2>7. ASSUME NEW i \in 1 .. Len(log)  PROVE HashOf(log[i])'
    <3>1. HashOf(log[i])  BY <2>2 DEF LogInv
    <3>2. log[i].hash \in Seq(Points)
      <4>1. log[i] \in Logged  BY <2>2
      <4> QED BY <4>1 DEF Logged
    <3> DEFINE n == Len(log[i].hash)
    <3>3. n \in 1 .. Len(added)  BY <3>1 DEF HashOf
    <3> HIDE DEF n
    <3>4. SubSeq(added', 1, n) = SubSeq(added, 1, n)  BY <2>2, <2>3, <3>3
    <3>5. log'[i] = log[i]  BY <2>5
    <3> QED BY <2>2, <2>3, <3>1, <3>3, <3>4, <3>5 DEF HashOf, n
  <2>8. \A i \in DOMAIN log' : HashOf(log[i])'
    <3>1. HashOf(e)'  BY <2>2, <2>3, <2>6 DEF HashOf
    <3> QED BY <2>2, <2>5, <2>7, <3>1 DEF HashOf
  <2>9. edits' = 0 => /\ Len(log') = Len(added')
                      /\ \A i \in DOMAIN log' : log'[i].score = added'[i] /\ Len(log'[i].hash) = i
    BY <2>1, <2>2, <2>3, <2>4, <2>5, <2>6 DEF LogInv
  <2> QED BY <2>1, <2>2, <2>3, <2>5, <2>8, <2>9 DEF LogInv
<1>3. ASSUME EditLog  PROVE LogInv'
  <2>1. /\ edits' = edits + 1 /\ log' \in Changes /\ UNCHANGED <<tip, added>>
    BY <1>3 DEF EditLog
  <2>2. /\ log' \in Seq(Logged)
        /\ \A i \in DOMAIN log' : \E j \in DOMAIN log : log'[i].hash = log[j].hash
    <3>1. PICK new : new = log'  OBVIOUS
    <3>2. new \in Changes  BY <2>1, <3>1
    <3> QED BY <3>1, <3>2, ChangesKeep DEF LogInv
  <2>3. (\A i \in DOMAIN log : HashOf(log[i]))'
    BY <2>1, <2>2 DEF LogInv, HashOf
  <2>4. edits' \in Nat /\ edits' # 0  BY <2>1 DEF LogInv
  <2> QED BY <2>1, <2>2, <2>3, <2>4 DEF LogInv
<1> QED BY <1>1, <1>2, <1>3 DEF LogNext

LEMMA LogInvariant == LogSpec => []LogInv
<1>1. LogInit => LogInv  BY DEF LogInit, LogInv, Zero
<1> QED BY <1>1, LogInductive, PTL DEF LogSpec

\* In a chain that verifies, the entry at place i has a hash of i missions.
LEMMA ValidChainCounts ==
  ASSUME LogInv, ChainValid
  PROVE  \A i \in DOMAIN log : Len(log[i].hash) = i
<1>1. log \in Seq(Logged) /\ Len(log) \in Nat  BY DEF LogInv
<1>2. \A i \in 1 .. Len(log) : log[i].hash \in Seq(Points) /\ log[i].score \in Points
  <2>1. \A i \in 1 .. Len(log) : log[i] \in Logged  BY <1>1
  <2> QED BY <2>1 DEF Logged
<1> DEFINE Bad == {i \in DOMAIN log : Len(log[i].hash) # i}
<1>3. SUFFICES ASSUME Bad # {} PROVE FALSE  OBVIOUS
<1>4. PICK m \in Bad : \A k \in Bad : m <= k
  <2>1. Bad \in SUBSET Nat  BY <1>1
  <2> HIDE DEF Bad
  <2> QED BY <1>3, <2>1, LeastNatural
<1>5. m \in 1 .. Len(log) /\ Len(log[m].hash) # m  BY <1>1, <1>4
<1>6. log[m].hash = Append(IF m = 1 THEN Zero ELSE log[m - 1].hash, log[m].score)
  BY <1>5, <1>1 DEF ChainValid, Hash
<1>7. CASE m = 1
  <2>1. log[m].hash = Append(<<>>, log[m].score)  BY <1>6, <1>7 DEF Zero
  <2> QED BY <1>5, <1>7, <2>1
<1>8. CASE m # 1
  <2>1. m - 1 \in 1 .. Len(log) /\ ~(m <= m - 1)  BY <1>1, <1>5, <1>8
  <2>2. m - 1 \notin Bad  BY <1>4, <2>1
  <2>3. Len(log[m - 1].hash) = m - 1  BY <1>1, <2>1, <2>2
  <2>4. log[m - 1].hash \in Seq(Points)  BY <1>2, <2>1
  <2> QED BY <1>2, <1>5, <1>6, <1>8, <2>3, <2>4
<1> QED BY <1>7, <1>8

\* A history whose chain verifies holds missions that were added, from the first
\* on and in order, whatever happened to the list; and it does verify when
\* nothing happened to it (mission_history.py:40-51).
THEOREM ChainVouchesForHistory == LogSpec => []ChainTrusted
<1>1. ASSUME LogInv, ChainValid
      PROVE  IsPrefix([i \in DOMAIN log |-> log[i].score], added)
  <2>1. /\ log \in Seq(Logged) /\ Len(log) \in Nat /\ DOMAIN log = 1 .. Len(log)
        /\ added \in Seq(Points) /\ Len(added) \in Nat
    BY <1>1 DEF LogInv
  <2>2. \A i \in 1 .. Len(log) : /\ log[i].hash \in Seq(Points) /\ log[i].score \in Points
                                 /\ i <= Len(added)
                                 /\ Len(log[i].hash) = i /\ log[i].hash = SubSeq(added, 1, i)
    <3>1. \A i \in 1 .. Len(log) : log[i] \in Logged  BY <2>1
    <3>2. \A i \in 1 .. Len(log) : HashOf(log[i]) /\ Len(log[i].hash) = i
      BY <1>1, <2>1, ValidChainCounts DEF LogInv
    <3> QED BY <2>1, <3>1, <3>2 DEF Logged, HashOf
  <2>3. ASSUME NEW i \in 1 .. Len(log)  PROVE log[i].score = added[i]
    <3>1. log[i].hash = Append(IF i = 1 THEN Zero ELSE log[i - 1].hash, log[i].score)
      BY <1>1, <2>1 DEF ChainValid, Hash
    <3> DEFINE before == IF i = 1 THEN Zero ELSE log[i - 1].hash
    <3>2. before \in Seq(Points) /\ Len(before) = i - 1
      <4>1. CASE i = 1
        <5>1. before = <<>>  BY <4>1 DEF Zero
        <5> QED BY <4>1, <5>1
      <4>2. CASE i # 1
        <5>1. i - 1 \in 1 .. Len(log)  BY <2>1, <4>2
        <5> QED BY <2>2, <4>2, <5>1
      <4> QED BY <4>1, <4>2
    <3>3. log[i].hash = Append(before, log[i].score)  BY <3>1
    <3> HIDE DEF before
    <3>4. log[i].hash[i] = log[i].score  BY <2>2, <3>2, <3>3
    <3>5. SubSeq(added, 1, i)[i] = added[i]  BY <2>1, <2>2
    <3> QED BY <2>2, <3>4, <3>5
  <2> DEFINE marks == [i \in DOMAIN log |-> log[i].score]
  <2>4. marks \in Seq(Points) /\ Len(marks) = Len(log)
    <3>1. marks \in [1 .. Len(log) -> Points]  BY <2>1, <2>2
    <3> QED BY <2>1, <3>1
  <2>5. \A i \in 1 .. Len(log) : marks[i] = added[i]  BY <2>1, <2>3
  <2> HIDE DEF marks
  <2>6. Len(log) <= Len(added)  BY <2>1, <2>2
  <2>7. SubSeq(marks, 1, Len(marks)) = SubSeq(added, 1, Len(marks))
    BY <2>1, <2>4, <2>5, <2>6
  <2> QED BY <2>4, <2>6, <2>7 DEF IsPrefix, marks
<1>2. ASSUME LogInv, edits = 0  PROVE ChainValid /\ Len(log) = Len(added)
  <2>1. /\ log \in Seq(Logged) /\ Len(log) \in Nat /\ DOMAIN log = 1 .. Len(log)
        /\ added \in Seq(Points) /\ Len(added) = Len(log)
        /\ \A i \in 1 .. Len(log) : log[i].score = added[i] /\ log[i].hash = SubSeq(added, 1, i)
    BY <1>2 DEF LogInv, HashOf
  <2>2. ASSUME NEW i \in 1 .. Len(log)
        PROVE  log[i].hash = Append(IF i = 1 THEN Zero ELSE log[i - 1].hash, log[i].score)
    <3>1. CASE i = 1
      <4>1. added[1] \in Points /\ Len(added) >= 1  BY <2>1, <3>1
      <4>2. SubSeq(added, 1, 1) \in Seq(Points) /\ Len(SubSeq(added, 1, 1)) = 1
            /\ SubSeq(added, 1, 1)[1] = added[1]
        BY <2>1, <4>1
      <4>3. Append(<<>>, added[1]) \in Seq(Points) /\ Len(Append(<<>>, added[1])) = 1
            /\ Append(<<>>, added[1])[1] = added[1]
        BY <4>1
      <4> DEFINE one == SubSeq(added, 1, 1)  two == Append(<<>>, added[1])
      <4>4. one \in Seq(Points) /\ two \in Seq(Points) /\ Len(one) = Len(two)
            /\ \A k \in 1 .. Len(one) : one[k] = two[k]
        BY <4>2, <4>3
      <4>5. one = two
        <5> HIDE DEF one, two
        <5> QED BY <4>4, SeqEqual, Zenon
      <4> QED BY <2>1, <3>1, <4>5 DEF Zero
    <3>2. CASE i # 1
      <4>1. i - 1 \in 1 .. Len(log)  BY <2>1, <3>2
      <4>2. SubSeq(added, 1, i) = Append(SubSeq(added, 1, i - 1), added[i])  BY <2>1, <4>1
      <4> QED BY <2>1, <3>2, <4>1, <4>2
    <3> QED BY <3>1, <3>2
  <2> QED BY <2>1, <2>2 DEF ChainValid, Hash
<1>3. LogInv => ChainTrusted  BY <1>1, <1>2 DEF ChainTrusted
<1> QED BY <1>3, LogInvariant, PTL

-----------------------------------------------------------------------------
(* The evidence of a mission *)

EvidenceSpec == EvidenceInit /\ [][EvidenceNext]_evidenceVars

\* The record that an object of a process made as its attestation of a number.
MadeBy(r) ==
  \E k \in (1 .. run) \X (1 .. MaxObjects), id \in 1 .. MaxRecords,
     m \in Missions, t \in Tracks, s \in Marks :
     r = [mission |-> m, track |-> t, score |-> s, key |-> k,
          attestation |-> [id |-> id, mission |-> m, track |-> t, score |-> s, key |-> k],
          signed |-> <<m, t, s, id>>]

\* Objects are numbered from 1, and each knows how many records it attested.
ObjectsInv ==
  /\ run \in 1 .. MaxRuns
  /\ \E n \in 0 .. MaxObjects : Objects = 1 .. n
  /\ \A o \in Objects : attested[o] \in 0 .. Cardinality(records)
  /\ trusted = {Key(o) : o \in Objects}
  /\ IsFiniteSet(records) /\ Cardinality(records) <= MaxRecords

RecordsInv ==
  /\ \A r \in records : MadeBy(r)
  /\ \A r \in records : r.attestation.key[1] = run =>
       \E o \in Objects : r.attestation.key = Key(o) /\ r.attestation.id <= attested[o]
  /\ \A r, q \in records :
       r.attestation.key = q.attestation.key /\ r.attestation.id = q.attestation.id => r = q

StoreInv ==
  /\ \A b \in bundles : b.hash = b.fields /\ \E r \in records : b.fields = PackedFields(r)
  /\ stored \in [Missions -> Marks \cup {-1}]
  /\ \A m \in Missions : stored[m] # -1 => \E r \in records : r.mission = m /\ r.score = stored[m]

EvidenceInv == ObjectsInv /\ RecordsInv /\ StoreInv

LEMMA EvidenceInitially == EvidenceInit => EvidenceInv
<1> SUFFICES ASSUME EvidenceInit PROVE EvidenceInv  OBVIOUS
<1> USE EvidenceAssumption DEF EvidenceAssumption
<1>1. IsFiniteSet(records) /\ Cardinality(records) = 0  BY FS_EmptySet DEF EvidenceInit
<1>2. Objects = {} /\ Objects = 1 .. 0  BY DEF EvidenceInit, Objects
<1>3. ObjectsInv  BY <1>1, <1>2 DEF EvidenceInit, ObjectsInv
<1>4. RecordsInv /\ StoreInv  BY DEF EvidenceInit, RecordsInv, StoreInv
<1> QED BY <1>3, <1>4 DEF EvidenceInv

LEMMA MakeObjectKeeps ==
  ASSUME EvidenceInv, MakeObject
  PROVE  EvidenceInv'
<1> USE EvidenceAssumption DEF EvidenceAssumption
<1>1. PICK n \in 0 .. MaxObjects : Objects = 1 .. n  BY DEF EvidenceInv, ObjectsInv
<1>2. Cardinality(Objects) = n  BY <1>1, FS_Interval
<1>3. /\ n < MaxObjects
      /\ attested' = [o \in (1 .. n) \cup {n + 1} |-> IF o = n + 1 THEN 0 ELSE attested[o]]
      /\ trusted' = trusted \cup {Key(n + 1)}
      /\ UNCHANGED <<run, records, bundles, stored>>
  BY <1>1, <1>2 DEF MakeObject
<1>4. Objects' = 1 .. n + 1 /\ n + 1 \in 0 .. MaxObjects
  BY <1>3 DEF Objects
<1>5. \A o \in 1 .. n : attested'[o] = attested[o]  BY <1>3
<1>6. attested'[n + 1] = 0  BY <1>3
<1>7. ObjectsInv'
  <2>1. Cardinality(records) \in Nat  BY FS_CardinalityType DEF EvidenceInv, ObjectsInv
  <2>2. \A o \in 1 .. n + 1 : o \in 1 .. n \/ o = n + 1  BY <1>1
  <2>3. \A o \in 1 .. n + 1 : attested'[o] \in 0 .. Cardinality(records)
    BY <1>1, <1>5, <1>6, <2>1, <2>2 DEF EvidenceInv, ObjectsInv
  <2>4. trusted' = {Key(o) : o \in 1 .. n + 1}
    BY <1>1, <1>3, <2>2 DEF EvidenceInv, ObjectsInv
  <2> QED BY <1>3, <1>4, <2>3, <2>4 DEF EvidenceInv, ObjectsInv, Key
<1>8. RecordsInv'
  BY <1>1, <1>3, <1>4, <1>5 DEF EvidenceInv, RecordsInv, MadeBy, Key
<1>9. StoreInv'  BY <1>3 DEF EvidenceInv, StoreInv, PackedFields
<1> QED BY <1>7, <1>8, <1>9 DEF EvidenceInv

LEMMA CreateRecordKeeps ==
  ASSUME EvidenceInv, NEW o \in Objects, NEW m \in Missions, NEW t \in Tracks, NEW s \in Marks,
         CreateRecord(o, m, t, s)
  PROVE  EvidenceInv'
<1> USE EvidenceAssumption DEF EvidenceAssumption
<1>1. PICK n \in 0 .. MaxObjects : Objects = 1 .. n  BY DEF EvidenceInv, ObjectsInv
<1>2. PICK k : k = Key(o)  OBVIOUS
<1>3. PICK id : id = attested[o] + 1  OBVIOUS
<1>4. PICK new : new = Record(o, m, t, s)  OBVIOUS
<1>5. /\ records' = records \cup {new}
      /\ attested' = [attested EXCEPT ![o] = @ + 1]
      /\ Cardinality(records) < MaxRecords
      /\ UNCHANGED <<run, trusted, bundles, stored>>
  BY <1>4 DEF CreateRecord
<1>6. Cardinality(records) \in Nat /\ attested[o] \in 0 .. Cardinality(records)
  BY FS_CardinalityType DEF EvidenceInv, ObjectsInv
<1>7. /\ new = [mission |-> m, track |-> t, score |-> s, key |-> k,
                attestation |-> [id |-> id, mission |-> m, track |-> t, score |-> s, key |-> k],
                signed |-> <<m, t, s, id>>]
      /\ new.attestation.key = k /\ new.attestation.id = id
  BY <1>2, <1>3, <1>4 DEF Record, Attestation
<1>8. id \in 1 .. MaxRecords  BY <1>3, <1>5, <1>6
<1>9. k \in (1 .. run) \X (1 .. MaxObjects) /\ k[1] = run /\ k[2] = o
  BY <1>1, <1>2 DEF Key, EvidenceInv, ObjectsInv
<1>10. MadeBy(new)  BY <1>7, <1>8, <1>9 DEF MadeBy
<1>11. \A r \in records : ~(r.attestation.key = k /\ r.attestation.id = id)
  <2> SUFFICES ASSUME NEW r \in records, r.attestation.key = k, r.attestation.id = id PROVE FALSE
    OBVIOUS
  <2>1. PICK p \in Objects : k = Key(p) /\ id <= attested[p]
    BY <1>9 DEF EvidenceInv, RecordsInv
  <2>2. p = o  BY <1>2, <2>1 DEF Key
  <2> QED BY <1>3, <1>6, <2>1, <2>2
<1>12. new \notin records  BY <1>7, <1>11
<1>13. IsFiniteSet(records') /\ Cardinality(records') = Cardinality(records) + 1
  BY <1>5, <1>12, FS_AddElement DEF EvidenceInv, ObjectsInv
<1>14. /\ Objects' = Objects /\ attested'[o] = id
       /\ \A p \in Objects \ {o} : attested'[p] = attested[p]
  BY <1>3, <1>5 DEF Objects
<1>15. ObjectsInv'
  <2>1. \A p \in Objects : attested'[p] \in 0 .. Cardinality(records')
    <3>1. attested'[o] \in 0 .. Cardinality(records')  BY <1>3, <1>6, <1>13, <1>14
    <3>2. ASSUME NEW p \in Objects \ {o}  PROVE attested'[p] \in 0 .. Cardinality(records')
      <4>1. attested'[p] = attested[p]  BY <1>14
      <4>2. attested[p] \in 0 .. Cardinality(records)  BY DEF EvidenceInv, ObjectsInv
      <4> QED BY <1>6, <1>13, <4>1, <4>2
    <3> QED BY <3>1, <3>2
  <2>2. trusted' = {<<run', p>> : p \in Objects'}  BY <1>5, <1>14 DEF EvidenceInv, ObjectsInv, Key
  <2>3. Cardinality(records') <= MaxRecords  BY <1>5, <1>6, <1>13
  <2>4. \E i \in 0 .. MaxObjects : Objects' = 1 .. i  BY <1>1, <1>14
  <2>5. run' \in 1 .. MaxRuns  BY <1>5 DEF EvidenceInv, ObjectsInv
  <2>6. \A p \in Objects' : attested'[p] \in 0 .. Cardinality(records')  BY <1>14, <2>1
  <2> QED BY <1>13, <2>2, <2>3, <2>4, <2>5, <2>6 DEF ObjectsInv, Key
<1>16. RecordsInv'
  <2>1. \A r \in records' : r \in records \/ r = new  BY <1>5
  <2>2. \A r \in records' : MadeBy(r)'
    BY <1>5, <1>10, <2>1 DEF EvidenceInv, RecordsInv, MadeBy
  <2>3. ASSUME NEW r \in records', r.attestation.key[1] = run
        PROVE  \E p \in Objects' : r.attestation.key = Key(p)' /\ r.attestation.id <= attested'[p]
    <3>1. CASE r = new
      BY <1>2, <1>3, <1>5, <1>6, <1>7, <1>14, <3>1 DEF Key
    <3>2. CASE r \in records
      <4>1. PICK p \in Objects : r.attestation.key = Key(p) /\ r.attestation.id <= attested[p]
        BY <2>3, <3>2 DEF EvidenceInv, RecordsInv
      <4>2. r.attestation.id \in Int
        <5>1. MadeBy(r)  BY <3>2 DEF EvidenceInv, RecordsInv
        <5> QED BY <5>1 DEF MadeBy
      <4>3. attested[p] <= attested'[p]
        BY <1>3, <1>6, <1>14 DEF EvidenceInv, ObjectsInv
      <4>4. attested[p] \in Int /\ attested'[p] \in Int
        BY <1>3, <1>6, <1>14 DEF EvidenceInv, ObjectsInv
      <4>5. r.attestation.id <= attested'[p]  BY <4>1, <4>2, <4>3, <4>4
      <4> QED BY <1>5, <1>14, <4>1, <4>5 DEF Key
    <3> QED BY <2>1, <3>1, <3>2
  <2>4. \A r, q \in records' :
          r.attestation.key = q.attestation.key /\ r.attestation.id = q.attestation.id => r = q
    BY <1>7, <1>11, <2>1 DEF EvidenceInv, RecordsInv
  <2> QED BY <1>5, <2>2, <2>3, <2>4 DEF RecordsInv
<1>17. StoreInv'  BY <1>5 DEF EvidenceInv, StoreInv, PackedFields
<1> QED BY <1>15, <1>16, <1>17 DEF EvidenceInv

LEMMA PackKeeps ==
  ASSUME EvidenceInv, NEW r \in records, Pack(r)
  PROVE  EvidenceInv'
<1>1. /\ bundles' = bundles \cup {[fields |-> PackedFields(r), hash |-> PackedFields(r)]}
      /\ UNCHANGED <<run, attested, trusted, records, stored>>
  BY DEF Pack
<1>2. StoreInv'
  <2> DEFINE b == [fields |-> PackedFields(r), hash |-> PackedFields(r)]
  <2>1. b.hash = b.fields /\ b.fields = PackedFields(r)  OBVIOUS
  <2>2. \A c \in bundles' : c \in bundles \/ c = b  BY <1>1
  <2> HIDE DEF b
  <2> QED BY <1>1, <2>1, <2>2 DEF EvidenceInv, StoreInv
<1> QED BY <1>1, <1>2 DEF EvidenceInv, ObjectsInv, RecordsInv, Objects, Key, MadeBy

LEMMA SubmitProofKeeps ==
  ASSUME EvidenceInv, NEW b \in bundles, SubmitProof(b)
  PROVE  EvidenceInv'
<1>1. PICK r \in records : b.fields = PackedFields(r)  BY DEF EvidenceInv, StoreInv
<1>2. r.mission \in Missions /\ r.score \in Marks
  <2>1. MadeBy(r)  BY DEF EvidenceInv, RecordsInv
  <2> QED BY <2>1 DEF MadeBy
<1>3. b.fields.mission = r.mission /\ b.fields.score = r.score  BY <1>1 DEF PackedFields
<1>4. /\ stored' = [stored EXCEPT ![r.mission] = r.score]
      /\ UNCHANGED <<run, attested, trusted, records, bundles>>
  BY <1>3 DEF SubmitProof
<1>5. StoreInv'  BY <1>2, <1>4 DEF EvidenceInv, StoreInv, PackedFields
<1> QED BY <1>4, <1>5 DEF EvidenceInv, ObjectsInv, RecordsInv, Objects, Key, MadeBy

LEMMA RestartProcessKeeps ==
  ASSUME EvidenceInv, RestartProcess
  PROVE  EvidenceInv'
<1> USE EvidenceAssumption DEF EvidenceAssumption
<1>1. /\ run < MaxRuns /\ run' = run + 1 /\ attested' = <<>> /\ trusted' = {}
      /\ stored' = [m \in Missions |-> -1] /\ UNCHANGED <<records, bundles>>
  BY DEF RestartProcess
<1>2. Objects' = {} /\ Objects' = 1 .. 0  BY <1>1 DEF Objects
<1>3. run \in 1 .. MaxRuns  BY DEF EvidenceInv, ObjectsInv
<1>4. ObjectsInv'  BY <1>1, <1>2, <1>3 DEF EvidenceInv, ObjectsInv
<1>5. ASSUME NEW r \in records  PROVE MadeBy(r)' /\ r.attestation.key[1] # run'
  <2>1. MadeBy(r)  BY DEF EvidenceInv, RecordsInv
  <2>2. r.attestation.key \in (1 .. run) \X (1 .. MaxObjects)  BY <2>1 DEF MadeBy
  <2>3. (1 .. run) \X (1 .. MaxObjects) \subseteq (1 .. run') \X (1 .. MaxObjects)  BY <1>1, <1>3
  <2>4. MadeBy(r)'
    <3>1. PICK k \in (1 .. run) \X (1 .. MaxObjects), id \in 1 .. MaxRecords,
               m \in Missions, t \in Tracks, s \in Marks :
            r = [mission |-> m, track |-> t, score |-> s, key |-> k,
                 attestation |-> [id |-> id, mission |-> m, track |-> t, score |-> s, key |-> k],
                 signed |-> <<m, t, s, id>>]
      BY <2>1 DEF MadeBy
    <3>2. k \in (1 .. run') \X (1 .. MaxObjects)  BY <2>3
    <3> QED BY <3>1, <3>2 DEF MadeBy
  <2>5. r.attestation.key[1] \in 1 .. run  BY <2>2
  <2> QED BY <1>1, <1>3, <2>4, <2>5
<1>6. RecordsInv'  BY <1>1, <1>5 DEF EvidenceInv, RecordsInv
<1>7. StoreInv'  BY <1>1 DEF EvidenceInv, StoreInv, PackedFields
<1> QED BY <1>4, <1>6, <1>7 DEF EvidenceInv

LEMMA EvidenceInvariant == EvidenceSpec => []EvidenceInv
<1>1. ASSUME EvidenceInv, [EvidenceNext]_evidenceVars  PROVE EvidenceInv'
  <2>1. CASE UNCHANGED evidenceVars
    BY <1>1, <2>1 DEF EvidenceInv, ObjectsInv, RecordsInv, StoreInv, Objects, Key, MadeBy,
                      PackedFields, evidenceVars
  <2> QED BY <1>1, <2>1, MakeObjectKeeps, CreateRecordKeeps, PackKeeps, SubmitProofKeeps,
             RestartProcessKeeps DEF EvidenceNext
<1> QED BY <1>1, EvidenceInitially, PTL DEF EvidenceSpec

\* Every object of the process that made a record verifies it, the external
\* verifier accepts it in any process, and after a restart no object of the
\* package does any more; two attestations are told apart by key and number; and
\* a mission the export service calls valid has such a record (verifier.py:99-158,
\* popw_export.py:38-57).
THEOREM RecordsVerified == EvidenceSpec => []EvidenceAccepted
<1> USE EvidenceAssumption DEF EvidenceAssumption
<1>1. ASSUME EvidenceInv, NEW r \in records
      PROVE  (FullyVerified(r) <=> r.attestation.key[1] = run) /\ ExternallyVerified(r)
  <2>1. MadeBy(r)  BY <1>1 DEF EvidenceInv, RecordsInv
  <2>2. ExternallyVerified(r) /\ SignatureValid(r)
    BY <2>1 DEF MadeBy, ExternallyVerified, SignatureValid
  <2>3. r.attestation.key[1] = run => TeeValid(r)
    BY <1>1 DEF EvidenceInv, RecordsInv, ObjectsInv, TeeValid
  <2>4. TeeValid(r) => r.attestation.key[1] = run
    BY <1>1 DEF EvidenceInv, ObjectsInv, TeeValid, Key
  <2> QED BY <2>2, <2>3, <2>4 DEF FullyVerified
<1>2. ASSUME EvidenceInv, NEW m \in Missions, ProofValid(m)
      PROVE  \E r \in records : r.mission = m /\ r.score = stored[m] /\ ExternallyVerified(r)
  <2>1. stored[m] # -1  BY <1>2 DEF ProofValid
  <2>2. PICK r \in records : r.mission = m /\ r.score = stored[m]
    BY <1>2, <2>1 DEF EvidenceInv, StoreInv
  <2> QED BY <1>1, <1>2, <2>2
<1>3. EvidenceInv => EvidenceAccepted
  BY <1>1, <1>2 DEF EvidenceInv, RecordsInv, EvidenceAccepted
<1> QED BY <1>3, EvidenceInvariant, PTL

LEMMA EvidenceTyped == EvidenceSpec => []EvidenceTypeOK
<1> USE EvidenceAssumption DEF EvidenceAssumption
<1>1. ASSUME EvidenceInv  PROVE EvidenceTypeOK
  <2>1. PICK n \in 0 .. MaxObjects : Objects = 1 .. n  BY <1>1 DEF EvidenceInv, ObjectsInv
  <2>2. Cardinality(records) \in 0 .. MaxRecords
    BY <1>1, FS_CardinalityType DEF EvidenceInv, ObjectsInv
  <2>3. \A o \in Objects : attested[o] \in 0 .. MaxRecords
    BY <1>1, <2>2 DEF EvidenceInv, ObjectsInv
  <2>4. trusted \subseteq (1 .. MaxRuns) \X (1 .. MaxObjects)
    BY <1>1, <2>1 DEF EvidenceInv, ObjectsInv, Key
  <2>5. \A r \in records : /\ r.mission \in Missions /\ r.track \in Tracks /\ r.score \in Marks
                           /\ r.attestation.id \in 1 .. MaxRecords
    BY <1>1 DEF EvidenceInv, RecordsInv, MadeBy
  <2>6. Objects \subseteq 1 .. MaxObjects  BY <2>1
  <2> QED BY <1>1, <2>3, <2>4, <2>5, <2>6
          DEF EvidenceInv, ObjectsInv, StoreInv, EvidenceTypeOK, BundleValid
<1> QED BY <1>1, EvidenceInvariant, PTL

-----------------------------------------------------------------------------
(* Signed commands *)

CommandSpec == CommandInit /\ [][CommandNext]_commandVars

CommandTypes ==
  /\ now \in Nat
  /\ DOMAIN signed \subseteq Nonces
  /\ DOMAIN cache \subseteq DOMAIN signed
  /\ \A n \in DOMAIN signed : signed[n] \in 0 .. now
  /\ \A n \in DOMAIN cache : cache[n] \in signed[n] .. now
  /\ accepted \in [Nonces -> Nat]

\* A command that was accepted is remembered, or too old to be accepted again.
AcceptedInv(n) ==
  /\ accepted[n] <= 1
  /\ accepted[n] = 1 => /\ n \in DOMAIN signed
                        /\ n \in DOMAIN cache \/ now - signed[n] > MaxAge

CommandInv == CommandTypes /\ \A n \in Nonces : AcceptedInv(n)

LEMMA CommandInductive == CommandInv /\ [CommandNext]_commandVars => CommandInv'
<1> USE FlightChecksAssumption DEF FlightChecksAssumption
<1> SUFFICES ASSUME CommandInv, [CommandNext]_commandVars PROVE CommandInv'  OBVIOUS
<1>0. CommandTypes  BY DEF CommandInv
<1>1. CASE UNCHANGED commandVars
  BY <1>1 DEF CommandInv, CommandTypes, AcceptedInv, commandVars
<1>2. CASE TimePasses
  BY <1>2 DEF TimePasses, CommandInv, CommandTypes, AcceptedInv
<1>3. ASSUME NEW n \in Nonces, SignCommand(n)  PROVE CommandInv'
  <2>1. /\ n \notin DOMAIN signed
        /\ signed' = [k \in DOMAIN signed \cup {n} |-> IF k = n THEN now ELSE signed[k]]
        /\ UNCHANGED <<now, cache, accepted>>
    BY <1>3 DEF SignCommand
  <2>2. /\ DOMAIN signed' = DOMAIN signed \cup {n} /\ signed'[n] = now
        /\ \A k \in DOMAIN signed : signed'[k] = signed[k]
    BY <2>1
  <2> QED BY <1>0, <1>3, <2>1, <2>2 DEF CommandInv, CommandTypes, AcceptedInv
<1>4. ASSUME NEW n \in Nonces, VerifyCommand(n)  PROVE CommandInv'
  <2> DEFINE kept == {k \in DOMAIN cache : now - cache[k] < CacheTime}
  <2>1. n \in DOMAIN signed /\ UNCHANGED <<now, signed>>  BY <1>4 DEF VerifyCommand
  <2>2. DOMAIN Kept = kept /\ \A k \in kept : Kept[k] = cache[k]  BY DEF Kept
  <2>3. \A k \in DOMAIN cache \ kept : now - signed[k] > MaxAge
    BY <1>0 DEF CommandTypes
  <2>4. kept \subseteq DOMAIN cache  OBVIOUS
  <2> HIDE DEF kept
  <2>5. CASE n \in kept
    <3>1. cache' = Kept /\ UNCHANGED accepted  BY <1>4, <2>2, <2>5 DEF VerifyCommand
    <3> QED BY <1>0, <2>1, <2>2, <2>3, <2>4, <3>1 DEF CommandInv, CommandTypes, AcceptedInv
  <2>6. CASE n \notin kept
    <3>1. /\ cache' = [k \in kept \cup {n} |-> IF k = n THEN now ELSE Kept[k]]
          /\ accepted' = IF Distance(now, signed[n]) > MaxAge THEN accepted
                         ELSE [accepted EXCEPT ![n] = @ + 1]
      BY <1>4, <2>2, <2>6 DEF VerifyCommand
    <3>2. /\ DOMAIN cache' = kept \cup {n} /\ cache'[n] = now
          /\ \A k \in kept : k # n => cache'[k] = cache[k]
      BY <2>2, <3>1
    <3>3. Distance(now, signed[n]) = now - signed[n]
      BY <1>0, <2>1 DEF CommandTypes, Distance
    <3>4. now - signed[n] <= MaxAge => accepted[n] = 0
      <4>1. n \in DOMAIN cache => now - signed[n] > MaxAge  BY <2>3, <2>6
      <4>2. now \in Int /\ signed[n] \in Int  BY <1>0, <2>1 DEF CommandTypes
      <4> QED BY <1>0, <4>1, <4>2 DEF CommandInv, CommandTypes, AcceptedInv
    <3>5. CommandTypes'
      <4>1. accepted' \in [Nonces -> Nat]  BY <1>0, <3>1 DEF CommandTypes
      <4> QED BY <1>0, <2>1, <2>4, <3>2, <4>1 DEF CommandTypes
    <3>6. ASSUME NEW k \in Nonces \ {n}  PROVE AcceptedInv(k)'
      <4>1. accepted'[k] = accepted[k]  BY <1>0, <3>1 DEF CommandTypes
      <4>2. k \in DOMAIN cache => k \in DOMAIN cache' \/ now - signed[k] > MaxAge
        BY <2>3, <3>2
      <4> QED BY <2>1, <4>1, <4>2 DEF CommandInv, AcceptedInv
    <3>7. AcceptedInv(n)'
      <4>1. CASE now - signed[n] > MaxAge
        <5>1. accepted' = accepted  BY <3>1, <3>3, <4>1
        <5> QED BY <2>1, <3>2, <5>1 DEF CommandInv, AcceptedInv
      <4>2. CASE ~(now - signed[n] > MaxAge)
        <5>1. now - signed[n] <= MaxAge  BY <1>0, <2>1, <4>2 DEF CommandTypes
        <5>2. accepted'[n] = 1  BY <1>0, <3>1, <3>3, <3>4, <4>2, <5>1 DEF CommandTypes
        <5> QED BY <2>1, <3>2, <5>2 DEF AcceptedInv
      <4> QED BY <4>1, <4>2
    <3> QED BY <3>5, <3>6, <3>7 DEF CommandInv
  <2> QED BY <2>5, <2>6
<1> QED BY <1>1, <1>2, <1>3, <1>4 DEF CommandNext

LEMMA CommandInvariant == CommandSpec => []CommandInv
<1>1. CommandInit => CommandInv  BY DEF CommandInit, CommandInv, CommandTypes, AcceptedInv
<1> QED BY <1>1, CommandInductive, PTL DEF CommandSpec

-----------------------------------------------------------------------------
(* The checks of a flight *)

FlightSpec == FlightInit /\ [][FlightNext]_flightVars

Place == [x : Int, alt : Altitudes, t : Int]
Verdict == [grade : {"EXCELLENT", "GOOD", "ACCEPTABLE", "POOR"}, cleared : BOOLEAN,
            threat : {"HIGH", "NONE"}, ready : BOOLEAN]

FlightInv ==
  /\ positions \in Seq(Place)
  /\ pastScores \in Seq(0 .. 100) /\ Len(pastScores) <= Baseline
  /\ verdicts \in Seq(Verdict)

LEMMA CappedAt ==
  ASSUME NEW most \in Nat, NEW n \in Nat
  PROVE  Min({most, 5 * n}) \in 0 .. most
<1>1. 5 * n \in Nat  OBVIOUS
<1>2. Min({most, 5 * n}) = IF most <= 5 * n THEN most ELSE 5 * n  BY <1>1, MinOfTwo
<1> QED BY <1>1, <1>2

LEMMA ScoreIsPercent ==
  ASSUME NEW path \in Seq(Place)
  PROVE  Score(path) \in 0 .. 100
<1> DEFINE L == {i \in DOMAIN path : path[i].alt > 0 /\ path[i].alt < 25}
           H == {i \in DOMAIN path : path[i].alt > 130}
           low == Cardinality(L)
           high == Cardinality(H)
<1>1. low \in Nat /\ high \in Nat
  <2>1. DOMAIN path = 1 .. Len(path) /\ Len(path) \in Nat  OBVIOUS
  <2>2. IsFiniteSet(DOMAIN path)  BY <2>1, FS_Interval
  <2>3. L \subseteq DOMAIN path /\ H \subseteq DOMAIN path  OBVIOUS
  <2>4. IsFiniteSet(L) /\ IsFiniteSet(H)  BY <2>2, <2>3, FS_Subset
  <2> HIDE DEF L, H
  <2> QED BY <2>4, FS_CardinalityType
<1>2. Score(path) = ((100 - Min({50, 5 * low}) - Min({30, 5 * high})) * 80 + 2000) \div 100
  BY DEF Score
<1> HIDE DEF low, high
<1>3. PICK p \in 0 .. 50 : p = Min({50, 5 * low})  BY <1>1, CappedAt
<1>4. PICK q \in 0 .. 30 : q = Min({30, 5 * high})  BY <1>1, CappedAt
<1>5. PICK n \in Nat : n = 100 - p - q /\ n <= 100
  <2>1. 100 - p - q \in Nat /\ 100 - p - q <= 100  OBVIOUS
  <2> QED BY <2>1
<1>6. Score(path) = (n * 80 + 2000) \div 100  BY <1>2, <1>3, <1>4, <1>5
<1>7. n * 80 + 2000 \in 0 .. 10000
  <2>1. n \in 0 .. 100  BY <1>5
  <2> HIDE <1>5
  <2> QED BY <2>1
<1>8. (n * 80 + 2000) \div 100 \in 0 .. 100
  <2> DEFINE whole == n * 80 + 2000
  <2>1. whole \in 0 .. 10000  BY <1>7
  <2> HIDE DEF whole
  <2>2. whole \div 100 \in 0 .. 100  BY <2>1
  <2> QED BY <2>2 DEF whole
<1> QED BY <1>6, <1>8

LEMMA FlightInductive == FlightInv /\ [FlightNext]_flightVars => FlightInv'
<1> USE FlightChecksAssumption DEF FlightChecksAssumption
<1> SUFFICES ASSUME FlightInv, [FlightNext]_flightVars PROVE FlightInv'  OBVIOUS
<1>1. CASE UNCHANGED flightVars  BY <1>1 DEF FlightInv, flightVars
<1>2. ASSUME NEW alt \in Altitudes, TakeOff(alt)  PROVE FlightInv'
  <2> DEFINE p == [x |-> 0, alt |-> alt, t |-> 0]
  <2>1. p \in Place  BY DEF Place
  <2>2. positions' = <<p>> /\ UNCHANGED <<pastScores, verdicts>>  BY <1>2 DEF TakeOff
  <2> HIDE DEF p
  <2>3. positions' \in Seq(Place)  BY <2>1, <2>2
  <2> QED BY <2>2, <2>3 DEF FlightInv
<1>3. ASSUME NEW dx \in Strides, NEW alt \in Altitudes, NEW dt \in Delays, FlyLeg(dx, alt, dt)
      PROVE  FlightInv'
  <2> DEFINE from == Last(positions)
             p == [x |-> from.x + dx, alt |-> alt, t |-> from.t + dt]
  <2>1. positions # <<>> /\ positions' = Append(positions, p) /\ UNCHANGED <<pastScores, verdicts>>
    BY <1>3 DEF FlyLeg
  <2>2. from \in Place
    <3>1. Len(positions) \in 1 .. Len(positions)  BY <2>1 DEF FlightInv
    <3> QED BY <3>1 DEF FlightInv, Last
  <2> HIDE DEF from
  <2>3. p \in Place  BY <2>2 DEF Place
  <2> HIDE DEF p
  <2>4. positions' \in Seq(Place)  BY <2>1, <2>3 DEF FlightInv
  <2> QED BY <2>1, <2>4 DEF FlightInv
<1>4. CASE Land
  <2> DEFINE score == Score(positions)
             v == [grade |-> Grade(score), cleared |-> Cleared(positions),
                   threat |-> ThreatLevel(positions),
                   ready |-> ThreatLevel(positions) # "CRITICAL" /\ score >= 50]
  <2>1. score \in 0 .. 100  BY ScoreIsPercent DEF FlightInv
  <2>2. /\ pastScores' = IF Len(pastScores) < Baseline THEN Append(pastScores, score)
                         ELSE Append(Tail(pastScores), score)
        /\ verdicts' = Append(verdicts, v)
        /\ positions' = <<>>
    BY <1>4 DEF Land
  <2>3. v \in Verdict
    <3>1. Cleared(positions) \in BOOLEAN  BY DEF Cleared
    <3>2. ThreatLevel(positions) \in {"HIGH", "NONE"}  BY DEF ThreatLevel
    <3>3. Grade(score) \in {"EXCELLENT", "GOOD", "ACCEPTABLE", "POOR"}  BY DEF Grade
    <3>4. (ThreatLevel(positions) # "CRITICAL" /\ score >= 50) \in BOOLEAN  OBVIOUS
    <3> QED BY <3>1, <3>2, <3>3, <3>4 DEF Verdict
  <2> HIDE DEF score, v
  <2>4. verdicts' \in Seq(Verdict)  BY <2>2, <2>3 DEF FlightInv
  <2>5. pastScores' \in Seq(0 .. 100) /\ Len(pastScores') <= Baseline
    <3>1. CASE Len(pastScores) < Baseline  BY <2>1, <2>2, <3>1 DEF FlightInv
    <3>2. CASE ~(Len(pastScores) < Baseline)
      <4>1. pastScores \in Seq(0 .. 100) /\ Len(pastScores) = Baseline /\ pastScores # <<>>
        BY <3>2 DEF FlightInv
      <4>2. Tail(pastScores) \in Seq(0 .. 100) /\ Len(Tail(pastScores)) = Baseline - 1  BY <4>1
      <4> QED BY <2>1, <2>2, <3>2, <4>2
    <3> QED BY <3>1, <3>2
  <2>6. positions' \in Seq(Place)  BY <2>2
  <2> QED BY <2>4, <2>5, <2>6 DEF FlightInv
<1> QED BY <1>1, <1>2, <1>3, <1>4 DEF FlightNext

LEMMA FlightInvariant == FlightSpec => []FlightInv
<1>1. FlightInit => FlightInv
  <2> SUFFICES ASSUME FlightInit PROVE FlightInv  OBVIOUS
  <2>1. positions = <<>> /\ verdicts = <<>>  BY DEF FlightInit
  <2>2. pastScores \in Seq(0 .. 100) /\ Len(pastScores) <= 1
    <3>1. CASE pastScores = <<>>  BY <3>1
    <3>2. ASSUME NEW score \in OldScores, pastScores = <<score>>
          PROVE  pastScores \in Seq(0 .. 100) /\ Len(pastScores) <= 1
      <4>1. score \in 0 .. 100  BY FlightChecksAssumption DEF FlightChecksAssumption
      <4> QED BY <3>2, <4>1
    <3> QED BY <3>1, <3>2 DEF FlightInit
  <2> QED BY <2>1, <2>2, FlightChecksAssumption DEF FlightInv, FlightChecksAssumption
<1> QED BY <1>1, FlightInductive, PTL DEF FlightSpec

\* The pipeline's detector allows a leg at least as much time as the suite's.
LEMMA JumpsAreImpossible ==
  ASSUME NEW path \in Seq(Place)
  PROVE  Teleport(path) \subseteq ImpossibleSpeed(path)
<1> SUFFICES ASSUME NEW i \in Legs(path), TooFast(path, i, ThreatTime(path, i))
             PROVE  TooFast(path, i, SpoofTime(path, i))
  BY DEF Teleport, ImpossibleSpeed
<1>1. i \in 1 .. Len(path) /\ i - 1 \in 1 .. Len(path)  BY DEF Legs
<1>2. path[i] \in Place /\ path[i - 1] \in Place  BY <1>1
<1> DEFINE a == path[i].t  b == path[i - 1].t  u == path[i].x  w == path[i - 1].x
<1>3. a \in Int /\ b \in Int /\ u \in Int /\ w \in Int  BY <1>2 DEF Place
<1>4. Dist(path, i) = Distance(u, w) /\ SpoofTime(path, i) = Max({10 * (a - b), 1})
      /\ ThreatTime(path, i) = Max({10 * Distance(a, b), 1})
  BY DEF Dist, SpoofTime, ThreatTime
<1> HIDE DEF a, b, u, w
<1>5. Distance(u, w) \in Int /\ Distance(a, b) \in Int /\ Distance(a, b) >= a - b
  BY <1>3 DEF Distance
<1>6. ThreatTime(path, i) >= SpoofTime(path, i) /\ ThreatTime(path, i) \in Int /\ SpoofTime(path, i) \in Int
  BY <1>3, <1>4, <1>5, MaxOfTwo
<1> QED BY <1>4, <1>5, <1>6 DEF TooFast

\* A signed command is carried out at most once, however often and whenever it
\* arrives, because the cache of nonces outlives the freshness of a command
\* (security.py:186-203).
THEOREM CommandsOnce == CommandSpec => [](\A n \in Nonces : accepted[n] <= 1)
<1>1. CommandInv => \A n \in Nonces : accepted[n] <= 1  BY DEF CommandInv, AcceptedInv
<1> QED BY <1>1, CommandInvariant, PTL

\* A flight on which the pipeline's detector sees a jump is never cleared by the
\* security suite (security.py:122, threat_defense.py:65).
THEOREM JumpsNotCleared == FlightSpec => [](Teleport(positions) \subseteq ImpossibleSpeed(positions))
<1>1. FlightInv => Teleport(positions) \subseteq ImpossibleSpeed(positions)
  BY JumpsAreImpossible DEF FlightInv
<1> QED BY <1>1, FlightInvariant, PTL

LEMMA ChecksTyped == FlightSpec /\ CommandSpec => []ChecksTypeOK
<1>1. FlightInv /\ CommandInv => ChecksTypeOK
  BY DEF FlightInv, CommandInv, CommandTypes, ChecksTypeOK, Place, Verdict
<1> QED BY <1>1, FlightInvariant, CommandInvariant, PTL

-----------------------------------------------------------------------------
(* A flight of two drones *)

SwarmSpec == SwarmInit /\ [][SwarmNext]_swarmVars

\* One turn of the loop over the other drones.
ClimbedFrom(d, s, alt, e) ==
  IF /\ e # d
     /\ Close(paths[d][s], paths[e][s])
     /\ Apart(alt, paths[e][s].alt) < Layer
  THEN alt + Layer ELSE alt

InTurn == [i \in DOMAIN paths |-> i]

\* The altitudes after the loop has gone through a set of drones.
AltitudesAfter(d, s) ==
  CHOOSE f : f = [S \in SUBSET DOMAIN InTurn |->
    IF S = {} THEN paths[d][s].alt
    ELSE ClimbedFrom(d, s, f[S \ {Max(S)}], InTurn[Max(S)])]

LEMMA ClimbedIs ==
  ASSUME NEW d, NEW s
  PROVE  Climbed(d, s) = AltitudesAfter(d, s)[DOMAIN InTurn]
BY Zenon DEF Climbed, FoldLeftDomain, FoldLeft, MapThenFoldSet, AltitudesAfter, InTurn, ClimbedFrom

\* With two drones the loop is one comparison.
LEMMA ClimbOfTwo ==
  ASSUME NEW d \in {1, 2}, NEW s, DOMAIN paths = {1, 2}
  PROVE  Climbed(d, s) = ClimbedFrom(d, s, paths[d][s].alt, 3 - d)
<1> DEFINE first == paths[d][s].alt
           afterOne == ClimbedFrom(d, s, first, 1)
           afterTwo == ClimbedFrom(d, s, first, 2)
           afterBoth == ClimbedFrom(d, s, afterOne, 2)
           F(f) == [S \in SUBSET DOMAIN InTurn |->
                      IF S = {} THEN paths[d][s].alt
                      ELSE ClimbedFrom(d, s, f[S \ {Max(S)}], InTurn[Max(S)])]
           g == [S \in SUBSET {1, 2} |->
                   IF S = {} THEN first ELSE IF S = {1} THEN afterOne
                   ELSE IF S = {2} THEN afterTwo ELSE afterBoth]
<1>0. DOMAIN InTurn = {1, 2} /\ InTurn[1] = 1 /\ InTurn[2] = 2
  BY DEF InTurn
<1>1. /\ Max({1}) = 1 /\ Max({2}) = 2 /\ Max({1, 2}) = 2
  <2>1. \A x \in Int : {x} = {x, x}  OBVIOUS
  <2> QED BY <2>1, MaxOfTwo
<1>2. \A S \in SUBSET {1, 2} : S = {} \/ S = {1} \/ S = {2} \/ S = {1, 2}
  OBVIOUS
<1>3. {1} \ {1} = {} /\ {2} \ {2} = {} /\ {1, 2} \ {2} = {1}
  OBVIOUS
<1>4. /\ {} \in SUBSET {1, 2} /\ {1} \in SUBSET {1, 2}
      /\ {2} \in SUBSET {1, 2} /\ {1, 2} \in SUBSET {1, 2}
      /\ {1} # {} /\ {2} # {} /\ {1, 2} # {} /\ {1} # {2} /\ {1, 2} # {1} /\ {1, 2} # {2}
  <2>1. 1 # 2  OBVIOUS
  <2> QED BY <2>1
<1>5. /\ g[{}] = first /\ g[{1}] = afterOne /\ g[{2}] = afterTwo /\ g[{1, 2}] = afterBoth
  <2> HIDE DEF first, afterOne, afterTwo, afterBoth
  <2> QED BY <1>4
<1>6. g = F(g)
  <2>1. \A S \in SUBSET {1, 2} : g[S] = F(g)[S]
    <3> TAKE S \in SUBSET {1, 2}
    <3>1. F(g)[S] = IF S = {} THEN first
                    ELSE ClimbedFrom(d, s, g[S \ {Max(S)}], InTurn[Max(S)])
      BY <1>0
    <3> HIDE DEF g, F, first, afterOne, afterTwo, afterBoth
    <3>2. CASE S = {}   BY <3>1, <3>2, <1>5
    <3>3. CASE S = {1}  BY <3>1, <3>3, <1>0, <1>1, <1>3, <1>4, <1>5 DEF afterOne
    <3>4. CASE S = {2}  BY <3>1, <3>4, <1>0, <1>1, <1>3, <1>4, <1>5 DEF afterTwo
    <3>5. CASE S = {1, 2}  BY <3>1, <3>5, <1>0, <1>1, <1>3, <1>4, <1>5 DEF afterBoth
    <3> QED BY <3>2, <3>3, <3>4, <3>5, <1>2
  <2>2. g = [S \in SUBSET {1, 2} |-> g[S]] /\ F(g) = [S \in SUBSET {1, 2} |-> F(g)[S]]
    BY <1>0
  <2> HIDE DEF g, F
  <2>3. [S \in SUBSET {1, 2} |-> g[S]] = [S \in SUBSET {1, 2} |-> F(g)[S]]
    BY <2>1
  <2> QED BY <2>2, <2>3
<1>7. AltitudesAfter(d, s) = F(AltitudesAfter(d, s))
  <2> HIDE DEF g
  <2>1. \E f : f = F(f)  BY <1>6
  <2> QED BY <2>1, Zenon DEF AltitudesAfter
<1> DEFINE h == AltitudesAfter(d, s)
<1>8. \A S \in SUBSET {1, 2} : h[S] = IF S = {} THEN first
                    ELSE ClimbedFrom(d, s, h[S \ {Max(S)}], InTurn[Max(S)])
  <2>1. \A f : \A S \in SUBSET {1, 2} : F(f)[S] = IF S = {} THEN first
                    ELSE ClimbedFrom(d, s, f[S \ {Max(S)}], InTurn[Max(S)])
    BY <1>0
  <2> HIDE DEF F, h
  <2>2. h = F(h)  BY <1>7 DEF h
  <2>3. \A S \in SUBSET {1, 2} : h[S] = F(h)[S]  BY <2>2
  <2> HIDE <2>2
  <2> QED BY <2>1, <2>3, Zenon
<1>9. Climbed(d, s) = h[{1, 2}]
  BY <1>0, ClimbedIs
<1> HIDE DEF h, g, F
<1>10. h[{}] = first  BY <1>4, <1>8
<1>11. h[{1}] = afterOne
  <2>1. h[{1}] = ClimbedFrom(d, s, h[{1} \ {Max({1})}], InTurn[Max({1})])
    BY <1>4, <1>8
  <2> QED BY <2>1, <1>0, <1>1, <1>3, <1>10
<1>12. h[{1, 2}] = afterBoth  BY <1>0, <1>1, <1>3, <1>4, <1>8, <1>11
<1>13. CASE d = 1
  BY <1>9, <1>12, <1>13 DEF ClimbedFrom
<1>14. CASE d = 2
  BY <1>9, <1>12, <1>14 DEF ClimbedFrom
<1> QED BY <1>13, <1>14

-----------------------------------------------------------------------------
SwarmPoints == [x : Spots, alt : Nat]

\* A trajectory that is padded has the length it is given.
LEMMA PadIs ==
  ASSUME NEW k \in Nat \ {0}, NEW n \in Nat, k <= n,
         NEW P, NEW path \in [1 .. k -> P]
  PROVE  Pad(path, n) \in [1 .. n -> P]
<1> DEFINE tail == [i \in 1 .. n - Len(path) |-> path[Len(path)]]
<1>1. path \in Seq(P) /\ Len(path) = k /\ path[k] \in P  OBVIOUS
<1>2. tail \in Seq(P) /\ Len(tail) = n - k
  BY <1>1
<1> HIDE DEF tail
<1>3. path \o tail \in Seq(P) /\ Len(path \o tail) = n
  BY <1>1, <1>2
<1>4. Pad(path, n) = path \o tail
  BY DEF Pad, tail
<1>5. path \o tail \in [1 .. n -> P]
  BY <1>3, LenProperties
<1> QED BY <1>4, <1>5

\* On levels, the second of two drones has nothing left to do, and the first
\* climbs by one layer exactly where it is on the level of the second.
FlightOfTwo(p, q, t) ==
  /\ t \in 1 .. 3
  /\ \E n \in Nat : p \in [1 .. n -> SwarmPoints] /\ q \in [1 .. n -> SwarmPoints]
  /\ t = 1 => \A s \in DOMAIN p : p[s].alt \in Levels /\ q[s].alt \in Levels
  /\ t >= 2 => \A s \in DOMAIN p : Close(p[s], q[s]) => Apart(p[s].alt, q[s].alt) >= Layer

SwarmInv ==
  \/ paths = <<>> /\ turn = 0
  \/ /\ paths \in [{1, 2} -> Seq(SwarmPoints)]
     /\ FlightOfTwo(paths[1], paths[2], turn)

LEMMA FlightIs ==
  ASSUME NEW n \in Nat, NEW p \in [1 .. n -> SwarmPoints], NEW q \in [1 .. n -> SwarmPoints],
         NEW t \in 1 .. 3,
         t = 1 => \A s \in 1 .. n : p[s].alt \in Levels /\ q[s].alt \in Levels,
         t >= 2 => \A s \in 1 .. n : Close(p[s], q[s]) => Apart(p[s].alt, q[s].alt) >= Layer
  PROVE  FlightOfTwo(p, q, t)
BY DEF FlightOfTwo

LEMMA SwarmInitInv == ASSUME SwarmInit PROVE SwarmInv
BY DEF SwarmInit, SwarmInv

LEMMA StartKeeps ==
  ASSUME Fleet = 2, NEW given \in [Swarm -> Trajectories], StartSwarm(given)
  PROVE  SwarmInv'
<1> DEFINE OnLevels == [x : Spots, alt : Levels]
           Longest == Max({Len(given[e]) : e \in Swarm})
<1>1. Swarm = {1, 2}
  BY DEF Swarm
<1>2. \A d \in {1, 2} : \E k \in Nat \ {0} : given[d] \in [1 .. k -> OnLevels]
  BY <1>1, LevelsAssumption, SMTT(30) DEF Trajectories, LevelsAssumption
<1>3. PICK k1 \in Nat \ {0} : given[1] \in [1 .. k1 -> OnLevels]
  BY <1>2
<1>4. PICK k2 \in Nat \ {0} : given[2] \in [1 .. k2 -> OnLevels]
  BY <1>2
<1>5. Len(given[1]) = k1 /\ Len(given[2]) = k2
  BY <1>3, <1>4
<1>6. {Len(given[e]) : e \in Swarm} = {k1, k2}
  BY <1>1, <1>5
<1>7. Longest \in Nat /\ k1 <= Longest /\ k2 <= Longest
  <2>1. Longest = Max({k1, k2})
    BY <1>6
  <2>2. Max({k1, k2}) = IF k1 >= k2 THEN k1 ELSE k2
    BY MaxOfTwo
  <2> HIDE DEF Longest
  <2> QED BY <2>1, <2>2
<1>8. paths' = [d \in Swarm |-> Pad(given[d], Longest)] /\ turn' = 1
  BY DEF StartSwarm
<1> HIDE DEF Longest
<1>9. DOMAIN paths' = {1, 2} /\ (paths')[1] = Pad(given[1], Longest) /\ (paths')[2] = Pad(given[2], Longest)
  BY <1>1, <1>8
<1>10. (paths')[1] \in [1 .. Longest -> OnLevels] /\ (paths')[2] \in [1 .. Longest -> OnLevels]
  <2> HIDE DEF OnLevels
  <2>1. Pad(given[1], Longest) \in [1 .. Longest -> OnLevels]
    BY <1>3, <1>7, PadIs
  <2>2. Pad(given[2], Longest) \in [1 .. Longest -> OnLevels]
    BY <1>4, <1>7, PadIs
  <2> QED BY <1>9, <2>1, <2>2
<1>11. /\ (paths')[1] \in [1 .. Longest -> SwarmPoints]
       /\ (paths')[2] \in [1 .. Longest -> SwarmPoints]
       /\ \A s \in 1 .. Longest : (paths')[1][s].alt \in Levels /\ (paths')[2][s].alt \in Levels
       /\ DOMAIN (paths')[1] = 1 .. Longest
  BY <1>10, LevelsAssumption DEF LevelsAssumption, SwarmPoints
<1> HIDE DEF OnLevels
<1>12. paths' \in [{1, 2} -> Seq(SwarmPoints)]
  <2>1. (paths')[1] \in Seq(SwarmPoints) /\ (paths')[2] \in Seq(SwarmPoints)
    <3> HIDE DEF SwarmPoints
    <3> QED BY <1>7, <1>11, SMTT(30)
  <2>2. Pad(given[1], Longest) \in Seq(SwarmPoints) /\ Pad(given[2], Longest) \in Seq(SwarmPoints)
    BY <1>9, <2>1
  <2> QED BY <2>2, <1>1, <1>8
<1>13. FlightOfTwo((paths')[1], (paths')[2], turn')
  <2> HIDE DEF SwarmPoints
  <2>1. turn' \in 1 .. 3 /\ ~(turn' >= 2)
    BY <1>8
  <2> QED BY <1>7, <1>11, <2>1, FlightIs
<1> QED BY <1>12, <1>13 DEF SwarmInv

\* Two altitudes on levels that are less than a layer apart are the same.
LEMMA LevelsApart ==
  ASSUME NEW a \in Levels, NEW b \in Levels, Apart(a, b) < Layer
  PROVE  a = b /\ a \in Nat
BY LevelsAssumption DEF LevelsAssumption, Apart, Layer

LEMMA AvoidKeeps ==
  ASSUME Fleet = 2, SwarmInv, AvoidOthers
  PROVE  SwarmInv'
<1>1. Swarm = {1, 2} /\ turn \in {1, 2}
  BY DEF Swarm, AvoidOthers
<1>2. /\ DOMAIN paths = {1, 2}
      /\ paths \in [{1, 2} -> Seq(SwarmPoints)]
      /\ paths' = [paths EXCEPT ![turn] = Raised(turn)]
      /\ turn' = turn + 1
  BY <1>1 DEF SwarmInv, AvoidOthers
<1>3. PICK n \in Nat : paths[1] \in [1 .. n -> SwarmPoints] /\ paths[2] \in [1 .. n -> SwarmPoints]
  BY <1>1 DEF SwarmInv, FlightOfTwo
<1>4. DOMAIN paths[1] = 1 .. n /\ DOMAIN paths[2] = 1 .. n
  BY <1>3
<1>5. \A s \in 1 .. n : /\ Climbed(1, s) = ClimbedFrom(1, s, paths[1][s].alt, 2)
                        /\ Climbed(2, s) = ClimbedFrom(2, s, paths[2][s].alt, 1)
  BY <1>2, ClimbOfTwo
<1>6. \A s \in 1 .. n : /\ paths[1][s] \in SwarmPoints /\ paths[2][s] \in SwarmPoints
                        /\ paths[1][s].alt \in Nat /\ paths[2][s].alt \in Nat
                        /\ paths[1][s].x \in Int /\ paths[2][s].x \in Int
  BY <1>3, LevelsAssumption DEF SwarmPoints, LevelsAssumption
<1>7. CASE turn = 1
  <2>1. (paths')[1] = Raised(1) /\ (paths')[2] = paths[2] /\ turn' = 2
    BY <1>2, <1>7
  <2>2. Raised(1) = [s \in 1 .. n |-> [paths[1][s] EXCEPT !.alt = Climbed(1, s)]]
    BY <1>4 DEF Raised
  <2>3. \A s \in 1 .. n :
          /\ Climbed(1, s) \in Nat
          /\ Close(paths[1][s], paths[2][s]) => Apart(Climbed(1, s), paths[2][s].alt) >= Layer
    <3> TAKE s \in 1 .. n
    <3>1. paths[1][s].alt \in Levels /\ paths[2][s].alt \in Levels
      BY <1>1, <1>4, <1>7, SMTT(30) DEF SwarmInv, FlightOfTwo
    <3>2. CASE Close(paths[1][s], paths[2][s]) /\ Apart(paths[1][s].alt, paths[2][s].alt) < Layer
      <4>1. Climbed(1, s) = paths[1][s].alt + 10
        BY <1>5, <3>2 DEF ClimbedFrom, Layer
      <4>2. paths[1][s].alt = paths[2][s].alt
        BY <3>1, <3>2, LevelsApart
      <4> QED BY <1>6, <4>1, <4>2 DEF Apart, Layer
    <3>3. CASE ~(Close(paths[1][s], paths[2][s]) /\ Apart(paths[1][s].alt, paths[2][s].alt) < Layer)
      <4>1. Climbed(1, s) = paths[1][s].alt
        BY <1>5, <3>3 DEF ClimbedFrom
      <4> QED BY <1>6, <3>3, <4>1 DEF Apart, Layer
    <3> QED BY <3>2, <3>3
  <2>4. \A s \in 1 .. n : /\ Raised(1)[s] \in SwarmPoints
                          /\ Raised(1)[s].alt = Climbed(1, s)
                          /\ Raised(1)[s].x = paths[1][s].x
    BY <1>6, <2>2, <2>3, ZenonT(60) DEF SwarmPoints
  <2>5. Raised(1) \in [1 .. n -> SwarmPoints] /\ DOMAIN Raised(1) = 1 .. n
    BY <2>2, <2>4
  <2>7. paths' \in [{1, 2} -> Seq(SwarmPoints)]
    <3>1. Raised(1) \in Seq(SwarmPoints)
      BY <2>5
    <3> HIDE DEF SwarmPoints
    <3> QED BY <1>2, <1>7, <3>1
  <2>6. \A s \in 1 .. n : Close(Raised(1)[s], paths[2][s]) =>
          Apart(Raised(1)[s].alt, paths[2][s].alt) >= Layer
    BY <2>3, <2>4 DEF Close
  <2>8. FlightOfTwo((paths')[1], (paths')[2], turn')
    <3> HIDE DEF SwarmPoints
    <3>1. turn' \in 1 .. 3 /\ turn' # 1
      BY <2>1
    <3> QED BY <1>3, <2>1, <2>5, <2>6, <3>1, FlightIs
  <2> QED BY <2>7, <2>8 DEF SwarmInv
<1>8. CASE turn = 2
  <2>1. \A s \in 1 .. n : Climbed(2, s) = paths[2][s].alt
    <3> TAKE s \in 1 .. n
    <3>1. Close(paths[1][s], paths[2][s]) => Apart(paths[1][s].alt, paths[2][s].alt) >= Layer
      BY <1>1, <1>4, <1>8 DEF SwarmInv, FlightOfTwo
    <3>2. /\ Close(paths[2][s], paths[1][s]) = Close(paths[1][s], paths[2][s])
          /\ Apart(paths[2][s].alt, paths[1][s].alt) = Apart(paths[1][s].alt, paths[2][s].alt)
      BY <1>6 DEF Close, Apart
    <3>3. ~(Close(paths[2][s], paths[1][s]) /\ Apart(paths[2][s].alt, paths[1][s].alt) < Layer)
      BY <1>6, <3>1, <3>2 DEF Apart, Layer
    <3> QED BY <1>5, <3>3 DEF ClimbedFrom
  <2>2. \A s \in 1 .. n : [paths[2][s] EXCEPT !.alt = Climbed(2, s)] = paths[2][s]
    BY <1>6, <2>1 DEF SwarmPoints
  <2>3. Raised(2) = [s \in 1 .. n |-> paths[2][s]]
    BY <1>4, <2>2 DEF Raised
  <2>4. Raised(2) = paths[2]
    BY <1>3, <2>3
  <2>5. paths' = paths /\ turn' = 3
    BY <1>2, <1>8, <2>4
  <2> QED BY <1>1, <1>2, <1>3, <1>8, <2>5 DEF SwarmInv, FlightOfTwo
<1> QED BY <1>1, <1>7, <1>8

LEMMA SwarmStepKeeps ==
  ASSUME Fleet = 2, SwarmInv, [SwarmNext]_swarmVars
  PROVE  SwarmInv'
<1>1. CASE SwarmNext
  BY <1>1, StartKeeps, AvoidKeeps DEF SwarmNext
<1>2. CASE UNCHANGED swarmVars
  BY <1>2 DEF swarmVars, SwarmInv
<1> QED BY <1>1, <1>2

LEMMA SwarmInvGives == ASSUME SwarmInv PROVE TwoSeparate
<1> SUFFICES ASSUME Fleet = 2, turn = Fleet + 1
             PROVE  \A s \in DOMAIN paths[1] :
                      Close(paths[1][s], paths[2][s]) =>
                        Apart(paths[1][s].alt, paths[2][s].alt) >= Layer
  BY DEF TwoSeparate
<1> QED BY DEF SwarmInv, FlightOfTwo

\* Two drones on levels that have both avoided each other are a layer apart at
\* every step at which they come close, for any places, levels and trajectories
\* (_apply_avoidance, sim.py:141-200).
THEOREM TwoKeepApart == SwarmSpec => []TwoSeparate
<1>1. CASE Fleet = 2
  <2>1. SwarmInit => SwarmInv  BY SwarmInitInv
  <2>2. SwarmInv /\ [SwarmNext]_swarmVars => SwarmInv'  BY <1>1, SwarmStepKeeps
  <2>3. SwarmInv => TwoSeparate  BY SwarmInvGives
  <2> QED BY <2>1, <2>2, <2>3, PTL DEF SwarmSpec
<1>2. CASE Fleet # 2
  <2>1. TwoSeparate  BY <1>2 DEF TwoSeparate
  <2> QED BY <2>1, PTL
<1> QED BY <1>1, <1>2

-----------------------------------------------------------------------------
(* Folds over finite sets *)

\* A move of a fold is a function, so that facts about folds can be lemmas:
\* move[d][x] is what x becomes when the element d is taken.
Folded(f, D, base, move, pick) ==
  \A s \in SUBSET D :
    f[s] = IF s = {} THEN base ELSE move[pick[s]][f[s \ {pick[s]}]]

Steps(move, D, X) == move \in [D -> [X -> X]]
Picks(pick, D) == \A s \in SUBSET D : s # {} => pick[s] \in s

\* A property that fails for a subset of a finite set fails for one all of whose
\* smaller subsets have it.
LEMMA LeastSubset ==
  ASSUME NEW D, IsFiniteSet(D), NEW B \in SUBSET SUBSET D, B # {}
  PROVE  \E s \in B : \A u \in SUBSET s : u # s => u \notin B
<1>1. IsWellFoundedOn(StrictSubsetOrdering(D), SUBSET D)
  BY FS_StrictSubsetOrderingWellFounded, FS_FiniteSubsetsOfFinite
<1>2. PICK s \in B : \A u \in B : ~(<<u, s>> \in StrictSubsetOrdering(D))
  BY <1>1, WFMin
<1>3. ASSUME NEW u \in SUBSET s, u # s, u \in B
      PROVE  FALSE
  BY <1>2, <1>3 DEF StrictSubsetOrdering
<1> QED BY <1>3

\* Folds over different subsets agree where both are defined.
LEMMA FoldsAgree ==
  ASSUME NEW D, IsFiniteSet(D), NEW base, NEW move, NEW pick, Picks(pick, D),
         NEW v \in SUBSET D, NEW f, Folded(f, v, base, move, pick),
         NEW w \in SUBSET D, NEW g, Folded(g, w, base, move, pick)
  PROVE  \A s \in SUBSET v : s \in SUBSET w => f[s] = g[s]
<1> DEFINE C == {s \in SUBSET (v \cap w) : f[s] # g[s]}
<1>0. \A s \in SUBSET v : s \in SUBSET w => s \in SUBSET (v \cap w)
  OBVIOUS
<1>1. SUFFICES ASSUME C # {} PROVE FALSE
  BY <1>0
<1>2. PICK s \in C : \A r \in SUBSET s : r # s => r \notin C
  <2>1. C \in SUBSET SUBSET (v \cap w) /\ IsFiniteSet(v \cap w)
    BY FS_Subset
  <2> HIDE DEF C
  <2> QED BY <1>1, <2>1, LeastSubset
<1>3. s # {} /\ s \in SUBSET v /\ s \in SUBSET w /\ s \in SUBSET D
  BY DEF Folded
<1>4. pick[s] \in s
  BY <1>3 DEF Picks
<1>5. f[s \ {pick[s]}] = g[s \ {pick[s]}]
  BY <1>2, <1>4
<1>6. f[s] = move[pick[s]][f[s \ {pick[s]}]] /\ g[s] = move[pick[s]][g[s \ {pick[s]}]]
  BY <1>3 DEF Folded
<1> QED BY <1>2, <1>5, <1>6

LEMMA FoldExists ==
  ASSUME NEW D, IsFiniteSet(D), NEW X, NEW base \in X, NEW move, Steps(move, D, X),
         NEW pick, Picks(pick, D)
  PROVE  \E f \in [SUBSET D -> X] : Folded(f, D, base, move, pick)
<1> DEFINE Good(u) == \E f \in [SUBSET u -> X] : Folded(f, u, base, move, pick)
           B == {u \in SUBSET D : ~Good(u)}
<1>1. SUFFICES ASSUME B # {} PROVE FALSE
  OBVIOUS
<1>2. PICK u \in B : \A v \in SUBSET u : v # u => v \notin B
  <2>1. B \in SUBSET SUBSET D  OBVIOUS
  <2> HIDE DEF B
  <2> QED BY <1>1, <2>1, LeastSubset
<1>3. \A v \in SUBSET u : v # u => Good(v)
  BY <1>2
<1>4. \A v \in SUBSET D, w \in SUBSET D : \A f, g :
        Folded(f, v, base, move, pick) /\ Folded(g, w, base, move, pick) =>
          \A s \in SUBSET v : s \in SUBSET w => f[s] = g[s]
  BY FoldsAgree
<1> DEFINE fold(v) == CHOOSE f : f \in [SUBSET v -> X] /\ Folded(f, v, base, move, pick)
           foldAt(s) == fold(s)[s]
           h == [s \in SUBSET u |-> IF s = {} THEN base
                                    ELSE move[pick[s]][foldAt(s \ {pick[s]})]]
<1>5. \A v \in SUBSET u : v # u => fold(v) \in [SUBSET v -> X] /\ Folded(fold(v), v, base, move, pick)
  BY <1>3
<1> HIDE DEF fold
<1>6. \A s \in SUBSET u : s # {} => /\ pick[s] \in s /\ s \ {pick[s]} \in SUBSET u
                                    /\ s \ {pick[s]} # u /\ pick[s] \in D
  BY DEF Picks
<1>7. \A s \in SUBSET u : s # u => foldAt(s) \in X
  <2> TAKE s \in SUBSET u
  <2> HAVE s # u
  <2>1. fold(s) \in [SUBSET s -> X] /\ s \in SUBSET s
    BY <1>5
  <2> QED BY <2>1
<1>8. h \in [SUBSET u -> X]
  <2>1. ASSUME NEW s \in SUBSET u, s # {}
        PROVE  move[pick[s]][foldAt(s \ {pick[s]})] \in X
    <3>1. foldAt(s \ {pick[s]}) \in X /\ pick[s] \in D
      BY <2>1, <1>6, <1>7
    <3> HIDE DEF foldAt
    <3> QED BY <3>1 DEF Steps
  <2> HIDE DEF foldAt
  <2> QED BY <2>1
\* Below the top, h is the fold of each set.
<1>9. \A s \in SUBSET u : s # u => h[s] = foldAt(s)
  <2> TAKE s \in SUBSET u
  <2> HAVE s # u
  <2>1. Folded(fold(s), s, base, move, pick)
    BY <1>5
  <2>2. CASE s = {}
    BY <2>1, <2>2 DEF Folded
  <2>3. CASE s # {}
    <3>1. foldAt(s) = move[pick[s]][fold(s)[s \ {pick[s]}]]
      BY <2>1, <2>3 DEF Folded
    <3> DEFINE r == s \ {pick[s]}
    <3>2. Folded(fold(r), r, base, move, pick) /\ r \in SUBSET D /\ s \in SUBSET D
         /\ r \in SUBSET s /\ r \in SUBSET r
      BY <1>5, <1>6, <2>3
    <3>3. fold(s)[r] = fold(r)[r]
      <4> HIDE DEF r, h, foldAt
      <4>1. \A f, g : Folded(f, s, base, move, pick) /\ Folded(g, r, base, move, pick) =>
              \A a \in SUBSET s : a \in SUBSET r => f[a] = g[a]
        BY <3>2, <1>4
      <4>2. Folded(fold(s), s, base, move, pick)  BY <2>1
      <4>3. Folded(fold(r), r, base, move, pick)  BY <3>2
      <4>4. \A a \in SUBSET s : a \in SUBSET r => fold(s)[a] = fold(r)[a]
        BY <4>1, <4>2, <4>3
      <4> QED BY <3>2, <4>4
    <3>4. h[s] = move[pick[s]][foldAt(r)]
      BY <2>3
    <3> QED BY <3>1, <3>3, <3>4
  <2> QED BY <2>2, <2>3
<1>10. Folded(h, u, base, move, pick)
  <2> SUFFICES ASSUME NEW s \in SUBSET u
               PROVE  h[s] = IF s = {} THEN base ELSE move[pick[s]][h[s \ {pick[s]}]]
    BY DEF Folded
  <2>1. CASE s = {}
    BY <2>1
  <2>2. CASE s # {}
    <3>1. h[s] = move[pick[s]][foldAt(s \ {pick[s]})]
      BY <2>2
    <3>2. h[s \ {pick[s]}] = foldAt(s \ {pick[s]})
      <4> HIDE DEF h, foldAt
      <4> QED BY <1>6, <1>9, <2>2
    <3> HIDE DEF h, foldAt
    <3> QED BY <2>2, <3>1, <3>2
  <2> QED BY <2>1, <2>2
<1> HIDE DEF h
<1>11. Good(u)
  BY <1>8, <1>10
<1> QED BY <1>11

\* What a fold is made of has its values.
Unfolds(f, D, X, base, move, pick) ==
  /\ f[{}] = base
  /\ \A s \in SUBSET D : s # {} /\ f[s \ {pick[s]}] \in X =>
       f[s] = move[pick[s]][f[s \ {pick[s]}]]

LEMMA FoldTyped ==
  ASSUME NEW D, IsFiniteSet(D), NEW X, NEW base \in X, NEW move, Steps(move, D, X),
         NEW pick, Picks(pick, D), NEW f, Unfolds(f, D, X, base, move, pick)
  PROVE  \A s \in SUBSET D : f[s] \in X
<1> DEFINE B == {s \in SUBSET D : f[s] \notin X}
<1>1. SUFFICES ASSUME B # {} PROVE FALSE
  OBVIOUS
<1>2. PICK s \in B : \A r \in SUBSET s : r # s => r \notin B
  <2>1. B \in SUBSET SUBSET D  OBVIOUS
  <2> HIDE DEF B
  <2> QED BY <1>1, <2>1, LeastSubset
<1>3. s # {} /\ s \in SUBSET D
  BY DEF Unfolds
<1>4. pick[s] \in s /\ pick[s] \in D
  BY <1>3 DEF Picks
<1> DEFINE r == s \ {pick[s]}
<1>5. f[r] \in X
  BY <1>2, <1>4
<1>6. f[s] = move[pick[s]][f[r]]
  BY <1>3, <1>5 DEF Unfolds
<1>7. move[pick[s]][f[r]] \in X
  <2> HIDE DEF r
  <2> QED BY <1>4, <1>5 DEF Steps
<1> QED BY <1>6, <1>7

-----------------------------------------------------------------------------
(* Sums *)

\* The element a sum takes next, and the function whose foldAt value it is.
OneOf(s) == CHOOSE x \in s : TRUE
Totals(v, D) ==
  CHOOSE total : total = [s \in SUBSET D |->
    IF s = {} THEN 0 ELSE v[OneOf(s)] + total[s \ {OneOf(s)}]]

Summands(v, D) == \A d \in D : v[d] \in Int
Summed(t, v, D) ==
  /\ t[{}] = 0
  /\ \A s \in SUBSET D :
       /\ t[s] \in Int
       /\ s # {} => OneOf(s) \in s /\ t[s] = v[OneOf(s)] + t[s \ {OneOf(s)}]

LEMMA TotalsAre ==
  ASSUME NEW D, IsFiniteSet(D), NEW v, Summands(v, D)
  PROVE  Summed(Totals(v, D), v, D)
<1> DEFINE move == [d \in D |-> [x \in Int |-> v[d] + x]]
           pick == [s \in SUBSET D |-> OneOf(s)]
           t == Totals(v, D)
           Solves(f) == f = [s \in SUBSET D |->
                             IF s = {} THEN 0 ELSE v[OneOf(s)] + f[s \ {OneOf(s)}]]
<1>1. \A s \in SUBSET D : pick[s] = OneOf(s) /\ (s # {} => OneOf(s) \in s /\ OneOf(s) \in D)
  BY DEF OneOf
<1>2. Picks(pick, D)
  BY <1>1 DEF Picks
<1>3. Steps(move, D, Int) /\ \A d \in D, x \in Int : move[d][x] = v[d] + x
  BY DEF Steps, Summands
<1> HIDE DEF move, pick
<1>4. PICK f \in [SUBSET D -> Int] : Folded(f, D, 0, move, pick)
  <2>1. 0 \in Int  OBVIOUS
  <2> QED BY <1>2, <1>3, <2>1, FoldExists
<1>5. Solves(f)
  <2>1. ASSUME NEW s \in SUBSET D
        PROVE  f[s] = IF s = {} THEN 0 ELSE v[OneOf(s)] + f[s \ {OneOf(s)}]
    BY <1>1, <1>3, <1>4 DEF Folded
  <2> QED BY <2>1
<1>6. Solves(t)
  <2>1. \E g : Solves(g)  BY <1>5
  <2> QED BY <2>1, Zenon DEF Totals
<1>7. \A s \in SUBSET D : t[s] = IF s = {} THEN 0 ELSE v[OneOf(s)] + t[s \ {OneOf(s)}]
  <2>1. \A g : Solves(g) => \A s \in SUBSET D :
          g[s] = IF s = {} THEN 0 ELSE v[OneOf(s)] + g[s \ {OneOf(s)}]
    OBVIOUS
  <2> HIDE DEF Solves, t
  <2> QED BY <1>6, <2>1
<1> HIDE DEF t, Solves
<1>8. t[{}] = 0
  BY <1>7
<1>9. Unfolds(t, D, Int, 0, move, pick)
  <2>1. ASSUME NEW s \in SUBSET D, s # {}, t[s \ {pick[s]}] \in Int
        PROVE  t[s] = move[pick[s]][t[s \ {pick[s]}]]
    <3>1. t[s] = v[OneOf(s)] + t[s \ {OneOf(s)}]
      BY <1>7, <2>1
    <3>2. pick[s] = OneOf(s) /\ OneOf(s) \in D
      BY <1>1, <2>1
    <3> QED BY <1>3, <2>1, <3>1, <3>2
  <2> QED BY <1>8, <2>1 DEF Unfolds
<1>10. \A s \in SUBSET D : t[s] \in Int
  <2>1. 0 \in Int  OBVIOUS
  <2>2. Steps(move, D, Int)  BY <1>3
  <2> QED BY <1>2, <1>9, <2>1, <2>2, FoldTyped
<1>11. Summed(t, v, D)
  BY <1>1, <1>7, <1>8, <1>10 DEF Summed
<1> QED BY <1>11 DEF t

\* What holds between the multiples of all parts holds between those of the totals.
LEMMA TotalsBounded ==
  ASSUME NEW D, IsFiniteSet(D), NEW u, Summands(u, D), NEW v, Summands(v, D), NEW j \in Int, NEW k \in Int,
         \A d \in D : j * u[d] <= k * v[d]
  PROVE  j * Totals(u, D)[D] <= k * Totals(v, D)[D]
<1>0. Summed(Totals(u, D), u, D) /\ Summed(Totals(v, D), v, D)
  BY TotalsAre
<1> DEFINE B == {s \in SUBSET D : ~(j * Totals(u, D)[s] <= k * Totals(v, D)[s])}
<1>1. SUFFICES ASSUME B # {} PROVE FALSE
  OBVIOUS
<1>2. PICK s \in B : \A r \in SUBSET s : r # s => r \notin B
  <2>1. B \in SUBSET SUBSET D  OBVIOUS
  <2> HIDE DEF B
  <2> QED BY <1>1, <2>1, LeastSubset
<1>3. s # {}
  <2>1. Totals(u, D)[{}] = 0 /\ Totals(v, D)[{}] = 0
    BY <1>0 DEF Summed
  <2> QED BY <2>1
<1> DEFINE x == OneOf(s)
           r == s \ {x}
<1>4. /\ x \in s /\ x \in D
      /\ Totals(u, D)[s] = u[x] + Totals(u, D)[r]
      /\ Totals(v, D)[s] = v[x] + Totals(v, D)[r]
  BY <1>0, <1>3 DEF Summed
<1>5. r \in SUBSET D /\ Totals(u, D)[r] \in Int /\ Totals(v, D)[r] \in Int
  BY <1>0 DEF Summed
<1>6. j * Totals(u, D)[r] <= k * Totals(v, D)[r]
  BY <1>2, <1>4, <1>5
<1>7. j * u[x] <= k * v[x] /\ u[x] \in Int /\ v[x] \in Int
  BY <1>4 DEF Summands
<1> HIDE DEF x, r
<1>8. j * Totals(u, D)[s] <= k * Totals(v, D)[s]
  <2>1. \A a, b, c, d \in Int : j * a <= k * b /\ j * c <= k * d => j * (a + c) <= k * (b + d)
    OBVIOUS
  <2> QED BY <1>4, <1>5, <1>6, <1>7, <2>1
<1> QED BY <1>8

\* A total of naturals is at least each part.
LEMMA TotalsAtLeast ==
  ASSUME NEW D, IsFiniteSet(D), NEW v, \A d \in D : v[d] \in Nat, NEW e \in D
  PROVE  Totals(v, D)[D] \in Nat /\ v[e] <= Totals(v, D)[D]
<1> DEFINE t == Totals(v, D)
           B == {s \in SUBSET D : ~(t[s] >= 0 /\ (e \in s => v[e] <= t[s]))}
<1>0. Summed(t, v, D)
  <2>1. Summands(v, D)  BY DEF Summands
  <2> QED BY <2>1, TotalsAre
<1>1. SUFFICES ASSUME B # {} PROVE FALSE
  <2>1. D \in SUBSET D /\ t[D] \in Int  BY <1>0 DEF Summed
  <2> QED BY <2>1
<1>2. PICK s \in B : \A r \in SUBSET s : r # s => r \notin B
  <2>1. B \in SUBSET SUBSET D  OBVIOUS
  <2> HIDE DEF B
  <2> QED BY <1>1, <2>1, LeastSubset
<1>3. s # {}
  <2>1. t[{}] = 0  BY <1>0 DEF Summed
  <2> QED BY <2>1
<1> DEFINE x == OneOf(s)
           r == s \ {x}
<1>4. x \in s /\ x \in D /\ t[s] = v[x] + t[r]
  BY <1>0, <1>3 DEF Summed
<1>5. r \in SUBSET D /\ t[r] \in Int
  BY <1>0 DEF Summed
<1>6. t[r] >= 0 /\ (e \in r => v[e] <= t[r])
  BY <1>2, <1>4, <1>5
<1>7. v[x] \in Nat /\ v[e] \in Nat /\ (e \in s => e = x \/ e \in r)
  BY <1>4
<1> HIDE DEF x, r, t
<1>8. t[s] >= 0 /\ (e \in s => v[e] <= t[s])
  BY <1>4, <1>5, <1>6, <1>7
<1> QED BY <1>8

\* The total of three values, whichever order they are taken in.
LEMMA TotalOfThree ==
  ASSUME NEW a, NEW b, NEW c, a # b, b # c, a # c, NEW v,
         v[a] \in Int, v[b] \in Int, v[c] \in Int
  PROVE  Totals(v, {a, b, c})[{a, b, c}] = v[a] + v[b] + v[c]
<1> DEFINE D == {a, b, c}
           t == Totals(v, D)
<1>1. IsFiniteSet(D)
  <2>1. IsFiniteSet({a}) /\ IsFiniteSet({a} \cup {b})
    BY FS_Singleton, FS_AddElement
  <2>2. IsFiniteSet(({a} \cup {b}) \cup {c})
    BY <2>1, FS_AddElement
  <2>3. ({a} \cup {b}) \cup {c} = {a, b, c}
    OBVIOUS
  <2> QED BY <2>2, <2>3
<1>2. /\ t[{}] = 0
      /\ \A s \in SUBSET D : s # {} => OneOf(s) \in s /\ t[s] = v[OneOf(s)] + t[s \ {OneOf(s)}]
  <2>1. Summands(v, D)  BY DEF Summands
  <2>2. Summed(t, v, D)
    <3> HIDE DEF D
    <3> QED BY <1>1, <2>1, TotalsAre
  <2> QED BY <2>2 DEF Summed
<1> HIDE DEF t
<1> HIDE DEF D
<1>3. ASSUME NEW x \in D, v[x] \in Int PROVE t[{x}] = v[x]
  <2>1. {x} \in SUBSET D /\ {x} # {}
    OBVIOUS
  <2>2. OneOf({x}) \in {x} /\ t[{x}] = v[OneOf({x})] + t[{x} \ {OneOf({x})}]
    BY <1>2, <2>1
  <2>3. OneOf({x}) = x /\ {x} \ {x} = {}
    BY <2>2
  <2>4. t[{x}] = v[x] + t[{}]
    BY <2>2, <2>3
  <2>5. t[{}] = 0
    BY <1>2
  <2> QED BY <1>3, <2>4, <2>5
<1>4. ASSUME NEW x \in D, NEW y \in D, x # y, v[x] \in Int, v[y] \in Int
      PROVE  t[{x, y}] = v[x] + v[y]
  <2>1. {x, y} \in SUBSET D /\ {x, y} # {}
    OBVIOUS
  <2>2. OneOf({x, y}) \in {x, y} /\ t[{x, y}] = v[OneOf({x, y})] + t[{x, y} \ {OneOf({x, y})}]
    BY <1>2, <2>1
  <2>3. {x, y} \ {x} = {y} /\ {x, y} \ {y} = {x}
    BY <1>4
  <2>4. t[{x}] = v[x] /\ t[{y}] = v[y]
    BY <1>3, <1>4
  <2>5. OneOf({x, y}) = x \/ OneOf({x, y}) = y
    BY <2>2
  <2>6. CASE OneOf({x, y}) = x
    <3>1. t[{x, y}] = v[x] + t[{y}]
      BY <2>2, <2>3, <2>6
    <3> QED BY <1>4, <2>4, <3>1
  <2>7. CASE OneOf({x, y}) = y
    <3>1. t[{x, y}] = v[y] + t[{x}]
      BY <2>2, <2>3, <2>7
    <3> QED BY <1>4, <2>4, <3>1
  <2> QED BY <2>5, <2>6, <2>7
<1>5. OneOf(D) \in D /\ t[D] = v[OneOf(D)] + t[D \ {OneOf(D)}]
  BY <1>2 DEF D
<1>6. D \ {a} = {b, c} /\ D \ {b} = {a, c} /\ D \ {c} = {a, b}
  BY DEF D
<1>7. t[{b, c}] = v[b] + v[c] /\ t[{a, c}] = v[a] + v[c] /\ t[{a, b}] = v[a] + v[b]
  <2>1. a \in D /\ b \in D /\ c \in D  BY DEF D
  <2> QED BY <1>4, <2>1
<1>8. OneOf(D) = a \/ OneOf(D) = b \/ OneOf(D) = c
  BY <1>5 DEF D
<1>9. t[D] = v[a] + v[b] + v[c]
  <2>1. CASE OneOf(D) = a
    <3>1. t[D] = v[a] + t[{b, c}]  BY <1>5, <1>6, <2>1
    <3> QED BY <1>7, <3>1
  <2>2. CASE OneOf(D) = b
    <3>1. t[D] = v[b] + t[{a, c}]  BY <1>5, <1>6, <2>2
    <3> QED BY <1>7, <3>1
  <2>3. CASE OneOf(D) = c
    <3>1. t[D] = v[c] + t[{a, b}]  BY <1>5, <1>6, <2>3
    <3> QED BY <1>7, <3>1
  <2> QED BY <1>8, <2>1, <2>2, <2>3
<1> QED BY <1>9 DEF t, D

LEMMA SumFunctionIs == ASSUME NEW v PROVE SumFunction(v) = Totals(v, DOMAIN v)[DOMAIN v]
BY DEF SumFunction, SumFunctionOnSet, FoldFunctionOnSet, MapThenFoldSet, Totals, OneOf

\* A total of naturals is one, and is 0 if they all are.
LEMMA TotalOfNaturals ==
  ASSUME NEW D, IsFiniteSet(D), NEW v, \A d \in D : v[d] \in Nat
  PROVE  Totals(v, D)[D] \in Nat /\ (Totals(v, D)[D] > 0 => \E d \in D : v[d] > 0)
<1>1. Summands(v, D)  BY DEF Summands
<1>2. CASE D = {}
  <2>1. Summed(Totals(v, D), v, D)  BY <1>1, TotalsAre
  <2> QED BY <1>2, <2>1 DEF Summed
<1>3. CASE D # {}
  <2>1. Totals(v, D)[D] \in Nat  BY <1>3, TotalsAtLeast
  <2>2. ASSUME ~\E d \in D : v[d] > 0  PROVE ~(Totals(v, D)[D] > 0)
    <3>1. \A d \in D : 1 * v[d] <= 0 * v[d]  BY <2>2
    <3>2. 0 \in Int /\ 1 \in Int  OBVIOUS
    <3>3. 1 * Totals(v, D)[D] <= 0 * Totals(v, D)[D]
      BY <1>1, <3>1, <3>2, TotalsBounded
    <3> QED BY <2>1, <3>3
  <2> QED BY <2>1, <2>2
<1> QED BY <1>2, <1>3

\* Each part of a total is between 0 and 100, so the total is at most 100 for each.
LEMMA TotalOfPercents ==
  ASSUME NEW D, IsFiniteSet(D), NEW v, \A d \in D : v[d] \in 0 .. 100
  PROVE  Totals(v, D)[D] \in 0 .. 100 * Cardinality(D)
<1> DEFINE t == Totals(v, D)
           B == {s \in SUBSET D : t[s] \notin 0 .. 100 * Cardinality(s)}
<1>0. Summed(t, v, D)
  <2>1. Summands(v, D)  BY DEF Summands
  <2> QED BY <2>1, TotalsAre
<1>1. SUFFICES ASSUME B # {} PROVE FALSE
  <2>1. D \in SUBSET D  OBVIOUS
  <2> QED BY <2>1
<1>2. PICK s \in B : \A r \in SUBSET s : r # s => r \notin B
  <2>1. B \in SUBSET SUBSET D  OBVIOUS
  <2> HIDE DEF B
  <2> QED BY <1>1, <2>1, LeastSubset
<1>3. s # {}
  <2>1. t[{}] = 0  BY <1>0 DEF Summed
  <2>2. Cardinality({}) = 0  BY FS_EmptySet
  <2> QED BY <2>1, <2>2
<1> DEFINE x == OneOf(s)
           r == s \ {x}
<1>4. x \in s /\ x \in D /\ t[s] = v[x] + t[r]
  BY <1>0, <1>3 DEF Summed
<1>5. r \in SUBSET D /\ r # s
  BY <1>4
<1>6. t[r] \in 0 .. 100 * Cardinality(r)
  BY <1>2, <1>5
<1>7. IsFiniteSet(s) /\ Cardinality(s) \in Nat /\ Cardinality(r) = Cardinality(s) - 1
      /\ Cardinality(r) \in Nat
  <2>1. IsFiniteSet(s)  BY FS_Subset
  <2>2. IsFiniteSet(r)  BY <2>1, FS_Subset
  <2> QED BY <1>4, <2>1, <2>2, FS_RemoveElement, FS_CardinalityType
<1>8. v[x] \in 0 .. 100  BY <1>4
<1> HIDE DEF x, r, t
<1>9. t[s] \in 0 .. 100 * Cardinality(s)
  BY <1>4, <1>6, <1>7, <1>8
<1> QED BY <1>9

-----------------------------------------------------------------------------
(* The ends of a finite set of integers *)

\* A finite set of integers has a largest and a smallest member.
LEMMA MaxOfSet ==
  ASSUME NEW S \in SUBSET Int, IsFiniteSet(S), S # {}
  PROVE  Max(S) \in S /\ \A y \in S : y <= Max(S)
<1> DEFINE HasMax(u) == \E x \in u : \A y \in u : x >= y
           B == {u \in SUBSET S : u # {} /\ ~HasMax(u)}
<1>1. B = {}
  <2>1. SUFFICES ASSUME B # {} PROVE FALSE
    OBVIOUS
  <2>2. PICK u \in B : \A r \in SUBSET u : r # u => r \notin B
    <3>1. B \in SUBSET SUBSET S  OBVIOUS
    <3> HIDE DEF B
    <3> QED BY <2>1, <3>1, LeastSubset
  <2>3. PICK x \in u : TRUE  OBVIOUS
  <2>4. u \ {x} = {} \/ HasMax(u \ {x})  BY <2>2, <2>3
  <2>5. CASE u \ {x} = {}
    <3>1. \A y \in u : x >= y  BY <2>5
    <3> QED BY <2>3, <3>1
  <2>6. CASE HasMax(u \ {x})
    <3>1. PICK m \in u \ {x} : \A y \in u \ {x} : m >= y  BY <2>6
    <3>2. m \in Int /\ x \in Int  OBVIOUS
    <3>3. CASE m >= x
      <4>1. \A y \in u : m >= y  BY <3>1, <3>3
      <4> QED BY <4>1
    <3>4. CASE x >= m
      <4>1. \A y \in u : x >= y  BY <3>1, <3>2, <3>4
      <4> QED BY <2>3, <4>1
    <3> QED BY <3>2, <3>3, <3>4
  <2> QED BY <2>4, <2>5, <2>6
<1>2. HasMax(S)  BY <1>1
<1> QED BY <1>2 DEF Max

LEMMA MinOfSet ==
  ASSUME NEW S \in SUBSET Int, IsFiniteSet(S), S # {}
  PROVE  Min(S) \in S /\ \A y \in S : Min(S) <= y
<1> DEFINE HasMin(u) == \E x \in u : \A y \in u : x <= y
           B == {u \in SUBSET S : u # {} /\ ~HasMin(u)}
<1>1. B = {}
  <2>1. SUFFICES ASSUME B # {} PROVE FALSE
    OBVIOUS
  <2>2. PICK u \in B : \A r \in SUBSET u : r # u => r \notin B
    <3>1. B \in SUBSET SUBSET S  OBVIOUS
    <3> HIDE DEF B
    <3> QED BY <2>1, <3>1, LeastSubset
  <2>3. PICK x \in u : TRUE  OBVIOUS
  <2>4. u \ {x} = {} \/ HasMin(u \ {x})  BY <2>2, <2>3
  <2>5. CASE u \ {x} = {}
    <3>1. \A y \in u : x <= y  BY <2>5
    <3> QED BY <2>3, <3>1
  <2>6. CASE HasMin(u \ {x})
    <3>1. PICK m \in u \ {x} : \A y \in u \ {x} : m <= y  BY <2>6
    <3>2. m \in Int /\ x \in Int  OBVIOUS
    <3>3. CASE m <= x
      <4>1. \A y \in u : m <= y  BY <3>1, <3>3
      <4> QED BY <4>1
    <3>4. CASE x <= m
      <4>1. \A y \in u : x <= y  BY <3>1, <3>2, <3>4
      <4> QED BY <2>3, <4>1
    <3> QED BY <3>2, <3>3, <3>4
  <2> QED BY <2>4, <2>5, <2>6
<1>2. HasMin(S)  BY <1>1
<1> QED BY <1>2 DEF Min

-----------------------------------------------------------------------------
(* The federated swarm *)

RoundsSpec == RoundsInit /\ [][RoundsNext]_roundVars

Weights == [Features -> 0 .. Whole]

LEMMA SumIs == ASSUME NEW w PROVE Sum(w) = Totals(w, DOMAIN w)[DOMAIN w]
BY DEF Sum, MapThenSumSet, MapThenFoldSet, Totals, OneOf

LEMMA ClampedIs ==
  ASSUME NEW w \in Int
  PROVE  Clamped(w) \in 0 .. Whole
<1> DEFINE low == Min({Whole, w})
<1>1. low \in Int /\ low <= Whole
  BY MinOfTwo DEF Whole
<1> HIDE DEF low
<1>2. Max({0, low}) = IF 0 >= low THEN 0 ELSE low
  BY <1>1, MaxOfTwo
<1> QED BY <1>1, <1>2 DEF Clamped, Whole, low

FlownRecord(r) == r.score \in Int /\ \A f \in DOMAIN r.values : r.values[f] \in Int

LEMMA TrainedIs ==
  ASSUME NEW w \in Weights, NEW r, FlownRecord(r)
  PROVE  Trained(w, r) \in Weights
<1> SUFFICES ASSUME NEW f \in Features
             PROVE  (IF f \in DOMAIN r.values
                     THEN Clamped(w[f] + ((r.score - 50) * r.values[f]) \div Whole)
                     ELSE w[f]) \in 0 .. Whole
  BY DEF Trained, Weights
<1>1. w[f] \in 0 .. Whole  BY DEF Weights
<1>2. CASE f \in DOMAIN r.values
  <2>1. r.score \in Int /\ r.values[f] \in Int  BY <1>2 DEF FlownRecord
  <2>2. (r.score - 50) * r.values[f] \in Int  BY <2>1
  <2>3. w[f] + ((r.score - 50) * r.values[f]) \div Whole \in Int
    <3>1. w[f] \in Int  BY <1>1
    <3>2. \A x \in Int : x \div Whole \in Int  BY DEF Whole
    <3>3. \A x, y \in Int : x + y \in Int  OBVIOUS
    <3> QED BY <2>2, <3>1, <3>2, <3>3, Zenon
  <2> QED BY <1>2, <2>3, ClampedIs
<1> QED BY <1>1, <1>2

\* The models after the records of a set of positions.
TrainedBy(w, seq) ==
  CHOOSE f : f = [s \in SUBSET DOMAIN seq |->
    IF s = {} THEN w ELSE Trained(f[s \ {Max(s)}], seq[Max(s)])]

LEMMA TrainingIs ==
  ASSUME NEW w, NEW seq
  PROVE  FoldLeft(Trained, w, seq) = TrainedBy(w, seq)[DOMAIN seq]
BY Zenon DEF FoldLeft, MapThenFoldSet, TrainedBy

LEMMA TrainingTyped ==
  ASSUME NEW w \in Weights, NEW seq, NEW n \in Nat, DOMAIN seq = 1 .. n,
         \A i \in 1 .. n : FlownRecord(seq[i])
  PROVE  FoldLeft(Trained, w, seq) \in Weights
<1> DEFINE D == DOMAIN seq
           move == [i \in D |-> [m \in Weights |-> Trained(m, seq[i])]]
           pick == [s \in SUBSET D |-> Max(s)]
           t == TrainedBy(w, seq)
           Solves(f) == f = [s \in SUBSET D |->
                             IF s = {} THEN w ELSE Trained(f[s \ {Max(s)}], seq[Max(s)])]
<1>0. IsFiniteSet(D)
  BY FS_Interval
<1>1. \A s \in SUBSET D : pick[s] = Max(s) /\ (s # {} => Max(s) \in s /\ Max(s) \in D)
  <2> TAKE s \in SUBSET D
  <2>1. s \in SUBSET Int /\ IsFiniteSet(s)
    BY <1>0, FS_Subset
  <2>2. s # {} => Max(s) \in s
    BY <2>1, MaxOfSet
  <2> QED BY <2>2
<1>2. Picks(pick, D)
  BY <1>1 DEF Picks
<1>3. Steps(move, D, Weights) /\ \A i \in D, m \in Weights : move[i][m] = Trained(m, seq[i])
  <2>1. \A i \in D, m \in Weights : Trained(m, seq[i]) \in Weights
    BY TrainedIs
  <2> QED BY <2>1 DEF Steps
<1> HIDE DEF move, pick, D
<1>4. PICK f \in [SUBSET D -> Weights] : Folded(f, D, w, move, pick)
  BY <1>0, <1>2, <1>3, FoldExists
<1>5. Solves(f)
  <2>1. ASSUME NEW s \in SUBSET D, s # {}
        PROVE  f[s] = Trained(f[s \ {Max(s)}], seq[Max(s)])
    <3>1. f[s] = move[Max(s)][f[s \ {Max(s)}]]
      BY <1>1, <1>4, <2>1 DEF Folded
    <3>2. Max(s) \in D /\ f[s \ {Max(s)}] \in Weights
      BY <1>1, <2>1
    <3> QED BY <1>3, <3>1, <3>2
  <2>2. f[{}] = w
    BY <1>4 DEF Folded
  <2> QED BY <2>1, <2>2
<1>6. Solves(t)
  <2>1. \E g : Solves(g)  BY <1>5
  <2> QED BY <2>1, Zenon DEF TrainedBy, D
<1>7. \A s \in SUBSET D : t[s] = IF s = {} THEN w ELSE Trained(t[s \ {Max(s)}], seq[Max(s)])
  <2>1. \A g : Solves(g) => \A s \in SUBSET D :
          g[s] = IF s = {} THEN w ELSE Trained(g[s \ {Max(s)}], seq[Max(s)])
    OBVIOUS
  <2> HIDE DEF Solves, t
  <2> QED BY <1>6, <2>1
<1> HIDE DEF t, Solves
<1>8. Unfolds(t, D, Weights, w, move, pick)
  <2>1. ASSUME NEW s \in SUBSET D, s # {}, t[s \ {pick[s]}] \in Weights
        PROVE  t[s] = move[pick[s]][t[s \ {pick[s]}]]
    <3>1. t[s] = Trained(t[s \ {Max(s)}], seq[Max(s)])
      BY <1>7, <2>1
    <3>2. pick[s] = Max(s) /\ Max(s) \in D
      BY <1>1, <2>1
    <3> QED BY <1>3, <2>1, <3>1, <3>2
  <2>2. t[{}] = w
    BY <1>7
  <2> QED BY <2>1, <2>2 DEF Unfolds
<1>9. \A s \in SUBSET D : t[s] \in Weights
  BY <1>0, <1>2, <1>3, <1>8, FoldTyped
<1> QED BY <1>9, TrainingIs DEF t, D

LEMMA RoundedBetween ==
  ASSUME NEW amount \in Int, NEW whole \in Nat \ {0}, NEW low \in Int, NEW high \in Int,
         low * whole <= amount, amount <= high * whole
  PROVE  Rounded(amount, whole) \in low .. high
<1> DEFINE q == (2 * amount + whole) \div (2 * whole)
<1>1. q \in Int /\ 2 * whole * q <= 2 * amount + whole /\ 2 * amount + whole < 2 * whole * (q + 1)
  OBVIOUS
<1> HIDE DEF q
<1>2. q <= high
  <2>1. SUFFICES ASSUME q >= high + 1 PROVE FALSE
    BY <1>1
  <2>2. whole * q >= whole * (high + 1)
    BY <1>1, <2>1
  <2>3. whole * (high + 1) = high * whole + whole
    OBVIOUS
  <2>4. 2 * (whole * q) = 2 * whole * q
    BY <1>1
  <2> QED BY <1>1, <2>2, <2>3, <2>4
<1>3. q >= low
  <2>1. SUFFICES ASSUME q + 1 <= low PROVE FALSE
    BY <1>1
  <2>2. whole * (q + 1) <= whole * low
    BY <1>1, <2>1
  <2>3. whole * low = low * whole
    OBVIOUS
  <2>4. 2 * (whole * (q + 1)) = 2 * whole * (q + 1)
    BY <1>1
  <2> QED BY <1>1, <2>2, <2>3, <2>4
<1> QED BY <1>1, <1>2, <1>3 DEF Rounded, q

\* Once there is an average, the next round has one as well.
Averages(counts) == Cardinality(Trainers) >= MinTrainers /\ Sum(counts) # 0

RoundsInv ==
  /\ local \in [Trainers -> Weights]
  /\ samples \in [Trainers -> Nat]
  /\ sent \in [Trainers -> Weights]
  /\ average # NoAverage => Averages(samples)
  /\ SwarmAgrees

LEMMA CountsAre ==
  ASSUME NEW counts \in [Trainers -> Nat]
  PROVE  /\ Sum(counts) \in Nat
         /\ \A d \in Trainers : counts[d] <= Sum(counts)
         /\ Sum(counts) # 0 => \E d \in Trainers : counts[d] > 0
<1>0. IsFiniteSet(Trainers) /\ DOMAIN counts = Trainers /\ Summands(counts, Trainers)
      /\ \A d \in Trainers : counts[d] \in Nat
  BY LearningAssumption DEF LearningAssumption, Summands
<1>1. Sum(counts) = Totals(counts, Trainers)[Trainers]
  BY <1>0, SumIs
<1>2. \A d \in Trainers : Sum(counts) \in Nat /\ counts[d] <= Sum(counts)
  BY <1>0, <1>1, TotalsAtLeast
<1>3. Summed(Totals(counts, Trainers), counts, Trainers)
  BY <1>0, TotalsAre
<1>4. CASE Trainers = {}
  <2>1. Sum(counts) = 0
    BY <1>1, <1>3, <1>4 DEF Summed
  <2> QED BY <1>4, <2>1
<1>5. CASE \E d \in Trainers : counts[d] > 0
  BY <1>2, <1>5
<1>6. CASE Trainers # {} /\ \A d \in Trainers : ~(counts[d] > 0)
  <2>1. \A d \in Trainers : 1 * counts[d] <= 0 * counts[d]
    BY <1>0, <1>6
  <2>2. 0 \in Int /\ 1 \in Int  OBVIOUS
  <2>3. 1 * Totals(counts, Trainers)[Trainers] <= 0 * Totals(counts, Trainers)[Trainers]
    BY <1>0, <2>1, <2>2, TotalsBounded
  <2>4. Sum(counts) \in Nat
    BY <1>2, <1>6
  <2>5. Sum(counts) = 0
    BY <1>1, <2>3, <2>4
  <2> QED BY <1>2, <1>6, <2>5
<1> QED BY <1>4, <1>5, <1>6

\* An average lies between what those sent who count.
LEMMA AverageBetween ==
  ASSUME NEW weights \in [Trainers -> Weights], NEW counts \in [Trainers -> Nat],
         Sum(counts) # 0, NEW f \in Features
  PROVE  LET votes == {weights[d][f] : d \in {e \in Trainers : counts[e] > 0}}
             mean  == Rounded(Sum([d \in Trainers |-> counts[d] * weights[d][f]]), Sum(counts))
         IN  mean \in Min(votes) .. Max(votes) /\ mean \in 0 .. Whole
<1> DEFINE C == {e \in Trainers : counts[e] > 0}
           votes == {weights[d][f] : d \in C}
           u == [d \in Trainers |-> counts[d] * weights[d][f]]
           low == Min(votes)
           high == Max(votes)
<1>1. IsFiniteSet(Trainers)
  BY LearningAssumption DEF LearningAssumption
<1>2. \A d \in Trainers : weights[d][f] \in Int /\ counts[d] \in Nat
  BY DEF Weights
<1>3. votes \in SUBSET Int /\ votes \in SUBSET (0 .. Whole) /\ votes # {} /\ IsFiniteSet(votes)
  <2>1. C # {}
    BY CountsAre
  <2>2. IsFiniteSet(C)
    BY <1>1, FS_Subset
  <2>3. IsFiniteSet(votes)
    <3> DEFINE g == [d \in C |-> weights[d][f]]
    <3>1. g \in Surjection(C, votes)
      BY DEF Surjection
    <3> HIDE DEF C, votes, g
    <3> QED BY <2>2, <3>1, FS_Surjection
  <2>4. \A d \in Trainers : weights[d][f] \in 0 .. Whole
    BY DEF Weights
  <2> QED BY <1>2, <2>1, <2>3, <2>4
<1>4. low \in 0 .. Whole /\ high \in 0 .. Whole /\ \A y \in votes : low <= y /\ y <= high
  <2> HIDE DEF votes
  <2>1. Min(votes) \in votes /\ Max(votes) \in votes
    BY <1>3, MinOfSet, MaxOfSet
  <2>2. \A y \in votes : Min(votes) <= y /\ y <= Max(votes)
    BY <1>3, MinOfSet, MaxOfSet
  <2> QED BY <1>3, <2>1, <2>2
<1> HIDE DEF low, high
<1>13. low \in Int /\ high \in Int
  BY <1>4
<1>5. \A d \in Trainers : /\ u[d] \in Int
                          /\ u[d] <= high * counts[d]
                          /\ low * counts[d] <= u[d]
  <2> TAKE d \in Trainers
  <2>1. u[d] = counts[d] * weights[d][f]  OBVIOUS
  <2>2. CASE counts[d] = 0
    BY <1>2, <1>4, <2>1, <2>2
  <2>3. CASE counts[d] > 0
    <3>1. low <= weights[d][f] /\ weights[d][f] <= high
      BY <1>4, <2>3
    <3>2. \A a, b \in Int, c \in Nat : a <= b => c * a <= c * b
      OBVIOUS
    <3>3. counts[d] * low <= counts[d] * weights[d][f] /\ counts[d] * weights[d][f] <= counts[d] * high
      BY <1>2, <1>4, <3>1, <3>2
    <3> QED BY <1>2, <1>4, <2>1, <3>3
  <2> QED BY <1>2, <2>2, <2>3
<1>6. Summands(u, Trainers) /\ Summands(counts, Trainers)
  BY <1>2, <1>5 DEF Summands
<1>7. Sum(u) = Totals(u, Trainers)[Trainers] /\ Sum(counts) = Totals(counts, Trainers)[Trainers]
  BY SumIs
<1>8. Sum(counts) \in Nat \ {0}
  BY CountsAre
<1>9. Sum(u) \in Int
  <2>1. Summed(Totals(u, Trainers), u, Trainers)
    <3> HIDE DEF u
    <3> QED BY <1>1, <1>6, TotalsAre
  <2> QED BY <1>7, <2>1 DEF Summed
<1>10. 1 * Sum(u) <= high * Sum(counts)
  <2> HIDE DEF u
  <2>1. 1 \in Int /\ \A d \in Trainers : 1 * u[d] <= high * counts[d]
    BY <1>5
  <2> QED BY <1>1, <1>13, <1>6, <1>7, <2>1, TotalsBounded
<1>11. low * Sum(counts) <= 1 * Sum(u)
  <2> HIDE DEF u
  <2>1. 1 \in Int /\ \A d \in Trainers : low * counts[d] <= 1 * u[d]
    BY <1>5
  <2> QED BY <1>1, <1>13, <1>6, <1>7, <2>1, TotalsBounded
<1>12. low * Sum(counts) <= Sum(u) /\ Sum(u) <= high * Sum(counts)
  BY <1>9, <1>10, <1>11
<1>14. Rounded(Sum(u), Sum(counts)) \in low .. high
  <2> HIDE DEF u
  <2> QED BY <1>8, <1>9, <1>12, <1>13, RoundedBetween
<1>15. Rounded(Sum(u), Sum(counts)) \in 0 .. Whole
  <2> HIDE DEF u
  <2>1. \A x : x \in low .. high => x \in 0 .. Whole
    <3>1. low \in 0 .. 1000 /\ high \in 0 .. 1000  BY <1>4 DEF Whole
    <3> HIDE DEF low, high
    <3> QED BY <3>1, SMTT(30) DEF Whole
  <2> QED BY <1>14, <2>1
<1> QED BY <1>14, <1>15 DEF low, high

LEMMA RoundsInitInv == ASSUME RoundsInit PROVE RoundsInv
<1>1. 500 \in 0 .. Whole  BY DEF Whole
<1> QED BY <1>1 DEF RoundsInit, RoundsInv, Weights, SwarmAgrees

LEMMA AveragedIs ==
  ASSUME NEW weights, NEW counts
  PROVE  /\ Averages(counts) => Averaged(weights, counts) =
              [f \in Features |-> Rounded(Sum([d \in Trainers |-> counts[d] * weights[d][f]]), Sum(counts))]
         /\ ~Averages(counts) => Averaged(weights, counts) = NoAverage
BY LearningAssumption, FS_CardinalityType DEF LearningAssumption, Averages, Averaged

LEMMA RoundsStepKeeps ==
  ASSUME RoundsInv, [RoundsNext]_roundVars
  PROVE  RoundsInv'
<1>1. CASE UNCHANGED roundVars
  BY <1>1 DEF roundVars, RoundsInv, SwarmAgrees, Averages
<1>2. ASSUME NEW flight \in [Trainers -> Flights], RunRound(flight)
      PROVE  RoundsInv'
  <2> DEFINE trained == [d \in Trainers |-> FoldLeft(Trained, local[d], flight[d])]
             counts  == [d \in Trainers |-> samples[d] + Len(flight[d])]
             global  == Averaged(trained, counts)
  <2>1. /\ samples' = counts
        /\ sent' = trained
        /\ average' = IF global = NoAverage THEN average ELSE global
        /\ local' = [d \in Trainers |-> Applied(trained[d], global)]
    BY <1>2 DEF RunRound
  <2>2. \A d \in Trainers :
          /\ Len(flight[d]) \in Nat /\ DOMAIN flight[d] = 1 .. Len(flight[d])
          /\ \A i \in 1 .. Len(flight[d]) : FlownRecord(flight[d][i])
    <3> TAKE d \in Trainers
    <3>1. flight[d] \in Flights  BY <1>2
    <3>2. flight[d] \in Seq({flight[d][i] : i \in DOMAIN flight[d]})
      BY <3>1, LearningAssumption DEF LearningAssumption
    <3>3. Len(flight[d]) \in Nat /\ DOMAIN flight[d] = 1 .. Len(flight[d])
      BY <3>2, LenProperties
    <3> QED BY <3>1, <3>3, LearningAssumption DEF LearningAssumption, FlownRecord
  <2>3. \A d \in Trainers : trained[d] \in Weights
    <3> TAKE d \in Trainers
    <3>1. local[d] \in Weights  BY DEF RoundsInv
    <3> QED BY <2>2, <3>1, TrainingTyped
  <2>4. trained \in [Trainers -> Weights] /\ counts \in [Trainers -> Nat]
    BY <2>2, <2>3 DEF RoundsInv
  <2>5. \A d \in Trainers : samples[d] <= counts[d]
    BY <2>2 DEF RoundsInv
  <2> HIDE DEF trained, counts
  <2>6. CASE ~Averages(counts)
    <3>1. global = NoAverage
      BY <2>6, AveragedIs
    <3>2. average = NoAverage
      <4>1. SUFFICES ASSUME Averages(samples) PROVE FALSE
        BY DEF RoundsInv
      <4>2. samples \in [Trainers -> Nat]  BY DEF RoundsInv
      <4>3. PICK d \in Trainers : samples[d] > 0
        BY <4>1, <4>2, CountsAre DEF Averages
      <4>4. counts[d] <= Sum(counts) /\ Sum(counts) \in Nat /\ counts[d] \in Nat /\ samples[d] \in Nat
        BY <2>4, <4>2, CountsAre
      <4>5. Sum(counts) # 0
        BY <2>5, <4>3, <4>4
      <4> QED BY <2>6, <4>1, <4>5 DEF Averages
    <3>3. \A d \in Trainers : Applied(trained[d], NoAverage) \in Weights
      BY <2>4 DEF Applied, NoAverage, Weights
    <3> QED BY <2>1, <2>4, <3>1, <3>2, <3>3 DEF RoundsInv, SwarmAgrees
  <2>7. CASE Averages(counts)
    <3> DEFINE mean == [f \in Features |->
                 Rounded(Sum([d \in Trainers |-> counts[d] * trained[d][f]]), Sum(counts))]
    <3>1. global = mean
      BY <2>7, AveragedIs
    <3>2. DOMAIN mean = Features /\ "avg_speed" \in Features
      BY DEF Features
    <3>3. mean # NoAverage
      <4>1. DOMAIN NoAverage = {}  BY DEF NoAverage
      <4> QED BY <3>2, <4>1
    <3>4. \A f \in Features :
            LET votes == {trained[d][f] : d \in {e \in Trainers : counts[e] > 0}}
            IN  mean[f] \in Min(votes) .. Max(votes)
      BY <2>4, <2>7, AverageBetween DEF Averages
    <3>11. \A f \in Features : mean[f] \in 0 .. Whole
      BY <2>4, <2>7, AverageBetween DEF Averages
    <3> HIDE DEF mean
    <3>5. \A d \in Trainers : Applied(trained[d], mean) = [f \in Features |-> mean[f]]
      BY <2>4, <3>2 DEF Applied, Weights
    <3>6. mean = [f \in Features |-> mean[f]]
      BY DEF mean
    <3>7. \A d \in Trainers : Applied(trained[d], mean) = mean
      BY <3>5, <3>6
    <3>8. average' = mean /\ local' = [d \in Trainers |-> mean]
      BY <2>1, <3>1, <3>3, <3>7
    <3>9. mean \in Weights
      BY <3>6, <3>11 DEF Weights
    <3>10. SwarmAgrees'
      BY <2>1, <3>4, <3>8 DEF SwarmAgrees
    <3> QED BY <2>1, <2>4, <2>7, <3>8, <3>9, <3>10 DEF RoundsInv
  <2> QED BY <2>6, <2>7
<1> QED BY <1>1, <1>2 DEF RoundsNext

\* Once there is an average, all models of the swarm have it, and no weight in it
\* is outside what the drones that have flown had sent, for any number of drones,
\* flights and rounds (federated_learning.py:138-153, 212-216).
THEOREM SwarmKeepsAverage == RoundsSpec => []SwarmAgrees
<1>1. RoundsInit => RoundsInv  BY RoundsInitInv
<1>2. RoundsInv /\ [RoundsNext]_roundVars => RoundsInv'  BY RoundsStepKeeps
<1>3. RoundsInv => SwarmAgrees  BY DEF RoundsInv
<1> QED BY <1>1, <1>2, <1>3, PTL DEF RoundsSpec

-----------------------------------------------------------------------------
(* The planner *)

\* A weight scaled by a total.
Part(a, T) == Rounded(Whole * a, T)

LEMMA PartIs ==
  ASSUME NEW a \in Nat, NEW T \in Nat \ {0}
  PROVE  /\ Part(a, T) \in Nat
         /\ T * (2 * Part(a, T) - 1) <= 2000 * a
         /\ 2000 * a < T * (2 * Part(a, T) + 1)
<1> DEFINE q == (2000 * a + T) \div (2 * T)
<1>1. Part(a, T) = q
  BY DEF Part, Rounded, Whole
<1>2. q \in Int /\ 2 * T * q <= 2000 * a + T /\ 2000 * a + T < 2 * T * (q + 1)
  OBVIOUS
<1> HIDE DEF q
<1>3. 2 * T * q = T * (2 * q) /\ 2 * T * (q + 1) = T * (2 * q) + 2 * T
  BY <1>2
<1>4. T * (2 * q - 1) = T * (2 * q) - T /\ T * (2 * q + 1) = T * (2 * q) + T
  BY <1>2
<1>5. q >= 0
  <2>1. SUFFICES ASSUME q <= -1 PROVE FALSE  BY <1>2
  <2>2. T * (2 * q) <= T * (-2)  BY <1>2, <2>1
  <2> QED BY <1>2, <1>3, <2>2
<1> QED BY <1>1, <1>2, <1>3, <1>4, <1>5

LEMMA PartTyped ==
  ASSUME NEW a \in Nat, NEW T \in Nat \ {0}
  PROVE  Part(a, T) \in Nat
BY PartIs

\* What the rounding may not exceed or fall below.
LEMMA PartAtMost ==
  ASSUME NEW a \in Nat, NEW T \in Nat \ {0}, NEW n \in Nat, 2000 * a < T * (2 * n + 1)
  PROVE  Part(a, T) <= n
<1> DEFINE q == Part(a, T)
<1>1. q \in Nat /\ T * (2 * q - 1) <= 2000 * a  BY PartIs
<1> HIDE DEF q
<1>2. SUFFICES ASSUME q >= n + 1 PROVE FALSE  BY <1>1 DEF q
<1>3. T * (2 * q - 1) >= T * (2 * n + 1)
  <2>1. 2 * q - 1 >= 2 * n + 1 /\ 2 * q - 1 \in Int /\ 2 * n + 1 \in Int  BY <1>1, <1>2
  <2>2. \A x, y \in Int : x >= y => T * x >= T * y  OBVIOUS
  <2> QED BY <2>1, <2>2
<1>4. T * (2 * q - 1) \in Int /\ T * (2 * n + 1) \in Int  BY <1>1
<1> QED BY <1>1, <1>3, <1>4

LEMMA PartAtLeast ==
  ASSUME NEW a \in Nat, NEW T \in Nat \ {0}, NEW n \in Nat, T * (2 * n - 1) <= 2000 * a
  PROVE  Part(a, T) >= n
<1> DEFINE q == Part(a, T)
<1>1. q \in Nat /\ 2000 * a < T * (2 * q + 1)  BY PartIs
<1> HIDE DEF q
<1>2. SUFFICES ASSUME q <= n - 1 PROVE FALSE  BY <1>1 DEF q
<1>3. T * (2 * q + 1) <= T * (2 * n - 1)
  <2>1. 2 * q + 1 <= 2 * n - 1 /\ 2 * q + 1 \in Int /\ 2 * n - 1 \in Int  BY <1>1, <1>2
  <2>2. \A x, y \in Int : x <= y => T * x <= T * y  OBVIOUS
  <2> QED BY <2>1, <2>2
<1>4. T * (2 * q + 1) \in Int /\ T * (2 * n - 1) \in Int  BY <1>1
<1> QED BY <1>1, <1>3, <1>4

\* Scaled by their sum, weights make up a whole to one thousandth.
LEMMA PartsMakeWhole ==
  ASSUME NEW s \in Nat, NEW e \in Nat, NEW y \in Nat, s + e + y > 0
  PROVE  LET T == s + e + y IN Part(s, T) + Part(e, T) + Part(y, T) \in 999 .. 1001
<1> DEFINE T == s + e + y
           p == Part(s, T)
           q == Part(e, T)
           r == Part(y, T)
<1>1. T \in Nat \ {0}  OBVIOUS
<1>6. T = s + e + y  OBVIOUS
<1> HIDE DEF T
<1>2. /\ p \in Nat /\ T * (2 * p - 1) <= 2000 * s /\ 2000 * s < T * (2 * p + 1)
      /\ q \in Nat /\ T * (2 * q - 1) <= 2000 * e /\ 2000 * e < T * (2 * q + 1)
      /\ r \in Nat /\ T * (2 * r - 1) <= 2000 * y /\ 2000 * y < T * (2 * r + 1)
  <2>1. \A a \in Nat : /\ Part(a, T) \in Nat /\ T * (2 * Part(a, T) - 1) <= 2000 * a
                       /\ 2000 * a < T * (2 * Part(a, T) + 1)
    BY <1>1, PartIs
  <2> QED BY <2>1
<1> HIDE DEF p, q, r
<1> DEFINE m == p + q + r
<1>3. /\ T * (2 * m) - 3 * T <= 2000 * T
      /\ 2000 * T < T * (2 * m) + 3 * T
  <2>1. /\ T * (2 * p - 1) = T * (2 * p) - T /\ T * (2 * p + 1) = T * (2 * p) + T
        /\ T * (2 * q - 1) = T * (2 * q) - T /\ T * (2 * q + 1) = T * (2 * q) + T
        /\ T * (2 * r - 1) = T * (2 * r) - T /\ T * (2 * r + 1) = T * (2 * r) + T
        /\ T * (2 * m) = T * (2 * p) + T * (2 * q) + T * (2 * r)
        /\ T * (2 * p) \in Int /\ T * (2 * q) \in Int /\ T * (2 * r) \in Int
    BY <1>1, <1>2
  <2> QED BY <1>1, <1>2, <1>6, <2>1
<1>4. m \in Nat  BY <1>2
<1> HIDE DEF m
<1>5. m <= 1001
  <2>1. SUFFICES ASSUME m >= 1002 PROVE FALSE  BY <1>4
  <2>2. T * (2 * m) >= T * 2004  BY <1>1, <1>4, <2>1
  <2> QED BY <1>1, <1>3, <1>4, <2>2
<1>7. m >= 999
  <2>1. SUFFICES ASSUME m <= 998 PROVE FALSE  BY <1>4
  <2>2. T * (2 * m) <= T * 1996  BY <1>1, <1>4, <2>1
  <2> QED BY <1>1, <1>3, <1>4, <2>2
<1> QED BY <1>4, <1>5, <1>7 DEF m, p, q, r, T

LEMMA PartShrinks ==
  ASSUME NEW a \in Nat, NEW T \in Nat, T >= 1000
  PROVE  Part(a, T) <= a
<1>1. T * (2 * a + 1) >= 1000 * (2 * a + 1)  OBVIOUS
<1>2. T * (2 * a + 1) \in Int  OBVIOUS
<1>3. 2000 * a < T * (2 * a + 1)  BY <1>1, <1>2
<1> QED BY <1>3, PartAtMost

LEMMA PartStays ==
  ASSUME NEW a \in Nat, NEW T \in Nat, T > 0, T <= 2000, a >= 1
  PROVE  Part(a, T) >= 1
<1>1. T * (2 * 1 - 1) <= 2000 * a  OBVIOUS
<1> QED BY <1>1, PartAtLeast

\* Twice the weight of energy stays within a tenth of that of safety.
LEMMA EnergyFollows ==
  ASSUME NEW s \in Nat, NEW y \in Nat, NEW T \in Nat,
         \/ 2 * y <= s + 98 /\ T >= 1000
         \/ 2 * y <= s + 99 /\ T >= 1006
         \/ 2 * y <= s + 100 /\ T >= 1016
  PROVE  2 * Part(y, T) <= Part(s, T) + 99
<1> DEFINE p == Part(s, T)
           r == Part(y, T)
<1>1. T \in Nat \ {0}  OBVIOUS
<1>2. /\ p \in Nat /\ 2000 * s < T * (2 * p + 1)
      /\ r \in Nat /\ T * (2 * r - 1) <= 2000 * y
  <2>1. \A a \in Nat : /\ Part(a, T) \in Nat /\ T * (2 * Part(a, T) - 1) <= 2000 * a
                       /\ 2000 * a < T * (2 * Part(a, T) + 1)
    BY <1>1, PartIs
  <2> QED BY <2>1
<1> HIDE DEF p, r
<1>3. SUFFICES ASSUME 2 * r - p >= 100 PROVE FALSE  BY <1>2 DEF p, r
<1> DEFINE d == 2 * r - p
<1>4. d \in Int /\ d >= 100  BY <1>2, <1>3
<1>5. T * (2 * p + 1) = 2 * (T * p) + T /\ T * (2 * r - 1) = 2 * (T * r) - T
      /\ T * d = 2 * (T * r) - T * p /\ T * p \in Int /\ T * r \in Int
  BY <1>2
<1> HIDE DEF d
<1>6. T * d >= T * 100  BY <1>4
<1>7. T * d \in Int  BY <1>4
<1>8. 2 * (T * d) - 3 * T < 4000 * y - 2000 * s
  BY <1>2, <1>5
<1>9. 197 * T < 4000 * y - 2000 * s
  BY <1>6, <1>7, <1>8
<1> QED BY <1>9

\* Weights that lessons may lead to (Schooled), one by one.
Fit(s, e, y) ==
  /\ s \in 1 .. 599 /\ e \in 1 .. 500 /\ y \in 1 .. 1000 /\ 2 * y <= s + 100
  /\ s + e + y \in 999 .. 1001
  /\ s + e + y < 1000 => s <= 598 /\ e <= 499
  /\ s + e + y > 1000 => 2 * y < s + 100

\* A weight next to a whole keeps its value, or moves by one towards the whole.
LEMMA PartNearWhole ==
  ASSUME NEW a \in Nat, a <= 1000
  PROVE  /\ Part(a, 999) = IF a <= 499 THEN a ELSE a + 1
         /\ Part(a, 1000) = a
         /\ Part(a, 1001) = IF a <= 500 THEN a ELSE a - 1
BY DEF Part, Rounded, Whole

LEMMA NoLessonKeeps ==
  ASSUME NEW s, NEW e, NEW y, Fit(s, e, y)
  PROVE  LET T == s + e + y IN Fit(Part(s, T), Part(e, T), Part(y, T))
<1>1. s \in Nat /\ e \in Nat /\ y \in Nat /\ s <= 1000 /\ e <= 1000 /\ y <= 1000
  BY DEF Fit
<1> DEFINE T == s + e + y
<1>2. CASE T = 999
  <2>1. Part(s, T) = (IF s <= 499 THEN s ELSE s + 1) /\ Part(e, T) = e /\ Part(y, T) = y
    <3>1. \A a \in Nat : a <= 1000 => Part(a, 999) = IF a <= 499 THEN a ELSE a + 1
      BY PartNearWhole
    <3>2. e <= 499 /\ y <= 499  BY <1>2 DEF Fit
    <3> QED BY <1>1, <1>2, <3>1, <3>2
  <2>2. Fit(IF s <= 499 THEN s ELSE s + 1, e, y)  BY <1>2 DEF Fit
  <2> QED BY <2>1, <2>2
<1>3. CASE T = 1000
  <2>1. \A a \in Nat : a <= 1000 => Part(a, 1000) = a  BY PartNearWhole
  <2>2. Part(s, T) = s /\ Part(e, T) = e /\ Part(y, T) = y  BY <1>1, <1>3, <2>1
  <2> QED BY <2>2
<1>4. CASE T = 1001
  <2>1. Part(s, T) = (IF s <= 500 THEN s ELSE s - 1) /\ Part(e, T) = e /\ Part(y, T) = y
    <3>1. \A a \in Nat : a <= 1000 => Part(a, 1001) = IF a <= 500 THEN a ELSE a - 1
      BY PartNearWhole
    <3>2. e <= 500 /\ y <= 500  BY <1>4 DEF Fit
    <3> QED BY <1>1, <1>4, <3>1, <3>2
  <2>2. Fit(IF s <= 500 THEN s ELSE s - 1, e, y)  BY <1>4 DEF Fit
  <2> QED BY <2>1, <2>2
<1>5. T = 999 \/ T = 1000 \/ T = 1001  BY DEF Fit
<1> QED BY <1>2, <1>3, <1>4, <1>5

\* After a bad score safety is never less, and stays below its cap.
LEMMA BadLessonKeeps ==
  ASSUME NEW s, NEW e, NEW y, Fit(s, e, y),
         NEW z, z = IF s + 50 <= 600 THEN s + 50 ELSE 600
  PROVE  LET T == z + e + y IN Fit(Part(z, T), Part(e, T), Part(y, T)) /\ Part(z, T) >= s
<1> DEFINE T == z + e + y
           p == Part(z, T)
           q == Part(e, T)
           r == Part(y, T)
<1>1. s \in Nat /\ e \in Nat /\ y \in Nat /\ z \in Nat /\ z >= 1 /\ z <= 600
  BY DEF Fit
<1>2. T \in Nat \ {0} /\ T >= 1001 /\ T <= 1051
  BY DEF Fit
<1>3. p + q + r \in 999 .. 1001
  BY <1>1, PartsMakeWhole
<1>4. p >= 1 /\ q >= 1 /\ r >= 1 /\ p \in Nat /\ q \in Nat /\ r \in Nat
  <2>1. e >= 1 /\ s >= 1 /\ y >= 1  BY DEF Fit
  <2> HIDE DEF T
  <2>2. Part(s, T) \in Nat /\ Part(e, T) \in Nat /\ Part(y, T) \in Nat /\ Part(z, T) \in Nat
    <3>1. T \in Nat \ {0}  BY <1>2
    <3>2. ASSUME NEW a \in Nat PROVE Part(a, T) \in Nat  BY <3>1, PartTyped
    <3> QED BY <1>1, <3>2
  <2>3. \A a \in Nat : a >= 1 => Part(a, T) >= 1  BY <1>2, PartStays
  <2> QED BY <1>1, <2>1, <2>2, <2>3
<1>5. q <= e /\ r <= y
  <2> HIDE DEF T
  <2> QED BY <1>1, <1>2, PartShrinks
<1>6. p <= 599
  <2>1. 2000 * z < T * (2 * 599 + 1)  BY <1>1, <1>2
  <2> HIDE DEF T
  <2> QED BY <1>1, <1>2, <2>1, PartAtMost
<1>7. p >= s
  <2>1. T * (2 * s - 1) <= 2000 * z
    <3>1. CASE s + 50 <= 600
      <4>1. T * (2 * s - 1) <= 1051 * (2 * s - 1)  BY <1>1, <1>2 DEF Fit
      <4> QED BY <1>1, <1>2, <3>1, <4>1 DEF Fit
    <3>2. CASE s + 50 > 600
      <4> DEFINE g == 600 - s
      <4>1. g \in 1 .. 49 /\ s = 600 - g /\ z = 600 /\ T <= 1001 + g  BY <1>1, <3>2 DEF Fit
      <4>2. T * (2 * s - 1) <= (1001 + g) * (1199 - 2 * g)  BY <1>2, <4>1
      <4>3. (1001 + g) * (1199 - 2 * g) = 1200199 - 803 * g - 2 * (g * g) /\ g * g >= 1  BY <4>1
      <4> QED BY <1>1, <1>2, <4>1, <4>2, <4>3
    <3> QED BY <1>1, <3>1, <3>2
  <2> HIDE DEF T
  <2> QED BY <1>1, <1>2, <2>1, PartAtLeast
<1>8. 2 * r <= p + 99
  <2>1. 2 * y <= z + 98  BY DEF Fit
  <2> HIDE DEF T
  <2> QED BY <1>1, <1>2, <2>1, EnergyFollows
<1>9. q <= 499
  <2>1. CASE e <= 499
    <3> HIDE DEF q
    <3> QED BY <1>1, <1>4, <1>5, <2>1
  <2>2. CASE e = 500
    <3>1. T >= 1049  BY <2>2 DEF Fit
    <3>2. 2000 * e < T * (2 * 499 + 1)  BY <2>2, <3>1, <1>2
    <3> HIDE DEF T
    <3> QED BY <1>1, <1>2, <3>2, PartAtMost
  <2> QED BY <2>1, <2>2 DEF Fit
<1>10. p + q + r < 1000 => p <= 598
  <2>1. CASE T >= 1003
    <3>1. 2000 * z < T * (2 * 598 + 1)  BY <1>1, <1>2, <2>1
    <3> HIDE DEF T
    <3> QED BY <1>1, <1>2, <3>1, PartAtMost
  <2>2. CASE T = 1001
    <3>1. z = 600 /\ e <= 500 /\ y <= 500 /\ e + y = 401  BY <1>1, <2>2 DEF Fit
    <3>2. p >= 599 /\ q >= e /\ r >= y
      <4>1. 1001 * (2 * 599 - 1) <= 2000 * z /\ 1001 * (2 * e - 1) <= 2000 * e /\ 1001 * (2 * y - 1) <= 2000 * y
        BY <1>1, <3>1
      <4>2. \A a, n \in Nat : 1001 * (2 * n - 1) <= 2000 * a => Part(a, 1001) >= n
        BY PartAtLeast
      <4> QED BY <1>1, <2>2, <4>1, <4>2
    <3> QED BY <1>1, <1>4, <3>1, <3>2
  <2>3. CASE T = 1002
    <3>1. z = 600 /\ e + y = 402  BY <1>1, <2>3 DEF Fit
    <3>2. p >= 599 /\ q >= e - 1 /\ r >= y - 1 /\ (e <= 250 => q >= e) /\ (y <= 250 => r >= y)
      <4>1. \A a, n \in Nat : 1002 * (2 * n - 1) <= 2000 * a => Part(a, 1002) >= n
        BY PartAtLeast
      <4>2. e - 1 \in Nat /\ y - 1 \in Nat  BY DEF Fit
      <4>3. 1002 * (2 * 599 - 1) <= 2000 * z  BY <3>1
      <4>4. /\ 1002 * (2 * (e - 1) - 1) <= 2000 * e /\ 1002 * (2 * (y - 1) - 1) <= 2000 * y
            /\ e <= 250 => 1002 * (2 * e - 1) <= 2000 * e
            /\ y <= 250 => 1002 * (2 * y - 1) <= 2000 * y
        BY <1>1, <3>1, <4>2
      <4> QED BY <1>1, <2>3, <4>1, <4>2, <4>3, <4>4
    <3> QED BY <1>1, <1>4, <3>1, <3>2
  <2> QED BY <1>2, <2>1, <2>2, <2>3
<1>11. Fit(p, q, r)
  <2> HIDE DEF p, q, r
  <2> QED BY <1>3, <1>4, <1>5, <1>6, <1>8, <1>9, <1>10 DEF Fit
<1> QED BY <1>7, <1>11

\* After a good score efficiency is never less.
LEMMA GoodLessonKeeps ==
  ASSUME NEW s, NEW e, NEW y, Fit(s, e, y),
         NEW z, z = IF e + 20 <= 500 THEN e + 20 ELSE 500
  PROVE  LET T == s + z + y IN Fit(Part(s, T), Part(z, T), Part(y, T)) /\ Part(z, T) >= e
<1> DEFINE T == s + z + y
           p == Part(s, T)
           q == Part(z, T)
           r == Part(y, T)
<1>1. s \in Nat /\ e \in Nat /\ y \in Nat /\ z \in Nat /\ z >= 1 /\ z <= 500
  BY DEF Fit
<1>2. T \in Nat \ {0} /\ T >= 1000 /\ T <= 1021 /\ T = s + z + y
  BY DEF Fit
<1>3. p + q + r \in 999 .. 1001
  BY <1>1, PartsMakeWhole
<1>4. p >= 1 /\ q >= 1 /\ r >= 1 /\ p \in Nat /\ q \in Nat /\ r \in Nat
  <2>1. e >= 1 /\ s >= 1 /\ y >= 1  BY DEF Fit
  <2> HIDE DEF T
  <2>2. Part(s, T) \in Nat /\ Part(e, T) \in Nat /\ Part(y, T) \in Nat /\ Part(z, T) \in Nat
    <3>1. T \in Nat \ {0}  BY <1>2
    <3>2. ASSUME NEW a \in Nat PROVE Part(a, T) \in Nat  BY <3>1, PartTyped
    <3> QED BY <1>1, <3>2
  <2>3. \A a \in Nat : a >= 1 => Part(a, T) >= 1  BY <1>2, PartStays
  <2> QED BY <1>1, <2>1, <2>2, <2>3
<1>5. p <= s /\ q <= z /\ r <= y
  <2> HIDE DEF T
  <2> QED BY <1>1, <1>2, PartShrinks
<1>7. q >= e
  <2>1. T * (2 * e - 1) <= 2000 * z
    <3>1. CASE e + 20 <= 500
      <4>1. T * (2 * e - 1) <= 1021 * (2 * e - 1)  BY <1>1, <1>2 DEF Fit
      <4> QED BY <1>1, <1>2, <3>1, <4>1 DEF Fit
    <3>2. CASE e + 20 > 500
      <4> DEFINE g == 500 - e
      <4>1. g \in 0 .. 19 /\ e = 500 - g /\ z = 500 /\ T <= 1001 + g  BY <1>1, <3>2 DEF Fit
      <4>2. T * (2 * e - 1) <= (1001 + g) * (999 - 2 * g)  BY <1>2, <4>1
      <4>3. (1001 + g) * (999 - 2 * g) = 999999 - 1003 * g - 2 * (g * g) /\ g * g >= 0  BY <4>1
      <4> QED BY <1>1, <1>2, <4>1, <4>2, <4>3
    <3> QED BY <1>1, <3>1, <3>2
  <2> HIDE DEF T
  <2> QED BY <1>1, <1>2, <2>1, PartAtLeast
<1>8. p <= 598
  <2>1. CASE s <= 598
    <3> HIDE DEF p
    <3> QED BY <1>1, <1>4, <1>5, <2>1
  <2>2. CASE s = 599
    <3>1. T >= 1019  BY <2>2 DEF Fit
    <3>2. 2000 * s < T * (2 * 598 + 1)  BY <2>2, <3>1, <1>2
    <3> HIDE DEF T
    <3> QED BY <1>1, <1>2, <3>2, PartAtMost
  <2> QED BY <2>1, <2>2 DEF Fit
\* The new weights with a total of a thousand, and of one more.
<1>9. CASE T = 1000
  <2>1. p = s /\ q = z /\ r = y /\ z = 500
    <3>1. \A a \in Nat : a <= 1000 => Part(a, 1000) = a  BY PartNearWhole
    <3> QED BY <1>9, <3>1 DEF Fit
  <2>2. Fit(s, z, y) /\ z >= e
    BY <1>1, <1>2, <1>9, <2>1 DEF Fit
  <2> QED BY <2>1, <2>2
<1>10. CASE T = 1001
  <2>1. z = 500 /\ s <= 500 /\ y <= 200 /\ y < s /\ s + y = 501  BY <1>1, <1>2, <1>10 DEF Fit
  <2>2. p = s /\ q = z /\ r = y
    <3>1. \A a \in Nat : a <= 500 => Part(a, 1001) = a  BY PartNearWhole
    <3> QED BY <1>1, <1>10, <2>1, <3>1
  <2>3. Fit(s, z, y) /\ z >= e
    BY <1>1, <1>2, <1>10, <2>1 DEF Fit
  <2> QED BY <2>2, <2>3
<1>11. CASE T >= 1002
  <2>1. q <= 499
    <3>1. 2000 * z < T * (2 * 499 + 1)  BY <1>1, <1>2, <1>11
    <3> HIDE DEF T
    <3> QED BY <1>1, <1>2, <3>1, PartAtMost
  <2>2. 2 * r <= p + 99 \/ (2 * r <= p + 100 /\ p + q + r <= 1000)
    <3>1. CASE \/ 2 * y <= s + 98
               \/ 2 * y <= s + 99 /\ T >= 1006
               \/ 2 * y <= s + 100 /\ T >= 1016
      <4> HIDE DEF T
      <4>1. 2 * Part(y, T) <= Part(s, T) + 99  BY <1>1, <1>2, <3>1, EnergyFollows
      <4> QED BY <4>1
    <3>2. CASE 2 * y = s + 99 /\ T < 1006
      <4>1. z = 500 /\ s + y = T - 500  BY <1>1, <1>2, <3>2 DEF Fit
      <4>2. T = 1004 /\ y = 201 /\ s = 303  BY <1>1, <1>2, <1>11, <3>2, <4>1
      <4> QED BY <4>2 DEF Part, Rounded, Whole
    <3>3. CASE 2 * y = s + 100 /\ T < 1016
      <4>1. z = 500 /\ s + y = T - 500  BY <1>1, <1>2, <3>3 DEF Fit
      <4>2. \/ T = 1003 /\ y = 201 /\ s = 302
            \/ T = 1006 /\ y = 202 /\ s = 304
            \/ T = 1009 /\ y = 203 /\ s = 306
            \/ T = 1012 /\ y = 204 /\ s = 308
            \/ T = 1015 /\ y = 205 /\ s = 310
        BY <1>1, <1>2, <1>11, <3>3, <4>1
      <4> QED BY <4>1, <4>2 DEF Part, Rounded, Whole
    <3> QED BY <3>1, <3>2, <3>3 DEF Fit
  <2>3. Fit(p, q, r)
    <3> HIDE DEF p, q, r
    <3> QED BY <1>3, <1>4, <1>8, <2>1, <2>2 DEF Fit
  <2> QED BY <1>7, <2>3
<1> QED BY <1>2, <1>9, <1>10, <1>11

LessonsSpec == LessonsInit /\ [][LessonsNext]_lessonVars

WeightKinds == DOMAIN FirstWeights
Fields == DOMAIN Ready

LEMMA KindsAre == WeightKinds = {"safety", "efficiency", "energy"}
BY DEF WeightKinds, FirstWeights

LEMMA ThreeWeights ==
  ASSUME NEW w \in [WeightKinds -> Nat]
  PROVE  Sum(w) = w.safety + w.efficiency + w.energy
<1> DEFINE a == "safety"
           b == "efficiency"
           c == "energy"
<1>1. a # b /\ b # c /\ a # c /\ WeightKinds = {a, b, c}
  BY KindsAre
<1> HIDE DEF a, b, c
<1>2. w[a] \in Int /\ w[b] \in Int /\ w[c] \in Int
  BY <1>1
<1>3. Totals(w, {a, b, c})[{a, b, c}] = w[a] + w[b] + w[c]
  BY <1>1, <1>2, TotalOfThree
<1>4. Sum(w) = Totals(w, WeightKinds)[WeightKinds]
  <2>1. DOMAIN w = WeightKinds  OBVIOUS
  <2> QED BY <2>1, SumIs
<1> QED BY <1>1, <1>3, <1>4 DEF a, b, c

LEMMA SchooledAre ==
  ASSUME NEW w
  PROVE  Schooled(w) <=> w \in [WeightKinds -> 1 .. Whole] /\ Fit(w.safety, w.efficiency, w.energy)
<1>1. \A x \in [WeightKinds -> 1 .. Whole] : /\ x.safety \in 1 .. 1000
                                       /\ x.efficiency \in 1 .. 1000 /\ x.energy \in 1 .. 1000
  BY KindsAre DEF Whole
<1>2. ASSUME w \in [WeightKinds -> 1 .. Whole]
      PROVE  Schooled(w) <=> Fit(w.safety, w.efficiency, w.energy)
  <2> DEFINE s == w.safety
             e == w.efficiency
             y == w.energy
  <2>1. s \in 1 .. 1000 /\ e \in 1 .. 1000 /\ y \in 1 .. 1000
    BY <1>1, <1>2
  <2>2. Schooled(w) <=>
          /\ s <= 599 /\ e <= 500 /\ 2 * y <= s + 100
          /\ s + e + y \in 999 .. 1001
          /\ s + e + y < 1000 => s <= 598 /\ e <= 499
          /\ s + e + y > 1000 => 2 * y < s + 100
    BY <1>2 DEF Schooled, WeightKinds, Whole
  <2> HIDE DEF s, e, y
  <2>3. Schooled(w) <=> Fit(s, e, y)
    BY <2>1, <2>2 DEF Fit
  <2> QED BY <2>3 DEF s, e, y
<1>3. Schooled(w) => w \in [WeightKinds -> 1 .. Whole]
  BY DEF Schooled, WeightKinds
<1> QED BY <1>2, <1>3

LEMMA SafeEnough == ASSUME NEW w, Schooled(w) PROVE w.safety >= 300
<1>1. \A s, e, y : Fit(s, e, y) => s >= 300
  BY DEF Fit
<1> QED BY <1>1, SchooledAre

\* The weights once what a score teaches is raised.
RaisedBy(w, score) ==
  [k \in WeightKinds |->
     IF score >= 90 /\ k = "efficiency" THEN Min({500, w[k] + 20})
     ELSE IF ~(score >= 90) /\ score < 70 /\ k = "safety" THEN Min({600, w[k] + 50})
     ELSE w[k]]
Scaled(w) == [k \in WeightKinds |-> Rounded(Whole * w[k], Sum(w))]
TaughtFrom(before, w, score) == \A l \in Teaches(score) : w[l.key] >= before[l.key]

LEMMA LessonKept ==
  ASSUME NEW w, Schooled(w), NEW score
  PROVE  /\ RaisedBy(w, score) \in [WeightKinds -> Nat] /\ RaisedBy(w, score).safety >= 300
         /\ Sum(RaisedBy(w, score)) \in Nat \ {0}
         /\ Schooled(Scaled(RaisedBy(w, score)))
         /\ TaughtFrom(w, Scaled(RaisedBy(w, score)), score)
<1> DEFINE r == RaisedBy(w, score)
           s == w.safety
           e == w.efficiency
           y == w.energy
<1>1. w \in [WeightKinds -> 1 .. Whole] /\ Fit(s, e, y) /\ s \in Nat /\ e \in Nat /\ y \in Nat
  <2>1. w \in [WeightKinds -> 1 .. Whole] /\ Fit(s, e, y)
    BY SchooledAre
  <2>2. \A a, b, c : Fit(a, b, c) => a \in Nat /\ b \in Nat /\ c \in Nat
    BY DEF Fit
  <2> QED BY <2>1, <2>2
<1>2. w.safety >= 300
  BY SafeEnough
<1>3. /\ Min({500, e + 20}) = IF e + 20 <= 500 THEN e + 20 ELSE 500
      /\ Min({600, s + 50}) = IF s + 50 <= 600 THEN s + 50 ELSE 600
  <2>1. \A a, b \in Int : Min({a, b}) = IF a <= b THEN a ELSE b
    BY MinOfTwo
  <2>2. Min({500, e + 20}) = IF 500 <= e + 20 THEN 500 ELSE e + 20
    BY <1>1, <2>1
  <2>3. Min({600, s + 50}) = IF 600 <= s + 50 THEN 600 ELSE s + 50
    BY <1>1, <2>1
  <2> QED BY <1>1, <2>2, <2>3
<1> DEFINE s1 == IF ~(score >= 90) /\ score < 70 THEN (IF s + 50 <= 600 THEN s + 50 ELSE 600) ELSE s
           e1 == IF score >= 90 THEN (IF e + 20 <= 500 THEN e + 20 ELSE 500) ELSE e
<1>4. r.safety = s1 /\ r.efficiency = e1 /\ r.energy = y /\ DOMAIN r = WeightKinds
  BY <1>3, KindsAre DEF RaisedBy
<1>5. s1 \in Nat /\ s1 >= 300 /\ e1 \in Nat /\ y \in Nat /\ s1 + e1 + y \in Nat \ {0}
  BY <1>1, <1>2
<1>6. r \in [WeightKinds -> Nat] /\ r.safety >= 300
  <2>1. r = [k \in WeightKinds |-> r[k]]  BY DEF RaisedBy
  <2>2. \A k \in WeightKinds : r[k] \in Nat  BY <1>4, <1>5, KindsAre
  <2> QED BY <1>4, <1>5, <2>1, <2>2
<1> HIDE DEF r
<1> DEFINE T == s1 + e1 + y
           q == Scaled(r)
<1>7. Sum(r) = T /\ T \in Nat \ {0}
  BY <1>4, <1>5, <1>6, ThreeWeights
<1>8. /\ q.safety = Part(s1, T) /\ q.efficiency = Part(e1, T) /\ q.energy = Part(y, T)
      /\ q = [k \in WeightKinds |-> q[k]]
  BY <1>4, <1>7, KindsAre DEF Scaled, Part
<1> HIDE DEF q
<1>9. /\ Fit(Part(s1, T), Part(e1, T), Part(y, T))
      /\ score >= 90 => Part(e1, T) >= e
      /\ ~(score >= 90) /\ score < 70 => Part(s1, T) >= s
  <2>1. CASE score >= 90
    <3> DEFINE z == IF e + 20 <= 500 THEN e + 20 ELSE 500
    <3>1. s1 = s /\ e1 = z  BY <2>1
    <3>2. LET S == s + z + y IN Fit(Part(s, S), Part(z, S), Part(y, S)) /\ Part(z, S) >= e
      BY <1>1, GoodLessonKeeps
    <3> QED BY <2>1, <3>1, <3>2
  <2>2. CASE ~(score >= 90) /\ score < 70
    <3> DEFINE z == IF s + 50 <= 600 THEN s + 50 ELSE 600
    <3>1. s1 = z /\ e1 = e  BY <2>2
    <3>2. LET S == z + e + y IN Fit(Part(z, S), Part(e, S), Part(y, S)) /\ Part(z, S) >= s
      BY <1>1, BadLessonKeeps
    <3> QED BY <2>2, <3>1, <3>2
  <2>3. CASE ~(score >= 90) /\ ~(score < 70)
    <3>1. s1 = s /\ e1 = e  BY <2>3
    <3>2. LET S == s + e + y IN Fit(Part(s, S), Part(e, S), Part(y, S))
      BY <1>1, NoLessonKeeps
    <3> QED BY <2>3, <3>1, <3>2
  <2> QED BY <2>1, <2>2, <2>3
<1> HIDE DEF T, s1, e1
<1>10. Schooled(q)
  <2>1. Fit(q.safety, q.efficiency, q.energy)
    BY <1>8, <1>9
  <2>2. \A k \in WeightKinds : q[k] \in 1 .. Whole
    BY <2>1, KindsAre DEF Fit, Whole
  <2>3. q \in [WeightKinds -> 1 .. Whole]
    BY <1>8, <2>2
  <2> QED BY <2>1, <2>3, SchooledAre
<1>11. TaughtFrom(w, q, score)
  BY <1>8, <1>9 DEF TaughtFrom, Teaches, GoodScore, BadScore, NoLesson
<1> QED BY <1>6, <1>7, <1>10, <1>11 DEF r, q

-----------------------------------------------------------------------------
Past(t) == lesson[t].at \notin {"ready", "raise"}

\* What a thread has done of its lesson, as long as no two lessons met: the weights
\* before it, what it teaches and what it makes of them.
Under(t) ==
  LET before == last.before
  IN  /\ Schooled(before)
      /\ CASE lesson[t].at = "store" ->
                /\ learned = before /\ lesson[t].score = last.score
                /\ Teaches(last.score) # NoLesson
                /\ \A l \in Teaches(last.score) :
                     lesson[t].weight = Min({l.most, before[l.key] + l.step})
           [] lesson[t].at = "total" -> learned = RaisedBy(before, last.score)
           [] lesson[t].at = "scale" ->
                learned = RaisedBy(before, last.score) /\ lesson[t].total = Sum(learned)
           [] lesson[t].at = "replace" ->
                /\ learned = RaisedBy(before, last.score)
                /\ lesson[t].scaled = Scaled(learned)
           [] OTHER -> FALSE

LessonsForm ==
  /\ DOMAIN lesson = Pilots
  /\ \A t \in Pilots : DOMAIN lesson[t] = Fields

Alone ==
  /\ \A t, u \in Pilots : Past(t) /\ Past(u) => t = u
  /\ \A t \in Pilots : Past(t) => Under(t)
  /\ (\A t \in Pilots : ~Past(t)) => Schooled(learned) /\ TaughtFrom(last.before, learned, last.score)
  /\ learned \in [WeightKinds -> Nat] /\ learned.safety >= 300
  /\ \A t \in Pilots : lesson[t].at = "raise" => lesson[t].course >= 9000

LessonsInv == LessonsForm /\ (~met => Alone)

LEMMA FormIs == /\ Ready.at = "ready" /\ DOMAIN Ready = Fields
                /\ Fields = {"at", "score", "weight", "total", "course", "scaled"}
BY DEF Ready, Fields

\* What Advance does: the fields it names change, the others stay.
LEMMA AdvanceIs ==
  ASSUME LessonsForm, NEW t \in Pilots, NEW changes, Advance(t, changes)
  PROVE  /\ LessonsForm'
         /\ \A u \in Pilots : u # t => lesson'[u] = lesson[u]
         /\ \A k \in Fields : lesson'[t][k] = IF k \in DOMAIN changes THEN changes[k] ELSE lesson[t][k]
BY DEF LessonsForm, Advance, Applied

LEMMA SchooledWeights == ASSUME NEW w, Schooled(w) PROVE w \in [WeightKinds -> Nat] /\ w.safety >= 300 /\ Sum(w) \in 999 .. 1001
<1>1. w \in [WeightKinds -> 1 .. Whole] /\ Fit(w.safety, w.efficiency, w.energy)
  BY SchooledAre
<1>2. w \in [WeightKinds -> Nat]
  <2>1. \A k \in WeightKinds : w[k] \in Nat  BY <1>1, SMTT(30) DEF Whole
  <2> QED BY <1>1, <2>1
<1> QED BY <1>1, <1>2, SafeEnough, ThreeWeights DEF Fit

LEMMA FirstSchooled == Schooled(FirstWeights)
BY DEF Schooled, FirstWeights, Whole

LEMMA LessonsInitInv == ASSUME LessonsInit PROVE LessonsInv
<1>1. Schooled(learned)
  BY FirstSchooled, LearningAssumption DEF LessonsInit, LearningAssumption
<1>2. learned \in [WeightKinds -> Nat] /\ learned.safety >= 300
  BY <1>1, SchooledWeights
<1>3. TaughtFrom(last.before, learned, last.score)
  <2>1. Teaches(80) = {}  BY DEF Teaches, NoLesson
  <2> QED BY <2>1 DEF LessonsInit, TaughtFrom
<1>4. LessonsForm /\ \A t \in Pilots : lesson[t].at = "ready"
  BY FormIs DEF LessonsInit, LessonsForm
<1> QED BY <1>1, <1>2, <1>3, <1>4 DEF LessonsInv, Alone, Past

LEMMA PlanAndFlyKeeps ==
  ASSUME LessonsInv, NEW t \in Pilots, NEW altitude \in Heights, NEW score \in Results,
         PlanAndFly(t, altitude, score)
  PROVE  LessonsInv'
<1> DEFINE m == Max({1000 * altitude, 30 * learned.safety})
<1>1. /\ LessonsForm'
      /\ \A u \in Pilots : u # t => lesson'[u] = lesson[u]
      /\ lesson'[t].at = "raise" /\ lesson'[t].course = m
  <2>1. Advance(t, [at |-> "raise", score |-> score, course |-> m])
    BY DEF PlanAndFly
  <2> HIDE DEF m
  <2> QED BY <2>1, AdvanceIs, FormIs DEF LessonsInv
<1>2. UNCHANGED <<learned, met, last>> /\ lesson[t].at = "ready"
  BY DEF PlanAndFly
<1> HIDE DEF m
<1>3. SUFFICES ASSUME ~met, Alone PROVE Alone'
  BY <1>1, <1>2 DEF LessonsInv
<1>4. m >= 9000
  <2>1. 1000 * altitude \in Int /\ 30 * learned.safety \in Int /\ learned.safety >= 300
    BY <1>3, LearningAssumption, KindsAre DEF Alone, LearningAssumption
  <2>2. 30 * learned.safety >= 9000
    BY <1>3, <2>1, KindsAre DEF Alone
  <2> QED BY <2>1, <2>2, MaxOfTwo DEF m
<1>5. \A u \in Pilots : Past(u)' <=> Past(u)
  BY <1>1, <1>2 DEF Past
<1>6. \A u \in Pilots : Past(u) => lesson'[u] = lesson[u]
  BY <1>1, <1>2 DEF Past
<1> QED BY <1>1, <1>2, <1>3, <1>4, <1>5, <1>6 DEF Alone, Under

LEMMA RaiseKeeps ==
  ASSUME LessonsInv, NEW t \in Pilots, Raise(t)
  PROVE  LessonsInv'
<1>1. /\ LessonsForm'
      /\ \A u \in Pilots : u # t => lesson'[u] = lesson[u]
      /\ \/ lesson'[t].at = "total" /\ Teaches(lesson[t].score) = NoLesson
         \/ /\ lesson'[t].at = "store" /\ lesson'[t].score = lesson[t].score
            /\ \E l \in Teaches(lesson[t].score) :
                 lesson'[t].weight = Min({l.most, learned[l.key] + l.step})
  <2>1. CASE Teaches(lesson[t].score) = NoLesson
    <3>1. Advance(t, [at |-> "total", course |-> 0])
      BY <2>1 DEF Raise
    <3> QED BY <2>1, <3>1, AdvanceIs, FormIs DEF LessonsInv
  <2>2. CASE Teaches(lesson[t].score) # NoLesson
    <3>1. PICK l \in Teaches(lesson[t].score) :
            Advance(t, [at |-> "store", course |-> 0, weight |-> Min({l.most, learned[l.key] + l.step})])
      BY <2>2 DEF Raise
    <3> DEFINE m == Min({l.most, learned[l.key] + l.step})
    <3>2. Advance(t, [at |-> "store", course |-> 0, weight |-> m])  BY <3>1
    <3> HIDE DEF m
    <3>3. /\ LessonsForm' /\ \A u \in Pilots : u # t => lesson'[u] = lesson[u]
          /\ lesson'[t].at = "store" /\ lesson'[t].score = lesson[t].score /\ lesson'[t].weight = m
      BY <3>2, AdvanceIs, FormIs DEF LessonsInv
    <3> QED BY <3>3 DEF m
  <2> QED BY <2>1, <2>2
<1>2. /\ learned' = learned /\ last' = [score |-> lesson[t].score, before |-> learned]
      /\ met' = (met \/ \E u \in Pilots \ {t} : Past(u)) /\ lesson[t].at = "raise"
  BY DEF Raise, Past
<1>3. SUFFICES ASSUME ~met, Alone, \A u \in Pilots : u # t => ~Past(u) PROVE Alone'
  BY <1>1, <1>2 DEF LessonsInv
<1>4. Schooled(learned)
  BY <1>2, <1>3 DEF Alone, Past
<1>5. last'.before = learned /\ last'.score = lesson[t].score
  BY <1>2
<1>6. /\ Past(t)'
      /\ \A u \in Pilots : u # t => ~Past(u)'
  BY <1>1, <1>3 DEF Past
<1>7. Under(t)'
  <2>1. CASE lesson'[t].at = "total" /\ Teaches(lesson[t].score) = NoLesson
    <3>1. RaisedBy(learned, lesson[t].score) = learned
      <4>1. ~(lesson[t].score >= 90) /\ ~(lesson[t].score < 70)
        BY <2>1, ZenonT(60) DEF Teaches, NoLesson, GoodScore, BadScore
      <4> QED BY <1>3, <4>1 DEF RaisedBy, Alone
    <3> QED BY <1>2, <1>4, <1>5, <2>1, <3>1 DEF Under
  <2>2. CASE lesson'[t].at = "store" /\ lesson'[t].score = lesson[t].score
             /\ \E l \in Teaches(lesson[t].score) :
                  lesson'[t].weight = Min({l.most, learned[l.key] + l.step})
    <3>1. \A l, m \in Teaches(lesson[t].score) : l = m
      BY DEF Teaches, NoLesson, GoodScore, BadScore
    <3>2. /\ Teaches(lesson[t].score) # NoLesson
          /\ \A l \in Teaches(lesson[t].score) :
               lesson'[t].weight = Min({l.most, learned[l.key] + l.step})
      BY <2>2, <3>1 DEF NoLesson
    <3> QED BY <1>2, <1>4, <1>5, <2>2, <3>2 DEF Under
  <2> QED BY <1>1, <2>1, <2>2
<1>8. /\ \A u, v \in Pilots : Past(u)' /\ Past(v)' => u = v
      /\ \A u \in Pilots : Past(u)' => Under(u)'
      /\ ~\A u \in Pilots : ~Past(u)'
  BY <1>6, <1>7
<1>9. learned' \in [WeightKinds -> Nat] /\ learned'.safety >= 300
  BY <1>2, <1>3 DEF Alone
<1>10. \A u \in Pilots : lesson'[u].at = "raise" => lesson'[u].course >= 9000
  BY <1>1, <1>3 DEF Alone
<1> QED BY <1>8, <1>9, <1>10 DEF Alone

LEMMA StoreKeeps ==
  ASSUME LessonsInv, NEW t \in Pilots, Store(t)
  PROVE  LessonsInv'
<1>1. /\ LessonsForm'
      /\ \A u \in Pilots : u # t => lesson'[u] = lesson[u]
      /\ lesson'[t].at = "total"
  <2>1. Advance(t, [at |-> "total", weight |-> 0])
    BY DEF Store
  <2> QED BY <2>1, AdvanceIs, FormIs DEF LessonsInv
<1>2. UNCHANGED <<met, last>> /\ lesson[t].at = "store"
  BY DEF Store
<1>3. SUFFICES ASSUME ~met, Alone PROVE Alone'
  BY <1>1, <1>2 DEF LessonsInv
<1>4. /\ \A u \in Pilots : Past(u)' <=> Past(u)
      /\ \A u \in Pilots : Past(u) => u = t
      /\ Past(t)
  BY <1>1, <1>2, <1>3 DEF Alone, Past
<1>5. /\ Schooled(last.before) /\ learned = last.before /\ lesson[t].score = last.score
      /\ \A l \in Teaches(last.score) : lesson[t].weight = Min({l.most, last.before[l.key] + l.step})
      /\ Teaches(last.score) # NoLesson
  BY <1>2, <1>3, <1>4 DEF Alone, Under
<1>6. learned' = RaisedBy(last.before, last.score)
  <2>1. PICK l \in Teaches(last.score) :
          learned' = [last.before EXCEPT ![l.key] = Min({l.most, last.before[l.key] + l.step})]
    BY <1>5 DEF Store
  <2>2. DOMAIN last.before = WeightKinds
    BY <1>5, SchooledWeights
  <2>3. CASE last.score >= 90
    <3>1. l = [key |-> "efficiency", step |-> 20, most |-> 500]
      BY <2>1, <2>3 DEF Teaches, GoodScore
    <3>2. learned' = [k \in WeightKinds |-> IF k = "efficiency" THEN Min({500, last.before[k] + 20})
                                            ELSE last.before[k]]
      <4>1. l.key = "efficiency" /\ l.step = 20 /\ l.most = 500  BY <3>1
      <4>2. learned' = [last.before EXCEPT !["efficiency"] = Min({500, last.before["efficiency"] + 20})]
        BY <2>1, <4>1
      <4> QED BY <2>2, <4>2, ZenonT(60)
    <3>3. RaisedBy(last.before, last.score) =
            [k \in WeightKinds |-> IF k = "efficiency" THEN Min({500, last.before[k] + 20})
                                   ELSE last.before[k]]
      BY <2>3 DEF RaisedBy
    <3> QED BY <3>2, <3>3
  <2>4. CASE ~(last.score >= 90)
    <3>1. l = [key |-> "safety", step |-> 50, most |-> 600] /\ last.score < 70
      BY <2>1, <2>4 DEF Teaches, BadScore, NoLesson
    <3>2. learned' = [k \in WeightKinds |-> IF k = "safety" THEN Min({600, last.before[k] + 50})
                                            ELSE last.before[k]]
      <4>1. l.key = "safety" /\ l.step = 50 /\ l.most = 600  BY <3>1
      <4>2. learned' = [last.before EXCEPT !["safety"] = Min({600, last.before["safety"] + 50})]
        BY <2>1, <4>1
      <4> QED BY <2>2, <4>2, ZenonT(60)
    <3>3. RaisedBy(last.before, last.score) =
            [k \in WeightKinds |-> IF k = "safety" THEN Min({600, last.before[k] + 50})
                                   ELSE last.before[k]]
      BY <2>4, <3>1 DEF RaisedBy
    <3> QED BY <3>2, <3>3
  <2> QED BY <2>3, <2>4
<1>7. Under(t)'
  BY <1>1, <1>2, <1>5, <1>6 DEF Under
<1>8. learned' \in [WeightKinds -> Nat] /\ learned'.safety >= 300
  BY <1>5, <1>6, LessonKept
<1>9. \A u \in Pilots : lesson'[u].at = "raise" => lesson'[u].course >= 9000
  BY <1>1, <1>3 DEF Alone
<1> QED BY <1>4, <1>7, <1>8, <1>9 DEF Alone

LEMMA TotalKeeps ==
  ASSUME LessonsInv, NEW t \in Pilots, Total(t)
  PROVE  LessonsInv'
<1>2. UNCHANGED <<learned, met, last>> /\ lesson[t].at = "total"
  BY DEF Total
<1>1. /\ LessonsForm'
      /\ \A u \in Pilots : u # t => lesson'[u] = lesson[u]
      /\ Sum(learned) > 0 => lesson'[t].at = "scale" /\ lesson'[t].total = Sum(learned)
  <2> DEFINE n == Sum(learned)
  <2>1. CASE n > 0
    <3>1. Advance(t, [at |-> "scale", score |-> 0, total |-> n])
      BY <2>1 DEF Total
    <3> HIDE DEF n
    <3>2. /\ LessonsForm' /\ \A u \in Pilots : u # t => lesson'[u] = lesson[u]
          /\ lesson'[t].at = "scale" /\ lesson'[t].total = n
      BY <3>1, AdvanceIs, FormIs DEF LessonsInv
    <3> QED BY <3>2 DEF n
  <2>2. CASE ~(n > 0)
    <3>1. Advance(t, Ready)
      BY <2>2 DEF Total
    <3> QED BY <2>2, <3>1, AdvanceIs DEF LessonsInv
  <2> QED BY <2>1, <2>2
<1>3. SUFFICES ASSUME ~met, Alone PROVE Alone'
  BY <1>1, <1>2 DEF LessonsInv
<1>5. Past(t) /\ Schooled(last.before) /\ learned = RaisedBy(last.before, last.score)
      /\ \A u \in Pilots : Past(u) => u = t
  BY <1>2, <1>3 DEF Alone, Under, Past
<1>6. Sum(learned) \in Nat \ {0}
  BY <1>5, LessonKept
<1>7. lesson'[t].at = "scale" /\ lesson'[t].total = Sum(learned)
  BY <1>1, <1>6
<1>4. \A u \in Pilots : Past(u)' <=> Past(u)
  BY <1>1, <1>2, <1>7 DEF Past
<1>8. Under(t)'
  <2>1. Sum(learned)' = Sum(learned)  BY <1>2
  <2> QED BY <1>2, <1>5, <1>7, <2>1 DEF Under
<1>9. \A u \in Pilots : lesson'[u].at = "raise" => lesson'[u].course >= 9000
  BY <1>1, <1>3, <1>7 DEF Alone
<1>10. learned' \in [WeightKinds -> Nat] /\ learned'.safety >= 300
  BY <1>2, <1>3 DEF Alone
<1> QED BY <1>4, <1>5, <1>8, <1>9, <1>10 DEF Alone

LEMMA ScaleKeeps ==
  ASSUME LessonsInv, NEW t \in Pilots, Scale(t)
  PROVE  LessonsInv'
<1> DEFINE n == [k \in DOMAIN learned |-> Rounded(Whole * learned[k], lesson[t].total)]
<1>1. /\ LessonsForm'
      /\ \A u \in Pilots : u # t => lesson'[u] = lesson[u]
      /\ lesson'[t].at = "replace" /\ lesson'[t].scaled = n
  <2>1. Advance(t, [at |-> "replace", total |-> 0, scaled |-> n])
    BY DEF Scale
  <2> HIDE DEF n
  <2> QED BY <2>1, AdvanceIs, FormIs DEF LessonsInv
<1>2. UNCHANGED <<learned, met, last>> /\ lesson[t].at = "scale"
  BY DEF Scale
<1>3. SUFFICES ASSUME ~met, Alone PROVE Alone'
  BY <1>1, <1>2 DEF LessonsInv
<1>4. /\ \A u \in Pilots : Past(u)' <=> Past(u)
      /\ \A u \in Pilots : Past(u) => u = t
      /\ Past(t)
  BY <1>1, <1>2, <1>3 DEF Alone, Past
<1>5. /\ Schooled(last.before) /\ learned = RaisedBy(last.before, last.score)
      /\ lesson[t].total = Sum(learned)
  BY <1>2, <1>3, <1>4 DEF Alone, Under
<1>6. n = Scaled(learned)
  BY <1>3, <1>5 DEF Scaled, Alone
<1> HIDE DEF n
<1>7. Under(t)'
  <2>1. Scaled(learned)' = Scaled(learned)  BY <1>2
  <2> QED BY <1>1, <1>2, <1>5, <1>6, <2>1 DEF Under
<1>8. learned' \in [WeightKinds -> Nat] /\ learned'.safety >= 300
  BY <1>2, <1>3 DEF Alone
<1>9. \A u \in Pilots : lesson'[u].at = "raise" => lesson'[u].course >= 9000
  BY <1>1, <1>3 DEF Alone
<1> QED BY <1>4, <1>7, <1>8, <1>9 DEF Alone

LEMMA ReplaceKeeps ==
  ASSUME LessonsInv, NEW t \in Pilots, Replace(t)
  PROVE  LessonsInv'
<1>1. /\ LessonsForm'
      /\ \A u \in Pilots : u # t => lesson'[u] = lesson[u]
      /\ lesson'[t].at = "ready"
  <2>1. Advance(t, Ready)
    BY DEF Replace
  <2> QED BY <2>1, AdvanceIs, FormIs DEF LessonsInv
<1>2. UNCHANGED <<met, last>> /\ lesson[t].at = "replace" /\ learned' = lesson[t].scaled
  BY DEF Replace
<1>3. SUFFICES ASSUME ~met, Alone PROVE Alone'
  BY <1>1, <1>2 DEF LessonsInv
<1>4. Past(t) /\ \A u \in Pilots : ~Past(u)'
  BY <1>1, <1>2, <1>3 DEF Alone, Past
<1>5. /\ Schooled(last.before) /\ learned' = Scaled(RaisedBy(last.before, last.score))
  BY <1>2, <1>3, <1>4 DEF Alone, Under
<1>6. Schooled(learned') /\ TaughtFrom(last.before, learned', last.score)
  BY <1>5, LessonKept
<1>7. learned' \in [WeightKinds -> Nat] /\ learned'.safety >= 300
  BY <1>6, SchooledWeights
<1>8. Schooled(learned)' /\ TaughtFrom(last.before, learned, last.score)'
  BY <1>2, <1>6 DEF Schooled, TaughtFrom
<1>9. \A u \in Pilots : lesson'[u].at = "raise" => lesson'[u].course >= 9000
  BY <1>1, <1>3 DEF Alone
<1> QED BY <1>4, <1>7, <1>8, <1>9 DEF Alone

LEMMA LessonsStepKeeps ==
  ASSUME LessonsInv, [LessonsNext]_lessonVars
  PROVE  LessonsInv'
<1>1. CASE UNCHANGED lessonVars
  BY <1>1 DEF lessonVars, LessonsInv, LessonsForm, Alone, Past, Under, TaughtFrom, Schooled
<1>2. CASE LessonsNext
  BY <1>2, PlanAndFlyKeeps, RaiseKeeps, StoreKeeps, TotalKeeps, ScaleKeeps, ReplaceKeeps DEF LessonsNext
<1> QED BY <1>1, <1>2

LEMMA LessonsInvTaken == ASSUME LessonsInv PROVE LessonsTaken
<1>1. SUFFICES ASSUME \A t \in Pilots : lesson[t].at \in {"ready", "raise"}, ~met
               PROVE  /\ Sum(learned) \in Whole - 1 .. Whole + 1
                      /\ \A l \in Teaches(last.score) : learned[l.key] >= last.before[l.key]
                      /\ \A t \in Pilots : lesson[t].at = "raise" => lesson[t].course >= 9000
  BY DEF LessonsTaken
<1>2. Schooled(learned) /\ TaughtFrom(last.before, learned, last.score)
      /\ \A t \in Pilots : lesson[t].at = "raise" => lesson[t].course >= 9000
  BY <1>1 DEF LessonsInv, Alone, Past
<1>3. Sum(learned) \in Whole - 1 .. Whole + 1
  BY <1>2, SchooledWeights DEF Whole
<1> QED BY <1>2, <1>3 DEF TaughtFrom

\* As long as no two lessons meet, each leaves weights that make up a whole to one
\* thousandth and does not take back what it teaches, and no flight is planned below
\* 9 m, however many lessons there are (planner.py:215-240).
THEOREM LessonsStay == LessonsSpec => []LessonsTaken
<1>1. LessonsInit => LessonsInv  BY LessonsInitInv
<1>2. LessonsInv /\ [LessonsNext]_lessonVars => LessonsInv'  BY LessonsStepKeeps
<1>3. LessonsInv => LessonsTaken  BY LessonsInvTaken
<1> QED BY <1>1, <1>2, <1>3, PTL DEF LessonsSpec

\* The steps of a lesson, with any number of lessons inside each other.
LessonTypes(t) ==
  /\ lesson[t].at \in {"ready", "raise", "store", "total", "scale", "replace"}
  /\ lesson[t].weight \in Nat
  /\ lesson[t].total \in Nat
  /\ lesson[t].at = "scale" => lesson[t].total > 0
  /\ lesson[t].scaled \in [WeightKinds -> Nat]

LessonsTypes ==
  /\ LessonsForm
  /\ learned \in [WeightKinds -> Nat]
  /\ \A t \in Pilots : LessonTypes(t)

LEMMA LessonTaught ==
  ASSUME NEW score, NEW l \in Teaches(score)
  PROVE  l.key \in WeightKinds /\ l.step \in Nat /\ l.most \in Nat
BY KindsAre DEF Teaches, NoLesson, GoodScore, BadScore

LEMMA LessonsTypedInitially == LessonsInit => LessonsTypes
<1> SUFFICES ASSUME LessonsInit PROVE LessonsTypes  OBVIOUS
<1>1. LessonsForm  BY LessonsInitInv DEF LessonsInv
<1>2. learned \in [WeightKinds -> Nat]
  BY FirstSchooled, SchooledWeights, LearningAssumption DEF LessonsInit, LearningAssumption
<1>3. FirstWeights \in [WeightKinds -> Nat]  BY FirstSchooled, SchooledWeights
<1>4. \A t \in Pilots : lesson[t] = Ready  BY DEF LessonsInit
<1>5. Ready.at = "ready" /\ Ready.weight = 0 /\ Ready.total = 0 /\ Ready.scaled = FirstWeights
  BY DEF Ready
<1> QED BY <1>1, <1>2, <1>3, <1>4, <1>5 DEF LessonsTypes, LessonTypes

\* A step of a thread, from the types of what it changes.
LEMMA LessonStep ==
  ASSUME LessonsTypes, NEW t \in Pilots, NEW changes, Advance(t, changes),
         learned' \in [WeightKinds -> Nat],
         "at" \in DOMAIN changes,
         changes.at \in {"ready", "raise", "store", "total", "scale", "replace"},
         "weight" \in DOMAIN changes => changes.weight \in Nat,
         "total" \in DOMAIN changes => changes.total \in Nat,
         changes.at = "scale" => "total" \in DOMAIN changes /\ changes.total > 0,
         "scaled" \in DOMAIN changes => changes.scaled \in [WeightKinds -> Nat]
  PROVE  LessonsTypes'
<1>1. /\ LessonsForm'
      /\ \A u \in Pilots : u # t => lesson'[u] = lesson[u]
      /\ \A k \in Fields : lesson'[t][k] = IF k \in DOMAIN changes THEN changes[k] ELSE lesson[t][k]
  BY AdvanceIs DEF LessonsTypes
<1>2. /\ lesson'[t].at = changes.at
      /\ lesson'[t].weight = IF "weight" \in DOMAIN changes THEN changes.weight ELSE lesson[t].weight
      /\ lesson'[t].total = IF "total" \in DOMAIN changes THEN changes.total ELSE lesson[t].total
      /\ lesson'[t].scaled = IF "scaled" \in DOMAIN changes THEN changes.scaled ELSE lesson[t].scaled
  BY <1>1, FormIs
<1>3. LessonTypes(t)  BY DEF LessonsTypes
<1>4. LessonTypes(t)'  BY <1>2, <1>3 DEF LessonTypes
<1>5. \A u \in Pilots : u # t => LessonTypes(u)'  BY <1>1 DEF LessonsTypes, LessonTypes
<1> QED BY <1>1, <1>4, <1>5 DEF LessonsTypes

LEMMA LessonsTypedStep ==
  ASSUME LessonsTypes, [LessonsNext]_lessonVars
  PROVE  LessonsTypes'
<1>a. /\ learned \in [WeightKinds -> Nat]
      /\ \A t \in Pilots : LessonTypes(t)
  BY DEF LessonsTypes
<1>b. \A k \in WeightKinds : learned[k] \in Nat  BY <1>a
<1>1. ASSUME NEW t \in Pilots, NEW altitude \in Heights, NEW score \in Results,
             PlanAndFly(t, altitude, score)
      PROVE  LessonsTypes'
  <2> DEFINE m == Max({1000 * altitude, 30 * learned.safety})
             c == [at |-> "raise", score |-> score, course |-> m]
  <2>1. Advance(t, c) /\ learned' = learned  BY <1>1 DEF PlanAndFly
  <2>2. DOMAIN c = {"at", "score", "course"} /\ c.at = "raise"  OBVIOUS
  <2> HIDE DEF c
  <2> QED BY <1>a, <2>1, <2>2, LessonStep
<1>2. ASSUME NEW t \in Pilots, Raise(t)  PROVE LessonsTypes'
  <2>1. learned' = learned  BY <1>2 DEF Raise
  <2>2. CASE Teaches(lesson[t].score) = NoLesson
    <3> DEFINE c == [at |-> "total", course |-> 0]
    <3>1. Advance(t, c)  BY <1>2, <2>2 DEF Raise
    <3>2. DOMAIN c = {"at", "course"} /\ c.at = "total"  OBVIOUS
    <3> HIDE DEF c
    <3> QED BY <1>a, <2>1, <3>1, <3>2, LessonStep
  <2>3. CASE Teaches(lesson[t].score) # NoLesson
    <3>1. PICK l \in Teaches(lesson[t].score) :
            Advance(t, [at |-> "store", course |-> 0, weight |-> Min({l.most, learned[l.key] + l.step})])
      BY <1>2, <2>3 DEF Raise
    <3> DEFINE m == Min({l.most, learned[l.key] + l.step})
               c == [at |-> "store", course |-> 0, weight |-> m]
    <3>2. m \in Nat
      <4>1. l.most \in Nat /\ learned[l.key] + l.step \in Nat
        BY <1>b, LessonTaught
      <4> QED BY <4>1, MinOfTwo
    <3>3. Advance(t, c)  BY <3>1
    <3> HIDE DEF m
    <3>4. DOMAIN c = {"at", "course", "weight"} /\ c.at = "store" /\ c.weight = m  OBVIOUS
    <3> HIDE DEF c
    <3> QED BY <1>a, <2>1, <3>2, <3>3, <3>4, LessonStep
  <2> QED BY <2>2, <2>3
<1>3. ASSUME NEW t \in Pilots, Store(t)  PROVE LessonsTypes'
  <2> DEFINE c == [at |-> "total", weight |-> 0]
  <2>1. learned' \in [WeightKinds -> Nat]
    <3>1. PICK l \in Teaches(lesson[t].score) : learned' = [learned EXCEPT ![l.key] = lesson[t].weight]
      BY <1>3 DEF Store
    <3>2. lesson[t].weight \in Nat  BY <1>a DEF LessonTypes
    <3> QED BY <1>a, <3>1, <3>2
  <2>2. Advance(t, c)  BY <1>3 DEF Store
  <2>3. DOMAIN c = {"at", "weight"} /\ c.at = "total" /\ c.weight = 0  OBVIOUS
  <2> HIDE DEF c
  <2> QED BY <2>1, <2>2, <2>3, LessonStep
<1>4. ASSUME NEW t \in Pilots, Total(t)  PROVE LessonsTypes'
  <2>1. learned' = learned  BY <1>4 DEF Total
  <2> DEFINE n == Sum(learned)
  <2>2. n \in Nat
    BY <1>a, <1>b, ThreeWeights, KindsAre
  <2>3. CASE n > 0
    <3> DEFINE c == [at |-> "scale", score |-> 0, total |-> n]
    <3>1. Advance(t, c)  BY <1>4, <2>3 DEF Total
    <3> HIDE DEF n
    <3>2. DOMAIN c = {"at", "score", "total"} /\ c.at = "scale" /\ c.total = n  OBVIOUS
    <3> HIDE DEF c
    <3> QED BY <1>a, <2>1, <2>2, <2>3, <3>1, <3>2, LessonStep
  <2>4. CASE ~(n > 0)
    <3>1. Advance(t, Ready)  BY <1>4, <2>4 DEF Total
    <3>2. Ready.at = "ready" /\ Ready.weight = 0 /\ Ready.total = 0
          /\ Ready.scaled \in [WeightKinds -> Nat] /\ "at" \in DOMAIN Ready
      BY FirstSchooled, SchooledWeights DEF Ready
    <3> QED BY <1>a, <2>1, <3>1, <3>2, LessonStep
  <2> QED BY <2>3, <2>4
<1>5. ASSUME NEW t \in Pilots, Scale(t)  PROVE LessonsTypes'
  <2> DEFINE n == [k \in DOMAIN learned |-> Rounded(Whole * learned[k], lesson[t].total)]
             c == [at |-> "replace", total |-> 0, scaled |-> n]
  <2>1. Advance(t, c) /\ learned' = learned  BY <1>5 DEF Scale
  <2>2. lesson[t].total \in Nat \ {0}  BY <1>5, <1>a DEF Scale, LessonTypes
  <2>3. n \in [WeightKinds -> Nat]
    <3>1. \A k \in WeightKinds : Part(learned[k], lesson[t].total) \in Nat
      BY <1>b, <2>2, PartTyped
    <3> QED BY <1>a, <3>1 DEF Part
  <2> HIDE DEF n
  <2>4. DOMAIN c = {"at", "total", "scaled"} /\ c.at = "replace" /\ c.total = 0 /\ c.scaled = n
    OBVIOUS
  <2> HIDE DEF c
  <2> QED BY <1>a, <2>1, <2>3, <2>4, LessonStep
<1>6. ASSUME NEW t \in Pilots, Replace(t)  PROVE LessonsTypes'
  <2>1. Advance(t, Ready) /\ learned' = lesson[t].scaled  BY <1>6 DEF Replace
  <2>2. Ready.at = "ready" /\ Ready.weight = 0 /\ Ready.total = 0
        /\ Ready.scaled \in [WeightKinds -> Nat] /\ "at" \in DOMAIN Ready
    BY FirstSchooled, SchooledWeights DEF Ready
  <2>3. learned' \in [WeightKinds -> Nat]  BY <1>a, <2>1 DEF LessonTypes
  <2> QED BY <2>1, <2>2, <2>3, LessonStep
<1>7. CASE UNCHANGED lessonVars
  BY <1>7 DEF lessonVars, LessonsTypes, LessonsForm, LessonTypes
<1> QED BY <1>1, <1>2, <1>3, <1>4, <1>5, <1>6, <1>7 DEF LessonsNext

LEMMA LearningTyped == LessonsSpec /\ RoundsSpec => []LearningTypeOK
<1>1. LessonsInit => LessonsTypes  BY LessonsTypedInitially
<1>2. LessonsTypes /\ [LessonsNext]_lessonVars => LessonsTypes'  BY LessonsTypedStep
<1>3. RoundsInit => RoundsInv  BY RoundsInitInv
<1>4. RoundsInv /\ [RoundsNext]_roundVars => RoundsInv'  BY RoundsStepKeeps
<1>5. LessonsTypes /\ RoundsInv => LearningTypeOK
  BY DEF LessonsTypes, LessonTypes, RoundsInv, LearningTypeOK, WeightKinds, Weights
<1> QED BY <1>1, <1>2, <1>3, <1>4, <1>5, PTL DEF LessonsSpec, RoundsSpec

-----------------------------------------------------------------------------
(* Drone connections, however many panels connect at a time *)

\* The average battery of a recording is a percentage if each reading is.
LEMMA AverageIsPercent ==
  ASSUME Batteries \subseteq 0 .. 100, NEW l,
         l.frames \in Seq([place : Places, battery : Batteries])
  PROVE  AverageBattery(l) \in 0 .. 100
<1>1. CASE l.frames = << >>  BY <1>1 DEF AverageBattery
<1>2. CASE l.frames # << >>
  <2> DEFINE v == [i \in DOMAIN l.frames |-> l.frames[i].battery]
             n == Len(l.frames)
  <2>1. n \in Nat \ {0} /\ DOMAIN l.frames = 1 .. n  BY <1>2
  <2>2. DOMAIN v = 1 .. n /\ \A i \in 1 .. n : v[i] \in 0 .. 100
    <3> DEFINE S == [place : Places, battery : Batteries]
    <3>1. \A f \in S : f.battery \in 0 .. 100  OBVIOUS
    <3>a. l.frames \in Seq(S)  OBVIOUS
    <3> HIDE DEF S, v
    <3>2. \A i \in 1 .. n : l.frames[i] \in S  BY <2>1, <3>a
    <3> USE DEF v
    <3> QED BY <2>1, <3>1, <3>2
  <2>3. IsFiniteSet(1 .. n) /\ Cardinality(1 .. n) = n
    <3>1. \A k \in Nat : IsFiniteSet(1 .. k) /\ Cardinality(1 .. k) = k
      BY FS_Interval
    <3> QED BY <2>1, <3>1
  <2>4. AverageBattery(l) = SumFunction(v) \div n
    BY <1>2 DEF AverageBattery
  <2> HIDE DEF v, n
  <2>5. SumFunction(v) = Totals(v, 1 .. n)[1 .. n]
    BY <2>2, SumFunctionIs
  <2>6. SumFunction(v) \in 0 .. 100 * n
    <3>1. Totals(v, 1 .. n)[1 .. n] \in 0 .. 100 * Cardinality(1 .. n)
      BY <2>2, <2>3, TotalOfPercents
    <3> QED BY <2>3, <2>5, <3>1
  <2>7. \A a \in 0 .. 100 * n : a \div n \in 0 .. 100
    BY <2>1
  <2> QED BY <2>4, <2>6, <2>7
<1> QED BY <1>1, <1>2

\* What is true of the connectors however many panels connect at a time.
LinkForm ==
  /\ LinkTypes
  /\ \A l \in Links : link[l].ros => l <= madeLinks /\ link[l].kind = "ros2"
  /\ \A r \in Flyers : serving[r].at \in {"connect", "record"} => serving[r].link \in 1 .. madeLinks
  /\ \A p \in Panels : serving[p].at = "connect" => current # NoLink
  /\ \A p \in Panels : serving[p].at # "record"

LEMMA ConnectorChanges ==
  ASSUME LinkForm, NEW n \in Links, NEW l \in Connector,
         madeLinks' \in madeLinks .. MaxLinks, l.ros => n <= madeLinks' /\ l.kind = "ros2",
         link' = [link EXCEPT ![n] = l]
  PROVE  /\ link' \in [Links -> Connector]
         /\ \A m \in Links : link'[m].ros => m <= madeLinks' /\ link'[m].kind = "ros2"
BY DroneLinkAssumption DEF LinkForm, LinkTypes, Links

LEMMA RequestChanges ==
  ASSUME LinkForm, NEW r \in Requests, NEW s \in Served, serving' = [serving EXCEPT ![r] = s],
         madeLinks' \in madeLinks .. MaxLinks,
         r \in Flyers /\ s.at \in {"connect", "record"} => s.link \in 1 .. madeLinks',
         r \in Panels => s.at # "record" /\ (s.at = "connect" => current' # NoLink),
         current' = NoLink => current = NoLink
  PROVE  /\ serving' \in [Requests -> Served]
         /\ \A q \in Flyers : serving'[q].at \in {"connect", "record"} =>
                                serving'[q].link \in 1 .. madeLinks'
         /\ \A p \in Panels : serving'[p].at = "connect" => current' # NoLink
         /\ \A p \in Panels : serving'[p].at # "record"
BY DroneLinkAssumption DEF LinkForm, LinkTypes, Requests

LEMMA FlyerSteps ==
  ASSUME LinkForm, NEW r \in Flyers,
         \/ \E kind \in Kinds : RequestFlight(r, kind)
         \/ ConnectFlight(r)
         \/ \E place \in Places, battery \in Batteries : Poll(r, place, battery)
         \/ RecordingFails(r)
         \/ RecordingEnds(r)
  PROVE  LinkForm'
<1> USE DroneLinkAssumption
<1>a. /\ r \in Requests /\ serving[r] \in Served /\ madeLinks \in 0 .. MaxLinks
      /\ current \in 0 .. madeLinks /\ MaxLinks \in Nat
  BY DEF LinkForm, LinkTypes, Requests
<1>b. ASSUME serving[r].at \in {"connect", "record"}
      PROVE  serving[r].link \in Links /\ serving[r].link <= madeLinks
  BY <1>a, <1>b DEF LinkForm, Links
<1>1. ASSUME NEW kind \in Kinds, RequestFlight(r, kind)  PROVE LinkForm'
  <2> DEFINE n == madeLinks + 1
             l == [link[n] EXCEPT !.kind = kind]
             s == [at |-> "connect", link |-> n]
  <2>1. n \in Links /\ madeLinks' = n /\ UNCHANGED current
    BY <1>1, <1>a DEF RequestFlight, Made, Links
  <2>2. l \in Connector /\ ~l.ros
    <3>1. link[n] \in Connector /\ ~link[n].ros
      BY <1>a, <2>1 DEF LinkForm, LinkTypes
    <3> QED BY <3>1 DEF Connector
  <2>3. s \in Served /\ s.at = "connect" /\ s.link = n  BY <1>a DEF Served
  <2>4. link' = [link EXCEPT ![n] = l] /\ serving' = [serving EXCEPT ![r] = s]
    BY <1>1 DEF RequestFlight, Made
  <2>5. madeLinks' \in madeLinks .. MaxLinks /\ n \in 1 .. madeLinks' /\ madeLinks' \in 0 .. MaxLinks
        /\ current' \in 0 .. madeLinks'
    BY <1>a, <2>1 DEF Links
  <2>6. r \notin Panels  OBVIOUS
  <2> HIDE DEF n, l, s
  <2>7. /\ link' \in [Links -> Connector]
        /\ \A m \in Links : link'[m].ros => m <= madeLinks' /\ link'[m].kind = "ros2"
    BY <2>1, <2>2, <2>4, <2>5, ConnectorChanges
  <2>8. /\ serving' \in [Requests -> Served]
        /\ \A q \in Flyers : serving'[q].at \in {"connect", "record"} =>
                               serving'[q].link \in 1 .. madeLinks'
        /\ \A p \in Panels : serving'[p].at = "connect" => current' # NoLink
        /\ \A p \in Panels : serving'[p].at # "record"
    BY <1>a, <2>1, <2>3, <2>4, <2>5, <2>6, RequestChanges
  <2> QED BY <2>5, <2>7, <2>8 DEF LinkForm, LinkTypes
\* A step of a flight on its own connector.
<1>c. ASSUME serving[r].at \in {"connect", "record"}, NEW l \in Connector,
             l.ros => l.kind = "ros2",
             link' = [link EXCEPT ![serving[r].link] = l], NEW s \in Served,
             s.at \in {"connect", "record"} => s.link = serving[r].link,
             serving' = [serving EXCEPT ![r] = s], UNCHANGED <<madeLinks, current>>
      PROVE  LinkForm'
  <2>1. serving[r].link \in Links /\ serving[r].link <= madeLinks  BY <1>b, <1>c
  <2>2. madeLinks' \in madeLinks .. MaxLinks /\ madeLinks' \in 0 .. MaxLinks /\ current' \in 0 .. madeLinks'
        /\ serving[r].link \in 1 .. madeLinks' /\ r \notin Panels
    BY <1>a, <1>c, <2>1 DEF Links
  <2>3. /\ link' \in [Links -> Connector]
        /\ \A m \in Links : link'[m].ros => m <= madeLinks' /\ link'[m].kind = "ros2"
    BY <1>c, <2>1, <2>2, ConnectorChanges
  <2>4. /\ serving' \in [Requests -> Served]
        /\ \A q \in Flyers : serving'[q].at \in {"connect", "record"} =>
                               serving'[q].link \in 1 .. madeLinks'
        /\ \A p \in Panels : serving'[p].at = "connect" => current' # NoLink
        /\ \A p \in Panels : serving'[p].at # "record"
    BY <1>a, <1>c, <2>2, RequestChanges
  <2> QED BY <2>2, <2>3, <2>4 DEF LinkForm, LinkTypes
<1> DEFINE n == serving[r].link
<1>d. ASSUME serving[r].at \in {"connect", "record"}
      PROVE  link[n] \in Connector /\ (link[n].ros => link[n].kind = "ros2")
  BY <1>b, <1>d DEF LinkForm, LinkTypes
<1>2. CASE ConnectFlight(r)
  <2>1. serving[r].at = "connect" /\ n \in Links  BY <1>2, <1>b DEF ConnectFlight
  <2>2. PICK opening \in Outcomes(link[n].kind) : link' = [link EXCEPT ![n] = Opened(@, opening)]
    BY <1>2 DEF ConnectFlight
  <2> DEFINE l == Opened(link[n], opening)
             s == IF link'[n].connected THEN [serving[r] EXCEPT !.at = "record"]
                  ELSE [at |-> "502", link |-> NoLink]
  <2>3. l \in Connector /\ (l.ros => l.kind = "ros2")
    BY <1>d, <2>1 DEF Outcomes, Opened, Connector
  <2>4. link' = [link EXCEPT ![n] = l]  BY <2>2
  <2>5. s \in Served /\ (s.at \in {"connect", "record"} => s.link = n)
    BY <1>a DEF Served, NoLink
  <2>6. serving' = [serving EXCEPT ![r] = s] /\ UNCHANGED <<madeLinks, current>>
    BY <1>2 DEF ConnectFlight, Goes, Answers
  <2> HIDE DEF l, s
  <2> QED BY <1>c, <2>1, <2>3, <2>4, <2>5, <2>6
<1>3. ASSUME NEW place \in Places, NEW battery \in Batteries, Poll(r, place, battery)
      PROVE  LinkForm'
  <2>1. serving[r].at = "record" /\ n \in Links  BY <1>3, <1>b DEF Poll
  <2> DEFINE l == [link[n] EXCEPT !.frames = Polled(@, place, battery)]
  <2>2. Polled(link[n].frames, place, battery) \in Seq([place : Places, battery : Batteries])
    <3>1. link[n].frames \in Seq([place : Places, battery : Batteries])
      BY <1>d, <2>1 DEF Connector
    <3> DEFINE S == [place : Places, battery : Batteries]
               frame == [place |-> place, battery |-> battery]
    <3>2. frame \in S  OBVIOUS
    <3>3. Polled(link[n].frames, place, battery) =
            IF place = 0 THEN link[n].frames ELSE Append(link[n].frames, frame)
      BY DEF Polled
    <3>4. link[n].frames \in Seq(S)  BY <3>1
    <3> HIDE DEF S, frame
    <3>5. Append(link[n].frames, frame) \in Seq(S)  BY <3>2, <3>4
    <3>6. Polled(link[n].frames, place, battery) \in Seq(S)  BY <3>3, <3>4, <3>5
    <3> QED BY <3>6 DEF S
  <2>3. l \in Connector /\ (l.ros => l.kind = "ros2")
    BY <1>d, <2>1, <2>2 DEF Connector
  <2>4. link' = [link EXCEPT ![n] = l] /\ UNCHANGED <<madeLinks, current>>
    BY <1>3 DEF Poll
  <2>5. serving' = [serving EXCEPT ![r] = serving[r]]
    BY <1>3 DEF Poll, LinkForm, LinkTypes
  <2> HIDE DEF l
  <2> QED BY <1>a, <1>c, <2>1, <2>3, <2>4, <2>5
<1>4. CASE RecordingFails(r) \/ RecordingEnds(r)
  <2>1. serving[r].at = "record" /\ n \in Links  BY <1>4, <1>b DEF RecordingFails, RecordingEnds
  <2>2. PICK reply \in {"502", "422", "scored"} : Answers(r, reply)
    BY <1>4 DEF RecordingFails, RecordingEnds
  <2> DEFINE l == Closed(link[n])
             s == [at |-> reply, link |-> NoLink]
  <2>3. l \in Connector /\ (l.ros => l.kind = "ros2")
    BY <1>d, <2>1 DEF Closed, Connector
  <2>4. link' = [link EXCEPT ![n] = l] /\ UNCHANGED <<madeLinks, current>>
    BY <1>4 DEF RecordingFails, RecordingEnds, Disconnect
  <2>5. s \in Served /\ s.at \notin {"connect", "record"}
    BY DEF Served, NoLink
  <2>6. serving' = [serving EXCEPT ![r] = s]
    BY <2>2 DEF Answers
  <2> HIDE DEF l, s
  <2> QED BY <1>c, <2>1, <2>3, <2>4, <2>5, <2>6
<1> QED BY <1>1, <1>2, <1>3, <1>4

LEMMA PanelSteps ==
  ASSUME LinkForm, NEW p \in Panels,
         \/ DropOld(p)
         \/ \E kind \in Kinds : MakePanelLink(p, kind)
         \/ ConnectPanel(p)
  PROVE  LinkForm'
<1> USE DroneLinkAssumption
<1>a. /\ p \in Requests /\ serving[p] \in Served /\ madeLinks \in 0 .. MaxLinks
      /\ current \in 0 .. madeLinks /\ MaxLinks \in Nat /\ p \notin Flyers
  BY DEF LinkForm, LinkTypes, Requests
<1>b. current # NoLink => /\ current \in Links /\ link[current] \in Connector
                          /\ link[current].ros => link[current].kind = "ros2"
  BY <1>a DEF Links, NoLink, LinkForm, LinkTypes
<1>1. CASE DropOld(p)
  <2> DEFINE s == [at |-> "make", link |-> NoLink]
  <2>1. s \in Served /\ s.at = "make" /\ serving' = [serving EXCEPT ![p] = s]
        /\ UNCHANGED <<madeLinks, current>> /\ madeLinks \in madeLinks .. MaxLinks
    BY <1>1, <1>a DEF DropOld, Served, NoLink
  <2> HIDE DEF s
  <2>2. /\ serving' \in [Requests -> Served]
        /\ \A q \in Flyers : serving'[q].at \in {"connect", "record"} =>
                               serving'[q].link \in 1 .. madeLinks'
        /\ \A q \in Panels : serving'[q].at = "connect" => current' # NoLink
        /\ \A q \in Panels : serving'[q].at # "record"
    BY <1>a, <2>1, RequestChanges
  <2>3. CASE current # NoLink /\ link[current].connected
    <3> DEFINE l == Closed(link[current])
    <3>1. link' = [link EXCEPT ![current] = l]  BY <1>1, <2>3 DEF DropOld
    <3>2. l \in Connector /\ (l.ros => l.kind = "ros2" /\ current <= madeLinks')
      <4>1. link[current] \in Connector /\ (link[current].ros => link[current].kind = "ros2")
            /\ (link[current].ros => current <= madeLinks)
        BY <1>b, <2>3 DEF LinkForm
      <4> QED BY <2>1, <4>1 DEF Closed, Connector
    <3> HIDE DEF l
    <3>3. /\ link' \in [Links -> Connector]
          /\ \A m \in Links : link'[m].ros => m <= madeLinks' /\ link'[m].kind = "ros2"
      BY <1>b, <2>1, <2>3, <3>1, <3>2, ConnectorChanges
    <3> QED BY <1>a, <2>1, <2>2, <3>3 DEF LinkForm, LinkTypes
  <2>4. CASE ~(current # NoLink /\ link[current].connected)
    <3>1. link' = link  BY <1>1, <2>4 DEF DropOld
    <3> QED BY <1>a, <2>1, <2>2, <3>1 DEF LinkForm, LinkTypes
  <2> QED BY <2>3, <2>4
<1>2. ASSUME NEW kind \in Kinds, MakePanelLink(p, kind)  PROVE LinkForm'
  <2>1. CASE madeLinks = MaxLinks
    <3> DEFINE s == [at |-> "error", link |-> NoLink]
    <3>1. s \in Served /\ s.at = "error" /\ serving' = [serving EXCEPT ![p] = s]
          /\ UNCHANGED <<link, madeLinks, current>> /\ madeLinks \in madeLinks .. MaxLinks
      BY <1>2, <1>a, <2>1 DEF MakePanelLink, Answers, Served, NoLink
    <3> HIDE DEF s
    <3>2. /\ serving' \in [Requests -> Served]
          /\ \A q \in Flyers : serving'[q].at \in {"connect", "record"} =>
                                 serving'[q].link \in 1 .. madeLinks'
          /\ \A q \in Panels : serving'[q].at = "connect" => current' # NoLink
          /\ \A q \in Panels : serving'[q].at # "record"
      BY <1>a, <3>1, RequestChanges
    <3> QED BY <1>a, <3>1, <3>2 DEF LinkForm, LinkTypes
  <2>2. CASE madeLinks # MaxLinks
    <3> DEFINE n == madeLinks + 1
               l == [link[n] EXCEPT !.kind = kind]
               s == [serving[p] EXCEPT !.at = "connect"]
    <3>1. n \in Links /\ madeLinks' = n /\ current' = n /\ n # NoLink
      BY <1>2, <1>a, <2>2 DEF MakePanelLink, Made, Links, NoLink
    <3>2. l \in Connector /\ ~l.ros
      <4>1. link[n] \in Connector /\ ~link[n].ros
        BY <1>a, <3>1 DEF LinkForm, LinkTypes
      <4> QED BY <4>1 DEF Connector
    <3>3. s \in Served /\ s.at = "connect"  BY <1>a DEF Served
    <3>4. link' = [link EXCEPT ![n] = l] /\ serving' = [serving EXCEPT ![p] = s]
      BY <1>2, <2>2 DEF MakePanelLink, Made, Goes
    <3>5. madeLinks' \in madeLinks .. MaxLinks /\ madeLinks' \in 0 .. MaxLinks /\ current' \in 0 .. madeLinks'
      BY <1>a, <3>1 DEF Links
    <3> HIDE DEF n, l, s
    <3>6. /\ link' \in [Links -> Connector]
          /\ \A m \in Links : link'[m].ros => m <= madeLinks' /\ link'[m].kind = "ros2"
      BY <3>1, <3>2, <3>4, <3>5, ConnectorChanges
    <3>7. /\ serving' \in [Requests -> Served]
          /\ \A q \in Flyers : serving'[q].at \in {"connect", "record"} =>
                                 serving'[q].link \in 1 .. madeLinks'
          /\ \A q \in Panels : serving'[q].at = "connect" => current' # NoLink
          /\ \A q \in Panels : serving'[q].at # "record"
      BY <1>a, <3>1, <3>3, <3>4, <3>5, RequestChanges
    <3> QED BY <3>5, <3>6, <3>7 DEF LinkForm, LinkTypes
  <2> QED BY <2>1, <2>2
<1>3. CASE ConnectPanel(p)
  <2>1. current # NoLink  BY <1>3 DEF ConnectPanel, LinkForm
  <2>2. PICK opening \in Outcomes(link[current].kind) :
           link' = [link EXCEPT ![current] = Opened(@, opening)]
    BY <1>3 DEF ConnectPanel
  <2> DEFINE l == Opened(link[current], opening)
  <2>3. link' = [link EXCEPT ![current] = l]  BY <2>2
  <2>4. UNCHANGED <<madeLinks, current>> /\ madeLinks \in madeLinks .. MaxLinks
    BY <1>3, <1>a DEF ConnectPanel
  <2>5. l \in Connector /\ (l.ros => l.kind = "ros2" /\ current <= madeLinks')
    <3>1. link[current] \in Connector /\ (link[current].ros => link[current].kind = "ros2")
          /\ current <= madeLinks'
      BY <1>a, <1>b, <2>1, <2>4
    <3> QED BY <3>1 DEF Outcomes, Opened, Connector
  <2>6. PICK s \in Served : serving' = [serving EXCEPT ![p] = s] /\ s.at \in {"connected", "failed"}
    <3> DEFINE done == IF link'[current].connected THEN "connected" ELSE "failed"
               s == [at |-> done, link |-> NoLink]
    <3>1. s \in Served /\ s.at \in {"connected", "failed"}  BY DEF Served, NoLink
    <3>2. serving' = [serving EXCEPT ![p] = s]  BY <1>3 DEF ConnectPanel, Answers
    <3> QED BY <3>1, <3>2
  <2> HIDE DEF l
  <2>7. /\ link' \in [Links -> Connector]
        /\ \A m \in Links : link'[m].ros => m <= madeLinks' /\ link'[m].kind = "ros2"
    BY <1>b, <2>1, <2>3, <2>4, <2>5, ConnectorChanges
  <2>8. /\ serving' \in [Requests -> Served]
        /\ \A q \in Flyers : serving'[q].at \in {"connect", "record"} =>
                               serving'[q].link \in 1 .. madeLinks'
        /\ \A q \in Panels : serving'[q].at = "connect" => current' # NoLink
        /\ \A q \in Panels : serving'[q].at # "record"
    BY <1>a, <2>4, <2>6, RequestChanges
  <2> QED BY <1>a, <2>4, <2>7, <2>8 DEF LinkForm, LinkTypes
<1> QED BY <1>1, <1>2, <1>3

LEMMA LinkTyped ==
  ASSUME Batteries \subseteq 0 .. 100
  PROVE  LinkSpec => []LinkTypeOK
<1>1. LinkInit => LinkForm
  <2> SUFFICES ASSUME LinkInit PROVE LinkForm  OBVIOUS
  <2>1. LinkTypes  BY LinkInitially DEF LinkInv
  <2> QED BY <2>1 DEF LinkInit, LinkForm, Requests, Links
<1>2. LinkForm /\ [LinkNext]_linkVars => LinkForm'
  <2>1. CASE UNCHANGED linkVars  BY <2>1 DEF linkVars, LinkForm, LinkTypes
  <2> QED BY <2>1, FlyerSteps, PanelSteps DEF LinkNext
<1>3. LinkForm => LinkTypeOK
  <2> SUFFICES ASSUME LinkForm PROVE LinkTypeOK  OBVIOUS
  <2>1. ASSUME NEW l \in Links
        PROVE  /\ link[l].socket \in {"none", "open", "closed"}
               /\ link[l].ros => link[l].kind = "ros2"
               /\ AverageBattery(link[l]) \in 0 .. 100
    <3>1. link[l] \in Connector  BY DEF LinkForm, LinkTypes
    <3>2. link[l].frames \in Seq([place : Places, battery : Batteries])
      BY <3>1 DEF Connector
    <3> QED BY <3>1, <3>2, AverageIsPercent DEF LinkForm, Connector
  <2> QED BY <2>1 DEF LinkForm, LinkTypes, LinkTypeOK
<1> QED BY <1>1, <1>2, <1>3, PTL DEF LinkSpec

-----------------------------------------------------------------------------
(* A flight of any number of drones *)

PlanningSpec == PlanningInit /\ [][PlanningNext]_planningVars

Beside(d, s) == \E e \in Swarm : e # d /\ Close(paths[d][s], paths[e][s])
ClimbsTo(d, s) ==
  {a \in Nat : a >= paths[d][s].alt /\ (a > paths[d][s].alt => Beside(d, s))}

LEMMA ClimbTyped ==
  ASSUME NEW n \in Nat, paths \in [Swarm -> [1 .. n -> SwarmPoints]],
         NEW d \in Swarm, NEW s \in 1 .. n
  PROVE  Climbed(d, s) \in ClimbsTo(d, s)
<1> DEFINE D == DOMAIN InTurn
           X == ClimbsTo(d, s)
           alt == paths[d][s].alt
           move == [i \in D |-> [a \in X |-> ClimbedFrom(d, s, a, InTurn[i])]]
           pick == [S \in SUBSET D |-> Max(S)]
           t == AltitudesAfter(d, s)
           Solves(f) == f = [S \in SUBSET D |->
                             IF S = {} THEN paths[d][s].alt
                             ELSE ClimbedFrom(d, s, f[S \ {Max(S)}], InTurn[Max(S)])]
<1>0. /\ D = Swarm /\ \A i \in D : InTurn[i] = i
      /\ IsFiniteSet(D) /\ D \in SUBSET Int
  <2>1. Fleet \in Nat  BY LevelsAssumption DEF LevelsAssumption
  <2>2. \A k \in Nat : IsFiniteSet(1 .. k)  BY FS_Interval
  <2> QED BY <2>1, <2>2 DEF InTurn, Swarm
<1>1. \A S \in SUBSET D : pick[S] = Max(S) /\ (S # {} => Max(S) \in S /\ Max(S) \in D)
  <2> TAKE S \in SUBSET D
  <2>1. S \in SUBSET Int /\ IsFiniteSet(S)
    BY <1>0, FS_Subset
  <2>2. S # {} => Max(S) \in S
    BY <2>1, MaxOfSet
  <2> QED BY <2>2
<1>2. Picks(pick, D)
  BY <1>1 DEF Picks
<1>3. Steps(move, D, X) /\ \A i \in D, a \in X : move[i][a] = ClimbedFrom(d, s, a, InTurn[i])
  <2>1. ASSUME NEW i \in D, NEW a \in X  PROVE ClimbedFrom(d, s, a, InTurn[i]) \in X
    <3>1. InTurn[i] = i /\ i \in Swarm  BY <1>0
    <3>2. a \in Nat /\ a >= alt  BY DEF ClimbsTo
    <3>3. alt \in Nat  BY DEF SwarmPoints
    <3>4. CASE i # d /\ Close(paths[d][s], paths[i][s])
      <4>1. Beside(d, s)  BY <3>1, <3>4 DEF Beside
      <4>2. a + Layer \in Nat /\ a + Layer >= alt  BY <3>2, <3>3 DEF Layer
      <4> QED BY <3>1, <3>2, <4>1, <4>2 DEF ClimbsTo, ClimbedFrom
    <3>5. CASE ~(i # d /\ Close(paths[d][s], paths[i][s]))
      BY <3>1, <3>5 DEF ClimbedFrom
    <3> QED BY <3>4, <3>5
  <2> HIDE DEF X, D
  <2> QED BY <2>1 DEF Steps
<1>4. alt \in X
  <2>1. paths[d][s] \in SwarmPoints  OBVIOUS
  <2>2. alt \in Nat  BY <2>1 DEF SwarmPoints
  <2> QED BY <2>2 DEF ClimbsTo
<1> HIDE DEF move, pick, D, X
<1>5. PICK f \in [SUBSET D -> X] : Folded(f, D, alt, move, pick)
  <2> HIDE DEF alt
  <2> QED BY <1>0, <1>2, <1>3, <1>4, FoldExists
<1>6. Solves(f)
  <2>1. ASSUME NEW S \in SUBSET D, S # {}
        PROVE  f[S] = ClimbedFrom(d, s, f[S \ {Max(S)}], InTurn[Max(S)])
    <3>1. f[S] = move[Max(S)][f[S \ {Max(S)}]]
      BY <1>1, <1>5, <2>1 DEF Folded
    <3>2. Max(S) \in D /\ f[S \ {Max(S)}] \in X
      BY <1>1, <2>1
    <3> QED BY <1>3, <3>1, <3>2
  <2>2. f[{}] = alt
    BY <1>5 DEF Folded
  <2> QED BY <2>1, <2>2
<1>7. Solves(t)
  <2>1. \E g : Solves(g)  BY <1>6
  <2> QED BY <2>1, Zenon DEF AltitudesAfter, D
<1>8. \A S \in SUBSET D : t[S] = IF S = {} THEN alt
                                 ELSE ClimbedFrom(d, s, t[S \ {Max(S)}], InTurn[Max(S)])
  <2>1. \A g : Solves(g) => \A S \in SUBSET D :
          g[S] = IF S = {} THEN alt ELSE ClimbedFrom(d, s, g[S \ {Max(S)}], InTurn[Max(S)])
    OBVIOUS
  <2> HIDE DEF Solves, t
  <2> QED BY <1>7, <2>1
<1> HIDE DEF t, Solves, alt
<1>9. Unfolds(t, D, X, alt, move, pick)
  <2>1. ASSUME NEW S \in SUBSET D, S # {}, t[S \ {pick[S]}] \in X
        PROVE  t[S] = move[pick[S]][t[S \ {pick[S]}]]
    <3>1. t[S] = ClimbedFrom(d, s, t[S \ {Max(S)}], InTurn[Max(S)])
      BY <1>8, <2>1
    <3>2. pick[S] = Max(S) /\ Max(S) \in D
      BY <1>1, <2>1
    <3> QED BY <1>3, <2>1, <3>1, <3>2
  <2>2. t[{}] = alt
    BY <1>8
  <2> QED BY <2>1, <2>2 DEF Unfolds
<1>10. \A S \in SUBSET D : t[S] \in X
  BY <1>0, <1>2, <1>3, <1>4, <1>9, FoldTyped
<1>11. Climbed(d, s) = t[D]  BY ClimbedIs DEF t, D
<1> QED BY <1>10, <1>11 DEF X

Noted(trajectories, n) ==
  \A d, e \in Swarm, s \in 1 .. n :
     d < e /\ Close(trajectories[d][s], trajectories[e][s]) => <<s, e>> \in warned[d]

Flying(n) ==
  /\ paths \in [Swarm -> [1 .. n -> SwarmPoints]]
  /\ turn \in 1 .. Fleet + 1
  /\ \A d \in Swarm : d >= turn => \A s \in 1 .. n : paths[d][s].alt \in Levels
  /\ Noted(paths, n)

SwarmForm ==
  /\ \/ paths = <<>> /\ turn = 0 /\ climbs = [d \in Swarm |-> 0]
     \/ \E n \in 1 .. MaxSteps : Flying(n)
  /\ warned \in [Swarm -> SUBSET ((1 .. MaxSteps) \X Swarm)]
  /\ climbs \in [Swarm -> Nat]
  /\ sensed \in [Swarm -> {0} \cup Levels]
  /\ \A d \in Swarm : climbs[d] > 0 =>
       \E s \in 1 .. MaxSteps, e \in Swarm : <<s, e>> \in warned[d] \/ <<s, d>> \in warned[e]

LEMMA SwarmFormInitially == ASSUME SwarmInit PROVE SwarmForm
BY DEF SwarmInit, SwarmForm

LEMMA SwarmIs == Swarm # {} /\ Swarm \in SUBSET Nat /\ 1 \in Swarm /\ Fleet \in Nat /\ MaxSteps \in Nat
BY LevelsAssumption DEF LevelsAssumption, Swarm

LEMMA StartForm ==
  ASSUME SwarmForm, paths = <<>>, NEW given \in [Swarm -> Trajectories], StartSwarm(given)
  PROVE  SwarmForm'
<1> DEFINE OnLevels == [x : Spots, alt : Levels]
           Lengths == {Len(given[e]) : e \in Swarm}
           Longest == Max(Lengths)
           aligned == [d \in Swarm |-> Pad(given[d], Longest)]
<1>1. \A d \in Swarm : \E k \in 1 .. MaxSteps : given[d] \in [1 .. k -> OnLevels]
  <2> TAKE d \in Swarm
  <2>1. given[d] \in UNION {[1 .. k -> OnLevels] : k \in 1 .. MaxSteps}  BY DEF Trajectories
  <2> HIDE DEF OnLevels
  <2> QED BY <2>1
<1>2. \A d \in Swarm : given[d] \in [1 .. Len(given[d]) -> OnLevels] /\ Len(given[d]) \in 1 .. MaxSteps
  <2> TAKE d \in Swarm
  <2>1. PICK k \in 1 .. MaxSteps : given[d] \in [1 .. k -> OnLevels]  BY <1>1
  <2>2. k \in Nat  BY SwarmIs
  <2>3. Len(given[d]) = k  BY <2>1, <2>2
  <2> QED BY <2>1, <2>3
<1>3. Longest \in 1 .. MaxSteps /\ \A d \in Swarm : Len(given[d]) <= Longest
  <2>1. Lengths \subseteq 1 .. MaxSteps  BY <1>2
  <2>2. IsFiniteSet(1 .. MaxSteps)
    <3>1. \A k \in Nat : IsFiniteSet(1 .. k)  BY FS_Interval
    <3> QED BY <3>1, SwarmIs
  <2>4. Len(given[1]) \in Lengths /\ \A d \in Swarm : Len(given[d]) \in Lengths  BY SwarmIs
  <2>5. Lengths # {}  BY <2>4
  <2>3. IsFiniteSet(Lengths) /\ Lengths # {} /\ Lengths \in SUBSET Int
    <3> HIDE DEF Lengths
    <3>1. IsFiniteSet(Lengths)  BY <2>1, <2>2, FS_Subset
    <3>2. 1 .. MaxSteps \subseteq Int  BY SwarmIs
    <3> QED BY <2>1, <2>5, <3>1, <3>2
  <2> HIDE DEF Lengths
  <2> QED BY <2>1, <2>3, <2>4, MaxOfSet
<1> HIDE DEF Longest
<1>4. \A d \in Swarm : Pad(given[d], Longest) \in [1 .. Longest -> OnLevels]
  <2> TAKE d \in Swarm
  <2> HIDE DEF OnLevels
  <2>1. Len(given[d]) \in Nat \ {0} /\ Longest \in Nat  BY <1>2, <1>3, SwarmIs
  <2> QED BY <1>2, <1>3, <2>1, PadIs
<1>5. \A d \in Swarm, s \in 1 .. Longest : /\ Pad(given[d], Longest)[s] \in SwarmPoints
                                           /\ Pad(given[d], Longest)[s].alt \in Levels
  <2>1. \A p \in OnLevels : p \in SwarmPoints /\ p.alt \in Levels
    BY LevelsAssumption DEF LevelsAssumption, SwarmPoints
  <2> QED BY <1>4, <2>1
<1> HIDE DEF OnLevels
<1>6. aligned \in [Swarm -> [1 .. Longest -> SwarmPoints]]
  BY <1>4, <1>5
<1>7. /\ paths' = aligned
      /\ warned' = [d \in Swarm |-> Predicted(aligned, d)]
      /\ turn' = 1 /\ UNCHANGED <<climbs, sensed>>
  BY DEF StartSwarm, Longest
<1>8. \A d \in Swarm, s \in 1 .. Longest : aligned[d][s].alt \in Levels
  BY <1>5
<1> HIDE DEF aligned
<1>9. \A d \in Swarm : warned'[d] = Predicted(aligned, d) /\ DOMAIN aligned[d] = 1 .. Longest
  BY <1>6, <1>7
<1>10. Noted(paths, Longest)'
  <2>1. ASSUME NEW d \in Swarm, NEW e \in Swarm, NEW s \in 1 .. Longest,
               d < e, Close(aligned[d][s], aligned[e][s])
        PROVE  <<s, e>> \in warned'[d]
    BY <1>9, <2>1 DEF Predicted
  <2> QED BY <1>7, <2>1 DEF Noted
<1>11. warned' \in [Swarm -> SUBSET ((1 .. MaxSteps) \X Swarm)]
  <2>1. 1 .. Longest \subseteq 1 .. MaxSteps  BY <1>3, SwarmIs
  <2>2. \A d \in Swarm : Predicted(aligned, d) \in SUBSET ((1 .. MaxSteps) \X Swarm)
    <3> TAKE d \in Swarm
    <3>1. Predicted(aligned, d) \subseteq (DOMAIN aligned[d]) \X Swarm  BY DEF Predicted
    <3>2. (1 .. Longest) \X Swarm \subseteq (1 .. MaxSteps) \X Swarm  BY <2>1
    <3> QED BY <1>9, <3>1, <3>2
  <2> QED BY <1>7, <2>2
<1>12. climbs = [d \in Swarm |-> 0]
  <2>1. \A n \in 1 .. MaxSteps : ~Flying(n)
    <3> SUFFICES ASSUME NEW n \in 1 .. MaxSteps, Flying(n) PROVE FALSE  OBVIOUS
    <3>1. DOMAIN paths = Swarm  BY DEF Flying
    <3> QED BY <3>1, SwarmIs
  <2> QED BY <2>1 DEF SwarmForm
<1>13. Flying(Longest)'
  <2>1. Fleet' = Fleet /\ 1 \in 1 .. Fleet + 1  BY SwarmIs
  <2> QED BY <1>6, <1>7, <1>8, <1>10, <2>1 DEF Flying
<1>14. \A d \in Swarm : ~(climbs'[d] > 0)  BY <1>7, <1>12
<1> QED BY <1>3, <1>7, <1>11, <1>13, <1>14 DEF SwarmForm

LEMMA AvoidForm ==
  ASSUME SwarmForm, AvoidOthers
  PROVE  SwarmForm'
<1>1. turn \in Swarm /\ paths' = [paths EXCEPT ![turn] = Raised(turn)]
      /\ climbs' = [climbs EXCEPT ![turn] = Climbs(turn)]
      /\ sensed' = [sensed EXCEPT ![turn] = Sensed(turn)]
      /\ turn' = turn + 1 /\ warned' = warned
  BY DEF AvoidOthers
<1>2. PICK n \in 1 .. MaxSteps : Flying(n)
  BY <1>1, SwarmIs DEF SwarmForm, Swarm
<1>3. /\ n \in Nat \ {0} /\ paths \in [Swarm -> [1 .. n -> SwarmPoints]]
      /\ \A d \in Swarm : DOMAIN paths[d] = 1 .. n /\ Len(paths[d]) = n
      /\ \A d \in Swarm, s \in 1 .. n : paths[d][s] \in SwarmPoints
  BY <1>2, SwarmIs DEF Flying
<1>4. \A s \in 1 .. n : Climbed(turn, s) \in ClimbsTo(turn, s)
  BY <1>1, <1>3, ClimbTyped
<1>5. \A d \in Swarm, s \in 1 .. n : paths[d][s].alt \in Nat /\ paths[d][s].x \in Int
  BY <1>3, LevelsAssumption DEF LevelsAssumption, SwarmPoints
<1>6. /\ DOMAIN Raised(turn) = 1 .. n
      /\ \A s \in 1 .. n : Raised(turn)[s] \in SwarmPoints /\ Raised(turn)[s].x = paths[turn][s].x
  <2>1. Raised(turn) = [s \in 1 .. n |-> [paths[turn][s] EXCEPT !.alt = Climbed(turn, s)]]
    BY <1>1, <1>3 DEF Raised
  <2>2. \A s \in 1 .. n : Climbed(turn, s) \in Nat  BY <1>4 DEF ClimbsTo
  <2>3. \A p \in SwarmPoints, a \in Nat : [p EXCEPT !.alt = a] \in SwarmPoints /\ [p EXCEPT !.alt = a].x = p.x
    BY DEF SwarmPoints
  <2>4. \A s \in 1 .. n : Raised(turn)[s] = [paths[turn][s] EXCEPT !.alt = Climbed(turn, s)]
    BY <2>1
  <2>5. DOMAIN Raised(turn) = 1 .. n  BY <2>1
  <2>6. ASSUME NEW s \in 1 .. n
        PROVE  Raised(turn)[s] \in SwarmPoints /\ Raised(turn)[s].x = paths[turn][s].x
    <3>1. paths[turn][s] \in SwarmPoints /\ Climbed(turn, s) \in Nat  BY <1>1, <1>3, <2>2
    <3>2. Raised(turn)[s] = [paths[turn][s] EXCEPT !.alt = Climbed(turn, s)]  BY <2>4
    <3> HIDE DEF SwarmPoints
    <3> QED BY <2>3, <3>1, <3>2
  <2> QED BY <2>5, <2>6
<1>7. Raised(turn) \in [1 .. n -> SwarmPoints]
  <2>1. Raised(turn) = [s \in 1 .. n |-> Raised(turn)[s]]
    BY <1>1, <1>3 DEF Raised
  <2> QED BY <1>6, <2>1
<1>8. paths' \in [Swarm -> [1 .. n -> SwarmPoints]] /\ (paths')[turn] = Raised(turn)
      /\ \A d \in Swarm : d # turn => (paths')[d] = paths[d]
  BY <1>1, <1>3, <1>7
<1>9. \A d \in Swarm, s \in 1 .. n : (paths')[d][s].x = paths[d][s].x
  BY <1>6, <1>8
<1>10. Noted(paths, n)'
  BY <1>1, <1>2, <1>9 DEF Flying, Noted, Close
<1>11. turn' \in 1 .. Fleet + 1
  BY <1>1, SwarmIs DEF Swarm
<1>12. \A d \in Swarm : d >= turn' => \A s \in 1 .. n : (paths')[d][s].alt \in Levels
  <2> TAKE d \in Swarm
  <2>1. d >= turn' => d >= turn /\ d # turn  BY <1>1, SwarmIs
  <2> QED BY <1>2, <1>8, <2>1 DEF Flying
<1>13. Flying(n)'  BY <1>8, <1>10, <1>11, <1>12 DEF Flying
<1> DEFINE v == [s \in DOMAIN paths[turn] |-> (Climbed(turn, s) - paths[turn][s].alt) \div Layer]
<1>14. DOMAIN v = 1 .. n /\ \A s \in 1 .. n : v[s] \in Nat /\ (v[s] > 0 => Beside(turn, s))
  <2>1. DOMAIN v = 1 .. n  BY <1>1, <1>3
  <2>2. ASSUME NEW s \in 1 .. n  PROVE v[s] \in Nat /\ (v[s] > 0 => Beside(turn, s))
    <3> DEFINE a == Climbed(turn, s)
               b == paths[turn][s].alt
    <3>1. a \in Nat /\ a >= b /\ (a > b => Beside(turn, s))  BY <1>4 DEF ClimbsTo
    <3>2. b \in Nat  BY <1>1, <1>5
    <3>3. v[s] = (a - b) \div 10  BY <2>1 DEF Layer
    <3> HIDE DEF a, b, v
    <3>4. v[s] \in Nat /\ (v[s] > 0 => a > b)  BY <3>1, <3>2, <3>3
    <3> QED BY <3>1, <3>4
  <2> QED BY <2>1, <2>2
<1>15. Climbs(turn) \in Nat /\ (Climbs(turn) > 0 => \E s \in 1 .. n : Beside(turn, s))
  <2>1. IsFiniteSet(1 .. n)
    <3>1. \A k \in Nat : IsFiniteSet(1 .. k)  BY FS_Interval
    <3> QED BY <1>3, <3>1
  <2>2. Climbs(turn) = SumFunction(v)  BY DEF Climbs
  <2> HIDE DEF v
  <2>3. SumFunction(v) = Totals(v, 1 .. n)[1 .. n]  BY <1>14, SumFunctionIs
  <2>4. /\ Totals(v, 1 .. n)[1 .. n] \in Nat
        /\ Totals(v, 1 .. n)[1 .. n] > 0 => \E s \in 1 .. n : v[s] > 0
    BY <1>14, <2>1, TotalOfNaturals
  <2> QED BY <1>14, <2>2, <2>3, <2>4
<1> HIDE DEF v
<1>16. climbs' \in [Swarm -> Nat]
  BY <1>1, <1>15 DEF SwarmForm
<1>17. sensed' \in [Swarm -> {0} \cup Levels]
  <2>1. n \in 1 .. n /\ turn >= turn  BY <1>1, <1>3, SwarmIs
  <2>2. Sensed(turn) = paths[turn][n].alt  BY <1>1, <1>3 DEF Sensed
  <2>3. Sensed(turn) \in Levels  BY <1>1, <1>2, <2>1, <2>2 DEF Flying
  <2> QED BY <1>1, <2>3 DEF SwarmForm
<1>18. ASSUME NEW d \in Swarm, climbs'[d] > 0
       PROVE  \E s \in 1 .. MaxSteps, e \in Swarm : <<s, e>> \in warned[d] \/ <<s, d>> \in warned[e]
  <2>1. CASE d = turn
    <3>1. climbs'[d] = Climbs(turn)  BY <1>1, <2>1 DEF SwarmForm
    <3>2. PICK s \in 1 .. n : Beside(turn, s)  BY <1>15, <1>18, <3>1
    <3>3. PICK e \in Swarm : e # d /\ Close(paths[d][s], paths[e][s])  BY <2>1, <3>2 DEF Beside
    <3>4. Close(paths[e][s], paths[d][s])
      <4>1. \A p, q \in Int : Apart(p, q) = Apart(q, p)  BY DEF Apart
      <4> QED BY <1>5, <3>3, <4>1 DEF Close
    <3>5. d < e \/ e < d  BY <3>3, SwarmIs
    <3>6. <<s, e>> \in warned[d] \/ <<s, d>> \in warned[e]
      BY <1>2, <3>3, <3>4, <3>5 DEF Flying, Noted
    <3>7. s \in 1 .. MaxSteps  BY SwarmIs
    <3> QED BY <3>6, <3>7
  <2>2. CASE d # turn
    <3>1. climbs[d] > 0  BY <1>1, <1>18, <2>2 DEF SwarmForm
    <3> QED BY <3>1 DEF SwarmForm
  <2> QED BY <2>1, <2>2
<1> QED BY <1>1, <1>13, <1>16, <1>17, <1>18 DEF SwarmForm

\* Planning, for any number of missions and plannings.
PlanningInv ==
  /\ bases \in {<<>>} \cup [Swarm -> Nat]
  /\ plans \in 0 .. MaxPlans
  /\ clashes \subseteq Swarm \X Swarm

LEMMA PlanningInductive == PlanningInv /\ [PlanningNext]_planningVars => PlanningInv'
<1> SUFFICES ASSUME PlanningInv, [PlanningNext]_planningVars PROVE PlanningInv'  OBVIOUS
<1>1. ASSUME NEW given \in [Swarm -> Levels], GiveMissions(given)  PROVE PlanningInv'
  <2>1. given \in [Swarm -> Nat]  BY LevelsAssumption DEF LevelsAssumption
  <2> QED BY <1>1, <2>1 DEF GiveMissions, PlanningInv
<1>2. CASE PlanSwarm
  <2>1. bases \in [Swarm -> Nat]  BY <1>2 DEF PlanSwarm, PlanningInv
  <2>2. \A d \in Swarm : bases[d] + (d - 1) * Layer \in Nat
    <3> TAKE d \in Swarm
    <3>1. bases[d] \in Nat /\ d - 1 \in Nat  BY <2>1 DEF Swarm
    <3> QED BY <3>1 DEF Layer
  <2>3. bases' \in [Swarm -> Nat]  BY <1>2, <2>2 DEF PlanSwarm
  <2>4. plans' \in 0 .. MaxPlans
    BY <1>2, LevelsAssumption DEF PlanSwarm, PlanningInv, LevelsAssumption
  <2>5. clashes' \subseteq Swarm \X Swarm  BY <1>2 DEF PlanSwarm
  <2> QED BY <2>3, <2>4, <2>5 DEF PlanningInv
<1>3. CASE UNCHANGED planningVars  BY <1>3 DEF planningVars, PlanningInv
<1> QED BY <1>1, <1>2, <1>3 DEF PlanningNext

LEMMA SwarmFlightTyped == PlanningSpec /\ SwarmSpec => []SwarmFlightTypeOK
<1>1. PlanningInit => PlanningInv
  BY LevelsAssumption DEF LevelsAssumption, PlanningInit, PlanningInv
<1>2. PlanningInv /\ [PlanningNext]_planningVars => PlanningInv'  BY PlanningInductive
<1>3. SwarmInit => SwarmForm  BY SwarmFormInitially
<1>4. SwarmForm /\ [SwarmNext]_swarmVars => SwarmForm'
  <2>1. CASE UNCHANGED swarmVars
    BY <2>1 DEF swarmVars, SwarmForm, Flying, Noted
  <2> QED BY <2>1, StartForm, AvoidForm DEF SwarmNext
<1>5. PlanningInv /\ SwarmForm => SwarmFlightTypeOK
  <2> SUFFICES ASSUME PlanningInv, SwarmForm PROVE SwarmFlightTypeOK  OBVIOUS
  <2>1. turn \in 0 .. Fleet + 1
    BY SwarmIs DEF SwarmForm, Flying
  <2>2. paths = <<>> \/ \A d \in Swarm : paths[d] \in Seq([x : Spots, alt : Nat])
    <3>1. ASSUME NEW n \in 1 .. MaxSteps, Flying(n), NEW d \in Swarm
          PROVE  paths[d] \in Seq([x : Spots, alt : Nat])
      <4>1. paths[d] \in [1 .. n -> SwarmPoints] /\ n \in Nat  BY <3>1, SwarmIs DEF Flying
      <4>2. \A S : \A p \in [1 .. n -> S] : p \in Seq(S)  BY <4>1
      <4> QED BY <4>1, <4>2 DEF SwarmPoints
    <3> QED BY <3>1 DEF SwarmForm
  <2> QED BY <2>1, <2>2 DEF PlanningInv, SwarmForm, SwarmFlightTypeOK
<1> QED BY <1>1, <1>2, <1>3, <1>4, <1>5, PTL DEF PlanningSpec, SwarmSpec

-----------------------------------------------------------------------------
(* Shares of a score *)

\* The function whose last value a product modulo the prime is.
Products(base, v) ==
  CHOOSE f : f = [s \in SUBSET DOMAIN v |->
    IF s = {} THEN base ELSE (f[s \ {OneOf(s)}] * v[OneOf(s)]) % Prime]

LEMMA ProductIs ==
  ASSUME NEW base, NEW v
  PROVE  Product(base, v) = Products(base, v)[DOMAIN v]
BY DEF Product, FoldFunction, FoldFunctionOnSet, MapThenFoldSet, Products, OneOf

LEMMA ProductsAre ==
  ASSUME NEW D, IsFiniteSet(D), NEW v \in [D -> Int], NEW base \in Field
  PROVE  /\ Product(base, v) \in Field
         /\ \A s \in SUBSET D : Products(base, v)[s] \in Field
         /\ \A s \in SUBSET D :
              Products(base, v)[s] = IF s = {} THEN base
                                     ELSE (Products(base, v)[s \ {OneOf(s)}] * v[OneOf(s)]) % Prime
<1> DEFINE move == [d \in D |-> [x \in Field |-> (x * v[d]) % Prime]]
           pick == [s \in SUBSET D |-> OneOf(s)]
           t == Products(base, v)
           Solves(f) == f = [s \in SUBSET D |->
                             IF s = {} THEN base ELSE (f[s \ {OneOf(s)}] * v[OneOf(s)]) % Prime]
<1>1. \A s \in SUBSET D : pick[s] = OneOf(s) /\ (s # {} => OneOf(s) \in s /\ OneOf(s) \in D)
  BY DEF OneOf
<1>2. Picks(pick, D)
  BY <1>1 DEF Picks
<1>0. Prime \in Nat /\ Prime > 1
  BY ShareAssumption
<1>3. \A n \in Int : n % Prime \in Field
  BY <1>0 DEF Field
<1>4. \A d \in D, x \in Field : (x * v[d]) % Prime \in Field
  <2> TAKE d \in D, x \in Field
  <2>1. x \in Int /\ v[d] \in Int  BY <1>0 DEF Field
  <2>2. x * v[d] \in Int  BY <2>1
  <2> QED BY <2>2, <1>3
<1>5. Steps(move, D, Field) /\ \A d \in D, x \in Field : move[d][x] = (x * v[d]) % Prime
  BY <1>4 DEF Steps
<1> HIDE DEF move, pick
<1>6. PICK f \in [SUBSET D -> Field] : Folded(f, D, base, move, pick)
  BY <1>2, <1>5, FoldExists
<1>7. Solves(f)
  <2>1. ASSUME NEW s \in SUBSET D
        PROVE  f[s] = IF s = {} THEN base ELSE (f[s \ {OneOf(s)}] * v[OneOf(s)]) % Prime
    <3>1. f[s \ {OneOf(s)}] \in Field  BY <2>1, <1>6
    <3> QED BY <1>1, <1>5, <1>6, <3>1 DEF Folded
  <2> QED BY <2>1
<1>8. Solves(t)
  <2>1. \E g : Solves(g)  BY <1>7
  <2>2. DOMAIN v = D  OBVIOUS
  <2> QED BY <2>1, <2>2, Zenon DEF Products
<1>9. \A s \in SUBSET D : t[s] = IF s = {} THEN base ELSE (t[s \ {OneOf(s)}] * v[OneOf(s)]) % Prime
  <2>1. \A g : Solves(g) => \A s \in SUBSET D :
          g[s] = IF s = {} THEN base ELSE (g[s \ {OneOf(s)}] * v[OneOf(s)]) % Prime
    OBVIOUS
  <2> HIDE DEF Solves, t
  <2> QED BY <1>8, <2>1
<1> HIDE DEF t, Solves
<1>10. Unfolds(t, D, Field, base, move, pick)
  <2>1. ASSUME NEW s \in SUBSET D, s # {}, t[s \ {pick[s]}] \in Field
        PROVE  t[s] = move[pick[s]][t[s \ {pick[s]}]]
    <3>1. t[s] = (t[s \ {OneOf(s)}] * v[OneOf(s)]) % Prime
      BY <1>9, <2>1
    <3>2. pick[s] = OneOf(s) /\ OneOf(s) \in D
      BY <1>1, <2>1
    <3> QED BY <1>5, <2>1, <3>1, <3>2
  <2>2. t[{}] = base  BY <1>9
  <2> QED BY <2>1, <2>2 DEF Unfolds
<1>11. \A s \in SUBSET D : t[s] \in Field
  BY <1>2, <1>5, <1>10, FoldTyped
<1>12. Product(base, v) = t[D] /\ D \in SUBSET D
  BY ProductIs DEF t
<1> QED BY <1>9, <1>11, <1>12 DEF t

LEMMA FieldIs == /\ Prime \in Nat /\ Prime > 1 /\ Field = 0 .. Prime - 1 /\ Field \subseteq Int
                 /\ 0 \in Field /\ 1 \in Field
                 /\ \A n \in Int : n % Prime \in Field
BY ShareAssumption DEF Field

LEMMA InvertedIs ==
  ASSUME NEW a \in Int
  PROVE  /\ Inverted(a) \in Field
         /\ Prime > 2 => Inverted(0) = 0
<1> DEFINE D == 1 .. Prime - 2
           v(x) == [k \in D |-> x]
<1>1. IsFiniteSet(D)  BY FieldIs, FS_Interval
<1>2. \A x \in Int : v(x) \in [D -> Int]  OBVIOUS
<1>3. Inverted(a) \in Field
  BY <1>1, <1>2, FieldIs, ProductsAre DEF Inverted
<1>4. ASSUME Prime > 2  PROVE Inverted(0) = 0
  <2>1. D # {} /\ D \in SUBSET D
    <3>1. 1 \in D  BY <1>4, FieldIs
    <3> QED BY <3>1
  <2>2. OneOf(D) \in D  BY <2>1 DEF OneOf
  <2> DEFINE t == Products(1, v(0))
  <2>3. /\ t[D] = (t[D \ {OneOf(D)}] * 0) % Prime
        /\ t[D \ {OneOf(D)}] \in Field
    <3>1. v(0)[OneOf(D)] = 0  BY <2>2
    <3>2. D \ {OneOf(D)} \in SUBSET D  OBVIOUS
    <3>3. /\ \A s \in SUBSET D : Products(1, v(0))[s] \in Field
          /\ \A s \in SUBSET D :
              Products(1, v(0))[s] = IF s = {} THEN 1
                         ELSE (Products(1, v(0))[s \ {OneOf(s)}] * v(0)[OneOf(s)]) % Prime
      <4>1. v(0) \in [D -> Int] /\ 1 \in Field  BY <1>2, FieldIs
      <4> HIDE DEF v, D
      <4> QED BY <1>1, <4>1, ProductsAre
    <3> HIDE DEF v, D
    <3> QED BY <2>1, <3>1, <3>2, <3>3
  <2>4. Inverted(0) = t[D]
    BY ProductIs DEF Inverted
  <2> HIDE DEF t, D
  <2>5. \A x \in Int : (x * 0) % Prime = 0
    <3>1. \A x \in Int : x * 0 = 0  OBVIOUS
    <3>2. 0 % Prime = 0  BY FieldIs
    <3> QED BY <3>1, <3>2
  <2> QED BY <2>3, <2>4, <2>5, FieldIs
<1> QED BY <1>3, <1>4

\* Points a polynomial may be put through.
Plotted(points) ==
  /\ IsFiniteSet(DOMAIN points)
  /\ \A i \in DOMAIN points : points[i][1] \in Int /\ points[i][2] \in Field

Others(points, i) == DOMAIN points \ {i}
Mirrored(points, i) == [j \in Others(points, i) |-> Prime - points[j][1]]
Distances(points, i) == [j \in Others(points, i) |-> (points[i][1] + Prime) - points[j][1]]

LEMMA LagrangeIs ==
  ASSUME NEW points, Plotted(points), NEW i \in DOMAIN points
  PROVE  /\ Lagrange(points, i) = <<Product(points[i][2], Mirrored(points, i)),
                                   Product(1, Distances(points, i))>>
         /\ Mirrored(points, i) \in [Others(points, i) -> Int]
         /\ Distances(points, i) \in [Others(points, i) -> Int]
         /\ IsFiniteSet(Others(points, i))
         /\ Lagrange(points, i)[1] \in Field /\ Lagrange(points, i)[2] \in Field
<1>1. Lagrange(points, i) = <<Product(points[i][2], Mirrored(points, i)),
                              Product(1, Distances(points, i))>>
  BY DEF Lagrange, Mirrored, Distances, Others
<1>2. /\ Mirrored(points, i) \in [Others(points, i) -> Int]
      /\ Distances(points, i) \in [Others(points, i) -> Int]
      /\ IsFiniteSet(Others(points, i))
  BY FieldIs, FS_Subset DEF Mirrored, Distances, Others, Plotted
<1>3. Product(points[i][2], Mirrored(points, i)) \in Field
  BY <1>2, ProductsAre DEF Plotted
<1>4. Product(1, Distances(points, i)) \in Field
  BY <1>2, FieldIs, ProductsAre
<1> QED BY <1>1, <1>2, <1>3, <1>4

\* The terms, and the function whose last value their sum is.
Term(points, i) == Lagrange(points, i)[1] * Inverted(Lagrange(points, i)[2])
PointSums(points) ==
  CHOOSE f : f = [s \in SUBSET DOMAIN points |->
    IF s = {} THEN 0
    ELSE (f[s \ {OneOf(s)}] + [i \in DOMAIN points |-> Term(points, i)][OneOf(s)]) % Prime]

LEMMA ReconstructedIs ==
  ASSUME NEW points
  PROVE  Reconstructed(points) = PointSums(points)[DOMAIN points]
<1> DEFINE terms == [i \in DOMAIN points |-> Term(points, i)]
<1>1. Reconstructed(points) = FoldFunction(LAMBDA x, sum : (sum + x) % Prime, 0, terms)
  BY DEF Reconstructed, Term
<1>2. DOMAIN terms = DOMAIN points  OBVIOUS
<1> QED BY <1>1, <1>2, Zenon DEF FoldFunction, FoldFunctionOnSet, MapThenFoldSet, PointSums, OneOf

LEMMA SumsAre ==
  ASSUME NEW points, Plotted(points)
  PROVE  /\ Reconstructed(points) \in Field
         /\ \A i \in DOMAIN points : Term(points, i) \in Int
         /\ \A s \in SUBSET DOMAIN points : PointSums(points)[s] \in Field
         /\ \A s \in SUBSET DOMAIN points :
              PointSums(points)[s] = IF s = {} THEN 0
                                ELSE (PointSums(points)[s \ {OneOf(s)}] + Term(points, OneOf(s))) % Prime
<1> DEFINE D == DOMAIN points
           v == [i \in DOMAIN points |-> Term(points, i)]
           move == [d \in D |-> [x \in Field |-> (x + v[d]) % Prime]]
           pick == [s \in SUBSET D |-> OneOf(s)]
           t == PointSums(points)
           Solves(f) == f = [s \in SUBSET D |->
                             IF s = {} THEN 0 ELSE (f[s \ {OneOf(s)}] + v[OneOf(s)]) % Prime]
<1>a. \A i \in D : Term(points, i) \in Int
  <2> TAKE i \in D
  <2>1. Lagrange(points, i)[1] \in Int /\ Lagrange(points, i)[2] \in Int
    BY LagrangeIs, FieldIs
  <2>2. Inverted(Lagrange(points, i)[2]) \in Int
    BY <2>1, InvertedIs, FieldIs
  <2>3. \A x, y \in Int : x * y \in Int  OBVIOUS
  <2> QED BY <2>1, <2>2, <2>3 DEF Term
<1>b. v \in [D -> Int] /\ \A i \in D : v[i] = Term(points, i)
  BY <1>a
<1> HIDE DEF v
<1>1. \A s \in SUBSET D : pick[s] = OneOf(s) /\ (s # {} => OneOf(s) \in s /\ OneOf(s) \in D)
  BY DEF OneOf
<1>2. Picks(pick, D)
  BY <1>1 DEF Picks
<1>4. \A d \in D, x \in Field : (x + v[d]) % Prime \in Field
  <2> TAKE d \in D, x \in Field
  <2>1. x \in Int /\ v[d] \in Int  BY <1>b, FieldIs
  <2>2. x + v[d] \in Int  BY <2>1
  <2> QED BY <2>2, FieldIs
<1>5. Steps(move, D, Field) /\ \A d \in D, x \in Field : move[d][x] = (x + v[d]) % Prime
  BY <1>4 DEF Steps
<1>c. IsFiniteSet(D) /\ 0 \in Field  BY FieldIs DEF Plotted
<1> HIDE DEF move, pick
<1>6. PICK f \in [SUBSET D -> Field] : Folded(f, D, 0, move, pick)
  BY <1>2, <1>5, <1>c, FoldExists
<1>7. Solves(f)
  <2>1. ASSUME NEW s \in SUBSET D
        PROVE  f[s] = IF s = {} THEN 0 ELSE (f[s \ {OneOf(s)}] + v[OneOf(s)]) % Prime
    <3>1. f[s \ {OneOf(s)}] \in Field  BY <2>1, <1>6
    <3> QED BY <1>1, <1>5, <1>6, <3>1 DEF Folded
  <2> QED BY <2>1
<1>8. Solves(t)
  <2>1. \E g : Solves(g)  BY <1>7
  <2> QED BY <2>1, Zenon DEF PointSums, v
<1>9. \A s \in SUBSET D : t[s] = IF s = {} THEN 0 ELSE (t[s \ {OneOf(s)}] + v[OneOf(s)]) % Prime
  <2>1. \A g : Solves(g) => \A s \in SUBSET D :
          g[s] = IF s = {} THEN 0 ELSE (g[s \ {OneOf(s)}] + v[OneOf(s)]) % Prime
    OBVIOUS
  <2> HIDE DEF Solves, t
  <2> QED BY <1>8, <2>1
<1> HIDE DEF t, Solves
<1>10. Unfolds(t, D, Field, 0, move, pick)
  <2>1. ASSUME NEW s \in SUBSET D, s # {}, t[s \ {pick[s]}] \in Field
        PROVE  t[s] = move[pick[s]][t[s \ {pick[s]}]]
    <3>1. t[s] = (t[s \ {OneOf(s)}] + v[OneOf(s)]) % Prime
      BY <1>9, <2>1
    <3>2. pick[s] = OneOf(s) /\ OneOf(s) \in D
      BY <1>1, <2>1
    <3> QED BY <1>5, <2>1, <3>1, <3>2
  <2>2. t[{}] = 0  BY <1>9
  <2> QED BY <2>1, <2>2 DEF Unfolds
<1>11. \A s \in SUBSET D : t[s] \in Field
  BY <1>2, <1>5, <1>10, <1>c, FoldTyped
<1>12. Reconstructed(points) = t[D] /\ D \in SUBSET D
  BY ReconstructedIs DEF t
<1>13. \A s \in SUBSET D : t[s] = IF s = {} THEN 0 ELSE (t[s \ {OneOf(s)}] + Term(points, OneOf(s))) % Prime
  BY <1>1, <1>9, <1>b
<1> QED BY <1>a, <1>11, <1>12, <1>13 DEF t

\* Horner's rule.
Horner(poly, x) ==
  CHOOSE f : f = [s \in SUBSET DOMAIN poly |->
    IF s = {} THEN 0 ELSE (f[s \ {Min(s)}] * x + poly[Min(s)]) % Prime]

LEMMA ValueAtIs ==
  ASSUME NEW poly, NEW x
  PROVE  ValueAt(poly, x) = Horner(poly, x)[DOMAIN poly]
BY Zenon DEF ValueAt, FoldRight, MapThenFoldSet, Horner

LEMMA HornerIs ==
  ASSUME NEW n \in Nat, NEW poly \in [1 .. n -> Field], NEW x \in Int
  PROVE  /\ ValueAt(poly, x) \in Field
         /\ \A s \in SUBSET (1 .. n) : Horner(poly, x)[s] \in Field
         /\ \A s \in SUBSET (1 .. n) :
              Horner(poly, x)[s] = IF s = {} THEN 0
                                   ELSE (Horner(poly, x)[s \ {Min(s)}] * x + poly[Min(s)]) % Prime
<1> DEFINE D == 1 .. n
           move == [d \in D |-> [y \in Field |-> (y * x + poly[d]) % Prime]]
           pick == [s \in SUBSET D |-> Min(s)]
           t == Horner(poly, x)
           Solves(f) == f = [s \in SUBSET D |->
                             IF s = {} THEN 0 ELSE (f[s \ {Min(s)}] * x + poly[Min(s)]) % Prime]
<1>c. IsFiniteSet(D) /\ 0 \in Field  BY FieldIs, FS_Interval
<1>1. \A s \in SUBSET D : pick[s] = Min(s) /\ (s # {} => Min(s) \in s /\ Min(s) \in D)
  <2> TAKE s \in SUBSET D
  <2>1. IsFiniteSet(s)  BY <1>c, FS_Subset
  <2>2. s \in SUBSET Int  OBVIOUS
  <2> QED BY <2>1, <2>2, MinOfSet
<1>2. Picks(pick, D)
  BY <1>1 DEF Picks
<1>4. \A d \in D, y \in Field : (y * x + poly[d]) % Prime \in Field
  <2> TAKE d \in D, y \in Field
  <2>1. y \in Int /\ poly[d] \in Int  BY FieldIs
  <2>2. y * x \in Int  BY <2>1
  <2>3. y * x + poly[d] \in Int  BY <2>1, <2>2
  <2> QED BY <2>3, FieldIs
<1>5. Steps(move, D, Field) /\ \A d \in D, y \in Field : move[d][y] = (y * x + poly[d]) % Prime
  BY <1>4 DEF Steps
<1> HIDE DEF move, pick
<1>6. PICK f \in [SUBSET D -> Field] : Folded(f, D, 0, move, pick)
  BY <1>2, <1>5, <1>c, FoldExists
<1>7. Solves(f)
  <2>1. ASSUME NEW s \in SUBSET D
        PROVE  f[s] = IF s = {} THEN 0 ELSE (f[s \ {Min(s)}] * x + poly[Min(s)]) % Prime
    <3>1. f[s \ {Min(s)}] \in Field  BY <2>1, <1>6
    <3> QED BY <1>1, <1>5, <1>6, <3>1 DEF Folded
  <2> QED BY <2>1
<1>8. Solves(t)
  <2>1. \E g : Solves(g)  BY <1>7
  <2>2. DOMAIN poly = D  OBVIOUS
  <2> QED BY <2>1, <2>2, Zenon DEF Horner
<1>9. \A s \in SUBSET D : t[s] = IF s = {} THEN 0 ELSE (t[s \ {Min(s)}] * x + poly[Min(s)]) % Prime
  <2>1. \A g : Solves(g) => \A s \in SUBSET D :
          g[s] = IF s = {} THEN 0 ELSE (g[s \ {Min(s)}] * x + poly[Min(s)]) % Prime
    OBVIOUS
  <2> HIDE DEF Solves, t
  <2> QED BY <1>8, <2>1
<1> HIDE DEF t, Solves
<1>10. Unfolds(t, D, Field, 0, move, pick)
  <2>1. ASSUME NEW s \in SUBSET D, s # {}, t[s \ {pick[s]}] \in Field
        PROVE  t[s] = move[pick[s]][t[s \ {pick[s]}]]
    <3>1. t[s] = (t[s \ {Min(s)}] * x + poly[Min(s)]) % Prime
      BY <1>9, <2>1
    <3>2. pick[s] = Min(s) /\ Min(s) \in D
      BY <1>1, <2>1
    <3> QED BY <1>5, <2>1, <3>1, <3>2
  <2>2. t[{}] = 0  BY <1>9
  <2> QED BY <2>1, <2>2 DEF Unfolds
<1>11. \A s \in SUBSET D : t[s] \in Field
  BY <1>2, <1>5, <1>10, <1>c, FoldTyped
<1>12. ValueAt(poly, x) = t[D] /\ D \in SUBSET D
  BY ValueAtIs DEF t
<1> QED BY <1>9, <1>11, <1>12 DEF t

-----------------------------------------------------------------------------
(* Numbers that are the same modulo the prime *)

Same(x, y) == \E k \in Int : x = y + k * Prime

LEMMA SameModulo ==
  ASSUME NEW x \in Int
  PROVE  Same(x % Prime, x)
<1>0. Prime \in Nat \ {0}  BY FieldIs
<1> DEFINE q == x \div Prime
<1>1. q \in Int /\ x = Prime * q + (x % Prime) /\ x % Prime \in Int
  BY <1>0
<1> HIDE DEF q
<1>2. -q \in Int /\ x % Prime = x + (-q) * Prime
  BY <1>0, <1>1
<1> QED BY <1>2 DEF Same

LEMMA SameSum ==
  ASSUME NEW x \in Int, NEW y \in Int, NEW u \in Int, NEW v \in Int, Same(x, y), Same(u, v)
  PROVE  Same(x + u, y + v)
<1>0. Prime \in Nat  BY FieldIs
<1>1. PICK k \in Int : x = y + k * Prime  BY DEF Same
<1>2. PICK m \in Int : u = v + m * Prime  BY DEF Same
<1>3. (k + m) * Prime = k * Prime + m * Prime  BY <1>0
<1>4. k * Prime \in Int /\ m * Prime \in Int  BY <1>0
<1>5. x + u = (y + v) + (k + m) * Prime  BY <1>1, <1>2, <1>3, <1>4
<1>6. k + m \in Int  OBVIOUS
<1> QED BY <1>5, <1>6 DEF Same

LEMMA SameProduct ==
  ASSUME NEW x \in Int, NEW y \in Int, NEW u \in Int, Same(x, y)
  PROVE  Same(x * u, y * u) /\ Same(u * x, u * y)
<1>0. Prime \in Int  BY FieldIs
<1>1. PICK k \in Int : x = y + k * Prime  BY DEF Same
<1>2. k * u \in Int  OBVIOUS
<1>3. x * u = y * u + (k * u) * Prime  BY <1>0, <1>1
<1>4. u * x = u * y + (k * u) * Prime  BY <1>0, <1>1
<1> QED BY <1>2, <1>3, <1>4 DEF Same

LEMMA SameTransitive ==
  ASSUME NEW x \in Int, NEW y \in Int, NEW z \in Int, Same(x, y), Same(y, z)
  PROVE  Same(x, z)
<1>0. Prime \in Int  BY FieldIs
<1>1. PICK k \in Int : x = y + k * Prime  BY DEF Same
<1>2. PICK m \in Int : y = z + m * Prime  BY DEF Same
<1>3. x = z + (m + k) * Prime  BY <1>0, <1>1, <1>2
<1>4. m + k \in Int  OBVIOUS
<1> QED BY <1>3, <1>4 DEF Same

LEMMA SameSymmetric ==
  ASSUME NEW x \in Int, NEW y \in Int, Same(x, y)
  PROVE  Same(y, x)
<1>0. Prime \in Int  BY FieldIs
<1>1. PICK k \in Int : x = y + k * Prime  BY DEF Same
<1>2. y = x + (-k) * Prime  BY <1>0, <1>1
<1>3. -k \in Int  OBVIOUS
<1> QED BY <1>2, <1>3 DEF Same

LEMMA SameInField ==
  ASSUME NEW x \in Field, NEW y \in Field, Same(x, y)
  PROVE  x = y
<1>0. Prime \in Nat /\ Prime > 1 /\ x \in Int /\ y \in Int /\ x < Prime /\ y < Prime /\ x >= 0 /\ y >= 0
  BY FieldIs DEF Field
<1>1. PICK k \in Int : x = y + k * Prime  BY DEF Same
<1>2. CASE k = 0
  BY <1>0, <1>1, <1>2
<1>3. CASE k >= 1
  <2>1. k * Prime >= Prime  BY <1>0, <1>3
  <2>2. k * Prime \in Int  BY <1>0
  <2> QED BY <1>0, <1>1, <2>1, <2>2
<1>4. CASE k <= -1
  <2>1. k * Prime <= -Prime  BY <1>0, <1>4
  <2>2. k * Prime \in Int  BY <1>0
  <2> QED BY <1>0, <1>1, <2>1, <2>2
<1> QED BY <1>2, <1>3, <1>4

\* The value at 0 of the line through two points of it.
LEMMA Interpolation ==
  ASSUME NEW a \in Int, NEW b \in Int, NEW x \in Int, NEW z \in Int,
         NEW m \in Int, NEW n \in Int, NEW r \in Int,
         Same((x - z) * m, 1), Same((z - x) * n, 1),
         Same(r, (-((b * x + a) * z)) * m + (-((b * z + a) * x)) * n)
  PROVE  Same(r, a)
<1> DEFINE d == x - z
           p == -((b * x + a) * z)
           q == -((b * z + a) * x)
           dm == d * m
           dn == (z - x) * n
           one == 1
<1>0. one \in Int /\ \A u \in Int : u * one = u /\ one * u = u
  OBVIOUS
<1>1. d \in Int /\ p \in Int /\ q \in Int /\ dm \in Int /\ dn \in Int
  OBVIOUS
<1>2. p - q = a * d
  OBVIOUS
<1>3. d * (p * m + q * n) = p * dm + (-q) * dn
  OBVIOUS
<1>4. Same(dm, one) /\ Same(dn, one) /\ Same(r, p * m + q * n)
  OBVIOUS
<1>5. /\ p * m + q * n \in Int /\ p * dm \in Int /\ (-q) * dn \in Int /\ a * d \in Int
      /\ d * r \in Int /\ dm * r \in Int /\ m \in Int /\ -q \in Int
      /\ (a * d) * m \in Int /\ (d * r) * m \in Int /\ a * dm \in Int
  BY <1>1
<1>6. (d * r) * m = dm * r /\ (a * d) * m = a * dm
  OBVIOUS
<1> HIDE DEF d, p, q, dm, dn, one
\* d * r is a * d.
<1>7. Same(p * dm, p * one) /\ Same((-q) * dn, (-q) * one)
  BY <1>0, <1>1, <1>4, <1>5, SameProduct
<1>8. Same(p * dm + (-q) * dn, p + (-q))
  <2>1. Same(p * dm, p) /\ Same((-q) * dn, -q)
    BY <1>0, <1>1, <1>5, <1>7
  <2> QED BY <1>1, <1>5, <2>1, SameSum
<1>9. p + (-q) = a * d
  BY <1>1, <1>2
<1>10. Same(d * r, d * (p * m + q * n))
  BY <1>1, <1>4, <1>5, SameProduct
<1>11. Same(d * r, a * d)
  BY <1>3, <1>5, <1>8, <1>9, <1>10, SameTransitive
\* Multiply by the inverse of d.
<1>12. Same((d * r) * m, (a * d) * m)
  BY <1>5, <1>11, SameProduct
<1>13. Same(dm * r, a * dm)
  BY <1>6, <1>12
<1>14. Same(dm * r, r) /\ Same(a * dm, a)
  <2>1. Same(dm * r, one * r) /\ Same(a * dm, a * one)
    BY <1>0, <1>1, <1>4, SameProduct
  <2> QED BY <1>0, <2>1
<1>15. Same(r, dm * r)
  BY <1>5, <1>14, SameSymmetric
<1> QED BY <1>5, <1>13, <1>14, <1>15, SameTransitive

-----------------------------------------------------------------------------
(* Two shares *)

LEMMA OnlyOne == ASSUME NEW x PROVE OneOf({x}) = x
BY DEF OneOf

\* A product with one factor.
LEMMA ProductOfOne ==
  ASSUME NEW j, NEW v \in [{j} -> Int], NEW base \in Field
  PROVE  Product(base, v) = (base * v[j]) % Prime
<1> DEFINE t == Products(base, v)
           D == {j}
<1>1. IsFiniteSet(D)  BY FS_Singleton
<1>2. \A s \in SUBSET D : t[s] = IF s = {} THEN base ELSE (t[s \ {OneOf(s)}] * v[OneOf(s)]) % Prime
  BY <1>1, ProductsAre
<1>3. D \in SUBSET D /\ {} \in SUBSET D /\ D # {} /\ OneOf(D) = j /\ D \ {j} = {}
  BY OnlyOne
<1>4. Product(base, v) = t[D]
  <2>1. DOMAIN v = D  OBVIOUS
  <2> QED BY <2>1, ProductIs
<1> HIDE DEF t, D
<1>5. t[{}] = base  BY <1>2, <1>3
<1>6. t[D] = (t[D \ {OneOf(D)}] * v[OneOf(D)]) % Prime  BY <1>2, <1>3
<1> QED BY <1>3, <1>4, <1>5, <1>6

LEMMA TermOfTwo ==
  ASSUME NEW points, Plotted(points), NEW i, NEW j, i # j, DOMAIN points = {i, j}
  PROVE  /\ Lagrange(points, i)[1] = (points[i][2] * (Prime - points[j][1])) % Prime
         /\ Lagrange(points, i)[2] = (1 * ((points[i][1] + Prime) - points[j][1])) % Prime
<1>1. Others(points, i) = {j} /\ i \in DOMAIN points /\ j \in DOMAIN points
  BY DEF Others
<1>2. /\ Mirrored(points, i)[j] = Prime - points[j][1]
      /\ Distances(points, i)[j] = (points[i][1] + Prime) - points[j][1]
  BY <1>1 DEF Mirrored, Distances
<1>3. /\ Lagrange(points, i) = <<Product(points[i][2], Mirrored(points, i)),
                                 Product(1, Distances(points, i))>>
      /\ Mirrored(points, i) \in [{j} -> Int]
      /\ Distances(points, i) \in [{j} -> Int]
  BY <1>1, LagrangeIs
<1>4. points[i][2] \in Field /\ 1 \in Field
  BY <1>1, FieldIs DEF Plotted
<1>5. Product(points[i][2], Mirrored(points, i)) = (points[i][2] * Mirrored(points, i)[j]) % Prime
  BY <1>3, <1>4, ProductOfOne
<1>6. Product(1, Distances(points, i)) = (1 * Distances(points, i)[j]) % Prime
  <2> DEFINE one == 1
  <2>1. one \in Field  BY <1>4
  <2> HIDE DEF one
  <2>2. Product(one, Distances(points, i)) = (one * Distances(points, i)[j]) % Prime
    BY <1>3, <2>1, ProductOfOne
  <2> QED BY <2>2 DEF one
<1> QED BY <1>2, <1>3, <1>5, <1>6

LEMMA SumOfTwo ==
  ASSUME NEW points, Plotted(points), DOMAIN points = {1, 2}
  PROVE  Same(Reconstructed(points), Term(points, 1) + Term(points, 2))
<1> DEFINE t == PointSums(points)
           D == {1, 2}
           p == OneOf(D)
           q == OneOf(D \ {p})
<1>1. /\ \A s \in SUBSET D : t[s] = IF s = {} THEN 0 ELSE (t[s \ {OneOf(s)}] + Term(points, OneOf(s))) % Prime
      /\ \A s \in SUBSET D : t[s] \in Field
      /\ Term(points, 1) \in Int /\ Term(points, 2) \in Int
  BY SumsAre
<1>2. p \in D  BY DEF OneOf
<1>3. D \ {p} = {3 - p} /\ 3 - p \in D
  BY <1>2
<1>4. q = 3 - p
  BY <1>3, OnlyOne
<1>5. Reconstructed(points) = t[D]  BY ReconstructedIs
<1> HIDE DEF t
<1>6. t[D] = (t[D \ {p}] + Term(points, p)) % Prime
  <2>1. D \in SUBSET D /\ D # {}  OBVIOUS
  <2> QED BY <1>1, <2>1
<1>7. t[D \ {p}] = (t[{}] + Term(points, q)) % Prime
  <2>1. D \ {p} \in SUBSET D /\ D \ {p} # {}  BY <1>3
  <2>2. (D \ {p}) \ {q} = {}  BY <1>3, <1>4
  <2> HIDE DEF D
  <2> QED BY <1>1, <2>1, <2>2
<1>8. t[{}] = 0  BY <1>1
<1> HIDE DEF D, q, p
<1> DEFINE tp == Term(points, p)  tq == Term(points, q)  first == t[D \ {p}]
<1>9. tp \in Int /\ tq \in Int /\ tp + tq = Term(points, 1) + Term(points, 2)
  BY <1>1, <1>2, <1>4 DEF D
<1>10. first = tq % Prime /\ first \in Int
  <2>1. 0 + tq = tq  BY <1>9
  <2>2. first = tq % Prime  BY <1>7, <1>8, <2>1
  <2> QED BY <2>2, <1>9, FieldIs
<1>11. t[D] = (first + tp) % Prime
  BY <1>6
<1> HIDE DEF tp, tq, first
<1>12. Same(first, tq) /\ Same(tp, tp)
  <2>1. Same(first, tq)  BY <1>9, <1>10, SameModulo
  <2>2. Same(tp, tp)
    <3>1. 0 \in Int /\ tp = tp + 0 * Prime  BY <1>9, FieldIs
    <3> QED BY <3>1 DEF Same
  <2> QED BY <2>1, <2>2
<1>13. Same(first + tp, tq + tp)
  BY <1>9, <1>10, <1>12, SameSum
<1>14. first + tp \in Int /\ tq + tp \in Int /\ tq + tp = tp + tq
  BY <1>9, <1>10
<1>15. Same(t[D], first + tp) /\ t[D] \in Int
  BY <1>11, <1>14, SameModulo, FieldIs
<1>16. Same(t[D], tq + tp)
  BY <1>13, <1>14, <1>15, SameTransitive
<1> QED BY <1>5, <1>9, <1>14, <1>16

\* The value of a line.
LEMMA ValueOfTwo ==
  ASSUME NEW poly \in [1 .. 2 -> Field], NEW x \in Int
  PROVE  ValueAt(poly, x) \in Field /\ Same(ValueAt(poly, x), poly[2] * x + poly[1])
<1> DEFINE t == Horner(poly, x)
           D == {1, 2}
<1>0. 1 .. 2 = D  OBVIOUS
<1>1. /\ ValueAt(poly, x) \in Field
      /\ \A s \in SUBSET D : t[s] = IF s = {} THEN 0 ELSE (t[s \ {Min(s)}] * x + poly[Min(s)]) % Prime
  <2> DEFINE two == 2
  <2>1. two \in Nat /\ poly \in [1 .. two -> Field]  OBVIOUS
  <2> HIDE DEF two
  <2>2. /\ ValueAt(poly, x) \in Field
        /\ \A s \in SUBSET (1 .. two) :
             Horner(poly, x)[s] = IF s = {} THEN 0 ELSE (Horner(poly, x)[s \ {Min(s)}] * x + poly[Min(s)]) % Prime
    BY <2>1, HornerIs
  <2> QED BY <1>0, <2>2 DEF two
<1>2. Min({2}) = 2 /\ Min(D) = 1
  <2>1. {2} = {2, 2}  OBVIOUS
  <2> QED BY <2>1, MinOfTwo
<1>3. ValueAt(poly, x) = t[D]
  BY <1>0, ValueAtIs
<1>4. D \in SUBSET D /\ {2} \in SUBSET D /\ {} \in SUBSET D /\ D # {} /\ {2} # {}
      /\ D \ {1} = {2} /\ {2} \ {2} = {}
  OBVIOUS
<1> HIDE DEF t, D
<1>5. t[{}] = 0  BY <1>1, <1>4
<1>6. t[{2}] = (t[{}] * x + poly[2]) % Prime  BY <1>1, <1>2, <1>4
<1>7. t[D] = (t[{2}] * x + poly[1]) % Prime  BY <1>1, <1>2, <1>4
<1>8. poly[1] \in Int /\ poly[2] \in Field /\ poly[2] \in Int
  BY <1>0, FieldIs
<1>9. 0 * x + poly[2] = poly[2] /\ poly[2] % Prime = poly[2]
  <2>1. 0 * x = 0 /\ 0 + poly[2] = poly[2]  BY <1>8
  <2>2. Prime \in Nat /\ Prime > 1 /\ poly[2] \in 0 .. Prime - 1  BY <1>8, FieldIs
  <2>3. poly[2] % Prime = poly[2]  BY <2>2
  <2> QED BY <2>1, <2>3
<1>10. t[{2}] = poly[2]
  BY <1>5, <1>6, <1>9
<1>11. poly[2] * x \in Int
  BY <1>8
<1>12. poly[2] * x + poly[1] \in Int
  BY <1>8, <1>11
<1> QED BY <1>1, <1>3, <1>7, <1>10, <1>12, SameModulo

\* Two points of a line.
TwoOn(poly, points) ==
  /\ DOMAIN points = {1, 2}
  /\ \A i \in {1, 2} : /\ points[i][1] \in 1 .. Prime - 1
                       /\ points[i][2] = ValueAt(poly, points[i][1])

LEMMA TwoPlotted ==
  ASSUME NEW poly \in [1 .. 2 -> Field], NEW points, TwoOn(poly, points)
  PROVE  Plotted(points)
<1>1. IsFiniteSet({1, 2})
  <2>1. 1 .. 2 = {1, 2}  OBVIOUS
  <2>2. \A n \in Nat : IsFiniteSet(1 .. n)  BY FS_Interval
  <2>3. IsFiniteSet(1 .. 2)  BY <2>2
  <2> QED BY <2>1, <2>3
<1>2. \A i \in {1, 2} : points[i][1] \in Int /\ points[i][2] \in Field
  <2> TAKE i \in {1, 2}
  <2>1. points[i][1] \in Int
    <3>1. points[i][1] \in 1 .. Prime - 1  BY DEF TwoOn
    <3>2. Prime \in Nat  BY FieldIs
    <3> QED BY <3>1, <3>2
  <2> QED BY <2>1, ValueOfTwo DEF TwoOn
<1> QED BY <1>1, <1>2 DEF Plotted, TwoOn

LEMMA TermSame ==
  ASSUME NEW poly \in [1 .. 2 -> Field], NEW points, TwoOn(poly, points),
         NEW i \in {1, 2}, NEW j \in {1, 2}, i # j, points[i][1] # points[j][1]
  PROVE  LET m == Inverted(Lagrange(points, i)[2])
         IN  /\ m \in Int
             /\ Same((points[i][1] - points[j][1]) * m, 1)
             /\ Same(Term(points, i), (-((poly[2] * points[i][1] + poly[1]) * points[j][1])) * m)
<1> DEFINE x == points[i][1]
           z == points[j][1]
           y == points[i][2]
           v == poly[2] * x + poly[1]
           e == (x + Prime) - z
           u == y * (Prime - z)
           den == Lagrange(points, i)[2]
           num == Lagrange(points, i)[1]
           m == Inverted(den)
           one == 1
<1>0. Prime \in Nat /\ Prime > 1  BY FieldIs
<1>1. x \in 1 .. Prime - 1 /\ z \in 1 .. Prime - 1 /\ x # z
  BY DEF TwoOn
<1>2. Plotted(points)  BY TwoPlotted
<1>3. num = u % Prime /\ den = (1 * e) % Prime
  <2>1. DOMAIN points = {i, j}  BY DEF TwoOn
  <2> QED BY <1>2, <2>1, TermOfTwo
<1>4. x \in Int /\ z \in Int /\ poly[1] \in Int /\ poly[2] \in Int
  <2>1. 1 \in 1 .. 2 /\ 2 \in 1 .. 2  OBVIOUS
  <2>2. poly[1] \in Field /\ poly[2] \in Field  BY <2>1
  <2>3. poly[1] \in Int /\ poly[2] \in Int  BY <2>2, FieldIs
  <2>4. x \in Int /\ z \in Int  BY <1>0, <1>1
  <2> QED BY <2>3, <2>4
<1>5. v \in Int /\ y \in Int /\ Same(y, v)
  <2>1. poly[2] * x \in Int  BY <1>4
  <2>2. y \in Field /\ Same(y, v)
    BY <1>4, ValueOfTwo DEF TwoOn
  <2>3. v \in Int  BY <1>4, <2>1
  <2>4. y \in Int  BY <2>2, FieldIs
  <2> QED BY <2>2, <2>3, <2>4
<1>6. e \in Int /\ 1 * e = e /\ u \in Int /\ num \in Int
  <2>1. e \in Int  BY <1>0, <1>4
  <2>2. u \in Int  BY <1>0, <1>4, <1>5
  <2>3. num \in Int  BY <2>2, <1>3, FieldIs
  <2> QED BY <2>1, <2>2, <2>3
\* The denominator is the distance of the points, and not 0.
<1>7. den = e % Prime /\ den \in 1 .. Prime - 1
  <2>1. den = e % Prime  BY <1>3, <1>6
  <2>2. e % Prime \in 0 .. Prime - 1  BY <1>6, FieldIs
  <2>3. CASE x > z
    <3>1. x - z \in 1 .. Prime - 1 /\ e = (x - z) + Prime  BY <1>0, <1>1, <2>3
    <3>2. e % Prime = x - z  BY <1>0, <3>1
    <3> QED BY <2>1, <3>1, <3>2
  <2>4. CASE x < z
    <3>1. e \in 1 .. Prime - 1  BY <1>0, <1>1, <2>4
    <3>2. e % Prime = e  BY <1>0, <3>1
    <3> QED BY <2>1, <3>1, <3>2
  <2> QED BY <1>1, <2>3, <2>4
<1>8. m \in Int /\ den \in Int
  BY <1>0, <1>7, InvertedIs, FieldIs
<1>9. (den * m) % Prime = 1
  BY <1>7, ShareAssumption
<1>10. Same(den, x - z)
  <2>1. Same(den, e)  BY <1>6, <1>7, SameModulo
  <2>2. 1 \in Int /\ e = (x - z) + 1 * Prime  BY <1>0, <1>4
  <2>3. Same(e, x - z)  BY <2>2 DEF Same
  <2>4. x - z \in Int  BY <1>4
  <2> QED BY <1>6, <1>8, <2>1, <2>3, <2>4, SameTransitive
<1>11. Same(num, -(v * z))
  <2>1. Same(num, u)  BY <1>3, <1>6, SameModulo
  <2>2. -(y * z) \in Int /\ v * z \in Int /\ -(v * z) \in Int  BY <1>4, <1>5
  <2>3. Same(u, -(y * z))
    <3>1. u = -(y * z) + y * Prime  BY <1>0, <1>4, <1>5
    <3> QED BY <1>5, <3>1 DEF Same
  <2>4. Same(-(y * z), -(v * z))
    <3>1. -z \in Int /\ y * (-z) = -(y * z) /\ v * (-z) = -(v * z)  BY <1>4, <1>5
    <3> HIDE DEF y, v, z
    <3>2. Same(y * (-z), v * (-z))  BY <1>5, <3>1, SameProduct
    <3> QED BY <3>1, <3>2
  <2> HIDE DEF u, v, y, z, num
  <2>5. Same(num, -(y * z))  BY <1>6, <2>1, <2>2, <2>3, SameTransitive
  <2> QED BY <1>6, <2>2, <2>4, <2>5, SameTransitive
<1> HIDE DEF den, num, one, v, e, u
<1>12. Same(num * m, (-(v * z)) * m)
  <2>1. -(v * z) \in Int  BY <1>4, <1>5
  <2> HIDE DEF z, m
  <2> QED BY <1>6, <1>8, <1>11, <2>1, SameProduct
<1>13. Same((x - z) * m, 1)
  <2>1. den * m \in Int /\ x - z \in Int /\ (x - z) * m \in Int  BY <1>4, <1>8
  <2>2. one \in Int /\ (den * m) % Prime = one  BY <1>9 DEF one
  <2> HIDE DEF x, z, m
  <2>3. Same(one, den * m)  BY <2>1, <2>2, SameModulo
  <2>4. Same(den * m, (x - z) * m)  BY <1>8, <1>10, <2>1, SameProduct
  <2>5. Same(one, (x - z) * m)  BY <2>1, <2>2, <2>3, <2>4, SameTransitive
  <2>6. Same((x - z) * m, one)  BY <2>1, <2>2, <2>5, SameSymmetric
  <2> QED BY <2>6 DEF one
<1>14. Term(points, i) = num * m
  BY DEF Term, num, den
<1> QED BY <1>8, <1>12, <1>13, <1>14 DEF den, v

\* Two different shares give the score, the same one twice gives 0.
LEMMA TwoShares ==
  ASSUME NEW poly \in [1 .. 2 -> Field], NEW points, TwoOn(poly, points)
  PROVE  /\ points[1][1] # points[2][1] => Reconstructed(points) = poly[1]
         /\ points[1][1] = points[2][1] /\ Prime > 2 => Reconstructed(points) = 0
         /\ Reconstructed(points) \in Field
<1> DEFINE x == points[1][1]
           z == points[2][1]
           m == Inverted(Lagrange(points, 1)[2])
           n == Inverted(Lagrange(points, 2)[2])
           a == poly[1]
           b == poly[2]
           r == Reconstructed(points)
           p == -((b * x + a) * z)
           q == -((b * z + a) * x)
<1>0. Prime \in Nat /\ Prime > 1  BY FieldIs
<1>1. Plotted(points)  BY TwoPlotted
<1>2. r \in Field /\ r \in Int /\ Same(r, Term(points, 1) + Term(points, 2))
      /\ Term(points, 1) \in Int /\ Term(points, 2) \in Int
  <2>1. DOMAIN points = {1, 2}  BY DEF TwoOn
  <2>2. r \in Field /\ r \in Int  BY <1>1, SumsAre, FieldIs
  <2>3. Term(points, 1) \in Int /\ Term(points, 2) \in Int  BY <1>1, <2>1, SumsAre
  <2>4. Same(r, Term(points, 1) + Term(points, 2))  BY <1>1, <2>1, SumOfTwo
  <2> QED BY <2>2, <2>3, <2>4
<1>3. x \in 1 .. Prime - 1 /\ z \in 1 .. Prime - 1 /\ x \in Int /\ z \in Int
  <2>1. x \in 1 .. Prime - 1 /\ z \in 1 .. Prime - 1  BY DEF TwoOn
  <2> QED BY <1>0, <2>1
<1>4. a \in Field /\ b \in Field /\ a \in Int /\ b \in Int
  <2>1. 1 \in 1 .. 2 /\ 2 \in 1 .. 2  OBVIOUS
  <2>2. a \in Field /\ b \in Field  BY <2>1
  <2> QED BY <2>2, FieldIs
<1>5. ASSUME x # z  PROVE r = a
  <2>1. /\ m \in Int /\ Same((x - z) * m, 1) /\ Same(Term(points, 1), p * m)
        /\ n \in Int /\ Same((z - x) * n, 1) /\ Same(Term(points, 2), q * n)
    <3>1. 1 \in {1, 2} /\ 2 \in {1, 2} /\ 1 # 2  OBVIOUS
    <3>2. m \in Int /\ Same((x - z) * m, 1) /\ Same(Term(points, 1), p * m)
      BY <1>5, <3>1, TermSame
    <3>3. n \in Int /\ Same((z - x) * n, 1) /\ Same(Term(points, 2), q * n)
      BY <1>5, <3>1, TermSame
    <3> QED BY <3>2, <3>3
  <2>2. p * m \in Int /\ q * n \in Int /\ p * m + q * n \in Int
    <3>1. b * x \in Int /\ b * z \in Int  BY <1>3, <1>4
    <3>2. p \in Int /\ q \in Int  BY <1>3, <1>4, <3>1
    <3> HIDE DEF p, q, m, n
    <3> QED BY <2>1, <3>2
  <2>3. Same(r, p * m + q * n)
    <3> DEFINE s == Term(points, 1)  t == Term(points, 2)  u == p * m  v == q * n
    <3>1. /\ s \in Int /\ t \in Int /\ s + t \in Int /\ u \in Int /\ v \in Int /\ u + v \in Int
          /\ Same(s, u) /\ Same(t, v) /\ Same(r, s + t)
      BY <1>2, <2>1, <2>2
    <3> HIDE DEF s, t, u, v, r
    <3>2. Same(s + t, u + v)  BY <3>1, SameSum
    <3>3. Same(r, u + v)  BY <1>2, <3>1, <3>2, SameTransitive
    <3> QED BY <3>3 DEF u, v
  <2>4. Same(r, a)
    <3> HIDE DEF x, z, m, n, a, b, r
    <3> QED BY <1>2, <1>3, <1>4, <2>1, <2>3, Interpolation
  <2> QED BY <1>2, <1>4, <2>4, SameInField
<1>6. ASSUME x = z, Prime > 2  PROVE r = 0
  <2>1. Lagrange(points, 1)[2] = 0 /\ Lagrange(points, 2)[2] = 0
    <3>1. DOMAIN points = {1, 2} /\ 1 # 2  BY DEF TwoOn
    <3>2. /\ Lagrange(points, 1)[2] = (1 * ((x + Prime) - z)) % Prime
          /\ Lagrange(points, 2)[2] = (1 * ((z + Prime) - x)) % Prime
      BY <1>1, <3>1, TermOfTwo
    <3>3. 1 * ((x + Prime) - z) = Prime /\ 1 * ((z + Prime) - x) = Prime
      BY <1>0, <1>3, <1>6
    <3>4. Prime % Prime = 0  BY <1>0
    <3> QED BY <3>2, <3>3, <3>4
  <2>2. m = 0 /\ n = 0
    <3>1. Inverted(0) = 0  BY <1>6, InvertedIs
    <3> QED BY <2>1, <3>1
  <2>3. Term(points, 1) = 0 /\ Term(points, 2) = 0
    <3>1. Lagrange(points, 1)[1] \in Int /\ Lagrange(points, 2)[1] \in Int
      BY <1>1, LagrangeIs, FieldIs DEF TwoOn
    <3> QED BY <2>2, <3>1 DEF Term
  <2>4. Same(r, 0)
    <3>1. 0 + 0 = 0  OBVIOUS
    <3> QED BY <1>2, <2>3, <3>1
  <2> QED BY <1>2, <2>4, SameInField, FieldIs
<1> QED BY <1>2, <1>5, <1>6

-----------------------------------------------------------------------------
(* Sharing a score *)

ShareSpec == ShareInit /\ [][ShareNext]_shareVars

LEMMA HeldPoints ==
  ASSUME coeffs \in [1 .. Threshold -> Field], NEW points, IsFiniteSet(DOMAIN points),
         \A i \in DOMAIN points : \E v \in Holders : points[i] = Point(v)
  PROVE  /\ Reconstructed(points) \in Field
         /\ Threshold = 2 /\ DOMAIN points = {1, 2} => TwoOn(coeffs, points)
<1>0. /\ Threshold \in Nat /\ Shares \in Nat /\ Prime \in Nat /\ Shares < Prime
  BY ShareAssumption
<1>1. \A v \in Holders : v \in 1 .. Prime - 1 /\ v \in Int
  BY <1>0 DEF Holders
<1>2. \A v \in Holders : ValueAt(coeffs, v) \in Field
  BY <1>0, <1>1, HornerIs
<1>3. \A i \in DOMAIN points : points[i][1] \in Holders /\ points[i][2] = ValueAt(coeffs, points[i][1])
  BY DEF Point
<1>4. Plotted(points)
  BY <1>1, <1>2, <1>3 DEF Plotted
<1>5. Reconstructed(points) \in Field
  BY <1>4, SumsAre
<1>6. ASSUME Threshold = 2, DOMAIN points = {1, 2}  PROVE TwoOn(coeffs, points)
  BY <1>1, <1>3, <1>6 DEF TwoOn
<1> QED BY <1>5, <1>6

LEMMA FirstAre ==
  ASSUME NEW A, answers \in Seq(A)
  PROVE  /\ Len(FirstAnswers) = IF Threshold <= Len(answers) THEN Threshold ELSE Len(answers)
         /\ DOMAIN FirstAnswers = 1 .. Len(FirstAnswers)
         /\ \A i \in 1 .. Len(FirstAnswers) : i \in 1 .. Len(answers) /\ FirstAnswers[i] = answers[i]
<1> DEFINE k == IF Threshold <= Len(answers) THEN Threshold ELSE Len(answers)
<1>1. Threshold \in Nat /\ Threshold >= 1 /\ Len(answers) \in Nat
  BY ShareAssumption
<1>2. k \in Nat /\ k <= Len(answers)
  BY <1>1
<1>3. Min({Threshold, Len(answers)}) = k
  BY <1>1, MinOfTwo
<1> HIDE DEF k
<1>4. FirstAnswers = SubSeq(answers, 1, k)
  BY <1>3 DEF FirstAnswers
<1>5. Len(SubSeq(answers, 1, k)) = k /\ \A i \in 1 .. k : SubSeq(answers, 1, k)[i] = answers[i]
  BY <1>1, <1>2
<1>6. SubSeq(answers, 1, k) \in Seq(A)
  BY <1>1, <1>2
<1>7. DOMAIN FirstAnswers = 1 .. Len(FirstAnswers)
  BY <1>4, <1>6
<1>8. \A i \in 1 .. k : i \in 1 .. Len(answers)
  BY <1>1, <1>2
<1> QED BY <1>4, <1>5, <1>7, <1>8 DEF k

\* With a threshold of 2, as coordinators and verifiers have by default.
SharesInv ==
  /\ ShareTypeOK
  /\ outcome.by # "nobody" => coeffs # <<>>
  /\ Threshold = 2 => SharesAgree

LEMMA SharesInitInv == ASSUME ShareInit PROVE SharesInv
<1>1. outcome.by = "nobody"  BY DEF ShareInit, NoOutcome
<1>2. ShareTypeOK  BY FieldIs DEF ShareInit, ShareTypeOK, NoOutcome
<1> QED BY <1>1, <1>2 DEF SharesInv, SharesAgree

Conclusions == [by : {"nobody", "coordinator", "verifier", "dictionary"}, valid : BOOLEAN, score : Field]

LEMMA SplitKeeps ==
  ASSUME SharesInv, NEW poly \in [1 .. Threshold -> Field], SplitScore(poly)
  PROVE  SharesInv'
<1>1. outcome.by = "nobody" /\ outcome' = outcome /\ answers' = answers /\ coeffs' = poly
  BY DEF SharesInv, SplitScore
<1>2. ShareTypeOK'
  BY <1>1 DEF SharesInv, ShareTypeOK
<1> QED BY <1>1, <1>2 DEF SharesInv, SharesAgree

LEMMA AnswerKeeps ==
  ASSUME SharesInv, NEW v \in Holders \cup {Outsider}, AnswerShare(v)
  PROVE  SharesInv'
<1>1. outcome.by = "nobody" /\ outcome' = outcome /\ coeffs' = coeffs
  BY DEF AnswerShare, NoOutcome
<1>2. answers' \in Seq(Holders \cup {Outsider})
  BY DEF AnswerShare, SharesInv, ShareTypeOK
<1>3. ShareTypeOK'
  BY <1>1, <1>2 DEF SharesInv, ShareTypeOK
<1> QED BY <1>1, <1>3 DEF SharesInv, SharesAgree

LEMMA TwoDiffer ==
  ASSUME NEW S, IsFiniteSet(S), Cardinality(S) = 2
  PROVE  \E u, w \in S : u # w
<1>1. S # {}
  BY FS_EmptySet
<1>2. PICK u \in S : TRUE
  BY <1>1
<1>3. Cardinality(S \ {u}) = 1 /\ IsFiniteSet(S \ {u})
  <2>1. IsFiniteSet(S \ {u}) /\ Cardinality(S \ {u}) = Cardinality(S) - 1
    BY <1>2, FS_RemoveElement
  <2> QED BY <2>1
<1>4. S \ {u} # {}
  BY <1>3, FS_EmptySet
<1> QED BY <1>4

\* Two of the first answers are from different holders.
LEMMA TwoAnswered ==
  ASSUME answers \in Seq(Holders \cup {Outsider}), Threshold = 2,
         Cardinality({v \in Holders : v \in ToSet(FirstAnswers)}) = 2
  PROVE  /\ Len(answers) >= 2 /\ DOMAIN FirstAnswers = {1, 2}
         /\ answers[1] \in Holders /\ answers[2] \in Holders /\ answers[1] # answers[2]
<1> DEFINE H == {v \in Holders : v \in ToSet(FirstAnswers)}
<1>1. IsFiniteSet(H)
  <2>1. IsFiniteSet(Holders)  BY ShareAssumption, FS_Interval DEF Holders
  <2> QED BY <2>1, FS_Subset
<1>2. PICK u \in H, w \in H : u # w
  <2> HIDE DEF H
  <2>1. Cardinality(H) = 2  BY DEF H
  <2> QED BY <1>1, <2>1, TwoDiffer
<1>3. /\ Len(FirstAnswers) = IF 2 <= Len(answers) THEN 2 ELSE Len(answers)
      /\ DOMAIN FirstAnswers = 1 .. Len(FirstAnswers)
      /\ \A i \in 1 .. Len(FirstAnswers) : FirstAnswers[i] = answers[i]
  BY FirstAre
<1>4. PICK i \in DOMAIN FirstAnswers, j \in DOMAIN FirstAnswers :
        u = FirstAnswers[i] /\ w = FirstAnswers[j]
  BY <1>2 DEF ToSet
<1>5. Len(answers) \in Nat /\ i \in Nat /\ j \in Nat /\ i # j
  BY <1>2, <1>3, <1>4
<1>6. Len(answers) >= 2
  BY <1>3, <1>5
<1>7. DOMAIN FirstAnswers = {1, 2}
  BY <1>3, <1>6
<1>8. {i, j} = {1, 2} /\ answers[i] = u /\ answers[j] = w
  BY <1>3, <1>4, <1>5, <1>7
<1>9. CASE i = 1
  BY <1>2, <1>6, <1>7, <1>8, <1>9
<1>10. CASE i = 2
  BY <1>2, <1>6, <1>7, <1>8, <1>10
<1> QED BY <1>8, <1>9, <1>10

LEMMA ValidateKeeps ==
  ASSUME SharesInv, ValidatePrivately
  PROVE  SharesInv'
<1> DEFINE points == [v \in 1 .. Threshold |-> Point(v)]
           score == Reconstructed(points)
<1>1. coeffs \in [1 .. Threshold -> Field] /\ coeffs' = coeffs /\ coeffs # <<>> /\ answers' = answers
  BY DEF ValidatePrivately, SharesInv, ShareTypeOK
<1>2. outcome' = [by |-> "coordinator", valid |-> score >= CoordinatorMin, score |-> score]
  BY DEF ValidatePrivately
<1>3. IsFiniteSet(1 .. Threshold) /\ 1 .. Threshold \subseteq Holders
  BY ShareAssumption, FS_Interval DEF Holders
<1>4. \A i \in DOMAIN points : \E v \in Holders : points[i] = Point(v)
  BY <1>3
<1>5. score \in Field /\ (Threshold = 2 => TwoOn(coeffs, points))
  <2>1. IsFiniteSet(DOMAIN points)  BY <1>3
  <2>2. Threshold = 2 => DOMAIN points = {1, 2}  OBVIOUS
  <2> HIDE DEF points
  <2> QED BY <1>1, <1>4, <2>1, <2>2, HeldPoints
<1>6. ASSUME Threshold = 2  PROVE score = coeffs[1]
  <2>1. points[1][1] = 1 /\ points[2][1] = 2  BY <1>6 DEF Point
  <2>2. coeffs \in [1 .. 2 -> Field]  BY <1>1, <1>6
  <2> HIDE DEF points
  <2>3. points[1][1] # points[2][1]  BY <2>1
  <2> QED BY <1>5, <1>6, <2>2, <2>3, TwoShares
<1> HIDE DEF points, score
<1>7. ShareTypeOK'
  BY <1>1, <1>2, <1>5 DEF SharesInv, ShareTypeOK
<1>8. Threshold = 2 => SharesAgree'
  BY <1>1, <1>2, <1>6 DEF SharesAgree
<1> QED BY <1>1, <1>7, <1>8 DEF SharesInv

LEMMA CollectKeeps ==
  ASSUME SharesInv, CollectAndVerify
  PROVE  SharesInv'
<1> DEFINE known == {i \in DOMAIN FirstAnswers : answers[i] \in Holders}
           points == [i \in known |-> Point(answers[i])]
           score == Reconstructed(points)
           H == {v \in Holders : v \in ToSet(FirstAnswers)}
<1>1. /\ coeffs \in [1 .. Threshold -> Field] /\ coeffs' = coeffs /\ coeffs # <<>>
      /\ answers' = answers /\ answers \in Seq(Holders \cup {Outsider})
  BY DEF CollectAndVerify, SharesInv, ShareTypeOK
<1>2. outcome' = IF Cardinality(known) < Threshold
                 THEN [by |-> "verifier", valid |-> FALSE, score |-> 0]
                 ELSE [by |-> "verifier", valid |-> score >= VerifierMin, score |-> score]
  BY DEF CollectAndVerify
<1>3. /\ Len(FirstAnswers) = IF Threshold <= Len(answers) THEN Threshold ELSE Len(answers)
      /\ DOMAIN FirstAnswers = 1 .. Len(FirstAnswers)
  BY <1>1, FirstAre
<1>4. Len(answers) \in Nat /\ Threshold \in Nat /\ Len(FirstAnswers) \in Nat
  BY <1>1, <1>3, ShareAssumption
<1>5. IsFiniteSet(known)
  <2>1. \A n \in Nat : IsFiniteSet(1 .. n)  BY FS_Interval
  <2>2. IsFiniteSet(DOMAIN FirstAnswers)  BY <1>3, <1>4, <2>1
  <2> QED BY <2>2, FS_Subset
<1>6. \A i \in DOMAIN points : \E v \in Holders : points[i] = Point(v)
  OBVIOUS
<1>7. score \in Field /\ (Threshold = 2 /\ known = {1, 2} => TwoOn(coeffs, points))
  <2>1. IsFiniteSet(DOMAIN points) /\ DOMAIN points = known  BY <1>5
  <2> HIDE DEF points, known
  <2> QED BY <1>1, <1>6, <2>1, HeldPoints
<1>8. ASSUME Threshold = 2, Cardinality(H) = 2  PROVE known = {1, 2} /\ answers[1] # answers[2]
  BY <1>1, <1>8, TwoAnswered
<1>9. ASSUME Threshold = 2, ~(Cardinality(known) < 2)  PROVE known = {1, 2}
  <2>1. known \subseteq {1, 2}  BY <1>3, <1>4, <1>9
  <2> HIDE DEF known
  <2>2. known = {} \/ known = {1} \/ known = {2} \/ known = {1, 2}  BY <2>1
  <2>3. Cardinality({}) = 0 /\ Cardinality({1}) = 1 /\ Cardinality({2}) = 1
    BY FS_EmptySet, FS_Singleton
  <2> QED BY <1>9, <2>2, <2>3
<1>10. ASSUME Threshold = 2, known = {1, 2}
       PROVE  /\ answers[1] # answers[2] => score = coeffs[1]
              /\ answers[1] = answers[2] => score = 0
  <2>1. points[1][1] = answers[1] /\ points[2][1] = answers[2]  BY <1>10 DEF Point
  <2>2. coeffs \in [1 .. 2 -> Field]  BY <1>1, <1>10
  <2>3. Prime > 2  BY <1>10, ShareAssumption
  <2>4. TwoOn(coeffs, points)  BY <1>7, <1>10
  <2> HIDE DEF points, known
  <2> QED BY <2>1, <2>2, <2>3, <2>4, TwoShares
<1>11. VerifierMin \in Nat /\ VerifierMin > 0  BY ShareAssumption
<1>12. ASSUME Threshold = 2, known = {1, 2}  PROVE Cardinality(known) = 2
  <2>1. Cardinality({1, 2}) = 2
    <3>1. IsFiniteSet({1}) /\ Cardinality({1}) = 1 /\ 2 \notin {1} /\ {1} \cup {2} = {1, 2}  BY FS_Singleton
    <3>2. Cardinality({1} \cup {2}) = Cardinality({1}) + 1  BY <3>1, FS_AddElement
    <3> QED BY <3>1, <3>2
  <2> QED BY <1>12, <2>1
<1>13. FirstAnswers' = FirstAnswers
  BY <1>1 DEF FirstAnswers
<1> HIDE DEF known, points, score
<1>14. ShareTypeOK'
  <2>1. outcome' \in Conclusions  BY <1>2, <1>7, FieldIs DEF Conclusions
  <2> QED BY <1>1, <2>1 DEF SharesInv, ShareTypeOK, Conclusions
<1>15. ASSUME Threshold = 2  PROVE SharesAgree'
  <2>1. outcome'.by = "verifier"  BY <1>2
  <2>2. ASSUME Cardinality(H) = 2  PROVE outcome'.score = coeffs[1]
    BY <1>2, <1>8, <1>10, <1>12, <1>15, <2>2
  <2>3. ASSUME outcome'.valid  PROVE coeffs[1] >= VerifierMin
    <3>1. ~(Cardinality(known) < 2)  BY <1>2, <1>15, <2>3
    <3>2. known = {1, 2}  BY <1>9, <1>15, <3>1
    <3>3. outcome'.valid = (score >= VerifierMin)  BY <1>2, <1>15, <3>1
    <3>4. score >= VerifierMin  BY <2>3, <3>3
    <3>5. CASE answers[1] = answers[2]
      <4>1. score = 0  BY <1>10, <1>15, <3>2, <3>5
      <4> QED BY <1>11, <3>4, <4>1
    <3>6. CASE answers[1] # answers[2]
      <4>1. score = coeffs[1]  BY <1>10, <1>15, <3>2, <3>6
      <4> QED BY <3>4, <4>1
    <3> QED BY <3>5, <3>6
  <2>4. H' = H  BY <1>13
  <2> HIDE DEF H
  <2>5. {v \in Holders : v \in ToSet(FirstAnswers)'} = H  BY <1>13 DEF H
  <2> QED BY <1>1, <1>15, <2>1, <2>2, <2>3, <2>5 DEF SharesAgree
<1> QED BY <1>1, <1>2, <1>14, <1>15 DEF SharesInv

LEMMA ReconstructKeeps ==
  ASSUME SharesInv, ReconstructAndValidate
  PROVE  SharesInv'
<1> DEFINE points == [i \in DOMAIN FirstAnswers |-> Point(answers[i])]
           score == Reconstructed(points)
           H == {v \in Holders : v \in ToSet(FirstAnswers)}
<1>1. /\ coeffs \in [1 .. Threshold -> Field] /\ coeffs' = coeffs /\ coeffs # <<>>
      /\ answers' = answers /\ answers \in Seq(Holders \cup {Outsider})
  BY DEF ReconstructAndValidate, SharesInv, ShareTypeOK
<1>2. outcome' = IF Len(answers) < Threshold
                 THEN [by |-> "dictionary", valid |-> FALSE, score |-> 0]
                 ELSE [by |-> "dictionary", valid |-> score >= CoordinatorMin, score |-> score]
  BY DEF ReconstructAndValidate
<1>3. /\ Len(FirstAnswers) = IF Threshold <= Len(answers) THEN Threshold ELSE Len(answers)
      /\ DOMAIN FirstAnswers = 1 .. Len(FirstAnswers)
      /\ \A i \in 1 .. Len(FirstAnswers) : i \in 1 .. Len(answers)
  BY <1>1, FirstAre
<1>4. Len(answers) \in Nat /\ Threshold \in Nat /\ Len(FirstAnswers) \in Nat
  BY <1>1, <1>3, ShareAssumption
<1>5. DOMAIN answers = 1 .. Len(answers)
      /\ \A i \in 1 .. Len(answers) : answers[i] \in Holders
  BY <1>1 DEF ReconstructAndValidate, ToSet
<1>6. \A i \in DOMAIN points : \E v \in Holders : points[i] = Point(v)
  BY <1>3, <1>5
<1>7. score \in Field /\ (Threshold = 2 /\ DOMAIN FirstAnswers = {1, 2} => TwoOn(coeffs, points))
  <2>1. \A n \in Nat : IsFiniteSet(1 .. n)  BY FS_Interval
  <2>2. IsFiniteSet(DOMAIN points) /\ DOMAIN points = DOMAIN FirstAnswers
    BY <1>3, <1>4, <2>1
  <2> HIDE DEF points
  <2> QED BY <1>1, <1>6, <2>2, HeldPoints
<1>8. ASSUME Threshold = 2, Cardinality(H) = 2
      PROVE  Len(answers) >= 2 /\ DOMAIN FirstAnswers = {1, 2} /\ answers[1] # answers[2]
  BY <1>1, <1>8, TwoAnswered
<1>10. ASSUME Threshold = 2, DOMAIN FirstAnswers = {1, 2}, answers[1] # answers[2]
       PROVE  score = coeffs[1]
  <2>1. points[1][1] = answers[1] /\ points[2][1] = answers[2]  BY <1>10 DEF Point
  <2>2. coeffs \in [1 .. 2 -> Field]  BY <1>1, <1>10
  <2>3. TwoOn(coeffs, points)  BY <1>7, <1>10
  <2> HIDE DEF points
  <2> QED BY <1>10, <2>1, <2>2, <2>3, TwoShares
<1>13. FirstAnswers' = FirstAnswers
  BY <1>1 DEF FirstAnswers
<1> HIDE DEF points, score
<1>14. ShareTypeOK'
  <2>1. outcome' \in Conclusions  BY <1>2, <1>7, FieldIs DEF Conclusions
  <2> QED BY <1>1, <2>1 DEF SharesInv, ShareTypeOK, Conclusions
<1>15. ASSUME Threshold = 2  PROVE SharesAgree'
  <2>1. outcome'.by = "dictionary"  BY <1>2
  <2>2. ASSUME Cardinality(H) = 2  PROVE outcome'.score = coeffs[1]
    <3>1. ~(Len(answers) < 2)  BY <1>4, <1>8, <1>15, <2>2
    <3> QED BY <1>2, <1>8, <1>10, <1>15, <2>2, <3>1
  <2> HIDE DEF H
  <2>5. {v \in Holders : v \in ToSet(FirstAnswers)'} = H  BY <1>13 DEF H
  <2> QED BY <1>1, <1>15, <2>1, <2>2, <2>5 DEF SharesAgree
<1> QED BY <1>1, <1>2, <1>14, <1>15 DEF SharesInv

LEMMA SharesInvariant == ShareSpec => []SharesInv
<1>1. ShareInit => SharesInv  BY SharesInitInv
<1>2. SharesInv /\ [ShareNext]_shareVars => SharesInv'
  <2> SUFFICES ASSUME SharesInv, [ShareNext]_shareVars PROVE SharesInv'
    OBVIOUS
  <2>1. CASE UNCHANGED shareVars
    BY <2>1 DEF shareVars, SharesInv, ShareTypeOK, SharesAgree, FirstAnswers
  <2> QED BY <2>1, SplitKeeps, AnswerKeeps, ValidateKeeps, CollectKeeps, ReconstructKeeps DEF ShareNext
<1> QED BY <1>1, <1>2, PTL DEF ShareSpec

\* With the code's threshold of 2, for any number of validators, any prime and
\* any polynomial: two different holders give the score back whoever answers
\* first, and an answer that comes twice or from an outsider passes no score
\* below the limit (mpc.py:36-70, 101-145, 174-198).
THEOREM TwoSharesAgree ==
  ASSUME Threshold = 2
  PROVE  ShareSpec => []SharesAgree
<1>1. SharesInv => SharesAgree  BY DEF SharesInv
<1> QED BY <1>1, SharesInvariant, PTL

-----------------------------------------------------------------------------
(* The station *)

\* Every part behaves in the station as it does alone.
LEMMA StationParts ==
  Spec => /\ WalletSpec /\ CameraRuns /\ DashboardSpec /\ LinkSpec /\ EmergencySpec
          /\ RequestsSpec /\ RewardsSpec /\ LogSpec /\ EvidenceSpec /\ CommandSpec /\ FlightSpec
          /\ SwarmSpec /\ LessonsSpec /\ RoundsSpec /\ WillSpec /\ ShareSpec /\ PlanningSpec
<1>1. Init => /\ WalletInit /\ CameraInit /\ DashboardInit /\ LinkInit /\ EmergencyInit
              /\ RequestsInit /\ RewardsInit /\ LogInit /\ EvidenceInit /\ CommandInit /\ FlightInit
              /\ SwarmInit /\ LessonsInit /\ RoundsInit /\ WillInit /\ ShareInit /\ PlanningInit
  BY Zenon DEF Init
<1>2. ASSUME [Next]_stationVars
      PROVE  /\ [WalletNext]_walletVars /\ [CameraNext]_cameraVars /\ [DashboardNext]_dashboardVars
             /\ [LinkNext]_linkVars /\ [EmergencyNext]_emergencyVars /\ [RequestsNext]_requestVars
             /\ [RewardsNext]_rewardVars /\ [LogNext]_logVars /\ [EvidenceNext]_evidenceVars
             /\ [CommandNext]_commandVars /\ [FlightNext]_flightVars
             /\ [SwarmNext]_swarmVars /\ [LessonsNext]_lessonVars /\ [RoundsNext]_roundVars
             /\ [WillNext]_willVars /\ [ShareNext]_shareVars /\ [PlanningNext]_planningVars
  <2>1. CASE UNCHANGED stationVars  BY <2>1 DEF stationVars
  <2>2. CASE Next  BY <2>2, Zenon DEF Next, Keeps
  <2> QED BY <1>2, <2>1, <2>2
<1> QED BY <1>1, <1>2, PTL DEF Spec, WalletSpec, CameraRuns, DashboardSpec, LinkSpec, EmergencySpec,
       RequestsSpec, RewardsSpec, LogSpec, EvidenceSpec, CommandSpec, FlightSpec,
       SwarmSpec, LessonsSpec, RoundsSpec, WillSpec, ShareSpec, PlanningSpec

\* What vouches for a mission is accepted exactly as long as it should be: records,
\* attestations and proofs, and the chain of a history (verifier.py:99-158,
\* popw_export.py:38-57, mission_history.py:40-51).
THEOREM StationAcceptsRecords == Spec => []RecordsAccepted
BY StationParts, RecordsVerified, ChainVouchesForHistory, PTL DEF RecordsAccepted

\* A mission is paid for as it was flown: the dashboard credits each at its own
\* score, and a better one never earns less (app.py:199-245, economics.py:71-126).
THEOREM StationPaysAsFlown == Spec => []PaidAsFlown
BY StationParts, MissionsCreditedAsFlown, BetterFlyingPays, PTL DEF PaidAsFlown

\* A signed command is carried out at most once, and no flight with a jump in it is
\* cleared (security.py:122, 186-203, threat_defense.py:65).
THEOREM StationChecksAgree == Spec => []ChecksAgree
BY StationParts, CommandsOnce, JumpsNotCleared, PTL DEF ChecksAgree

\* What drones learn: lessons that do not meet each other keep whole weights that
\* move the way a score says, and a swarm that has averaged has one model, within
\* what its drones sent (planner.py:215-230, federated_learning.py:129-218).
THEOREM StationLearnsRight == Spec => []LearnedRight
BY StationParts, LessonsStay, SwarmKeepsAverage, PTL DEF LearnedRight

\* With the code's threshold of 2, the scores of a station's missions are shared and
\* put together as they were: see TwoSharesAgree (mpc.py:36-70, 101-145, 174-198).
THEOREM StationSharesAgree ==
  ASSUME Threshold = 2
  PROVE  Spec => []SharesAgree
BY StationParts, TwoSharesAgree, PTL

\* The types of what each part of a station keeps, and that a lock, an id or a number
\* a part gives out belongs to one holder, as long as a drone reports a battery between
\* 0 and 100 (the state of wallet.py, app.py, camera_adapter.py, drone_connector.py,
\* emergency.py, mpc.py, sim.py, verifier.py, security.py, planner.py).
THEOREM StationTyped ==
  ASSUME Batteries \subseteq 0 .. 100
  PROVE  Spec => []TypeOK
<1>1. ShareSpec => []ShareTypeOK
  <2>1. SharesInv => ShareTypeOK  BY DEF SharesInv
  <2> QED BY <2>1, SharesInvariant, PTL
<1> QED BY <1>1, StationParts, WalletTyped, CameraTyped, DashboardTyped, LinkTyped, EmergencyTyped,
       SwarmFlightTyped, EvidenceTyped, ChecksTyped, LearningTyped, PTL DEF TypeOK
===============================================================================
