----------------------------- MODULE ServerProofs -----------------------------
(***************************************************************************)
(* What the dashboard's process and the REST server keep, for any number   *)
(* of threads, clients, drones and missions: the wallet's ledger, requests *)
(* and their mission roots, the credits of the refreshes, the drones'      *)
(* connections, the camera's streams and the city's emergencies.           *)
(***************************************************************************)
EXTENDS Wallet, RestApi, Dashboard, DroneLink, Camera, Emergency,
        FiniteSetTheorems, WellFoundedInduction, TLAPS


-----------------------------------------------------------------------------
(* Sums *)

\* Every set of naturals has a least element.
LEMMA LeastNatural ==
  ASSUME NEW T \in SUBSET Nat, T # {}
  PROVE  \E m \in T : \A k \in T : m <= k
<1>1. PICK n \in T : TRUE  OBVIOUS
<1> DEFINE S == 0 .. n
           R == StrictSubsetOrdering(S)
           B == {0 .. k : k \in {j \in T : j <= n}}
<1>2. IsFiniteSet(S)  BY FS_Interval
<1>3. IsWellFoundedOn(R, SUBSET S)
  <2> HIDE DEF S
  <2> QED BY <1>2, FS_StrictSubsetOrderingWellFounded, FS_FiniteSubsetsOfFinite
<1>4. B \subseteq SUBSET S /\ B # {}  BY SMT, <1>1
<1>5. PICK x \in B : \A y \in B : ~(<<y, x>> \in R)
  <2> HIDE DEF B, R, S
  <2> QED BY <1>3, <1>4, WFMin
<1>6. PICK m \in {j \in T : j <= n} : x = 0 .. m  OBVIOUS
<1>7. ASSUME NEW k \in T, k < m  PROVE FALSE
  <2>1. 0 .. k \in B  BY <1>7
  <2>2. 0 .. k \subseteq x /\ 0 .. k # x  BY <1>6, <1>7
  <2> QED BY <1>5, <2>1, <2>2, <1>4 DEF StrictSubsetOrdering
<1> QED BY <1>7

\* The values that can be summed up to n.
Summable(f, n) == \A i \in 1 .. n : f[i] \in Int

\* The function whose last value SumUpTo takes.
Sums(f, n) ==
  CHOOSE sum : sum = [i \in 0 .. n |-> IF i = 0 THEN 0 ELSE sum[i - 1] + f[i]]
IsSums(sum, f, n) ==
  /\ sum \in [0 .. n -> Int]
  /\ \A i \in 0 .. n : sum[i] = IF i = 0 THEN 0 ELSE sum[i - 1] + f[i]

LEMMA SumsExist ==
  ASSUME NEW f, NEW N \in Nat, Summable(f, N)
  PROVE  \E sum : IsSums(sum, f, N)
<1> DEFINE Bad == {n \in 0 .. N : ~ \E sum : IsSums(sum, f, n)}
<1>1. SUFFICES ASSUME Bad # {} PROVE FALSE
  OBVIOUS
<1>2. PICK m \in Bad : \A k \in Bad : m <= k
  <2>1. Bad \in SUBSET Nat  OBVIOUS
  <2> HIDE DEF Bad
  <2> QED BY <1>1, <2>1, LeastNatural
<1>3. CASE m = 0
  <2>1. IsSums([i \in 0 .. 0 |-> 0], f, 0)  BY DEF IsSums
  <2> QED BY <2>1, <1>3
<1>4. CASE m # 0
  <2>1. m - 1 \in 0 .. N /\ m - 1 \notin Bad  BY <1>2, <1>4
  <2>2. PICK sum : IsSums(sum, f, m - 1)  BY <2>1
  <2> DEFINE more == [i \in 0 .. m |-> IF i = m THEN sum[m - 1] + f[m] ELSE sum[i]]
  <2>3. f[m] \in Int  BY <1>4 DEF Summable
  <2>4. more \in [0 .. m -> Int]  BY <2>2, <2>3, <1>4 DEF IsSums
  <2>5. \A i \in 0 .. m : more[i] = IF i = 0 THEN 0 ELSE more[i - 1] + f[i]
    BY <2>2, <1>4 DEF IsSums
  <2>6. IsSums(more, f, m)  BY <2>4, <2>5 DEF IsSums
  <2> QED BY <2>6
<1> QED BY <1>3, <1>4

LEMMA SumsAgree ==
  ASSUME NEW f, NEW g, NEW N \in Nat, NEW M \in Nat, N <= M,
         \A i \in 1 .. N : f[i] = g[i],
         NEW s, IsSums(s, f, N), NEW t, IsSums(t, g, M)
  PROVE  \A i \in 0 .. N : s[i] = t[i]
<1> DEFINE Bad == {i \in 0 .. N : s[i] # t[i]}
<1>1. SUFFICES ASSUME Bad # {} PROVE FALSE
  OBVIOUS
<1>2. PICK m \in Bad : \A k \in Bad : m <= k
  <2>1. Bad \in SUBSET Nat  OBVIOUS
  <2> HIDE DEF Bad
  <2> QED BY <1>1, <2>1, LeastNatural
<1>3. m # 0  BY DEF IsSums
<1>4. s[m - 1] = t[m - 1]  BY <1>2, <1>3
<1> QED BY <1>3, <1>4 DEF IsSums

LEMMA SumUpToIsSum ==
  ASSUME NEW f, NEW N \in Nat, Summable(f, N)
  PROVE  IsSums(Sums(f, N), f, N) /\ SumUpTo(f, N) = Sums(f, N)[N]
<1>1. PICK sum : IsSums(sum, f, N)  BY SumsExist
<1>2. sum = [i \in 0 .. N |-> IF i = 0 THEN 0 ELSE sum[i - 1] + f[i]]
  BY <1>1 DEF IsSums
<1>3. Sums(f, N) = [i \in 0 .. N |-> IF i = 0 THEN 0 ELSE Sums(f, N)[i - 1] + f[i]]
  BY <1>2 DEF Sums
<1>4. SumUpTo(f, N) = Sums(f, N)[N]
  BY DEF SumUpTo, Sums
<1> DEFINE s == Sums(f, N)
           Bad == {i \in 0 .. N : s[i] \notin Int}
<1>5. Bad = {}
  <2>1. SUFFICES ASSUME Bad # {} PROVE FALSE
    OBVIOUS
  <2>2. PICK m \in Bad : \A k \in Bad : m <= k
    <3>1. Bad \in SUBSET Nat  OBVIOUS
    <3> HIDE DEF Bad
    <3> QED BY <2>1, <3>1, LeastNatural
  <2>3. m # 0  BY <1>3
  <2>4. s[m - 1] \in Int /\ f[m] \in Int  BY <2>2, <2>3 DEF Summable
  <2> QED BY <1>3, <2>3, <2>4
<1>6. IsSums(s, f, N)
  BY <1>3, <1>5 DEF IsSums
<1> QED BY <1>4, <1>6

\* A total is the one before and the last value, whatever function holds them.
LEMMA SumUpToStep ==
  ASSUME NEW f, NEW g, NEW N \in Nat, Summable(f, N), Summable(g, N + 1),
         \A i \in 1 .. N : f[i] = g[i]
  PROVE  /\ SumUpTo(f, N) \in Int
         /\ SumUpTo(g, N + 1) = SumUpTo(f, N) + g[N + 1]
<1> DEFINE s == Sums(f, N)
           t == Sums(g, N + 1)
<1>1. IsSums(s, f, N) /\ SumUpTo(f, N) = s[N]
  BY SumUpToIsSum
<1>2. N + 1 \in Nat /\ N <= N + 1
  OBVIOUS
<1>3. IsSums(t, g, N + 1) /\ SumUpTo(g, N + 1) = t[N + 1]
  BY <1>2, SumUpToIsSum, Zenon
<1> HIDE DEF s, t
<1>4. \A i \in 0 .. N : s[i] = t[i]
  BY <1>1, <1>2, <1>3, SumsAgree
<1>5. s[N] \in Int /\ s[N] = t[N]
  BY <1>1, <1>4 DEF IsSums
<1>6. t[N + 1] = t[N] + g[N + 1]
  BY <1>3 DEF IsSums
<1> QED BY <1>1, <1>3, <1>5, <1>6

LEMMA SumUpToOfNone ==
  ASSUME NEW f
  PROVE  SumUpTo(f, 0) = 0
<1>1. Summable(f, 0)  BY DEF Summable
<1> QED BY <1>1, SumUpToIsSum DEF IsSums

-----------------------------------------------------------------------------
(* Wallet: one object for the file *)

Posting(c) == step[c] \in {"write", "commit"}
Inside(c) == Posting(c) \/ step[c] \in {"earned", "penalties"}

Entry == [amount : Int, after : Int]

WalletTypes ==
  /\ balance \in Int
  /\ entries \in Seq(Entry)
  /\ held \in [Wallets -> Clients \cup {NoOne}]
  /\ step \in [Clients -> {"idle", "called", "write", "commit", "earned", "penalties"}]
  /\ call \in [Clients -> [wallet : Wallets, amount : Int,
                          op : {"none", "credit", "debit", "summary", "shown"}]]
  /\ read \in [Clients -> [balance : Int, earned : Int, penalties : Int]]
  /\ written \in [Clients -> Entry]

\* Who is inside has the lock, and does what was asked for.
Locked ==
  \A c \in Clients :
     /\ Inside(c) => held[call[c].wallet] = c
     /\ Posting(c) => call[c].op \in {"credit", "debit"}
     /\ step[c] \in {"earned", "penalties"} => call[c].op = "summary"
     /\ step[c] = "called" => call[c].op \in {"credit", "debit", "summary"}
     /\ call[c].op = "credit" => call[c].amount >= 0

\* The balance somebody inside has read is still the balance.
Current == \A c \in Clients : Inside(c) => read[c].balance = balance

\* The transaction that is not committed yet goes on from the balance.
Prepared ==
  \A c \in Clients : step[c] = "commit" =>
     written[c].after = balance + written[c].amount /\ written[c].after >= 0

\* The balance is the sum of the entries.
Balanced ==
  /\ Earnings \in Int /\ Penalties \in Int
  /\ balance = Earnings - Penalties
  /\ balance >= 0

Summing ==
  \A c \in Clients : step[c] = "penalties" => read[c].earned = Earnings

OneWallet == \A v, w \in Wallets : v = w

WalletInv ==
  /\ WalletTypes /\ Locked /\ Current /\ Prepared /\ Balanced /\ Summing
  /\ SummaryAdds

LEMMA WalletInitially == WalletInit => WalletInv
<1> SUFFICES ASSUME WalletInit PROVE WalletInv
  OBVIOUS
<1> USE WalletAssumption DEF WalletInit, Nothing, NoSums, NoCall
<1>1. WalletTypes
  BY DEF WalletTypes, Entry
<1>2. Locked /\ Current /\ Prepared /\ Summing /\ SummaryAdds
  BY DEF Locked, Current, Prepared, Summing, SummaryAdds, Inside, Posting
<1>3. Balanced
  BY SumUpToOfNone DEF Balanced, Earnings, Penalties, Gained, Lost
<1> QED BY <1>1, <1>2, <1>3 DEF WalletInv

\* Posting an entry moves one of the two sums, or none.
LEMMA SumsOfPosting ==
  ASSUME entries \in Seq(Entry), NEW e \in Entry, entries' = Append(entries, e)
  PROVE  /\ Earnings \in Int /\ Penalties \in Int
         /\ Earnings' \in Int /\ Penalties' \in Int
         /\ Earnings' - Penalties' = Earnings - Penalties + e.amount
<1> DEFINE n == Len(entries)
<1>1. /\ n \in Nat /\ Len(entries') = n + 1
      /\ DOMAIN entries = 1 .. n /\ DOMAIN entries' = 1 .. (n + 1)
      /\ \A i \in 1 .. n : entries[i] \in Entry /\ entries'[i] = entries[i]
      /\ entries'[n + 1] = e
  OBVIOUS
<1>2. e.amount \in Int /\ \A i \in 1 .. n : entries[i].amount \in Int
  BY <1>1 DEF Entry
<1>3. /\ Summable(Gained, n) /\ Summable(Gained', n + 1)
      /\ Summable(Lost, n) /\ Summable(Lost', n + 1)
      /\ \A i \in 1 .. n : Gained[i] = Gained'[i] /\ Lost[i] = Lost'[i]
      /\ Gained'[n + 1] - Lost'[n + 1] = e.amount
      /\ Gained'[n + 1] \in Int /\ Lost'[n + 1] \in Int
  BY <1>1, <1>2 DEF Summable, Gained, Lost
<1> HIDE DEF n
<1>4. /\ SumUpTo(Gained, n) \in Int
      /\ SumUpTo(Gained', n + 1) = SumUpTo(Gained, n) + Gained'[n + 1]
  BY <1>1, <1>3, SumUpToStep
<1>5. /\ SumUpTo(Lost, n) \in Int
      /\ SumUpTo(Lost', n + 1) = SumUpTo(Lost, n) + Lost'[n + 1]
  BY <1>1, <1>3, SumUpToStep
<1>6. /\ Earnings = SumUpTo(Gained, n) /\ Penalties = SumUpTo(Lost, n)
      /\ Earnings' = SumUpTo(Gained', n + 1) /\ Penalties' = SumUpTo(Lost', n + 1)
  BY <1>1 DEF Earnings, Penalties, n
<1> QED BY <1>2, <1>3, <1>4, <1>5, <1>6

\* Nobody else is inside while somebody holds the lock of the only object.
LEMMA OneInside ==
  ASSUME WalletTypes, Locked, OneWallet, NEW c \in Clients, NEW d \in Clients,
         Inside(c), Inside(d)
  PROVE  c = d
BY DEF WalletTypes, Locked, OneWallet

LEMMA WalletStepKeeps ==
  ASSUME WalletInv, OneWallet, NEW c \in Clients, WalletStep(c)
  PROVE  WalletInv'
<1> USE WalletAssumption
<1> USE DEF WalletInv
<1>1. ASSUME NEW w \in Wallets, NEW op \in {"credit", "debit", "summary"},
             NEW a \in Amounts \cup {0}, Call(c, w, op, a)
      PROVE  WalletInv'
  <2> USE <1>1 DEF Call
  <2>1. WalletTypes'  BY DEF WalletTypes
  <2>2. Locked'  BY DEF WalletTypes, Locked, Inside, Posting
  <2>3. Current'  BY DEF WalletTypes, Current, Inside, Posting
  <2>4. Prepared'  BY DEF WalletTypes, Prepared
  <2>5. Balanced'  BY DEF Balanced, Earnings, Penalties, Gained, Lost
  <2>6. Summing'  BY DEF WalletTypes, Summing, Earnings, Gained
  <2>7. SummaryAdds'  BY DEF WalletTypes, SummaryAdds
  <2> QED BY <2>1, <2>2, <2>3, <2>4, <2>5, <2>6, <2>7
<1>2. CASE ReadBalance(c)
  <2> USE <1>2 DEF ReadBalance, NoSums
  <2>1. WalletTypes'  BY DEF WalletTypes
  <2>2. Locked'  BY DEF WalletTypes, Locked, Inside, Posting
  <2>3. Current'  BY DEF WalletTypes, Current, Inside, Posting
  <2>4. Prepared'  BY DEF WalletTypes, Prepared
  <2>5. Balanced'  BY DEF Balanced, Earnings, Penalties, Gained, Lost
  <2>6. Summing'  BY DEF WalletTypes, Summing, Earnings, Gained
  <2>7. SummaryAdds'  BY DEF WalletTypes, SummaryAdds, Locked
  <2> QED BY <2>1, <2>2, <2>3, <2>4, <2>5, <2>6, <2>7
<1>3. CASE Write(c)
  <2> USE <1>3 DEF Write
  <2>1. Signed(c) \in Int /\ read[c].balance = balance /\ balance + Signed(c) >= 0
    BY DEF WalletTypes, Locked, Current, Balanced, Inside, Posting, Signed, Lesser
  <2>2. WalletTypes'  BY <2>1 DEF WalletTypes, Entry
  <2>3. Locked'  BY DEF WalletTypes, Locked, Inside, Posting
  <2>4. Current'  BY DEF WalletTypes, Current, Inside, Posting
  <2>5. Prepared'  BY <2>1 DEF WalletTypes, Prepared
  <2>6. Balanced'  BY DEF Balanced, Earnings, Penalties, Gained, Lost
  <2>7. Summing'  BY DEF WalletTypes, Summing, Earnings, Gained
  <2>8. SummaryAdds'  BY DEF WalletTypes, SummaryAdds
  <2> QED BY <2>2, <2>3, <2>4, <2>5, <2>6, <2>7, <2>8
<1>4. CASE CommitEntry(c)
  <2> USE <1>4 DEF CommitEntry, Releases
  <2>1. written[c] \in Entry /\ entries \in Seq(Entry)
        /\ written[c].after = balance + written[c].amount /\ written[c].after >= 0
    BY DEF WalletTypes, Prepared
  <2>2. WalletTypes'
    BY <2>1 DEF WalletTypes, Entry, Nothing
  <2>3. \A d \in Clients : Inside(d) => d = c
    BY OneInside DEF Inside, Posting
  <2>4. Locked'  BY <2>3 DEF WalletTypes, Locked, Inside, Posting
  <2>5. Current' /\ Prepared' /\ Summing'
    BY <2>3 DEF WalletTypes, Current, Prepared, Summing, Inside, Posting
  <2>6. Balanced'
    BY <2>1, SumsOfPosting DEF WalletTypes, Balanced
  <2>7. SummaryAdds'  BY DEF WalletTypes, SummaryAdds
  <2> QED BY <2>2, <2>4, <2>5, <2>6, <2>7
<1>5. CASE SumEarned(c)
  <2> USE <1>5 DEF SumEarned
  <2>1. WalletTypes'  BY DEF WalletTypes, Balanced
  <2>2. Locked'  BY DEF WalletTypes, Locked, Inside, Posting
  <2>3. Current'  BY DEF WalletTypes, Current, Inside, Posting
  <2>4. Prepared'  BY DEF WalletTypes, Prepared
  <2>5. Balanced'  BY DEF Balanced, Earnings, Penalties, Gained, Lost
  <2>6. Summing'  BY DEF WalletTypes, Summing, Earnings, Gained
  <2>7. SummaryAdds'  BY DEF WalletTypes, SummaryAdds, Locked
  <2> QED BY <2>1, <2>2, <2>3, <2>4, <2>5, <2>6, <2>7
<1>6. CASE SumPenalties(c)
  <2> USE <1>6 DEF SumPenalties, Releases
  <2>1. WalletTypes'  BY DEF WalletTypes, Balanced
  <2>2. \A d \in Clients : Inside(d) => d = c
    BY OneInside DEF Inside, Posting
  <2>3. Locked'  BY <2>2 DEF WalletTypes, Locked, Inside, Posting
  <2>4. Current' /\ Prepared' /\ Summing'
    BY <2>2 DEF WalletTypes, Current, Prepared, Summing, Inside, Posting
  <2>5. Balanced'  BY DEF Balanced, Earnings, Penalties, Gained, Lost
  <2>6. SummaryAdds'
    BY DEF WalletTypes, SummaryAdds, Current, Summing, Balanced, Inside
  <2> QED BY <2>1, <2>3, <2>4, <2>5, <2>6
<1>7. QED BY <1>1, <1>2, <1>3, <1>4, <1>5, <1>6 DEF WalletStep

LEMMA WalletStopKeeps ==
  ASSUME WalletInv, OneWallet, NEW w \in Wallets, Stop(w)
  PROVE  WalletInv'
<1> USE WalletAssumption DEF WalletInv, Stop, Nothing, NoCall
<1>1. \A c \in Clients : call[c].wallet = w
  BY DEF WalletTypes, OneWallet
<1>2. WalletTypes'  BY DEF WalletTypes, Entry
<1>3. Locked' /\ Current' /\ Prepared' /\ Summing' /\ SummaryAdds'
  BY <1>1 DEF WalletTypes, Locked, Current, Prepared, Summing, SummaryAdds, Inside, Posting
<1>4. Balanced'  BY DEF Balanced, Earnings, Penalties, Gained, Lost
<1> QED BY <1>2, <1>3, <1>4

LEMMA WalletInductive ==
  ASSUME WalletInv, OneWallet, [WalletNext]_walletVars
  PROVE  WalletInv'
<1>1. CASE UNCHANGED walletVars
  BY <1>1 DEF walletVars, WalletInv, WalletTypes, Locked, Current, Prepared, Balanced,
              Summing, SummaryAdds, Inside, Posting, Earnings, Penalties, Gained, Lost
<1>2. CASE WalletNext
  BY <1>2, WalletStepKeeps, WalletStopKeeps DEF WalletNext
<1> QED BY <1>1, <1>2

\* Every summary of the only wallet object on a file adds up (wallet.py:188-203).
THEOREM SummariesAddUp ==
  ASSUME OneWallet
  PROVE  WalletSpec => []SummaryAdds
<1>1. WalletInv => SummaryAdds  BY DEF WalletInv
<1>2. WalletInv /\ [WalletNext]_walletVars => WalletInv'  BY WalletInductive
<1> QED BY <1>1, <1>2, WalletInitially, PTL DEF WalletSpec

-----------------------------------------------------------------------------
(* Wallet implements Ledger *)

LEMMA WalletPosts ==
  ASSUME WalletInv, OneWallet, [WalletNext]_walletVars
  PROVE  [Account!Next]_(Account!ledgerVars)
<1> USE DEF Account!ledgerVars
<1>1. ASSUME NEW c \in Clients, CommitEntry(c)  PROVE Account!Next
  <2>1. /\ written[c] \in Entry /\ balance \in Int
        /\ written[c].after = balance + written[c].amount /\ written[c].after >= 0
    BY <1>1 DEF WalletInv, WalletTypes, Prepared, CommitEntry
  <2>2. /\ balance' = balance + written[c].amount
        /\ written[c] = [amount |-> balance' - balance, after |-> balance']
        /\ entries' = Append(entries, written[c])
    BY <1>1, <2>1 DEF CommitEntry, Entry
  <2> QED BY <2>1, <2>2 DEF Account!Next, Account!Post, Entry
<1>2. ASSUME NEW c \in Clients, WalletStep(c), ~CommitEntry(c)
      PROVE  UNCHANGED <<balance, entries>>
  BY <1>2 DEF WalletStep, Call, ReadBalance, Write, SumEarned, SumPenalties
<1>3. ASSUME NEW w \in Wallets, Stop(w)  PROVE UNCHANGED <<balance, entries>>
  BY <1>3 DEF Stop
<1>4. CASE UNCHANGED walletVars
  BY <1>4 DEF walletVars
<1> QED BY <1>1, <1>2, <1>3, <1>4 DEF WalletNext

\* The only wallet object on a file is a ledger (wallet.py:119-151).
THEOREM WalletKeepsLedger ==
  ASSUME OneWallet
  PROVE  WalletSpec => LedgerPromise
<1>1. WalletInit => Account!Init  BY DEF WalletInit, Account!Init
<1>2. WalletInv /\ [WalletNext]_walletVars => WalletInv'  BY WalletInductive
<1>3. WalletInv /\ [WalletNext]_walletVars => [Account!Next]_(Account!ledgerVars)
  BY WalletPosts
<1> QED BY <1>1, <1>2, <1>3, WalletInitially, PTL DEF WalletSpec, LedgerPromise, Account!Spec

\* With any number of objects on the file: who is inside has its object's lock.
WalletHeld ==
  /\ WalletTypes
  /\ \A c \in Clients : Inside(c) => held[call[c].wallet] = c
  /\ Earnings \in Int /\ Penalties \in Int

LEMMA WalletStepHeld ==
  ASSUME WalletHeld, NEW c \in Clients, WalletStep(c)
  PROVE  WalletHeld'
<1> USE WalletAssumption
<1> USE DEF WalletHeld
<1>1. ASSUME NEW w \in Wallets, NEW op \in {"credit", "debit", "summary"},
             NEW a \in Amounts \cup {0}, Call(c, w, op, a)
      PROVE  WalletHeld'
  <2> USE <1>1 DEF Call
  <2>1. WalletTypes'  BY DEF WalletTypes, Entry
  <2>2. \A d \in Clients : Inside(d)' => held'[call'[d].wallet] = d
    BY DEF WalletTypes, Inside, Posting
  <2> QED BY <2>1, <2>2 DEF Earnings, Penalties, Gained, Lost
<1>2. CASE ReadBalance(c)
  BY <1>2, SMTT(30) DEF ReadBalance, NoSums, WalletTypes, Inside, Posting, Earnings, Penalties, Gained, Lost
<1>3. CASE Write(c)
  <2> USE <1>3 DEF Write
  <2>1. Signed(c) \in Int  BY DEF WalletTypes, Signed, Lesser
  <2>2. WalletTypes'  BY <2>1, SMTT(30) DEF WalletTypes, Entry
  <2> QED BY <2>2 DEF WalletTypes, Inside, Posting, Earnings, Penalties, Gained, Lost
<1>4. CASE CommitEntry(c)
  <2> USE <1>4 DEF CommitEntry, Releases
  <2>1. written[c] \in Entry /\ entries \in Seq(Entry)  BY DEF WalletTypes
  <2>2. WalletTypes'  BY <2>1 DEF WalletTypes, Entry, Nothing
  <2>3. Earnings' \in Int /\ Penalties' \in Int  BY <2>1, SumsOfPosting
  <2>4. \A d \in Clients : Inside(d)' => held'[call[d].wallet] = d
    BY DEF WalletTypes, Inside, Posting
  <2> QED BY <2>2, <2>3, <2>4
<1>5. CASE SumEarned(c)
  BY <1>5, ZenonT(60) DEF SumEarned, WalletTypes, Inside, Posting, Earnings, Penalties, Gained, Lost
<1>6. CASE SumPenalties(c)
  <2> USE <1>6 DEF SumPenalties, Releases
  <2>1. WalletTypes'  BY DEF WalletTypes
  <2>2. \A d \in Clients : Inside(d)' => held'[call'[d].wallet] = d
    BY DEF WalletTypes, Inside, Posting
  <2> QED BY <2>1, <2>2 DEF Earnings, Penalties, Gained, Lost
<1> QED BY <1>1, <1>2, <1>3, <1>4, <1>5, <1>6 DEF WalletStep

LEMMA WalletTyped == WalletSpec => []WalletTypeOK
<1>1. WalletInit => WalletHeld
  BY WalletInitially DEF WalletInv, WalletHeld, Locked, Balanced
<1>2. WalletHeld /\ [WalletNext]_walletVars => WalletHeld'
  <2> SUFFICES ASSUME WalletHeld, [WalletNext]_walletVars PROVE WalletHeld'
    OBVIOUS
  <2>1. CASE UNCHANGED walletVars
    BY <2>1 DEF walletVars, WalletHeld, WalletTypes, Inside, Posting, Earnings, Penalties, Gained, Lost
  <2>2. ASSUME NEW w \in Wallets, Stop(w)  PROVE WalletHeld'
    <3> USE <2>2, WalletAssumption DEF WalletHeld, Stop, Nothing, NoCall
    <3>1. WalletTypes'  BY DEF WalletTypes, Entry
    <3>2. \A d \in Clients : Inside(d)' => held'[call'[d].wallet] = d
      BY DEF WalletTypes, Inside, Posting
    <3> QED BY <3>1, <3>2 DEF Earnings, Penalties, Gained, Lost
  <2> QED BY <2>1, <2>2, WalletStepHeld DEF WalletNext
<1>3. WalletHeld => WalletTypeOK
  BY DEF WalletHeld, WalletTypes, WalletTypeOK, Inside, Posting
<1> QED BY <1>1, <1>2, <1>3, PTL DEF WalletSpec

-----------------------------------------------------------------------------
(* REST API: requests, accounts, webhooks and the root of the missions     *)

RequestsSpec == RequestsInit /\ [][RequestsNext]_requestVars

Labels == {"idle", "verify", "admit", "serve", "repute", "add", "compute", "commit",
           "notify", "decrypt", "created", "revoked"}

Job == [at : Labels, client : ClientIds, endpoint : Endpoints, mission : Int,
        root : Seq(Int), found : SUBSET Int]
Told == [endpoint : Endpoints, status : Int, mission : Int, root : Seq(Int)]

JobTypes ==
  /\ job \in [Threads -> Job]
  /\ answer \in [Threads -> Told]
  /\ flights \in Int
  /\ scores \in Seq(Int)
  /\ root \in [Threads -> Seq(Int)]
  /\ commitments \in Seq([root : Seq(Int), count : Int])

Lists(posted, mission) == \E i \in DOMAIN posted : posted[i] = mission
Committed(posted) == \E i \in DOMAIN commitments : commitments[i].root = posted

\* What has become of the mission of thread t's request.
JobInv(t) ==
  /\ job[t].at \in {"repute", "add", "compute"} => job[t].endpoint = "run"
  /\ job[t].at \in {"created", "revoked"} => job[t].endpoint # "run"
  /\ job[t].at = "compute" => Lists(scores, job[t].mission)
  /\ job[t].at = "commit" =>
       \/ job[t].endpoint = "scoreroot"
       \/ job[t].endpoint = "run" /\ Lists(root[t], job[t].mission)
  /\ job[t].at \in {"notify", "decrypt"} /\ job[t].endpoint = "run" =>
       Lists(job[t].root, job[t].mission) /\ Committed(job[t].root)
  /\ answer[t].endpoint = "run" /\ answer[t].status = 200 =>
       Lists(answer[t].root, answer[t].mission) /\ Committed(answer[t].root)

RootInv == JobTypes /\ \A t \in Threads : JobInv(t)

LEMMA NothingTyped == NoJob \in Job /\ NoAnswer \in Told
<1>1. << >> \in Seq(Int) /\ {} \in SUBSET Int  OBVIOUS
<1>2. "idle" \in Labels /\ "me" \in Endpoints /\ 0 \in Int  BY DEF Labels, Endpoints, Required
<1>3. Root \in ClientIds  BY RestApiAssumption
<1>4. NoJob \in Job  BY <1>1, <1>2, <1>3 DEF NoJob, Job
<1>5. NoAnswer \in Told  BY <1>1, <1>2 DEF NoAnswer, Told
<1> QED BY <1>4, <1>5

LEMMA RootInvInitially == RequestsInit => RootInv
<1> SUFFICES ASSUME RequestsInit PROVE RootInv  OBVIOUS
<1>2. JobTypes 
  BY NothingTyped, RestApiAssumption DEF RequestsInit, ScoreRootInit, JobTypes
<1>3. \A t \in Threads : JobInv(t)
  BY DEF RequestsInit, NoJob, NoAnswer, JobInv
<1> QED BY <1>2, <1>3 DEF RootInv

\* Scores and commitments are only added; the requests of other threads go on as they were.
Undisturbed(t) ==
  /\ job'[t] = job[t]
  /\ answer'[t] = answer[t]
  /\ root'[t] = root[t]

Grow ==
  /\ \A i \in DOMAIN scores : i \in DOMAIN scores' /\ scores'[i] = scores[i]
  /\ \A i \in DOMAIN commitments : i \in DOMAIN commitments' /\ commitments'[i] = commitments[i]

LEMMA UndisturbedJob ==
  ASSUME NEW t \in Threads, JobInv(t), Undisturbed(t), Grow
  PROVE  JobInv(t)'
BY DEF JobInv, Undisturbed, Grow, Lists, Committed

LEMMA AnswerTypes ==
  ASSUME RootInv, NEW t \in Threads, NEW status \in Int, Answer(t, status)
  PROVE  /\ job' \in [Threads -> Job] /\ answer' \in [Threads -> Told]
         /\ job'[t] = NoJob
         /\ answer'[t].endpoint = job[t].endpoint /\ answer'[t].status = status
         /\ answer'[t].mission = job[t].mission /\ answer'[t].root = job[t].root
         /\ \A u \in Threads \ {t} : job'[u] = job[u] /\ answer'[u] = answer[u]
<1>1. NoJob \in Job  BY NothingTyped
<1>2. job[t] \in Job  BY DEF RootInv, JobTypes
<1> DEFINE told == [endpoint |-> job[t].endpoint, status |-> status,
                    mission |-> job[t].mission, root |-> job[t].root]
<1>3. /\ told \in Told
      /\ told.endpoint = job[t].endpoint /\ told.status = status
      /\ told.mission = job[t].mission /\ told.root = job[t].root
  BY <1>2 DEF Told, Job
<1>4. job' = [job EXCEPT ![t] = NoJob] /\ answer' = [answer EXCEPT ![t] = told]
  BY DEF Answer
<1> HIDE DEF told
<1>5. job' \in [Threads -> Job] /\ answer' \in [Threads -> Told]
  BY <1>1, <1>3, <1>4 DEF RootInv, JobTypes
<1>6. job'[t] = NoJob /\ answer'[t] = told
  BY <1>4 DEF RootInv, JobTypes
<1>7. \A u \in Threads \ {t} : job'[u] = job[u] /\ answer'[u] = answer[u]
  BY <1>4 DEF RootInv, JobTypes
<1> QED BY <1>3, <1>5, <1>6, <1>7

\* A step of one thread's request.
LEMMA RootInvOfStep ==
  ASSUME RootInv, NEW t \in Threads, JobTypes', Grow, JobInv(t)',
         \A u \in Threads \ {t} : Undisturbed(u)
  PROVE  RootInv'
BY UndisturbedJob DEF RootInv

LEMMA NoGrowth ==
  ASSUME UNCHANGED <<scores, commitments>>
  PROVE  Grow
BY DEF Grow

\* A step that only changes where the request is.
LEMMA GoTypes ==
  ASSUME RootInv, NEW t \in Threads, NEW label \in Labels, Go(t, label)
  PROVE  /\ job' \in [Threads -> Job]
         /\ job'[t].at = label
         /\ job'[t].client = job[t].client
         /\ job'[t].endpoint = job[t].endpoint
         /\ job'[t].mission = job[t].mission
         /\ job'[t].root = job[t].root
         /\ \A u \in Threads \ {t} : job'[u] = job[u]
<1> DEFINE next == [job[t] EXCEPT !.at = label]
<1>1. job[t] \in Job  BY DEF RootInv, JobTypes
<1>2. /\ next \in Job
      /\ next.at = label /\ next.client = job[t].client /\ next.endpoint = job[t].endpoint
      /\ next.mission = job[t].mission /\ next.root = job[t].root
  BY <1>1 DEF Job
<1>3. job' = [job EXCEPT ![t] = next]  BY DEF Go
<1> HIDE DEF next
<1>4. job' \in [Threads -> Job]  BY <1>2, <1>3 DEF RootInv, JobTypes
<1>5. job'[t] = next /\ \A u \in Threads \ {t} : job'[u] = job[u]
  BY <1>3 DEF RootInv, JobTypes
<1> QED BY <1>2, <1>4, <1>5

LEMMA ArriveRoot ==
  ASSUME RootInv, NEW t \in Threads, NEW c \in ClientIds, NEW endpoint \in Endpoints,
         Arrive(t, c, endpoint)
  PROVE  RootInv'
<1> DEFINE new == [NoJob EXCEPT !.at = "verify", !.client = c, !.endpoint = endpoint]
<1>1. "verify" \in Labels  BY DEF Labels
<1>2. new \in Job /\ new.at = "verify"  BY <1>1, NothingTyped DEF Job
<1>3. /\ job' = [job EXCEPT ![t] = new]
      /\ answer' = [answer EXCEPT ![t] = NoAnswer]
      /\ UNCHANGED <<scores, root, commitments, flights>>
  BY DEF Arrive, scoreRootVars
<1> HIDE DEF new
<1>4. JobTypes'  BY <1>2, <1>3, NothingTyped DEF RootInv, JobTypes
<1>5. job'[t] = new /\ answer'[t] = NoAnswer  BY <1>3 DEF RootInv, JobTypes
<1>6. JobInv(t)'
  <2>1. NoAnswer.endpoint # "run"  BY DEF NoAnswer
  <2> QED BY <1>2, <1>5, <2>1 DEF JobInv
<1>7. \A u \in Threads \ {t} : Undisturbed(u)  BY <1>3 DEF Undisturbed, RootInv, JobTypes
<1> QED BY <1>3, <1>4, <1>6, <1>7, NoGrowth, RootInvOfStep

\* A request that is answered without success, or is not of a mission's run.
LEMMA AnswerRoot ==
  ASSUME RootInv, NEW t \in Threads, NEW status \in Int, Answer(t, status),
         UNCHANGED <<scores, root, commitments, flights>>,
         \/ status # 200
         \/ job[t].endpoint # "run"
         \/ job[t].at \in {"notify", "decrypt"}
  PROVE  RootInv'
<1>1. JobTypes'  BY AnswerTypes DEF RootInv, JobTypes
<1>2. JobInv(t)
  BY DEF RootInv
<1>3. job'[t] = NoJob  BY AnswerTypes
<1>4. JobInv(t)'
  <2>1. /\ answer'[t].endpoint = job[t].endpoint /\ answer'[t].status = status
        /\ answer'[t].mission = job[t].mission /\ answer'[t].root = job[t].root
    BY AnswerTypes
  <2>2. NoJob.at = "idle"  BY DEF NoJob
  <2> QED BY <1>2, <1>3, <2>1, <2>2 DEF JobInv, Lists, Committed
<1>5. \A u \in Threads \ {t} : Undisturbed(u)  BY AnswerTypes DEF Undisturbed
<1> QED BY <1>1, <1>4, <1>5, NoGrowth, RootInvOfStep

\* A step to another place that leaves the mission alone.
LEMMA GoRoot ==
  ASSUME RootInv, NEW t \in Threads, NEW label \in Labels, Go(t, label),
         UNCHANGED <<scores, root, commitments, flights, answer>>,
         \/ label \in {"verify", "admit", "serve"}
         \/ label = "add" /\ At(t, "repute")
         \/ label \in {"created", "revoked", "notify"} /\ job[t].endpoint # "run"
  PROVE  RootInv'
<1>1. JobTypes'  BY GoTypes DEF RootInv, JobTypes
<1>2. JobInv(t)  BY DEF RootInv
<1>3. JobInv(t)'
  BY <1>2, GoTypes DEF JobInv, Lists, Committed, At
<1>4. \A u \in Threads \ {t} : Undisturbed(u)  BY GoTypes DEF Undisturbed
<1> QED BY <1>1, <1>3, <1>4, NoGrowth, RootInvOfStep

\* The steps that take a mission from its flight to its committed root.
LEMMA RunMissionRoot ==
  ASSUME RootInv, NEW t \in Threads, RunMission(t)
  PROVE  RootInv'
<1> DEFINE new == [job[t] EXCEPT !.at = "repute", !.mission = flights + 1]
<1>1. job[t] \in Job /\ flights + 1 \in Int /\ "repute" \in Labels
  BY DEF RootInv, JobTypes, Labels
<1>2. new \in Job /\ new.at = "repute" /\ new.endpoint = "run"
  BY <1>1 DEF Job, RunMission, Does
<1>3. /\ job' = [job EXCEPT ![t] = new] /\ flights' = flights + 1
      /\ UNCHANGED <<scores, root, commitments, answer>>
  BY DEF RunMission, scoreRootVars
<1> HIDE DEF new
<1>4. JobTypes'  BY <1>1, <1>2, <1>3 DEF RootInv, JobTypes
<1>5. job'[t] = new  BY <1>3 DEF RootInv, JobTypes
<1>6. JobInv(t)  BY DEF RootInv
<1>7. JobInv(t)'  BY <1>2, <1>3, <1>5, <1>6 DEF JobInv, Lists, Committed
<1>8. \A u \in Threads \ {t} : Undisturbed(u)  BY <1>3 DEF Undisturbed, RootInv, JobTypes
<1> QED BY <1>3, <1>4, <1>7, <1>8, NoGrowth, RootInvOfStep

LEMMA AddMissionRoot ==
  ASSUME RootInv, NEW t \in Threads, AddMission(t)
  PROVE  RootInv'
<1>1. JobInv(t) /\ job[t] \in Job  BY DEF RootInv, JobTypes
<1>2. /\ At(t, "add") /\ Go(t, "compute") /\ scores' = Append(scores, job[t].mission)
      /\ UNCHANGED <<root, commitments, flights, answer>>
  BY DEF AddMission, AddScore
<1>3. job[t].mission \in Int  BY <1>1 DEF Job
<1>4. "compute" \in Labels  BY DEF Labels
<1>5. JobTypes'  BY <1>2, <1>3, <1>4, GoTypes DEF RootInv, JobTypes
<1>6. Grow  BY <1>2, <1>3 DEF Grow, RootInv, JobTypes
<1>7. Lists(scores', job[t].mission)
  <2>1. /\ Len(scores) + 1 \in DOMAIN scores'
        /\ scores'[Len(scores) + 1] = job[t].mission
    BY <1>2, <1>3 DEF RootInv, JobTypes
  <2> QED BY <2>1 DEF Lists
<1>8. JobInv(t)'
  <2>1. /\ job'[t].at = "compute" /\ job'[t].endpoint = job[t].endpoint
        /\ job'[t].mission = job[t].mission
    BY <1>2, <1>4, GoTypes
  <2> QED BY <1>1, <1>2, <1>7, <2>1 DEF JobInv, Lists, Committed, At
<1>9. \A u \in Threads \ {t} : Undisturbed(u)  BY <1>2, <1>4, GoTypes DEF Undisturbed
<1> QED BY <1>5, <1>6, <1>8, <1>9, RootInvOfStep

LEMMA ComputeMissionRootRoot ==
  ASSUME RootInv, NEW t \in Threads, ComputeMissionRoot(t)
  PROVE  RootInv'
<1>1. JobInv(t)  BY DEF RootInv
<1>2. /\ Go(t, "commit") /\ root' = [root EXCEPT ![t] = scores]
      /\ UNCHANGED <<scores, commitments, flights, answer>>
      /\ At(t, "compute") \/ job[t].endpoint = "scoreroot"
  BY DEF ComputeMissionRoot, ComputeRoot, Does
<1>3. "commit" \in Labels  BY DEF Labels
<1>4. JobTypes'  BY <1>2, <1>3, GoTypes DEF RootInv, JobTypes
<1>5. root'[t] = scores /\ \A u \in Threads \ {t} : root'[u] = root[u]
  BY <1>2 DEF RootInv, JobTypes
<1>6. JobInv(t)'
  <2>1. /\ job'[t].at = "commit" /\ job'[t].endpoint = job[t].endpoint
        /\ job'[t].mission = job[t].mission
    BY <1>2, <1>3, GoTypes
  <2> QED BY <1>1, <1>2, <1>5, <2>1 DEF JobInv, Lists, Committed, At
<1>7. \A u \in Threads \ {t} : Undisturbed(u)  BY <1>2, <1>3, <1>5, GoTypes DEF Undisturbed
<1> QED BY <1>2, <1>4, <1>6, <1>7, NoGrowth, RootInvOfStep

LEMMA CommitRootRoot ==
  ASSUME RootInv, NEW t \in Threads, CommitRoot(t)
  PROVE  RootInv'
<1>1. JobInv(t) /\ job[t] \in Job  BY DEF RootInv, JobTypes
<1> DEFINE c == [root |-> root[t], count |-> Len(scores)]
<1>2. c \in [root : Seq(Int), count : Int] /\ c.root = root[t]  BY DEF RootInv, JobTypes
<1>3. /\ At(t, "commit") /\ commitments' = Append(commitments, c)
      /\ root' = [root EXCEPT ![t] = << >>] /\ UNCHANGED <<scores, flights>>
  BY DEF CommitRoot, Commit
<1> HIDE DEF c
<1>4. /\ commitments' \in Seq([root : Seq(Int), count : Int])
      /\ commitments'[Len(commitments) + 1] = c /\ Len(commitments) + 1 \in DOMAIN commitments'
      /\ root' \in [Threads -> Seq(Int)] /\ \A u \in Threads \ {t} : root'[u] = root[u]
  BY <1>2, <1>3 DEF RootInv, JobTypes
<1>5. Grow  BY <1>2, <1>3 DEF Grow, RootInv, JobTypes
<1>6. CASE Does(t, "scoreroot")
  <2>1. Answer(t, 200)  BY <1>6 DEF CommitRoot
  <2>2. JobTypes'  BY <1>3, <1>4, <2>1, AnswerTypes DEF RootInv, JobTypes
  <2>3. JobInv(t)'
    <3>1. job'[t] = NoJob /\ answer'[t].endpoint = "scoreroot"
      BY <1>6, <2>1, AnswerTypes DEF Does
    <3>2. NoJob.at = "idle"  BY DEF NoJob
    <3> QED BY <3>1, <3>2 DEF JobInv
  <2>4. \A u \in Threads \ {t} : Undisturbed(u)  BY <1>4, <2>1, AnswerTypes DEF Undisturbed
  <2> QED BY <1>5, <2>2, <2>3, <2>4, RootInvOfStep
<1>7. CASE ~Does(t, "scoreroot")
  <2> DEFINE new == [job[t] EXCEPT !.at = "notify", !.root = root[t]]
  <2>1. root[t] \in Seq(Int) /\ "notify" \in Labels  BY DEF RootInv, JobTypes, Labels
  <2>2. /\ new \in Job /\ new.at = "notify" /\ new.root = root[t]
        /\ new.endpoint = job[t].endpoint /\ new.mission = job[t].mission
    BY <1>1, <2>1 DEF Job
  <2>3. job' = [job EXCEPT ![t] = new] /\ answer' = answer  BY <1>7 DEF CommitRoot
  <2> HIDE DEF new
  <2>4. JobTypes'  BY <1>3, <1>4, <2>2, <2>3 DEF RootInv, JobTypes
  <2>5. job'[t] = new  BY <2>3 DEF RootInv, JobTypes
  <2>6. Lists(root[t], job[t].mission)  BY <1>1, <1>3, <1>7 DEF JobInv, At, Does
  <2>7. \E i \in DOMAIN commitments' : commitments'[i].root = root[t]  BY <1>2, <1>4
  <2>8. JobInv(t)'
    <3>1. answer'[t].endpoint = "run" /\ answer'[t].status = 200 =>
            Lists(answer'[t].root, answer'[t].mission) /\ Committed(answer[t].root)'
      BY <1>1, <1>5, <2>3 DEF JobInv, Grow, Committed
    <3> QED BY <2>2, <2>5, <2>6, <2>7, <3>1 DEF JobInv, Lists, Committed
  <2>9. \A u \in Threads \ {t} : Undisturbed(u)  BY <1>4, <2>3 DEF Undisturbed, RootInv, JobTypes
  <2> QED BY <1>5, <2>4, <2>8, <2>9, RootInvOfStep
<1> QED BY <1>6, <1>7

\* Keys: until two threads meet in the first use of the key, one thread at a
\* time makes it, and whatever is encrypted is encrypted under the file's key.
Hook == [client : ClientIds, key : Int, active : BOOLEAN]

HooksTypes ==
  /\ hooks \in Seq(Hook)
  /\ keyFile \in Nat /\ keysMade \in Nat /\ fernet \in Nat
  /\ keyring \in [Senders -> [at : {"out", "load", "save", "set", "ready"}, key : Nat]]
  /\ raced \in BOOLEAN

KeyInv(t) ==
  /\ Making(t) => fernet = NoKey /\ \A u \in Senders : Making(u) => u = t
  /\ keyring[t].at = "save" => keyFile = NoKey /\ keyring[t].key # NoKey
  /\ keyring[t].at = "set" => keyring[t].key = keyFile /\ keyFile # NoKey
  /\ keyring[t].at = "ready" => fernet # NoKey

KeysInv ==
  /\ fernet # NoKey => fernet = keyFile
  /\ \A t \in Senders : KeyInv(t)
  /\ \A i \in DOMAIN hooks : hooks[i].key = keyFile
  /\ keyFile = NoKey => hooks = << >>

HooksInv == HooksTypes /\ (~raced => KeysInv)

LEMMA HooksInitially == WebhooksInit => HooksInv
<1> SUFFICES ASSUME WebhooksInit PROVE HooksInv  OBVIOUS
<1>1. << >> \in Seq(Hook)  OBVIOUS
<1>2. Out \in [at : {"out", "load", "save", "set", "ready"}, key : Nat]  BY DEF Out, NoKey
<1>3. HooksTypes  BY <1>1, <1>2 DEF WebhooksInit, HooksTypes, NoKey
<1>4. KeysInv  BY DEF WebhooksInit, KeysInv, KeyInv, Making, Out, NoKey
<1> QED BY <1>3, <1>4 DEF HooksInv

LEMMA HooksUnchanged ==
  ASSUME HooksInv, UNCHANGED webhookVars
  PROVE  HooksInv'
BY DEF HooksInv, webhookVars, HooksTypes, KeysInv, KeyInv, Making

LEMMA GetKeyHooks ==
  ASSUME HooksInv, NEW t \in Senders, GetKey(t)
  PROVE  HooksInv'
<1>1. CASE AskKey(t)
  <2>1. HooksTypes'  BY <1>1 DEF AskKey, KeyStep, HooksInv, HooksTypes, NoKey
  <2>2. ASSUME ~raced' PROVE KeysInv'
    BY <1>1, <2>2 DEF AskKey, KeyStep, HooksInv, HooksTypes, NoKey, KeysInv, KeyInv, Making
  <2> QED BY <2>1, <2>2 DEF HooksInv
<1>2. CASE LoadKey(t)
  <2>1. HooksTypes'
    <3>1. \E at \in {"set", "save"}, key \in Nat : KeyStep(t, [at |-> at, key |-> key])
      BY <1>2 DEF LoadKey, HooksInv, HooksTypes
    <3>2. keyring' \in [Senders -> [at : {"out", "load", "save", "set", "ready"}, key : Nat]]
      BY <3>1 DEF KeyStep, HooksInv, HooksTypes
    <3>3. keysMade' \in Nat  BY <1>2 DEF LoadKey, HooksInv, HooksTypes
    <3>4. UNCHANGED <<hooks, keyFile, fernet, raced>>  BY <1>2 DEF LoadKey
    <3> QED BY <3>2, <3>3, <3>4 DEF HooksInv, HooksTypes
  <2>2. ASSUME ~raced' PROVE KeysInv'
    BY <1>2, <2>2 DEF LoadKey, KeyStep, HooksInv, HooksTypes, NoKey, KeysInv, KeyInv, Making
  <2> QED BY <2>1, <2>2 DEF HooksInv
<1>3. CASE SaveKey(t)
  <2>1. HooksTypes'  BY <1>3 DEF SaveKey, KeyStep, HooksInv, HooksTypes, NoKey
  <2>2. ASSUME ~raced' PROVE KeysInv'
    BY <1>3, <2>2 DEF SaveKey, KeyStep, HooksInv, HooksTypes, NoKey, KeysInv, KeyInv, Making
  <2> QED BY <2>1, <2>2 DEF HooksInv
<1>4. CASE SetKey(t)
  <2>1. HooksTypes'  BY <1>4 DEF SetKey, KeyStep, HooksInv, HooksTypes, NoKey
  <2>2. ASSUME ~raced' PROVE KeysInv'
    BY <1>4, <2>2 DEF SetKey, KeyStep, HooksInv, HooksTypes, NoKey, KeysInv, KeyInv, Making
  <2> QED BY <2>1, <2>2 DEF HooksInv
<1> QED BY <1>1, <1>2, <1>3, <1>4 DEF GetKey

LEMMA InsertHookHooks ==
  ASSUME HooksInv, NEW t \in Senders, NEW c \in ClientIds, InsertHook(t, c)
  PROVE  HooksInv'
<1> DEFINE hook == [client |-> c, key |-> fernet, active |-> TRUE]
<1>1. hook \in Hook /\ hook.key = fernet  BY DEF Hook, HooksInv, HooksTypes
<1>2. /\ keyring[t].at = "ready" /\ hooks' = Append(hooks, hook)
      /\ keyring' = [keyring EXCEPT ![t] = Out] /\ UNCHANGED <<keyFile, keysMade, fernet, raced>>
  BY DEF InsertHook, HasKey, LeavesKey, KeyStep
<1> HIDE DEF hook
<1>3. HooksTypes'
  <2>1. Out \in [at : {"out", "load", "save", "set", "ready"}, key : Nat]  BY DEF Out, NoKey
  <2> QED BY <1>1, <1>2, <2>1 DEF HooksInv, HooksTypes
<1>4. ASSUME ~raced' PROVE KeysInv'
  <2>1. KeysInv /\ HooksTypes  BY <1>2, <1>4 DEF HooksInv
  <2>2. fernet # NoKey /\ fernet = keyFile  BY <1>2, <2>1 DEF KeysInv, KeyInv
  <2>3. \A i \in DOMAIN hooks' : hooks'[i].key = keyFile
    BY <1>1, <1>2, <2>1, <2>2 DEF KeysInv, HooksTypes
  <2>4. \A u \in Senders : KeyInv(u)'
    BY <1>2, <2>1 DEF KeysInv, KeyInv, HooksTypes, Making, Out
  <2> QED BY <1>2, <2>1, <2>2, <2>3, <2>4 DEF KeysInv
<1> QED BY <1>3, <1>4 DEF HooksInv

LEMMA DeactivateHookHooks ==
  ASSUME HooksInv, NEW c, NEW i \in DOMAIN hooks, DeactivateHook(i, c)
  PROVE  HooksInv'
<1> DEFINE hook == [hooks[i] EXCEPT !.active = @ /\ hooks[i].client # c]
<1>1. hooks[i] \in Hook  BY DEF HooksInv, HooksTypes
<1>2. hook \in Hook /\ hook.key = hooks[i].key  BY <1>1 DEF Hook
<1>3. hooks' = [hooks EXCEPT ![i] = hook] /\ UNCHANGED <<keyFile, keysMade, fernet, keyring, raced>>
  BY DEF DeactivateHook
<1> HIDE DEF hook
<1>4. HooksTypes'  BY <1>2, <1>3 DEF HooksInv, HooksTypes
<1>5. ASSUME ~raced' PROVE KeysInv'
  <2>1. KeysInv /\ HooksTypes  BY <1>3, <1>5 DEF HooksInv
  <2>2. \A j \in DOMAIN hooks' : hooks'[j].key = hooks[j].key
    BY <1>2, <1>3, <2>1 DEF HooksTypes
  <2>3. DOMAIN hooks' = DOMAIN hooks  BY <1>3
  <2>4. \A u \in Senders : KeyInv(u)'
    BY <1>3, <2>1 DEF KeysInv, KeyInv, HooksTypes, Making
  <2>5. hooks # << >>  OBVIOUS
  <2> QED BY <1>3, <2>1, <2>2, <2>3, <2>4, <2>5 DEF KeysInv
<1> QED BY <1>4, <1>5 DEF HooksInv

LEMMA RestartWebhooksHooks ==
  ASSUME HooksInv, RestartWebhooks
  PROVE  HooksInv'
<1>1. HooksTypes'  BY DEF RestartWebhooks, HooksInv, HooksTypes, Out, NoKey
<1>2. ASSUME ~raced' PROVE KeysInv'
  BY <1>2 DEF RestartWebhooks, HooksInv, HooksTypes, KeysInv, KeyInv, Making, Out, NoKey
<1> QED BY <1>1, <1>2 DEF HooksInv

LEMMA DecryptHooksHooks ==
  ASSUME HooksInv, NEW t \in Senders, DecryptHooks(t)
  PROVE  HooksInv'
<1>1. HooksTypes'
  BY DEF DecryptHooks, LeavesKey, KeyStep, HooksInv, HooksTypes, Out, NoKey
<1>2. ASSUME ~raced' PROVE KeysInv'
  BY <1>2 DEF DecryptHooks, LeavesKey, KeyStep, HooksInv, HooksTypes, KeysInv, KeyInv, Making, Out, NoKey
<1> QED BY <1>1, <1>2 DEF HooksInv

LEMMA HooksInductive ==
  ASSUME HooksInv, JobTypes, [RequestsNext]_requestVars
  PROVE  HooksInv'
<1> USE DEF KeepShared
<1>1. Senders = Threads  BY RestApiAssumption
<1>2. ASSUME NEW t \in Threads, Serve(t)  PROVE HooksInv'
  <2>1. CASE RejectKey(t) \/ Count(t) \/ AdmitRequest(t)
    BY <2>1, HooksUnchanged DEF RejectKey, Count, AdmitRequest
  <2>2. CASE RunMission(t) \/ AddMission(t) \/ ComputeMissionRoot(t) \/ CommitRoot(t)
    BY <2>2, HooksUnchanged DEF RunMission, AddMission, ComputeMissionRoot, CommitRoot
  <2>3. ASSUME NEW score \in FlightScores, RecordReputation(t, score)  PROVE HooksInv'
    BY <2>3, HooksUnchanged DEF RecordReputation
  <2>4. CASE ProveDelivery(t) \/ SelectHooks(t)
    BY <2>4, HooksUnchanged DEF ProveDelivery, SelectHooks
  <2>5. CASE FetchKey(t)  BY <1>1, <2>5, GetKeyHooks DEF FetchKey
  <2>6. CASE DecryptHooks(t)  BY <1>1, <2>6, DecryptHooksHooks
  <2>7. CASE RegisterHook(t)
    <3>1. job[t].client \in ClientIds  BY DEF JobTypes, Job
    <3> QED BY <1>1, <2>7, <3>1, InsertHookHooks DEF RegisterHook
  <2>8. ASSUME NEW i \in DOMAIN hooks, DeleteHook(t, i)  PROVE HooksInv'
    BY <2>8, DeactivateHookHooks DEF DeleteHook
  <2>9. CASE Read(t) \/ CommitAccounts(t)
    BY <2>9, HooksUnchanged DEF Read, CommitAccounts
  <2>10. ASSUME NEW c \in ClientIds, NEW role \in NewRoles, CreateClient(t, c, role)
         PROVE  HooksInv'
    BY <2>10, HooksUnchanged DEF CreateClient
  <2>11. ASSUME NEW c \in ClientIds, RevokeClient(t, c)  PROVE HooksInv'
    BY <2>11, HooksUnchanged DEF RevokeClient
  <2> QED BY <1>2, <2>1, <2>2, <2>3, <2>4, <2>5, <2>6, <2>7, <2>8, <2>9, <2>10, <2>11 DEF Serve
<1>3. ASSUME NEW t \in Threads, NEW c \in ClientIds, NEW endpoint \in Endpoints,
             Arrive(t, c, endpoint)
      PROVE  HooksInv'
  BY <1>3, HooksUnchanged DEF Arrive
<1>4. CASE Restart  BY <1>4, RestartWebhooksHooks DEF Restart
<1>5. CASE UNCHANGED requestVars  BY <1>5, HooksUnchanged DEF requestVars
<1> QED BY <1>2, <1>3, <1>4, <1>5 DEF RequestsNext

LEMMA RootUnchanged ==
  ASSUME RootInv, UNCHANGED <<job, answer, scores, root, commitments, flights>>
  PROVE  RootInv'
BY DEF RootInv, JobTypes, JobInv, Lists, Committed

LEMMA SelectHooksRoot ==
  ASSUME RootInv, hooks \in Seq(Hook), NEW t \in Threads, SelectHooks(t)
  PROVE  RootInv'
<1>1. JobInv(t) /\ job[t] \in Job  BY DEF RootInv, JobTypes
<1> DEFINE new == [job[t] EXCEPT !.at = "decrypt", !.found = HooksOf(job[t].client)]
<1>2. "decrypt" \in Labels /\ HooksOf(job[t].client) \in SUBSET Int
  BY DEF Labels, HooksOf
<1>3. /\ new \in Job /\ new.at = "decrypt" /\ new.endpoint = job[t].endpoint
      /\ new.mission = job[t].mission /\ new.root = job[t].root
  BY <1>1, <1>2 DEF Job
<1>4. /\ job' = [job EXCEPT ![t] = new]
      /\ UNCHANGED <<scores, root, commitments, flights, answer>>
      /\ At(t, "notify") \/ job[t].endpoint = "list"
  BY DEF SelectHooks, KeepMemory, scoreRootVars, Does
<1> HIDE DEF new
<1>5. JobTypes'  BY <1>3, <1>4 DEF RootInv, JobTypes
<1>6. job'[t] = new  BY <1>4 DEF RootInv, JobTypes
<1>7. JobInv(t)'  BY <1>1, <1>3, <1>4, <1>6 DEF JobInv, Lists, Committed, At
<1>8. \A u \in Threads \ {t} : Undisturbed(u)  BY <1>4 DEF Undisturbed, RootInv, JobTypes
<1> QED BY <1>4, <1>5, <1>7, <1>8, NoGrowth, RootInvOfStep

LEMMA RevokeClientRoot ==
  ASSUME RootInv, NEW t \in Threads, NEW c \in ClientIds, Does(t, "revoke"), RevokeClient(t, c)
  PROVE  RootInv'
<1>1. JobInv(t) /\ job[t] \in Job  BY DEF RootInv, JobTypes
<1> DEFINE new == [job[t] EXCEPT !.at = "revoked", !.client = c]
<1>2. "revoked" \in Labels  BY DEF Labels
<1>3. new \in Job /\ new.at = "revoked" /\ new.endpoint = "revoke"
  BY <1>1, <1>2 DEF Job, Does
<1>4. /\ job' = [job EXCEPT ![t] = new]
      /\ UNCHANGED <<scores, root, commitments, flights, answer>>
  BY DEF RevokeClient, KeepShared, scoreRootVars
<1> HIDE DEF new
<1>5. JobTypes'  BY <1>3, <1>4 DEF RootInv, JobTypes
<1>6. job'[t] = new  BY <1>4 DEF RootInv, JobTypes
<1>7. JobInv(t)'  BY <1>1, <1>3, <1>4, <1>6 DEF JobInv, Lists, Committed
<1>8. \A u \in Threads \ {t} : Undisturbed(u)  BY <1>4 DEF Undisturbed, RootInv, JobTypes
<1> QED BY <1>4, <1>5, <1>7, <1>8, NoGrowth, RootInvOfStep

LEMMA RestartRoot ==
  ASSUME RootInv, Restart
  PROVE  RootInv'
<1>1. JobTypes'  BY NothingTyped DEF Restart, RootInv, JobTypes
<1>2. \A t \in Threads : JobInv(t)'
  BY DEF Restart, NoJob, NoAnswer, JobInv
<1> QED BY <1>1, <1>2 DEF RootInv

LEMMA ServeRoot ==
  ASSUME RootInv, hooks \in Seq(Hook), NEW t \in Threads, Serve(t)
  PROVE  RootInv'
<1> USE DEF KeepShared, KeepMemory, scoreRootVars
<1>1. "admit" \in Labels /\ "serve" \in Labels /\ "add" \in Labels /\ "created" \in Labels
      /\ "notify" \in Labels
  BY DEF Labels
<1>2. JobInv(t)  BY DEF RootInv
<1>3. CASE RejectKey(t)  BY <1>3, AnswerRoot DEF RejectKey
<1>4. CASE Count(t)  BY <1>1, <1>4, GoRoot DEF Count
<1>5. CASE AdmitRequest(t)
  <2>1. (Go(t, "serve") /\ UNCHANGED answer) \/ Answer(t, 403)  BY <1>5 DEF AdmitRequest
  <2> QED BY <1>1, <1>5, <2>1, AnswerRoot, GoRoot DEF AdmitRequest
<1>6. CASE RunMission(t)  BY <1>6, RunMissionRoot
<1>7. ASSUME NEW score \in FlightScores, RecordReputation(t, score)  PROVE RootInv'
  BY <1>1, <1>7, GoRoot DEF RecordReputation
<1>8. CASE AddMission(t) \/ ComputeMissionRoot(t) \/ CommitRoot(t)
  BY <1>8, AddMissionRoot, ComputeMissionRootRoot, CommitRootRoot
<1>9. CASE ProveDelivery(t)  BY <1>1, <1>9, GoRoot DEF ProveDelivery, Does
<1>10. CASE SelectHooks(t)  BY <1>10, SelectHooksRoot
<1>11. CASE FetchKey(t)
  <2>1. UNCHANGED <<job, answer, scores, root, commitments, flights>>  BY <1>11 DEF FetchKey
  <2> QED BY <2>1, RootUnchanged
<1>12. CASE DecryptHooks(t)
  <2>1. \E status \in {200, 500} : Answer(t, status)  BY <1>12 DEF DecryptHooks
  <2> QED BY <1>12, <2>1, AnswerRoot DEF DecryptHooks, At
<1>13. CASE RegisterHook(t)  BY <1>13, AnswerRoot DEF RegisterHook, Does
<1>14. ASSUME NEW i \in DOMAIN hooks, DeleteHook(t, i)  PROVE RootInv'
  <2>1. \E status \in {200, 404} : Answer(t, status)  BY <1>14 DEF DeleteHook
  <2> QED BY <1>14, <2>1, AnswerRoot DEF DeleteHook, Does
<1>15. CASE Read(t)
  <2>1. \E status \in {200, 500} : Answer(t, status)  BY <1>15 DEF Read
  <2> QED BY <1>15, <2>1, AnswerRoot DEF Read
<1>16. ASSUME Does(t, "create"), NEW c \in ClientIds, NEW role \in NewRoles, CreateClient(t, c, role)
       PROVE  RootInv'
  <2>1. (Go(t, "created") /\ UNCHANGED answer) \/ Answer(t, 400)  BY <1>16 DEF CreateClient
  <2> QED BY <1>1, <1>16, <2>1, AnswerRoot, GoRoot DEF CreateClient, Does
<1>17. ASSUME Does(t, "revoke"), NEW c \in ClientIds, RevokeClient(t, c)  PROVE RootInv'
  BY <1>17, RevokeClientRoot
<1>18. CASE CommitAccounts(t)  BY <1>2, <1>18, AnswerRoot DEF CommitAccounts, JobInv
<1> QED BY <1>3, <1>4, <1>5, <1>6, <1>7, <1>8, <1>9, <1>10, <1>11, <1>12, <1>13, <1>14,
           <1>15, <1>16, <1>17, <1>18 DEF Serve

LEMMA RootInductive ==
  ASSUME RootInv, hooks \in Seq(Hook), [RequestsNext]_requestVars
  PROVE  RootInv'
<1>1. ASSUME NEW t \in Threads, NEW c \in ClientIds, NEW endpoint \in Endpoints,
             Arrive(t, c, endpoint)
      PROVE  RootInv'
  BY <1>1, ArriveRoot
<1>2. CASE UNCHANGED requestVars
  <2>1. UNCHANGED <<job, answer, scores, root, commitments, flights>>
    BY <1>2 DEF requestVars, apiVars, scoreRootVars
  <2> QED BY <2>1, RootUnchanged
<1> QED BY <1>1, <1>2, ServeRoot, RestartRoot DEF RequestsNext


\* Accounts: what is at the "admit" of a request is counted in the table, and
\* nobody brings a banned client back.
Known == Roles \cup {"none"}
Row == [role : Known, active : BOOLEAN, count : Nat]

AccountsTypes ==
  /\ onDisk \in [ClientIds -> Row] /\ table \in [ClientIds -> Row]
  /\ verified \in [Threads -> [client : ClientIds, role : Known]]
  /\ admitted \in [ClientIds -> Nat]
  /\ late \subseteq Threads

Barred(row) == row.role # "none" /\ ~row.active

Pending(c) == {t \in Threads : job[t].at = "admit" /\ verified[t].client = c}

RowsInv(c) ==
  /\ admitted[c] <= onDisk[c].count
  /\ admitted[c] + Cardinality(Pending(c)) <= table[c].count
  /\ table[c].role = "none" => table[c] = Absent
  /\ onDisk[c].role = "none" => onDisk[c] = Absent
  /\ c \in banned => Barred(table[c]) /\ Barred(onDisk[c])

ThreadsInv(t) ==
  /\ job[t].at = "revoked" => Barred(table[job[t].client])
  /\ verified[t].role # "none" => table[verified[t].client].role # "none"
  /\ t \in late => verified[t].role = "none"

AccountsInv ==
  /\ AccountsTypes
  /\ \A c \in ClientIds : RowsInv(c)
  /\ \A t \in Threads : ThreadsInv(t)

LEMMA PendingFinite ==
  ASSUME NEW c
  PROVE  IsFiniteSet(Pending(c)) /\ Cardinality(Pending(c)) \in Nat
BY RestApiAssumption, FS_Subset, FS_CardinalityType DEF Pending

LEMMA NobodyPending ==
  ASSUME NEW c, \A t \in Threads : job[t].at # "admit"
  PROVE  Cardinality(Pending(c)) = 0
<1>1. Pending(c) = {}  BY DEF Pending
<1> QED BY <1>1, FS_EmptySet

LEMMA AccountsInitially == RequestsInit => AccountsInv
<1> SUFFICES ASSUME RequestsInit PROVE AccountsInv  OBVIOUS
<1> USE RestApiAssumption
<1>1. Absent \in Row /\ \A role \in Roles : Active(role) \in Row
  BY DEF Absent, Active, Row, Known
<1>2. "admin" \in Roles /\ "none" \notin Roles  BY DEF Roles
<1>3. /\ onDisk \in [ClientIds -> {Absent} \cup {Active(role) : role \in Roles}]
      /\ table = onDisk /\ verified = [t \in Threads |-> Rejected]
      /\ admitted = [c \in ClientIds |-> 0] /\ banned = {} /\ late = {}
      /\ job = [t \in Threads |-> NoJob]
  BY <1>2 DEF RequestsInit, AccountsInit
<1>4. Rejected \in [client : ClientIds, role : Known] /\ Rejected.role = "none"
  BY DEF Rejected, Known
<1>5. AccountsTypes
  BY <1>1, <1>3, <1>4 DEF AccountsTypes
<1>6. ASSUME NEW c \in ClientIds  PROVE RowsInv(c)
  <2>1. \A t \in Threads : job[t].at # "admit"  BY <1>3 DEF NoJob
  <2>2. Cardinality(Pending(c)) = 0  BY <2>1, NobodyPending
  <2>3. table[c].role = "none" => table[c] = Absent  BY <1>2, <1>3 DEF Active, Absent
  <2>4. onDisk[c].count \in Nat  BY <1>5 DEF AccountsTypes, Row
  <2> QED BY <1>3, <2>2, <2>3, <2>4 DEF RowsInv
<1>7. \A t \in Threads : ThreadsInv(t)
  BY <1>3, <1>4 DEF ThreadsInv, NoJob
<1> QED BY <1>5, <1>6, <1>7 DEF AccountsInv

\* Steps of a request that leave the accounts alone.
LEMMA AccountsAside ==
  ASSUME AccountsInv, UNCHANGED accountVars,
         \A t \in Threads : /\ job'[t].at = "admit" <=> job[t].at = "admit"
                            /\ job'[t].at = "revoked" => job'[t] = job[t]
  PROVE  AccountsInv'
<1>1. \A c : Pending(c)' = Pending(c)  BY DEF Pending, accountVars
<1>2. \A c \in ClientIds : RowsInv(c)'
  BY <1>1 DEF AccountsInv, RowsInv, accountVars, Barred
<1>3. \A t \in Threads : ThreadsInv(t)'
  BY DEF AccountsInv, ThreadsInv, accountVars, Barred
<1> QED BY <1>2, <1>3 DEF AccountsInv, AccountsTypes, accountVars

LEMMA ArriveAccounts ==
  ASSUME AccountsInv, JobTypes, NEW t \in Threads, NEW c \in ClientIds, NEW endpoint \in Endpoints,
         At(t, "idle"), Arrive(t, c, endpoint)
  PROVE  AccountsInv'
<1> DEFINE new == [NoJob EXCEPT !.at = "verify", !.client = c, !.endpoint = endpoint]
           seen == IF table[c].active THEN [client |-> c, role |-> table[c].role] ELSE Rejected
<1>1. new.at = "verify"  BY DEF NoJob
<1>2. /\ job' = [job EXCEPT ![t] = new] /\ verified' = [verified EXCEPT ![t] = seen]
      /\ late' = IF c \in banned THEN late \cup {t} ELSE late \ {t}
      /\ UNCHANGED <<onDisk, table, admitted, banned>>
  BY DEF Arrive, SelectKey
<1>3. /\ seen \in [client : ClientIds, role : Known]
      /\ seen.role # "none" => table[seen.client].role # "none"
      /\ c \in banned => seen.role = "none"
  BY RestApiAssumption DEF AccountsInv, AccountsTypes, Row, RowsInv, Barred, Rejected, Known
<1> HIDE DEF new, seen
<1>4. AccountsTypes'  BY <1>2, <1>3 DEF AccountsInv, AccountsTypes
<1>5. /\ job'[t] = new /\ verified'[t] = seen
      /\ \A u \in Threads \ {t} : job'[u] = job[u] /\ verified'[u] = verified[u]
  BY <1>2 DEF JobTypes, AccountsInv, AccountsTypes
<1>6. \A d : Pending(d)' = Pending(d)
  BY <1>1, <1>5 DEF Pending, At
<1>7. \A d \in ClientIds : RowsInv(d)'
  BY <1>2, <1>6 DEF AccountsInv, RowsInv, Barred
<1>8. \A u \in Threads : ThreadsInv(u)'
  BY <1>1, <1>2, <1>3, <1>5 DEF AccountsInv, ThreadsInv, Barred
<1> QED BY <1>4, <1>7, <1>8 DEF AccountsInv

LEMMA CountAccounts ==
  ASSUME AccountsInv, JobTypes, NEW t \in Threads, Count(t)
  PROVE  AccountsInv'
<1>0. PICK c \in ClientIds : c = verified[t].client  BY DEF AccountsInv, AccountsTypes
<1> DEFINE row == [table[c] EXCEPT !.count = @ + 1]
<1>1. table[c] \in Row /\ table[c].role # "none"
  BY <1>0 DEF Count, AccountsInv, AccountsTypes, ThreadsInv
<1>2. row \in Row /\ row.count = table[c].count + 1 /\ row.role = table[c].role
      /\ row.active = table[c].active
  BY <1>1 DEF Row
<1>3. /\ table' = [table EXCEPT ![c] = row] /\ job' = [job EXCEPT ![t].at = "admit"]
      /\ At(t, "verify") /\ UNCHANGED <<onDisk, verified, admitted, banned, late>>
  BY <1>0 DEF Count, CountRequest, Go
<1> HIDE DEF row
<1>4. AccountsTypes'  BY <1>2, <1>3 DEF AccountsInv, AccountsTypes
<1>5. /\ table'[c] = row /\ \A d \in ClientIds \ {c} : table'[d] = table[d]
      /\ job'[t].at = "admit" /\ \A u \in Threads \ {t} : job'[u] = job[u]
  BY <1>1, <1>3 DEF JobTypes, Job, AccountsInv, AccountsTypes
<1>6. Pending(c)' = Pending(c) \cup {t} /\ t \notin Pending(c)
  BY <1>0, <1>3, <1>5 DEF Pending, At
<1>7. \A d \in ClientIds \ {c} : Pending(d)' = Pending(d)
  BY <1>0, <1>3, <1>5 DEF Pending, At
<1>8. Cardinality(Pending(c)') = Cardinality(Pending(c)) + 1
  BY <1>6, PendingFinite, FS_AddElement
<1>9. RowsInv(c)'
  <2>1. admitted[c] \in Nat /\ table[c].count \in Nat /\ Cardinality(Pending(c)) \in Nat
    BY <1>1, PendingFinite DEF Row, AccountsInv, AccountsTypes
  <2>2. RowsInv(c)  BY <1>1 DEF AccountsInv
  <2> QED BY <1>1, <1>2, <1>3, <1>5, <1>8, <2>1, <2>2 DEF RowsInv, Barred
<1>10. \A d \in ClientIds \ {c} : RowsInv(d)'
  BY <1>3, <1>5, <1>7 DEF AccountsInv, RowsInv, Barred
<1>11. \A u \in Threads : ThreadsInv(u)'
  BY <1>1, <1>2, <1>3, <1>5 DEF AccountsInv, AccountsTypes, JobTypes, Job, ThreadsInv, Barred
<1> QED BY <1>4, <1>9, <1>10, <1>11 DEF AccountsInv

LEMMA AdmitAccounts ==
  ASSUME AccountsInv, RootInv, NEW t \in Threads, AdmitRequest(t)
  PROVE  AccountsInv'
<1>1. PICK c \in ClientIds : c = verified[t].client  BY DEF AccountsInv, AccountsTypes
<1>2. /\ onDisk' = table /\ admitted' = [admitted EXCEPT ![c] = @ + 1]
      /\ At(t, "admit") /\ UNCHANGED <<table, verified, banned, late>>
  BY <1>1 DEF AdmitRequest, Admit
<1>3. /\ job'[t].at \in {"serve", "idle"}
      /\ \A u \in Threads \ {t} : job'[u] = job[u]
  <2>1. Go(t, "serve") \/ Answer(t, 403)  BY DEF AdmitRequest
  <2>2. CASE Go(t, "serve")
    <3>1. "serve" \in Labels  BY DEF Labels
    <3> QED BY <2>2, <3>1, GoTypes
  <2>3. CASE Answer(t, 403)
    <3>1. NoJob.at = "idle"  BY DEF NoJob
    <3> QED BY <2>3, <3>1, AnswerTypes
  <2> QED BY <2>1, <2>2, <2>3
<1>4. AccountsTypes'  BY <1>2 DEF AccountsInv, AccountsTypes
<1>5. Pending(c)' = Pending(c) \ {t} /\ t \in Pending(c)
  BY <1>1, <1>2, <1>3 DEF Pending, At
<1>6. \A d \in ClientIds \ {c} : Pending(d)' = Pending(d)
  BY <1>1, <1>2, <1>3 DEF Pending, At
<1>7. Cardinality(Pending(c)') = Cardinality(Pending(c)) - 1
  BY <1>5, PendingFinite, FS_RemoveElement
<1>8. RowsInv(c)'
  <2>1. admitted[c] \in Nat /\ table[c].count \in Nat /\ Cardinality(Pending(c)) \in Nat
    BY PendingFinite DEF Row, AccountsInv, AccountsTypes
  <2>2. admitted'[c] = admitted[c] + 1  BY <1>2 DEF AccountsInv, AccountsTypes
  <2>3. Cardinality(Pending(c)) >= 1
    <3>1. Cardinality(Pending(c)') \in Nat  BY <1>5, PendingFinite, FS_CardinalityType, FS_RemoveElement
    <3> QED BY <1>7, <2>1, <3>1
  <2>4. RowsInv(c)  BY DEF AccountsInv
  <2> QED BY <1>2, <1>7, <2>1, <2>2, <2>3, <2>4 DEF RowsInv, Barred
<1>9. ASSUME NEW d \in ClientIds \ {c}  PROVE RowsInv(d)'
  <2>1. RowsInv(d) /\ Pending(d)' = Pending(d)  BY <1>6 DEF AccountsInv
  <2>2. admitted[d] \in Nat /\ table[d].count \in Nat /\ Cardinality(Pending(d)) \in Nat
    BY PendingFinite DEF Row, AccountsInv, AccountsTypes
  <2>3. admitted'[d] = admitted[d]  BY <1>2 DEF AccountsInv, AccountsTypes
  <2> QED BY <1>2, <2>1, <2>2, <2>3 DEF RowsInv, Barred
<1>10. \A u \in Threads : ThreadsInv(u)'
  BY <1>2, <1>3 DEF AccountsInv, ThreadsInv, Barred
<1> QED BY <1>4, <1>8, <1>9, <1>10 DEF AccountsInv

\* Rows that go into the table, and nobody's count with them.
LEMMA TableAccounts ==
  ASSUME AccountsInv, JobTypes, NEW t \in Threads, NEW c \in ClientIds, NEW row \in Row,
         table' = [table EXCEPT ![c] = row],
         row.count = table[c].count, row.role # "none",
         table[c].role # "none" /\ row.active => table[c].active,
         UNCHANGED <<onDisk, verified, admitted, banned, late>>,
         job[t].at # "admit" /\ job'[t].at # "admit",
         job'[t].at = "revoked" => job'[t].client = c /\ ~row.active,
         \A u \in Threads \ {t} : job'[u] = job[u]
  PROVE  AccountsInv'
<1>1. AccountsTypes'  BY DEF AccountsInv, AccountsTypes
<1>2. table'[c] = row /\ \A d \in ClientIds \ {c} : table'[d] = table[d]
  BY DEF AccountsInv, AccountsTypes
<1>3. \A d : Pending(d)' = Pending(d)  BY DEF Pending
<1>4. ASSUME NEW d \in ClientIds  PROVE RowsInv(d)'
  <2>1. RowsInv(d)  BY DEF AccountsInv
  <2>2. row.active \in BOOLEAN /\ table[d].active \in BOOLEAN
    BY DEF Row, AccountsInv, AccountsTypes
  <2> QED BY <1>2, <1>3, <2>1, <2>2 DEF RowsInv, Barred
<1>5. ASSUME NEW u \in Threads  PROVE ThreadsInv(u)'
  <2>1. ThreadsInv(u) /\ row.active \in BOOLEAN
    BY DEF Row, AccountsInv
  <2>2. Barred(table[c]) => Barred(table'[c])  
    <3>1. table[c].active \in BOOLEAN  BY DEF Row, AccountsInv, AccountsTypes
    <3> QED BY <1>2, <2>1, <3>1 DEF Barred
  <2>3. job'[u].at = "revoked" => Barred(table'[job'[u].client])
    <3>1. job[u].client \in ClientIds  BY DEF JobTypes, Job
    <3>2. CASE u = t  BY <1>2, <2>1, <3>2 DEF Barred
    <3>3. CASE u # t /\ job[u].client # c  BY <1>2, <2>1, <3>1, <3>3 DEF ThreadsInv
    <3>4. CASE u # t /\ job[u].client = c  BY <2>1, <2>2, <3>4 DEF ThreadsInv
    <3> QED BY <3>2, <3>3, <3>4
  <2>4. verified[u].role # "none" => table'[verified[u].client].role # "none"
    BY <1>2, <2>1 DEF ThreadsInv, AccountsInv, AccountsTypes
  <2> QED BY <2>1, <2>3, <2>4 DEF ThreadsInv
<1> QED BY <1>1, <1>4, <1>5 DEF AccountsInv

LEMMA CreateClientAccounts ==
  ASSUME AccountsInv, RootInv, NEW t \in Threads, NEW c \in ClientIds, NEW role \in NewRoles,
         CreateClient(t, c, role)
  PROVE  AccountsInv'
<1>1. At(t, "serve")  BY DEF CreateClient
<1>2. CASE role \in Roles
  <2>1. /\ table[c] = Absent /\ table' = [table EXCEPT ![c] = Active(role)]
        /\ UNCHANGED <<onDisk, verified, admitted, banned, late>> /\ Go(t, "created")
    BY <1>2 DEF CreateClient, InsertClient
  <2>2. Active(role) \in Row /\ Active(role).role # "none"
    BY <1>2 DEF Active, Row, Known, Roles
  <2>3. Active(role).count = table[c].count /\ table[c].role = "none"
    BY <2>1 DEF Active, Absent
  <2>4. "created" \in Labels  BY DEF Labels
  <2>5. job'[t].at = "created" /\ \A u \in Threads \ {t} : job'[u] = job[u]
    BY <2>1, <2>4, GoTypes
  <2> QED BY <1>1, <2>1, <2>2, <2>3, <2>5, TableAccounts DEF RootInv, At
<1>3. CASE role \notin Roles
  <2>1. Answer(t, 400) /\ UNCHANGED accountVars  BY <1>3 DEF CreateClient
  <2>2. job'[t].at = "idle" /\ \A u \in Threads \ {t} : job'[u] = job[u]
    BY <2>1, AnswerTypes DEF NoJob
  <2> QED BY <1>1, <2>1, <2>2, AccountsAside DEF At
<1> QED BY <1>2, <1>3

LEMMA RevokeClientAccounts ==
  ASSUME AccountsInv, RootInv, NEW t \in Threads, NEW c \in ClientIds, RevokeClient(t, c)
  PROVE  AccountsInv'
<1> DEFINE row == [table[c] EXCEPT !.active = FALSE]
           new == [job[t] EXCEPT !.at = "revoked", !.client = c]
<1>1. table[c] \in Row /\ table[c].role # "none" /\ job[t] \in Job
  BY DEF RevokeClient, AccountsInv, AccountsTypes, RowsInv, RootInv, JobTypes
<1>2. /\ row \in Row /\ row.count = table[c].count /\ row.role = table[c].role /\ ~row.active
      /\ new.at = "revoked" /\ new.client = c
  BY <1>1 DEF Row, Job
<1>3. /\ table' = [table EXCEPT ![c] = row] /\ job' = [job EXCEPT ![t] = new] /\ At(t, "serve")
      /\ UNCHANGED <<onDisk, verified, admitted, banned, late>>
  BY DEF RevokeClient, DeactivateClient
<1> HIDE DEF row, new
<1>4. job'[t] = new /\ \A u \in Threads \ {t} : job'[u] = job[u]
  BY <1>3 DEF RootInv, JobTypes
<1> QED BY <1>1, <1>2, <1>3, <1>4, TableAccounts DEF RootInv, At

LEMMA CommitAccountsAccounts ==
  ASSUME AccountsInv, RootInv, NEW t \in Threads, CommitAccounts(t)
  PROVE  AccountsInv'
<1>1. /\ onDisk' = table /\ UNCHANGED <<table, verified, admitted, late>>
      /\ banned' = banned \cup (IF At(t, "revoked") THEN {job[t].client} ELSE {})
      /\ Answer(t, 200) /\ job[t].at \in {"created", "revoked"}
  BY DEF CommitAccounts, CommitClients, Answered
<1>2. job'[t].at = "idle" /\ \A u \in Threads \ {t} : job'[u] = job[u]
  BY <1>1, AnswerTypes DEF NoJob
<1>3. \A d : Pending(d)' = Pending(d)  BY <1>1, <1>2 DEF Pending
<1>4. ASSUME NEW d \in ClientIds  PROVE RowsInv(d)'
  <2>1. RowsInv(d)  BY DEF AccountsInv
  <2>2. admitted[d] \in Nat /\ table[d].count \in Nat /\ Cardinality(Pending(d)) \in Nat
    BY PendingFinite DEF Row, AccountsInv, AccountsTypes
  <2>3. d \in banned' => Barred(table[d])
    BY <1>1, <2>1 DEF AccountsInv, ThreadsInv, RowsInv, At
  <2> QED BY <1>1, <1>3, <2>1, <2>2, <2>3 DEF RowsInv, Barred
<1>5. \A u \in Threads : ThreadsInv(u)'
  BY <1>1, <1>2 DEF AccountsInv, ThreadsInv, Barred
<1> QED BY <1>1, <1>4, <1>5 DEF AccountsInv, AccountsTypes

LEMMA RestartAccountsAccounts ==
  ASSUME AccountsInv, Restart
  PROVE  AccountsInv'
<1>1. /\ table' = onDisk /\ verified' = [t \in Threads |-> Rejected] /\ late' = {}
      /\ UNCHANGED <<onDisk, admitted, banned>> /\ job' = [t \in Threads |-> NoJob]
  BY DEF Restart, RestartAccounts
<1>2. Rejected \in [client : ClientIds, role : Known] /\ Rejected.role = "none"
  BY RestApiAssumption DEF Rejected, Known
<1>3. AccountsTypes'  BY <1>1, <1>2 DEF AccountsInv, AccountsTypes
<1>4. \A t \in Threads : job'[t].at = "idle"  BY <1>1 DEF NoJob
<1>5. ASSUME NEW d \in ClientIds  PROVE RowsInv(d)'
  <2>1. Pending(d)' = {}  BY <1>4 DEF Pending
  <2>2. Cardinality(Pending(d)') = 0  BY <2>1, FS_EmptySet
  <2>3. RowsInv(d) /\ admitted[d] \in Nat /\ onDisk[d].count \in Nat
    BY DEF AccountsInv, AccountsTypes, Row
  <2> QED BY <1>1, <2>2, <2>3 DEF RowsInv, Barred
<1>6. \A u \in Threads : ThreadsInv(u)'  BY <1>1, <1>2, <1>4 DEF ThreadsInv
<1> QED BY <1>3, <1>5, <1>6 DEF AccountsInv

\* A step that only takes the request elsewhere, or ends it.
LEMMA ElsewhereAccounts ==
  ASSUME AccountsInv, RootInv, UNCHANGED accountVars, NEW t \in Threads,
         job[t].at \notin {"admit", "revoked"},
         \/ job' = job
         \/ \E status \in Int : Answer(t, status)
         \/ \E label \in Labels \ {"admit", "revoked"} : Go(t, label)
  PROVE  AccountsInv'
<1>1. CASE job' = job  BY <1>1, AccountsAside
<1>2. ASSUME NEW status \in Int, Answer(t, status)  PROVE AccountsInv'
  <2>1. job'[t].at = "idle" /\ \A u \in Threads \ {t} : job'[u] = job[u]
    BY <1>2, AnswerTypes DEF NoJob
  <2> QED BY <2>1, AccountsAside
<1>3. ASSUME NEW label \in Labels \ {"admit", "revoked"}, Go(t, label)  PROVE AccountsInv'
  <2>1. job'[t].at = label /\ \A u \in Threads \ {t} : job'[u] = job[u]
    BY <1>3, GoTypes
  <2> QED BY <2>1, AccountsAside
<1> QED BY <1>1, <1>2, <1>3

LEMMA ServeAccounts ==
  ASSUME AccountsInv, RootInv, NEW t \in Threads, Serve(t)
  PROVE  AccountsInv'
<1> USE DEF KeepShared, KeepMemory, At
<1>1. {"serve", "add", "created", "notify", "compute", "commit"} \subseteq Labels \ {"admit", "revoked"}
  BY DEF Labels
<1>2. job[t] \in Job  BY DEF RootInv, JobTypes
<1>3. CASE RejectKey(t)  BY <1>3, ElsewhereAccounts DEF RejectKey
<1>4. CASE Count(t)  BY <1>4, CountAccounts DEF RootInv
<1>5. CASE AdmitRequest(t)  BY <1>5, AdmitAccounts
<1>6. CASE RunMission(t)
  <2>1. job'[t].at = "repute" /\ \A u \in Threads \ {t} : job'[u] = job[u]
    BY <1>2, <1>6 DEF RunMission, RootInv, JobTypes, Job
  <2> QED BY <1>6, <2>1, AccountsAside DEF RunMission
<1>7. ASSUME NEW score \in FlightScores, RecordReputation(t, score)  PROVE AccountsInv'
  BY <1>1, <1>7, ElsewhereAccounts DEF RecordReputation
<1>8. CASE AddMission(t)  BY <1>1, <1>8, ElsewhereAccounts DEF AddMission
<1>9. CASE ComputeMissionRoot(t)  BY <1>1, <1>9, ElsewhereAccounts DEF ComputeMissionRoot
<1>10. CASE CommitRoot(t)
  <2>1. CASE Does(t, "scoreroot")
    <3>1. Answer(t, 200)  BY <1>10, <2>1 DEF CommitRoot
    <3> QED BY <1>10, <3>1, ElsewhereAccounts DEF CommitRoot
  <2>2. CASE ~Does(t, "scoreroot")
    <3>1. job'[t].at = "notify" /\ \A u \in Threads \ {t} : job'[u] = job[u]
      BY <1>2, <1>10, <2>2 DEF CommitRoot, RootInv, JobTypes, Job
    <3> QED BY <1>10, <3>1, AccountsAside DEF CommitRoot
  <2> QED BY <2>1, <2>2
<1>11. CASE ProveDelivery(t)  BY <1>1, <1>11, ElsewhereAccounts DEF ProveDelivery
<1>12. CASE SelectHooks(t)
  <2>1. job'[t].at = "decrypt" /\ \A u \in Threads \ {t} : job'[u] = job[u]
    BY <1>2, <1>12 DEF SelectHooks, RootInv, JobTypes, Job
  <2> QED BY <1>12, <2>1, AccountsAside DEF SelectHooks
<1>13. CASE FetchKey(t)  BY <1>13, ElsewhereAccounts DEF FetchKey
<1>14. CASE DecryptHooks(t)
  <2>1. \E status \in Int : Answer(t, status)
    <3>1. 200 \in Int /\ 500 \in Int /\ (Answer(t, 200) \/ Answer(t, 500))
      BY <1>14 DEF DecryptHooks
    <3> QED BY <3>1
  <2> QED BY <1>14, <2>1, ElsewhereAccounts DEF DecryptHooks
<1>15. CASE RegisterHook(t)  BY <1>15, ElsewhereAccounts DEF RegisterHook
<1>16. ASSUME NEW i \in DOMAIN hooks, DeleteHook(t, i)  PROVE AccountsInv'
  <2>1. \E status \in Int : Answer(t, status)
    <3>1. 200 \in Int /\ 404 \in Int /\ (Answer(t, 200) \/ Answer(t, 404))
      BY <1>16 DEF DeleteHook
    <3> QED BY <3>1
  <2> QED BY <1>16, <2>1, ElsewhereAccounts DEF DeleteHook
<1>17. CASE Read(t)
  <2>1. \E status \in Int : Answer(t, status)
    <3>1. 200 \in Int /\ 500 \in Int /\ (Answer(t, 200) \/ Answer(t, 500))
      BY <1>17 DEF Read
    <3> QED BY <3>1
  <2> QED BY <1>17, <2>1, ElsewhereAccounts DEF Read
<1>18. ASSUME NEW c \in ClientIds, NEW role \in NewRoles, CreateClient(t, c, role)
       PROVE  AccountsInv'
  BY <1>18, CreateClientAccounts
<1>19. ASSUME NEW c \in ClientIds, RevokeClient(t, c)  PROVE AccountsInv'
  BY <1>19, RevokeClientAccounts
<1>20. CASE CommitAccounts(t)  BY <1>20, CommitAccountsAccounts
<1> QED BY <1>3, <1>4, <1>5, <1>6, <1>7, <1>8, <1>9, <1>10, <1>11, <1>12, <1>13, <1>14,
           <1>15, <1>16, <1>17, <1>18, <1>19, <1>20 DEF Serve

LEMMA AccountsInductive ==
  ASSUME AccountsInv, RootInv, [RequestsNext]_requestVars
  PROVE  AccountsInv'
<1>1. ASSUME NEW t \in Threads, At(t, "idle"), NEW c \in ClientIds, NEW endpoint \in Endpoints,
             Arrive(t, c, endpoint)
      PROVE  AccountsInv'
  BY <1>1, ArriveAccounts DEF RootInv
<1>2. CASE UNCHANGED requestVars
  BY <1>2, AccountsAside DEF requestVars, apiVars
<1> QED BY <1>1, <1>2, ServeAccounts, RestartAccountsAccounts DEF RequestsNext

RequestsInv == RootInv /\ HooksInv /\ AccountsInv

LEMMA RequestsInvariant == RequestsSpec => []RequestsInv
<1>1. RequestsInit => RequestsInv
  BY RootInvInitially, HooksInitially, AccountsInitially DEF RequestsInit, RequestsInv
<1>2. RequestsInv /\ [RequestsNext]_requestVars => RequestsInv'
  BY RootInductive, HooksInductive, AccountsInductive DEF RequestsInv, RootInv, HooksInv, HooksTypes
<1> QED BY <1>1, <1>2, PTL DEF RequestsSpec

\* The root that POST /mission/run answers (api.py:125-160) covers the mission it
\* was asked for and is one of the commitments, whichever requests ran between.
THEOREM RootsCoverMissions == RequestsSpec => []RootCoversMission
<1>1. RequestsInv => RootCoversMission
  BY DEF RequestsInv, RootInv, JobInv, RootCoversMission, Lists, Committed
<1> QED BY <1>1, RequestsInvariant, PTL

\* A request that was admitted is counted, a revoked client stays out, and a
\* webhook's secret can be read with the key on disk, through the commits of
\* other threads and through restarts, unless two threads made that key at
\* once (auth.py, webhook.py).
THEOREM ClientsKeepTheirWord == RequestsSpec => []ClientsServed
<1>1. RequestsInv => CountKept
  BY DEF RequestsInv, AccountsInv, RowsInv, CountKept
<1>2. RequestsInv => RevokedOut
  BY DEF RequestsInv, AccountsInv, AccountsTypes, ThreadsInv, RevokedOut
<1>3. RequestsInv => SecretsReadable
  BY DEF RequestsInv, HooksInv, KeysInv, SecretsReadable, Readable
<1> QED BY <1>1, <1>2, <1>3, RequestsInvariant, PTL DEF ClientsServed, AccountsKept

-----------------------------------------------------------------------------
(* Dashboard: refreshes and what they credit                               *)

DashboardSpec == DashboardInit /\ [][DashboardNext]_dashboardVars

Line == [mission : Nat, score : Int]
DashLabels == {"idle", "fly", "load", "append", "trim", "assign", "record", "pay", "leafScore",
           "leafBundle"}

DashTypes ==
  /\ flown \in Seq(Int)
  /\ card \in Line
  /\ missions \in [list : Nat, rows : Seq(Line)]
  /\ metrics \in Seq(Line)
  /\ paid \in Seq([mission : Nat, amount : Int])
  /\ refresh \in [Refreshers -> [at : DashLabels, list : Nat, kept : Seq(Line), score : Int]]

AsFlown(i, score) == i \in DOMAIN flown /\ score = flown[i]
AllAsFlown(rows) == \A i \in DOMAIN rows : AsFlown(rows[i].mission, rows[i].score)

\* From the first flight on, the card shows a mission at its own score, and
\* so does every copy of it that a thread keeps.
DashInv ==
  /\ DashTypes
  /\ \A r \in Refreshers : refresh[r].at \notin {"idle", "fly"} => AsFlown(card.mission, card.score)
  /\ AllAsFlown(missions.rows)
  /\ AllAsFlown(metrics)
  /\ \A r \in Refreshers : AllAsFlown(refresh[r].kept)
  /\ \A i \in DOMAIN paid : AsFlown(paid[i].mission, paid[i].amount)

LEMMA LastRowsOf ==
  ASSUME NEW n \in Nat, NEW S, NEW s \in Seq(S)
  PROVE  /\ LastRows(n, s) \in Seq(S)
         /\ Len(LastRows(n, s)) <= n
         /\ \A i \in DOMAIN LastRows(n, s) : \E j \in DOMAIN s : LastRows(n, s)[i] = s[j]
<1>1. CASE Len(s) > n
  <2> DEFINE k == Len(s) - n + 1
  <2>1. LastRows(n, s) = SubSeq(s, k, Len(s)) /\ k \in 1 .. Len(s) + 1
    BY <1>1 DEF LastRows
  <2>2. /\ SubSeq(s, k, Len(s)) \in Seq(S) /\ Len(SubSeq(s, k, Len(s))) = n
        /\ \A i \in 1 .. n : SubSeq(s, k, Len(s))[i] = s[k + i - 1] /\ k + i - 1 \in DOMAIN s
    BY <1>1, <2>1
  <2> QED BY <2>1, <2>2
<1>2. CASE ~(Len(s) > n)
  <2>1. LastRows(n, s) = SubSeq(s, 1, Len(s))  BY <1>2 DEF LastRows
  <2>2. SubSeq(s, 1, Len(s)) = s  OBVIOUS
  <2> QED BY <1>2, <2>1, <2>2
<1> QED BY <1>1, <1>2

LEMMA LastRowsAsFlown ==
  ASSUME NEW n \in Nat, NEW s \in Seq(Line), AllAsFlown(s)
  PROVE  AllAsFlown(LastRows(n, s))
BY LastRowsOf DEF AllAsFlown

LEMMA DashInitially == DashboardInit => DashInv
<1> SUFFICES ASSUME DashboardInit PROVE DashInv  OBVIOUS
<1>1. << >> \in Seq(Line) /\ << >> \in Seq(Int) /\ << >> \in Seq([mission : Nat, amount : Int])
  OBVIOUS
<1>2. /\ Idle \in [at : DashLabels, list : Nat, kept : Seq(Line), score : Int]
      /\ Idle.kept = << >> /\ Idle.at = "idle"
  BY <1>1 DEF Idle, DashLabels
<1>3. /\ [Idle EXCEPT !.at = "fly"] \in [at : DashLabels, list : Nat, kept : Seq(Line), score : Int]
      /\ [Idle EXCEPT !.at = "fly"].kept = << >> /\ [Idle EXCEPT !.at = "fly"].at = "fly"
  BY <1>2 DEF DashLabels
<1>4. NoMission \in Line  BY DEF NoMission, Line
<1>5. /\ flown = << >> /\ card = NoMission /\ missions = [list |-> 0, rows |-> << >>]
      /\ metrics = << >> /\ paid = << >>
      /\ refresh = [r \in Refreshers |-> IF r = Main THEN [Idle EXCEPT !.at = "fly"] ELSE Idle]
  BY DEF DashboardInit
<1>6. refresh \in [Refreshers -> [at : DashLabels, list : Nat, kept : Seq(Line), score : Int]]
  BY <1>2, <1>3, <1>5
<1>7. missions \in [list : Nat, rows : Seq(Line)]  BY <1>1, <1>5
<1>8. DashTypes  BY <1>1, <1>4, <1>5, <1>6, <1>7 DEF DashTypes
<1>9. \A r \in Refreshers : refresh[r].kept = << >> /\ refresh[r].at \in {"idle", "fly"}
  BY <1>2, <1>3, <1>5
<1> QED BY <1>5, <1>8, <1>9 DEF DashInv, AllAsFlown

\* The thread's next place in refresh_state.
LEMMA ThenTypes ==
  ASSUME DashTypes, NEW r \in Refreshers, NEW label \in DashLabels, Then(r, label)
  PROVE  /\ refresh' \in [Refreshers -> [at : DashLabels, list : Nat, kept : Seq(Line), score : Int]]
         /\ refresh'[r].at = label
         /\ \A q \in Refreshers : refresh'[q].kept = refresh[q].kept
         /\ \A q \in Refreshers \ {r} : refresh'[q].at = refresh[q].at
BY DEF DashTypes, Then

LEMMA KeptStay ==
  ASSUME DashInv, UNCHANGED flown, \A q \in Refreshers : refresh'[q].kept = refresh[q].kept
  PROVE  \A q \in Refreshers : AllAsFlown(refresh[q].kept)'
BY DEF DashInv, AllAsFlown, AsFlown

\* A step that moves one thread on and changes nothing that is shown.
LEMMA DashMoves ==
  ASSUME DashInv, NEW r \in Refreshers, NEW label \in DashLabels \ {"idle", "fly"},
         refresh[r].at \notin {"idle", "fly"}, Then(r, label),
         UNCHANGED <<card, missions, metrics, paid, flown>>
  PROVE  DashInv'
<1>1. DashTypes'  BY ThenTypes DEF DashInv, DashTypes
<1>2. \A q \in Refreshers : AllAsFlown(refresh[q].kept)'
  BY ThenTypes, SMTT(30) DEF DashInv, AllAsFlown, AsFlown
<1>3. AsFlown(card.mission, card.score)  BY DEF DashInv
<1> QED BY <1>1, <1>2, <1>3 DEF DashInv, AllAsFlown, AsFlown

LEMMA FlyDash ==
  ASSUME DashInv, NEW r \in Refreshers, NEW score \in Scores, Fly(r, score)
  PROVE  DashInv'
<1>1. /\ flown' = Append(flown, score) /\ Then(r, "load")
      /\ card' = [mission |-> Len(flown) + 1, score |-> score]
      /\ UNCHANGED <<missions, metrics, paid>>
  BY DEF Fly
<1>2. score \in Int /\ flown \in Seq(Int)  BY DashboardAssumption DEF DashInv, DashTypes
<1>3. /\ flown' \in Seq(Int) /\ Len(flown) + 1 \in DOMAIN flown' /\ flown'[Len(flown) + 1] = score
      /\ \A i \in DOMAIN flown : i \in DOMAIN flown' /\ flown'[i] = flown[i]
  BY <1>1, <1>2
<1>4. "load" \in DashLabels  BY DEF DashLabels
<1>5. card' \in Line  BY <1>1, <1>2 DEF Line
<1>6. DashTypes'  BY <1>1, <1>3, <1>4, <1>5, ThenTypes DEF DashInv, DashTypes
<1>7. AsFlown(card.mission, card.score)'  BY <1>1, <1>3 DEF AsFlown
<1>8. \A i, s : AsFlown(i, s) => AsFlown(i, s)'  BY <1>3 DEF AsFlown
<1>9. \A q \in Refreshers : AllAsFlown(refresh[q].kept)'
  <2>1. \A q \in Refreshers : refresh'[q].kept = refresh[q].kept  BY <1>1, <1>4, ThenTypes DEF DashInv
  <2> QED BY <1>8, <2>1 DEF DashInv, AllAsFlown
<1>10. /\ AllAsFlown(missions.rows)' /\ AllAsFlown(metrics)'
       /\ \A i \in DOMAIN paid' : AsFlown(paid[i].mission, paid[i].amount)'
  BY <1>1, <1>8 DEF DashInv, AllAsFlown
<1> QED BY <1>6, <1>7, <1>9, <1>10 DEF DashInv

LEMMA AppendRowDash ==
  ASSUME DashInv, NEW r \in Refreshers, AppendRow(r)
  PROVE  DashInv'
<1>1. "trim" \in DashLabels /\ Then(r, "trim") /\ refresh[r].at = "append"
      /\ UNCHANGED <<card, metrics, paid, flown>>
  BY DEF AppendRow, DashLabels
<1>2. AsFlown(card.mission, card.score) /\ card \in Line
  BY <1>1 DEF DashInv, DashTypes
<1>3. PICK rows \in {missions.rows, Append(missions.rows, card)} :
        missions' = [missions EXCEPT !.rows = rows]
  BY DEF AppendRow, DashInv, DashTypes
<1>4. missions.rows \in Seq(Line)  BY DEF DashInv, DashTypes
<1>5. rows \in Seq(Line) /\ AllAsFlown(rows)
  BY <1>2, <1>3, <1>4 DEF DashInv, AllAsFlown
<1>6. missions' \in [list : Nat, rows : Seq(Line)] /\ missions'.rows = rows
  BY <1>3, <1>5 DEF DashInv, DashTypes
<1>7. DashTypes'  BY <1>1, <1>6, ThenTypes DEF DashInv, DashTypes
<1>8. \A q \in Refreshers : AllAsFlown(refresh[q].kept)'
  <2>1. \A q \in Refreshers : refresh'[q].kept = refresh[q].kept  BY <1>1, ThenTypes DEF DashInv
  <2> QED BY <1>1, <2>1, KeptStay
<1> QED BY <1>1, <1>2, <1>5, <1>6, <1>7, <1>8 DEF DashInv, AllAsFlown, AsFlown

LEMMA TrimDash ==
  ASSUME DashInv, NEW r \in Refreshers, Trim(r)
  PROVE  DashInv'
<1>1. missions.rows \in Seq(Line) /\ AllAsFlown(missions.rows)  BY DEF DashInv, DashTypes
<1> DEFINE kept == IF Len(missions.rows) > Keep THEN LastRows(Keep, missions.rows) ELSE << >>
           label == IF Len(missions.rows) > Keep THEN "assign" ELSE "record"
<1>2. kept \in Seq(Line) /\ AllAsFlown(kept)
  <2>1. << >> \in Seq(Line) /\ AllAsFlown(<< >>)  BY DEF AllAsFlown
  <2>2. LastRows(Keep, missions.rows) \in Seq(Line) /\ AllAsFlown(LastRows(Keep, missions.rows))
    BY <1>1, DashboardAssumption, LastRowsOf, LastRowsAsFlown
  <2> QED BY <2>1, <2>2
<1>3. label \in DashLabels  BY DEF DashLabels
<1>4. /\ refresh' = [refresh EXCEPT ![r].at = label, ![r].kept = kept]
      /\ refresh[r].at = "trim" /\ UNCHANGED <<card, missions, metrics, paid, flown>>
  BY DEF Trim
<1> HIDE DEF kept, label
<1>5. /\ refresh' \in [Refreshers -> [at : DashLabels, list : Nat, kept : Seq(Line), score : Int]]
      /\ refresh'[r].kept = kept
      /\ \A q \in Refreshers \ {r} : refresh'[q] = refresh[q]
  BY <1>2, <1>3, <1>4 DEF DashInv, DashTypes
<1>6. DashTypes'  BY <1>4, <1>5 DEF DashInv, DashTypes
<1>7. \A q \in Refreshers : AllAsFlown(refresh[q].kept)'
  BY <1>2, <1>4, <1>5 DEF DashInv, AllAsFlown, AsFlown
<1>8. AsFlown(card.mission, card.score)  BY <1>4 DEF DashInv
<1> QED BY <1>4, <1>6, <1>7, <1>8 DEF DashInv, AllAsFlown, AsFlown

LEMMA AssignListDash ==
  ASSUME DashInv, NEW r \in Refreshers, AssignList(r)
  PROVE  DashInv'
<1>1. /\ missions' = [list |-> missions.list + 1, rows |-> refresh[r].kept]
      /\ refresh' = [refresh EXCEPT ![r].at = "record", ![r].kept = << >>]
      /\ refresh[r].at = "assign" /\ UNCHANGED <<card, metrics, paid, flown>>
  BY DEF AssignList
<1>2. << >> \in Seq(Line) /\ "record" \in DashLabels  BY DEF DashLabels
<1>3. refresh[r].kept \in Seq(Line) /\ AllAsFlown(refresh[r].kept)  BY DEF DashInv, DashTypes
<1>4. missions' \in [list : Nat, rows : Seq(Line)] /\ missions'.rows = refresh[r].kept
  BY <1>1, <1>3 DEF DashInv, DashTypes
<1>5. /\ refresh' \in [Refreshers -> [at : DashLabels, list : Nat, kept : Seq(Line), score : Int]]
      /\ refresh'[r].kept = << >>
      /\ \A q \in Refreshers \ {r} : refresh'[q] = refresh[q]
  BY <1>1, <1>2 DEF DashInv, DashTypes
<1>6. DashTypes'  BY <1>1, <1>4, <1>5 DEF DashInv, DashTypes
<1>7. \A q \in Refreshers : AllAsFlown(refresh[q].kept)'
  BY <1>1, <1>5 DEF DashInv, AllAsFlown, AsFlown
<1>8. AsFlown(card.mission, card.score)  BY <1>1 DEF DashInv
<1> QED BY <1>1, <1>3, <1>4, <1>6, <1>7, <1>8 DEF DashInv, AllAsFlown, AsFlown

LEMMA RecordMetricsDash ==
  ASSUME DashInv, NEW r \in Refreshers, RecordMetrics(r)
  PROVE  DashInv'
<1>1. /\ refresh[r].at = "record" /\ metrics' = LastRows(Window, Append(metrics, card))
      /\ Then(r, "pay") /\ "pay" \in DashLabels /\ UNCHANGED <<card, missions, paid, flown>>
  BY DEF RecordMetrics, DashLabels
<1>2. AsFlown(card.mission, card.score) /\ card \in Line /\ metrics \in Seq(Line)
  BY <1>1 DEF DashInv, DashTypes
<1>3. Append(metrics, card) \in Seq(Line) /\ AllAsFlown(Append(metrics, card))
  BY <1>2 DEF DashInv, AllAsFlown
<1>4. metrics' \in Seq(Line) /\ AllAsFlown(LastRows(Window, Append(metrics, card)))
  BY <1>1, <1>3, DashboardAssumption, LastRowsOf, LastRowsAsFlown
<1>5. DashTypes'  BY <1>1, <1>4, ThenTypes DEF DashInv, DashTypes
<1>6. \A q \in Refreshers : AllAsFlown(refresh[q].kept)'
  <2>1. \A q \in Refreshers : refresh'[q].kept = refresh[q].kept  BY <1>1, ThenTypes DEF DashInv
  <2> QED BY <1>1, <2>1, KeptStay
<1> QED BY <1>1, <1>2, <1>4, <1>5, <1>6 DEF DashInv, AllAsFlown, AsFlown

LEMMA PayDash ==
  ASSUME DashInv, NEW r \in Refreshers, Pay(r)
  PROVE  DashInv'
<1> DEFINE receipt == [mission |-> card.mission, amount |-> card.score]
<1>1. /\ refresh[r].at = "pay" /\ paid' = Append(paid, receipt)
      /\ Then(r, "leafScore") /\ "leafScore" \in DashLabels
      /\ UNCHANGED <<card, missions, metrics, flown>>
  BY DEF Pay, DashLabels
<1>2. AsFlown(card.mission, card.score) /\ card \in Line  BY <1>1 DEF DashInv, DashTypes
<1>3. /\ receipt \in [mission : Nat, amount : Int]
      /\ AsFlown(receipt.mission, receipt.amount)
  BY <1>2 DEF Line
<1> HIDE DEF receipt
<1>4. paid \in Seq([mission : Nat, amount : Int])  BY DEF DashInv, DashTypes
<1>5. paid' \in Seq([mission : Nat, amount : Int])
      /\ \A i \in DOMAIN paid' : AsFlown(paid'[i].mission, paid'[i].amount)
  BY <1>1, <1>3, <1>4 DEF DashInv
<1>6. DashTypes'  BY <1>1, <1>5, ThenTypes DEF DashInv, DashTypes
<1>7. \A q \in Refreshers : AllAsFlown(refresh[q].kept)'
  <2>1. \A q \in Refreshers : refresh'[q].kept = refresh[q].kept  BY <1>1, ThenTypes DEF DashInv
  <2> QED BY <1>1, <2>1, KeptStay
<1> QED BY <1>1, <1>2, <1>5, <1>6, <1>7 DEF DashInv, AllAsFlown, AsFlown

\* A step that ends a refresh, or that notes where the list is or the score.
LEMMA RestDash ==
  ASSUME DashInv, NEW r \in Refreshers,
         NEW one \in [at : DashLabels, list : Nat, kept : Seq(Line), score : Int],
         refresh' = [refresh EXCEPT ![r] = one],
         one.at \notin {"idle", "fly"} => refresh[r].at \notin {"idle", "fly"},
         one.kept \in {<< >>, refresh[r].kept},
         UNCHANGED <<card, missions, metrics, paid, flown>>
  PROVE  DashInv'
<1>1. /\ refresh' \in [Refreshers -> [at : DashLabels, list : Nat, kept : Seq(Line), score : Int]]
      /\ refresh'[r] = one
      /\ \A q \in Refreshers \ {r} : refresh'[q] = refresh[q]
  BY DEF DashInv, DashTypes
<1>2. DashTypes'  BY <1>1 DEF DashInv, DashTypes
<1>3. \A q \in Refreshers : AllAsFlown(refresh[q].kept)'
  BY <1>1 DEF DashInv, AllAsFlown, AsFlown
<1>4. \A q \in Refreshers : refresh'[q].at \notin {"idle", "fly"} => AsFlown(card.mission, card.score)
  BY <1>1 DEF DashInv
<1> QED BY <1>2, <1>3, <1>4 DEF DashInv, AllAsFlown, AsFlown

LEMMA DashInductive ==
  ASSUME DashInv, [DashboardNext]_dashboardVars
  PROVE  DashInv'
<1> DEFINE Thread == [at : DashLabels, list : Nat, kept : Seq(Line), score : Int]
<1>1. ASSUME NEW r \in Refreshers
      PROVE  refresh[r] \in Thread
  BY DEF DashInv, DashTypes
<1>2. << >> \in Seq(Line) /\ Idle \in Thread /\ Idle.at = "idle" /\ Idle.kept = << >>
  <2>1. << >> \in Seq(Line)  OBVIOUS
  <2> QED BY <2>1 DEF Idle, DashLabels
<1>3. ASSUME NEW r \in Refreshers, BeginRefresh(r)  PROVE DashInv'
  <2> DEFINE one == [refresh[r] EXCEPT !.at = "fly"]
  <2>1. one \in Thread /\ one.at = "fly" /\ one.kept = refresh[r].kept  BY <1>1 DEF DashLabels
  <2>2. refresh' = [refresh EXCEPT ![r] = one] /\ UNCHANGED <<card, missions, metrics, paid, flown>>
    BY <1>3 DEF BeginRefresh, Then
  <2> HIDE DEF one
  <2> QED BY <2>1, <2>2, RestDash
<1>4. ASSUME NEW r \in Refreshers, LoadList(r)  PROVE DashInv'
  <2> DEFINE one == [refresh[r] EXCEPT !.at = "append", !.list = missions.list]
  <2>1. missions.list \in Nat  BY DEF DashInv, DashTypes
  <2>2. one \in Thread /\ one.at = "append" /\ one.kept = refresh[r].kept
    BY <1>1, <2>1 DEF DashLabels
  <2>3. /\ refresh' = [refresh EXCEPT ![r] = one] /\ refresh[r].at = "load"
        /\ UNCHANGED <<card, missions, metrics, paid, flown>>
    BY <1>4 DEF LoadList
  <2> HIDE DEF one
  <2> QED BY <2>2, <2>3, RestDash
<1>5. ASSUME NEW r \in Refreshers, LeafScore(r)  PROVE DashInv'
  <2> DEFINE one == [refresh[r] EXCEPT !.at = "leafBundle", !.score = card.score]
  <2>1. card.score \in Int  BY DEF DashInv, DashTypes, Line
  <2>2. one \in Thread /\ one.at = "leafBundle" /\ one.kept = refresh[r].kept
    BY <1>1, <2>1 DEF DashLabels
  <2>3. /\ refresh' = [refresh EXCEPT ![r] = one] /\ refresh[r].at = "leafScore"
        /\ UNCHANGED <<card, missions, metrics, paid, flown>>
    BY <1>5 DEF LeafScore
  <2> HIDE DEF one
  <2> QED BY <2>2, <2>3, RestDash
<1>6. ASSUME NEW r \in Refreshers, LeafBundle(r) \/ RefreshFails(r)  PROVE DashInv'
  <2>1. refresh' = [refresh EXCEPT ![r] = Idle] /\ UNCHANGED <<card, missions, metrics, paid, flown>>
    BY <1>6 DEF LeafBundle, RefreshFails
  <2> QED BY <1>2, <2>1, RestDash
<1>7. CASE UNCHANGED dashboardVars
  BY <1>7 DEF dashboardVars, DashInv, DashTypes, AllAsFlown, AsFlown
<1> QED BY <1>3, <1>4, <1>5, <1>6, <1>7, FlyDash, AppendRowDash, TrimDash, AssignListDash,
           RecordMetricsDash, PayDash DEF DashboardNext

\* Whichever threads run refresh_state at once (app.py), a mission is listed,
\* measured and paid at the score it was flown with.
THEOREM MissionsCreditedAsFlown == DashboardSpec => []CreditedAsFlown
<1>1. DashInv => CreditedAsFlown
  BY DEF DashInv, AllAsFlown, AsFlown, CreditedAsFlown
<1> QED BY <1>1, DashInitially, DashInductive, PTL DEF DashboardSpec

\* The counters go together, and Main's refresh is under way until it is served.
DashCounts ==
  /\ phase \in {"boot", "serve", "dead"}
  /\ card.mission \in 0 .. Len(flown)
  /\ Len(metrics) <= Window
  /\ Len(receipts) = Len(paid) /\ proofs = Len(paid)
  /\ receipts \in Seq([amount : Int, after : Int]) /\ funds \in Int
  /\ phase = "boot" => refresh[Main].at # "idle"

LEMMA DashCountsInitially == DashboardInit => DashCounts
<1> SUFFICES ASSUME DashboardInit PROVE DashCounts  OBVIOUS
<1>1. Idle.at = "idle" /\ [Idle EXCEPT !.at = "fly"].at = "fly"  BY DEF Idle
<1>2. << >> \in Seq([amount : Int, after : Int]) /\ Len(<< >>) = 0  OBVIOUS
<1>3. card.mission = 0 /\ funds = 0 /\ receipts = << >> /\ flown = << >> /\ metrics = << >>
      /\ paid = << >> /\ proofs = 0 /\ phase = "boot"
  BY DEF DashboardInit, Purse!Init, NoMission
<1>4. refresh[Main].at = "fly"  BY <1>1, DashboardAssumption DEF DashboardInit
<1> QED BY <1>2, <1>3, <1>4, DashboardAssumption DEF DashCounts

LEMMA DashCountsInductive ==
  ASSUME DashInv, DashCounts, [DashboardNext]_dashboardVars
  PROVE  DashCounts'
<1> USE DEF DashCounts
<1>1. Idle.at = "idle"  BY DEF Idle
<1>2. ASSUME NEW r \in Refreshers, NEW label \in DashLabels \ {"idle"}, Then(r, label)
      PROVE  refresh[Main].at # "idle" => refresh'[Main].at # "idle"
  BY <1>2, ThenTypes, DashboardAssumption DEF DashInv
<1>3. {"fly", "load", "trim", "pay", "leafScore"} \subseteq DashLabels \ {"idle"}  BY DEF DashLabels
<1>4. ASSUME NEW r \in Refreshers, BeginRefresh(r)  PROVE DashCounts'
  BY <1>2, <1>3, <1>4 DEF BeginRefresh
<1>5. ASSUME NEW r \in Refreshers, NEW score \in Scores, Fly(r, score)  PROVE DashCounts'
  <2>1. Len(flown') = Len(flown) + 1 /\ card'.mission = Len(flown) + 1
    BY <1>5 DEF Fly, DashInv, DashTypes
  <2>2. Len(flown) \in Nat  BY DEF DashInv, DashTypes
  <2> QED BY <1>2, <1>3, <1>5, <2>1, <2>2 DEF Fly
<1>6. ASSUME NEW r \in Refreshers, LoadList(r) \/ Trim(r) \/ AssignList(r) \/ LeafScore(r)
      PROVE  DashCounts'
  <2>1. refresh'[Main].at # "idle" \/ refresh'[Main].at = refresh[Main].at
    BY <1>6, DashboardAssumption, ZenonT(60) DEF LoadList, Trim, AssignList, LeafScore, DashInv, DashTypes
  <2> QED BY <1>6, <2>1 DEF LoadList, Trim, AssignList, LeafScore
<1>7. ASSUME NEW r \in Refreshers, AppendRow(r)  PROVE DashCounts'
  BY <1>2, <1>3, <1>7 DEF AppendRow
<1>8. ASSUME NEW r \in Refreshers, RecordMetrics(r)  PROVE DashCounts'
  <2>1. Append(metrics, card) \in Seq(Line)  BY DEF DashInv, DashTypes
  <2>2. Len(metrics') <= Window  BY <1>8, <2>1, LastRowsOf, DashboardAssumption DEF RecordMetrics
  <2> QED BY <1>2, <1>3, <1>8, <2>2 DEF RecordMetrics
<1>9. ASSUME NEW r \in Refreshers, Pay(r)  PROVE DashCounts'
  <2>1. /\ funds' = funds + card.score
        /\ receipts' = Append(receipts, [amount |-> card.score, after |-> funds'])
        /\ paid' = Append(paid, [mission |-> card.mission, amount |-> card.score])
        /\ proofs' = proofs + 1
    BY <1>9 DEF Pay, Purse!Post
  <2>2. card.score \in Int /\ card.mission \in Nat  BY DEF DashInv, DashTypes, Line
  <2>3. paid \in Seq([mission : Nat, amount : Int])  BY DEF DashInv, DashTypes
  <2>4. Len(paid') = Len(paid) + 1
    BY <2>1, <2>2, <2>3
  <2>5. /\ receipts' \in Seq([amount : Int, after : Int]) /\ Len(receipts') = Len(receipts) + 1
        /\ funds' \in Int
    BY <2>1, <2>2
  <2> QED BY <1>2, <1>3, <1>9, <2>1, <2>4, <2>5 DEF Pay
<1>10. ASSUME NEW r \in Refreshers, LeafBundle(r) \/ RefreshFails(r)  PROVE DashCounts'
  <2>1. r # Main => refresh'[Main] = refresh[Main]
    BY <1>10, DashboardAssumption DEF LeafBundle, RefreshFails, DashInv, DashTypes
  <2> QED BY <1>10, <2>1 DEF LeafBundle, RefreshFails
<1>11. CASE UNCHANGED dashboardVars  BY <1>11 DEF dashboardVars
<1> QED BY <1>4, <1>5, <1>6, <1>7, <1>8, <1>9, <1>10, <1>11 DEF DashboardNext

LEMMA DashboardTyped == DashboardSpec => []DashboardTypeOK
<1>1. DashInv /\ DashCounts /\ [DashboardNext]_dashboardVars => (DashInv /\ DashCounts)'
  BY DashInductive, DashCountsInductive
<1>2. DashCounts => DashboardTypeOK  BY DEF DashCounts, DashboardTypeOK
<1> QED BY <1>1, <1>2, DashInitially, DashCountsInitially, PTL DEF DashboardSpec

-----------------------------------------------------------------------------
(* Drone connections                                                       *)

LinkSpec == LinkInit /\ [][LinkNext]_linkVars

OnePanel == \A p, q \in Panels : p = q

Connector == [kind : Kinds, socket : {"none", "open", "closed"}, ros : BOOLEAN,
              connected : BOOLEAN, frames : Seq([place : Places, battery : Batteries])]
Requests == Flyers \cup Panels
Served == [at : {"idle", "make", "connect", "record", "502", "422", "scored", "error",
                 "connected", "failed"}, link : Nat]

LinkTypes ==
  /\ link \in [Links -> Connector]
  /\ madeLinks \in 0 .. MaxLinks
  /\ current \in 0 .. madeLinks
  /\ serving \in [Requests -> Served]

\* No flight has the dashboard's connector, and while the dashboard makes a
\* new one, its old one is closed.
LinkInv ==
  /\ LinkTypes
  /\ \A l \in Links : l > madeLinks => ~link[l].connected
  /\ \A r \in Flyers : serving[r].at # "make"
  /\ \A r \in Flyers : serving[r].link <= madeLinks
  /\ \A r \in Flyers : serving[r].link # NoLink => serving[r].link # current
  /\ \A r \in Flyers : serving[r].at \in {"connect", "record"} => serving[r].link \in Links
  /\ \A r \in Flyers : serving[r].link # NoLink => serving[r].at \in {"connect", "record"}
  /\ \A p \in Panels : serving[p].at = "make" => current = NoLink \/ ~link[current].connected
  /\ \A p \in Panels : serving[p].at = "connect" => current # NoLink
  /\ LinksHeld

LEMMA LinkInitially == LinkInit => LinkInv
<1> SUFFICES ASSUME LinkInit PROVE LinkInv  OBVIOUS
<1>1. << >> \in Seq([place : Places, battery : Batteries])  OBVIOUS
<1>2. LinkTypes  BY <1>1, DroneLinkAssumption DEF LinkInit, LinkTypes, Connector, Requests, Served, NoLink, Kinds
<1> QED BY <1>2 DEF LinkInit, LinkInv, LinksHeld, Requests, NoLink, Links

\* A step of a flight changes its own connector, and leaves it connected only
\* as long as the flight has it.
LEMMA FlightStep ==
  ASSUME LinkInv, NEW r \in Flyers, NEW n \in Links, n = serving[r].link,
         NEW l \in Connector, NEW s \in Served,
         link' = [link EXCEPT ![n] = l], serving' = [serving EXCEPT ![r] = s],
         UNCHANGED <<madeLinks, current>>,
         s.link \in {n, NoLink}, s.at # "make",
         s.at \in {"connect", "record"} <=> s.link = n,
         l.connected => s.link = n
  PROVE  LinkInv'
<1> USE DroneLinkAssumption
<1>1. link' \in [Links -> Connector] /\ link'[n] = l
      /\ \A m \in Links \ {n} : link'[m] = link[m]
  BY DEF LinkInv, LinkTypes
<1>2. serving' \in [Requests -> Served] /\ serving'[r] = s
      /\ \A q \in Requests \ {r} : serving'[q] = serving[q]
  BY DEF LinkInv, LinkTypes, Requests
<1>3. LinkTypes'  BY <1>1, <1>2 DEF LinkInv, LinkTypes
<1>4. n # NoLink /\ n <= madeLinks /\ n # current  BY DEF Links, NoLink, LinkInv
<1>5. LinksHeld'
  <2>1. SUFFICES ASSUME NEW m \in Links, link'[m].connected, m # current
                 PROVE  \E q \in Flyers : serving'[q].link = m
    BY DEF LinksHeld
  <2>2. CASE m = n  BY <1>1, <1>2, <2>1, <2>2
  <2>3. CASE m # n
    <3>1. PICK q \in Flyers : serving[q].link = m  BY <1>1, <2>1, <2>3 DEF LinkInv, LinksHeld
    <3>2. q # r  BY <2>3, <3>1
    <3> QED BY <1>2, <3>1, <3>2 DEF Requests
  <2> QED BY <2>2, <2>3
<1>6. \A q \in Flyers : /\ serving'[q].at # "make" /\ serving'[q].link <= madeLinks
                        /\ serving'[q].link # NoLink => serving'[q].link # current
                        /\ serving'[q].at \in {"connect", "record"} => serving'[q].link \in Links
                        /\ serving'[q].link # NoLink => serving'[q].at \in {"connect", "record"}
  <2>1. SUFFICES ASSUME NEW q \in Flyers
                 PROVE  /\ serving'[q].at # "make" /\ serving'[q].link <= madeLinks
                        /\ serving'[q].link # NoLink => serving'[q].link # current
                        /\ serving'[q].at \in {"connect", "record"} => serving'[q].link \in Links
                        /\ serving'[q].link # NoLink => serving'[q].at \in {"connect", "record"}
    OBVIOUS
  <2>2. CASE q = r  BY <1>2, <1>4, <2>2 DEF LinkInv, LinkTypes, NoLink
  <2>3. CASE q # r  BY <1>2, <2>3 DEF LinkInv, Requests
  <2> QED BY <2>2, <2>3
<1>7. \A p \in Panels : serving'[p] = serving[p]  BY <1>2 DEF Requests
<1>9. \A p \in Panels : serving'[p].at = "make" => current = NoLink \/ ~link'[current].connected
  BY <1>1, <1>4, <1>7 DEF LinkInv, LinkTypes
<1>10. \A m \in Links : m > madeLinks => ~link'[m].connected
  BY <1>1, <1>4 DEF LinkInv, LinkTypes, Links
<1> QED BY <1>3, <1>5, <1>6, <1>7, <1>9, <1>10 DEF LinkInv

LEMMA ConnectFlightLinks ==
  ASSUME LinkInv, NEW r \in Flyers, ConnectFlight(r)
  PROVE  LinkInv'
<1>1. PICK n \in Links : n = serving[r].link /\ serving[r].at = "connect"
  BY DEF ConnectFlight, LinkInv
<1>2. PICK outcome \in Outcomes(link[n].kind) : link' = [link EXCEPT ![n] = Opened(@, outcome)]
  BY <1>1 DEF ConnectFlight
<1> DEFINE l == Opened(link[n], outcome)
<1>3. l \in Connector  BY DEF LinkInv, LinkTypes, Outcomes, Opened, Connector
<1>4. link' = [link EXCEPT ![n] = l]  BY <1>2
<1> HIDE DEF l
<1>5. link'[n] = l  BY <1>4 DEF LinkInv, LinkTypes
<1> DEFINE s == IF l.connected THEN [serving[r] EXCEPT !.at = "record"]
                ELSE [at |-> "502", link |-> NoLink]
<1>6. UNCHANGED <<madeLinks, current>> /\ serving' = [serving EXCEPT ![r] = s]
  BY <1>1, <1>5 DEF ConnectFlight, Goes, Answers
<1>7. n # NoLink  BY DEF Links, NoLink
<1>8. /\ s \in Served /\ s.link \in {n, NoLink} /\ s.at # "make"
      /\ s.at \in {"connect", "record"} <=> s.link = n
      /\ l.connected => s.link = n
  <2>1. serving[r] \in Served  BY DEF LinkInv, LinkTypes, Requests
  <2> QED BY <1>1, <1>7, <2>1 DEF Served, NoLink
<1> HIDE DEF s
<1> QED BY <1>1, <1>3, <1>4, <1>6, <1>8, FlightStep

LEMMA PollLinks ==
  ASSUME LinkInv, NEW r \in Flyers, NEW place \in Places, NEW battery \in Batteries,
         Poll(r, place, battery)
  PROVE  LinkInv'
<1>1. PICK n \in Links : n = serving[r].link /\ serving[r].at = "record"
  BY DEF Poll, LinkInv
<1> DEFINE l == [link[n] EXCEPT !.frames = Polled(@, place, battery)]
<1>2. link[n] \in Connector /\ serving[r] \in Served  BY DEF LinkInv, LinkTypes, Requests
<1>3. Polled(link[n].frames, place, battery) \in Seq([place : Places, battery : Batteries])
  <2>1. link[n].frames \in Seq([place : Places, battery : Batteries])  BY <1>2 DEF Connector
  <2>2. place # 0 => [place |-> place, battery |-> battery] \in [place : Places, battery : Batteries]
    OBVIOUS
  <2>3. CASE place = 0  BY <2>1, <2>3 DEF Polled
  <2>4. CASE place # 0
    <3> DEFINE frame == [place |-> place, battery |-> battery]
    <3>1. Polled(link[n].frames, place, battery) = Append(link[n].frames, frame)
      BY <2>4 DEF Polled
    <3> HIDE DEF frame
    <3> QED BY <2>1, <2>2, <2>4, <3>1 DEF frame
  <2> QED BY <2>3, <2>4
<1>4. l \in Connector  BY <1>2, <1>3 DEF Connector
<1>5. /\ link' = [link EXCEPT ![n] = l] /\ serving' = [serving EXCEPT ![r] = serving[r]]
      /\ UNCHANGED <<madeLinks, current>>
  BY <1>1 DEF Poll, LinkInv, LinkTypes
<1>6. n # NoLink  BY DEF Links, NoLink
<1> HIDE DEF l
<1> QED BY <1>1, <1>2, <1>4, <1>5, <1>6, FlightStep

LEMMA DisconnectLinks ==
  ASSUME LinkInv, NEW r \in Flyers, serving[r].at = "record",
         NEW reply \in {"502", "422", "scored"},
         Disconnect(serving[r].link), Answers(r, reply), UNCHANGED <<madeLinks, current>>
  PROVE  LinkInv'
<1>1. PICK n \in Links : n = serving[r].link  BY DEF LinkInv
<1> DEFINE l == Closed(link[n])
           s == [at |-> reply, link |-> NoLink]
<1>2. l \in Connector /\ ~l.connected  BY DEF LinkInv, LinkTypes, Closed, Connector
<1>3. s \in Served /\ s.link = NoLink /\ s.at = reply  BY DEF Served, NoLink
<1>4. link' = [link EXCEPT ![n] = l] /\ serving' = [serving EXCEPT ![r] = s]
  BY <1>1 DEF Disconnect, Answers
<1> HIDE DEF l, s
<1>5. n # NoLink  BY DEF Links, NoLink
<1> QED BY <1>1, <1>2, <1>3, <1>4, <1>5, FlightStep

LEMMA RequestFlightLinks ==
  ASSUME LinkInv, NEW r \in Flyers, NEW kind \in Kinds, RequestFlight(r, kind)
  PROVE  LinkInv'
<1> USE DroneLinkAssumption
<1>1. PICK n \in Links : n = madeLinks + 1  BY DEF RequestFlight, Made, LinkInv, LinkTypes, Links
<1> DEFINE l == [link[n] EXCEPT !.kind = kind]
           s == [at |-> "connect", link |-> n]
<1>2. l \in Connector /\ l.connected = link[n].connected
  BY DEF LinkInv, LinkTypes, Connector
<1>3. s \in Served /\ s.link = n /\ s.at = "connect" /\ n # NoLink
  BY DEF Served, Links, NoLink
<1>4. /\ link' = [link EXCEPT ![n] = l] /\ serving' = [serving EXCEPT ![r] = s]
      /\ madeLinks' = n /\ UNCHANGED current /\ Free(r)
  BY <1>1 DEF RequestFlight, Made
<1> HIDE DEF l, s
<1>5. link' \in [Links -> Connector] /\ link'[n] = l
      /\ \A m \in Links \ {n} : link'[m] = link[m]
  BY <1>2, <1>4 DEF LinkInv, LinkTypes
<1>6. serving' \in [Requests -> Served] /\ serving'[r] = s
      /\ \A q \in Requests \ {r} : serving'[q] = serving[q]
  BY <1>3, <1>4 DEF LinkInv, LinkTypes, Requests
<1>7. ~link[n].connected  BY <1>1 DEF LinkInv, LinkTypes
<1>8. current \in 0 .. madeLinks /\ madeLinks \in Nat  BY DEF LinkInv, LinkTypes
<1>9. LinkTypes'  BY <1>1, <1>4, <1>5, <1>6, <1>8 DEF LinkTypes, Links
<1>10. \A q \in Flyers : /\ serving'[q].at # "make" /\ serving'[q].link <= n
                         /\ serving'[q].link # NoLink => serving'[q].link # current
                         /\ serving'[q].at \in {"connect", "record"} => serving'[q].link \in Links
                         /\ serving'[q].link # NoLink => serving'[q].at \in {"connect", "record"}
  BY <1>1, <1>3, <1>6, <1>8 DEF LinkInv, LinkTypes, Requests, Served
<1>11. \A p \in Panels : serving'[p] = serving[p]  BY <1>6 DEF Requests
<1>12. \A m \in Links : link'[m].connected = link[m].connected /\ (m > n => ~link'[m].connected)
  BY <1>1, <1>2, <1>5, <1>8 DEF LinkInv, Links
<1>13. \A p \in Panels : serving'[p].at = "make" => current = NoLink \/ ~link'[current].connected
  BY <1>1, <1>4, <1>8, <1>11, <1>12 DEF LinkInv, LinkTypes, Links, NoLink
<1>14. LinksHeld'
  <2>1. SUFFICES ASSUME NEW m \in Links, link[m].connected, m # current
                 PROVE  \E q \in Flyers : serving'[q].link = m
    BY <1>4, <1>12 DEF LinksHeld
  <2>2. PICK q \in Flyers : serving[q].link = m  BY <2>1 DEF LinkInv, LinksHeld
  <2>3. CASE q # r  BY <1>6, <2>2, <2>3 DEF Requests
  <2>4. CASE q = r
    <3>1. serving[r].link = NoLink  BY <1>4 DEF LinkInv, Free
    <3> QED BY <2>2, <2>4, <3>1 DEF Links, NoLink
  <2> QED BY <2>3, <2>4
<1> QED BY <1>4, <1>9, <1>10, <1>11, <1>12, <1>13, <1>14 DEF LinkInv

\* A step of the dashboard leaves the flights' requests as they are.
LEMMA PanelStep ==
  ASSUME LinkInv, NEW p \in Panels, NEW s \in Served, serving' = [serving EXCEPT ![p] = s]
  PROVE  /\ serving' \in [Requests -> Served] /\ serving'[p] = s
         /\ \A q \in Flyers : serving'[q] = serving[q]
BY DroneLinkAssumption DEF LinkInv, LinkTypes, Requests

LEMMA DropOldLinks ==
  ASSUME OnePanel, LinkInv, NEW p \in Panels, DropOld(p)
  PROVE  LinkInv'
<1> USE DroneLinkAssumption
<1> DEFINE s == [at |-> "make", link |-> NoLink]
<1>1. s \in Served /\ s.at = "make"  BY DEF Served, NoLink
<1>2. /\ serving' = [serving EXCEPT ![p] = s] /\ UNCHANGED <<madeLinks, current>>
      /\ link' = IF current # NoLink /\ link[current].connected
                 THEN [link EXCEPT ![current] = Closed(@)] ELSE link
  BY DEF DropOld
<1> HIDE DEF s
<1>3. serving' \in [Requests -> Served] /\ serving'[p] = s
      /\ \A q \in Flyers : serving'[q] = serving[q]
  BY <1>1, <1>2, PanelStep
<1>4. \A l \in Links : Closed(link[l]) \in Connector /\ ~Closed(link[l]).connected
  BY ZenonT(60) DEF LinkInv, LinkTypes, Closed, Connector
<1>5. /\ link' \in [Links -> Connector]
      /\ \A l \in Links : link'[l].connected => link[l].connected
      /\ current \in Links => ~link'[current].connected
  <2>1. CASE current # NoLink /\ link[current].connected
    <3>1. link' = [link EXCEPT ![current] = Closed(link[current])]  BY <1>2, <2>1
    <3> QED BY <1>4, <3>1 DEF LinkInv, LinkTypes
  <2>2. CASE ~(current # NoLink /\ link[current].connected)
    BY <1>2, <2>2 DEF LinkInv, LinkTypes, Links, NoLink
  <2> QED BY <2>1, <2>2
<1>6. current = NoLink \/ current \in 1 .. madeLinks  BY DEF LinkInv, LinkTypes, NoLink
<1>7. \A q \in Panels : serving'[q].at = "make"  BY <1>1, <1>3 DEF OnePanel
<1>8. current = NoLink \/ ~link'[current].connected
  BY <1>5, <1>6 DEF Links, LinkInv, LinkTypes
<1>9. LinksHeld'  BY <1>2, <1>3, <1>5 DEF LinkInv, LinksHeld
<1> QED BY <1>2, <1>3, <1>5, <1>7, <1>8, <1>9 DEF LinkInv, LinkTypes

LEMMA MakePanelLinkLinks ==
  ASSUME OnePanel, LinkInv, NEW p \in Panels, NEW kind \in Kinds, MakePanelLink(p, kind)
  PROVE  LinkInv'
<1> USE DroneLinkAssumption
<1>1. serving[p] \in Served /\ serving[p].at = "make"
  BY DEF MakePanelLink, LinkInv, LinkTypes, Requests
<1>2. CASE madeLinks = MaxLinks
  <2> DEFINE s == [at |-> "error", link |-> NoLink]
  <2>1. s \in Served /\ s.at = "error"  BY DEF Served, NoLink
  <2>2. serving' = [serving EXCEPT ![p] = s] /\ UNCHANGED <<link, madeLinks, current>>
    BY <1>2 DEF MakePanelLink, Answers
  <2> HIDE DEF s
  <2>3. serving' \in [Requests -> Served] /\ serving'[p] = s
        /\ \A q \in Flyers : serving'[q] = serving[q]
    BY <2>1, <2>2, PanelStep
  <2>4. \A q \in Panels : serving'[q].at = "error"  BY <2>1, <2>3 DEF OnePanel
  <2>5. LinksHeld'  BY <2>2, <2>3 DEF LinkInv, LinksHeld
  <2> QED BY <2>2, <2>3, <2>4, <2>5 DEF LinkInv, LinkTypes
<1>3. CASE madeLinks # MaxLinks
  <2>1. PICK n \in Links : n = madeLinks + 1
    BY <1>3 DEF MakePanelLink, Made, LinkInv, LinkTypes, Links
  <2> DEFINE l == [link[n] EXCEPT !.kind = kind]
             s == [serving[p] EXCEPT !.at = "connect"]
  <2>2. l \in Connector /\ l.connected = link[n].connected
    BY DEF LinkInv, LinkTypes, Connector
  <2>3. s \in Served /\ s.at = "connect"  BY <1>1 DEF Served
  <2>4. /\ link' = [link EXCEPT ![n] = l] /\ serving' = [serving EXCEPT ![p] = s]
        /\ madeLinks' = n /\ current' = n
    BY <1>3, <2>1 DEF MakePanelLink, Made, Goes
  <2> HIDE DEF l, s
  <2>5. link' \in [Links -> Connector]
        /\ \A m \in Links : link'[m].connected = link[m].connected
    BY <2>2, <2>4 DEF LinkInv, LinkTypes
  <2>6. serving' \in [Requests -> Served] /\ serving'[p] = s
        /\ \A q \in Flyers : serving'[q] = serving[q]
    BY <2>3, <2>4, PanelStep
  <2>7. \A q \in Panels : serving'[q].at = "connect"  BY <2>3, <2>6 DEF OnePanel
  <2>8. \A q \in Flyers : serving[q].link < n /\ serving[q].link <= n
    <3>1. \A q \in Flyers : serving[q].link \in Nat  BY DEF LinkInv, LinkTypes, Requests, Served
    <3> QED BY <2>1, <3>1 DEF LinkInv, LinkTypes
  <2>9. current = NoLink \/ ~link[current].connected
    BY <1>1 DEF LinkInv
  <2>10. LinksHeld'
    <3>1. SUFFICES ASSUME NEW m \in Links, link[m].connected
                   PROVE  \E q \in Flyers : serving[q].link = m
      BY <2>5, <2>6 DEF LinksHeld
    <3> QED BY <2>9, <3>1 DEF LinkInv, LinksHeld, Links, NoLink
  <2>11. LinkTypes'  BY <2>1, <2>4, <2>5, <2>6 DEF LinkTypes, LinkInv, Links
  <2>12. \A m \in Links : m > n => ~link'[m].connected
    BY <2>1, <2>5 DEF LinkInv, LinkTypes, Links
  <2> QED BY <2>1, <2>4, <2>6, <2>7, <2>8, <2>10, <2>11, <2>12 DEF LinkInv, NoLink, Links
<1> QED BY <1>2, <1>3

LEMMA ConnectPanelLinks ==
  ASSUME OnePanel, LinkInv, NEW p \in Panels, ConnectPanel(p)
  PROVE  LinkInv'
<1> USE DroneLinkAssumption
<1>1. PICK n \in Links : n = current
  BY DEF ConnectPanel, LinkInv, LinkTypes, Links, NoLink
<1>2. PICK outcome \in Outcomes(link[n].kind) : link' = [link EXCEPT ![n] = Opened(@, outcome)]
  BY <1>1 DEF ConnectPanel
<1> DEFINE l == Opened(link[n], outcome)
<1>3. l \in Connector  BY DEF LinkInv, LinkTypes, Outcomes, Opened, Connector
<1>4. link' = [link EXCEPT ![n] = l]  BY <1>2
<1> HIDE DEF l
<1>5. link' \in [Links -> Connector] /\ \A m \in Links \ {n} : link'[m] = link[m]
  BY <1>3, <1>4 DEF LinkInv, LinkTypes
<1>6. PICK s \in Served : serving' = [serving EXCEPT ![p] = s] /\ s.at \in {"connected", "failed"}
  <2> DEFINE done == IF link'[current].connected THEN "connected" ELSE "failed"
             s == [at |-> done, link |-> NoLink]
  <2>1. s \in Served /\ s.at \in {"connected", "failed"}  BY DEF Served, NoLink
  <2>2. serving' = [serving EXCEPT ![p] = s]  BY DEF ConnectPanel, Answers
  <2> QED BY <2>1, <2>2
<1>7. serving' \in [Requests -> Served] /\ serving'[p] = s
      /\ \A q \in Flyers : serving'[q] = serving[q]
  BY <1>6, PanelStep
<1>8. \A q \in Panels : serving'[q].at \in {"connected", "failed"}  BY <1>6, <1>7 DEF OnePanel
<1>9. UNCHANGED <<madeLinks, current>>  BY DEF ConnectPanel
<1>10. \A m \in Links : m > madeLinks => ~link'[m].connected
  BY <1>1, <1>5 DEF LinkInv, LinkTypes, Links
<1>11. LinksHeld'  BY <1>1, <1>5, <1>7, <1>9 DEF LinkInv, LinksHeld
<1> QED BY <1>5, <1>7, <1>8, <1>9, <1>10, <1>11 DEF LinkInv, LinkTypes

LEMMA LinkInductive ==
  ASSUME OnePanel, LinkInv, [LinkNext]_linkVars
  PROVE  LinkInv'
<1>1. ASSUME NEW r \in Flyers, RecordingFails(r) \/ RecordingEnds(r)  PROVE LinkInv'
  <2>1. \E reply \in {"502", "422", "scored"} : Answers(r, reply)
    BY <1>1 DEF RecordingFails, RecordingEnds
  <2>2. /\ serving[r].at = "record" /\ Disconnect(serving[r].link)
        /\ UNCHANGED <<madeLinks, current>>
    BY <1>1 DEF RecordingFails, RecordingEnds
  <2> QED BY <2>1, <2>2, DisconnectLinks
<1>2. CASE UNCHANGED linkVars  BY <1>2 DEF linkVars, LinkInv, LinkTypes, LinksHeld
<1> QED BY <1>1, <1>2, RequestFlightLinks, ConnectFlightLinks, PollLinks, DropOldLinks,
           MakePanelLinkLinks, ConnectPanelLinks DEF LinkNext

\* With one request of the panel at a time (app.py:1050-1053), a connector that
\* is connected belongs to a live mission (api.py:175-190) or is the one the
\* dashboard shows, whichever call of the transport raised.
THEOREM ConnectorsHeld ==
  ASSUME OnePanel
  PROVE  LinkSpec => []LinksHeld
<1>1. LinkInit => LinkInv  BY LinkInitially
<1>2. LinkInv /\ [LinkNext]_linkVars => LinkInv'  BY LinkInductive
<1>3. LinkInv => LinksHeld  BY DEF LinkInv
<1> QED BY <1>1, <1>2, <1>3, PTL DEF LinkSpec

-----------------------------------------------------------------------------
(* Camera: adapters, streams and their frames                              *)

CameraRuns == CameraInit /\ [][CameraNext]_cameraVars

Held == Starts \cup {NoCamera}
Adapter == [running : BOOLEAN, device : {"none", "open", "closed"}, thread : Held,
            frame : Int, nextId : Nat]
Opener == [at : {"none", "begun", "open", "run", "ended"}, on : Held, ok : BOOLEAN]
Capturer == [at : {"none", "test", "read", "store", "ended"}, id : Int]
Analyst == [at : {"none", "begun", "stream", "analyse", "ended"}, on : Held, seen : Int]
CameraRequest == [at : {"idle", "engine", "load", "join", "enable", "stop", "release", "noCamera",
                        "noEngine"}, start : Held]

CamTypes ==
  /\ camera \in 0 .. made
  /\ made \in 0 .. MaxStarts
  /\ panel.risk \in {"SAFE", "WARNING", "DANGER"}
  /\ DOMAIN panel = {"enabled", "frame", "risk"}
  /\ adapter \in [Starts -> Adapter]
  /\ request \in [Operators -> CameraRequest]
  /\ opener \in [Starts -> Opener]
  /\ capturer \in [Starts -> Capturer]
  /\ analyst \in [Starts -> Analyst]

\* Each start has one request, which begins its opener and its analyst once.
StartsInv ==
  /\ \A o \in Operators :
       /\ request[o].at \in {"engine", "load", "join", "enable"} =>
            request[o].start \in 1 .. made /\ analyst[request[o].start].at = "none"
       /\ request[o].at \in {"engine", "load"} => opener[request[o].start].at = "none"
       /\ request[o].at = "release" => request[o].start \in Starts
  /\ \A o, p \in Operators :
       /\ request[o].at \in {"engine", "load", "join", "enable"}
       /\ request[p].at \in {"engine", "load", "join", "enable"}
       /\ request[o].start = request[p].start
       => o = p
  /\ \A n \in Starts : n > made => opener[n].at = "none" /\ analyst[n].at = "none"

ThreadInv(n) ==
  /\ opener[n].at \in {"none", "begun"} => opener[n].on = NoCamera
  /\ opener[n].at \in {"open", "run"} => opener[n].on # NoCamera
  /\ opener[n].ok => opener[n].at = "ended"
  /\ capturer[n].at # "none" => opener[n].at = "ended" /\ opener[n].on # NoCamera
  /\ analyst[n].at \in {"none", "begun"} => analyst[n].on = NoCamera /\ analyst[n].seen = -1
  /\ analyst[n].at \in {"stream", "analyse"} => analyst[n].on # NoCamera

FrameInv(a) ==
  /\ adapter[a].frame < adapter[a].nextId
  /\ adapter[a].frame >= -1
  /\ \A n \in Starts :
       capturer[n].at = "store" /\ opener[n].on = a =>
         0 <= capturer[n].id /\ capturer[n].id <= adapter[a].nextId
  /\ adapter[a].running => \E n \in Starts : opener[n].on = a /\ opener[n].ok

\* One thread captures for the adapter: its frames are numbered in order.
Sole(a) == \A m, n \in Starts : opener[m].on = a /\ opener[n].on = a => m = n

OrderInv(a) ==
  Sole(a) =>
    /\ \A n \in Starts :
         capturer[n].at = "store" /\ opener[n].on = a => capturer[n].id = adapter[a].nextId
    /\ \A n \in Starts : analyst[n].on = a => analyst[n].seen <= adapter[a].frame

CamInv ==
  /\ CamTypes
  /\ StartsInv
  /\ \A n \in Starts : ThreadInv(n)
  /\ \A a \in Starts : FrameInv(a) /\ OrderInv(a)

LEMMA CamInitially == CameraInit => CamInv
<1> SUFFICES ASSUME CameraInit PROVE CamInv  OBVIOUS
<1> USE CameraAssumption
<1>1. CamTypes
  BY DEF CameraInit, CamTypes, Held, Adapter, Opener, Capturer, Analyst, CameraRequest, Starts, NoCamera
<1>2. StartsInv  BY DEF CameraInit, StartsInv
<1>3. \A n \in Starts : ThreadInv(n)  BY DEF CameraInit, ThreadInv, NoCamera
<1>4. \A a \in Starts : FrameInv(a) /\ OrderInv(a)
  BY DEF CameraInit, FrameInv, OrderInv, NoCamera, Starts
<1> QED BY <1>1, <1>2, <1>3, <1>4 DEF CamInv

LEMMA RequestSteps ==
  ASSUME CamInv, NEW o \in Operators,
         \/ MakeAdapter(o) \/ MakeEngine(o) \/ JoinOpener(o)
         \/ Disable(o) \/ ForgetCamera(o) \/ ForgetEngine(o)
  PROVE  CamInv'
<1> USE CameraAssumption
<1>1. CASE MakeAdapter(o)
  <2>1. CamTypes'
    BY <1>1 DEF MakeAdapter, CamInv, CamTypes, CameraRequest, Held, Starts
  <2>2. StartsInv'
    BY <1>1 DEF MakeAdapter, CamInv, CamTypes, StartsInv, CameraRequest, Starts
  <2> QED BY <1>1, <2>1, <2>2 DEF CamInv, MakeAdapter, ThreadInv, FrameInv, OrderInv, Sole
<1>2. CASE MakeEngine(o)
  <2>1. CamTypes'
    BY <1>2 DEF MakeEngine, CamInv, CamTypes, CameraRequest, Moves
  <2>2. StartsInv'
    BY <1>2 DEF MakeEngine, CamInv, CamTypes, StartsInv, CameraRequest, Moves
  <2> QED BY <1>2, <2>1, <2>2 DEF CamInv, MakeEngine, ThreadInv, FrameInv, OrderInv, Sole
<1>3. CASE JoinOpener(o)
  <2>1. CamTypes'
    BY <1>3 DEF JoinOpener, CamInv, CamTypes, CameraRequest, Moves
  <2>2. StartsInv'
    BY <1>3 DEF JoinOpener, CamInv, CamTypes, StartsInv, CameraRequest, Moves
  <2> QED BY <1>3, <2>1, <2>2 DEF CamInv, JoinOpener, ThreadInv, FrameInv, OrderInv, Sole
<1>4. CASE Disable(o)
  <2>1. CamTypes'
    BY <1>4 DEF Disable, CamInv, CamTypes, CameraRequest, Moves
  <2>2. StartsInv'
    BY <1>4 DEF Disable, CamInv, CamTypes, StartsInv, CameraRequest, Moves
  <2> QED BY <1>4, <2>1, <2>2 DEF CamInv, Disable, ThreadInv, FrameInv, OrderInv, Sole
<1>5. CASE ForgetCamera(o)
  <2>1. CamTypes'
    BY <1>5 DEF ForgetCamera, CamInv, CamTypes, CameraRequest, Moves, NoCamera
  <2>2. StartsInv'
    BY <1>5 DEF ForgetCamera, CamInv, CamTypes, StartsInv, CameraRequest, Moves
  <2> QED BY <1>5, <2>1, <2>2 DEF CamInv, ForgetCamera, ThreadInv, FrameInv, OrderInv, Sole
<1>6. CASE ForgetEngine(o)
  <2>1. CamTypes'
    BY <1>6 DEF ForgetEngine, CamInv, CamTypes, CameraRequest, Moves
  <2>2. StartsInv'
    BY <1>6 DEF ForgetEngine, CamInv, CamTypes, StartsInv, CameraRequest, Moves
  <2> QED BY <1>6, <2>1, <2>2 DEF CamInv, ForgetEngine, ThreadInv, FrameInv, OrderInv, Sole
<1> QED BY <1>1, <1>2, <1>3, <1>4, <1>5, <1>6

LEMMA RequestThreads ==
  ASSUME CamInv, NEW o \in Operators, LoadEngine(o) \/ Enable(o)
  PROVE  CamInv'
<1> USE CameraAssumption
<1>1. CASE LoadEngine(o)
  <2>1. PICK n \in Starts : n = request[o].start
    BY <1>1 DEF LoadEngine, CamInv, CamTypes, StartsInv, Starts
  <2> DEFINE new == IF engine THEN [opener[n] EXCEPT !.at = "begun"] ELSE opener[n]
  <2>2. opener[n] \in Opener /\ opener[n].at = "none" /\ n <= made
    BY <1>1, <2>1 DEF LoadEngine, CamInv, CamTypes, StartsInv
  <2>3. /\ new \in Opener /\ new.on = opener[n].on /\ new.ok = opener[n].ok
        /\ engine => new.at = "begun"
        /\ ~engine => new.at = "none"
    BY <2>2 DEF Opener
  <2>4. opener' = [opener EXCEPT ![n] = new]
    BY <1>1, <2>1 DEF LoadEngine, CamInv, CamTypes
  <2>5. /\ request' = [request EXCEPT ![o].at = IF engine THEN "join" ELSE "idle"]
        /\ UNCHANGED <<camera, engine, panel, made, adapter, capturer, analyst>>
    BY <1>1 DEF LoadEngine, Moves
  <2> HIDE DEF new
  <2>6. /\ opener' \in [Starts -> Opener] /\ opener'[n] = new
        /\ \A m \in Starts \ {n} : opener'[m] = opener[m]
    BY <2>3, <2>4 DEF CamInv, CamTypes
  <2>7. /\ request' \in [Operators -> CameraRequest]
        /\ request'[o].at = (IF engine THEN "join" ELSE "idle")
        /\ request'[o].start = n
        /\ \A p \in Operators \ {o} : request'[p] = request[p]
    BY <2>1, <2>5 DEF CamInv, CamTypes, CameraRequest
  <2>8. CamTypes'  BY <2>5, <2>6, <2>7 DEF CamInv, CamTypes
  <2>9. StartsInv'
    <3>1. request[o].at = "load"  BY <1>1 DEF LoadEngine
    <3>2. \A p \in Operators \ {o} : request[p].at \in {"engine", "load"} => request[p].start # n
      BY <2>1, <3>1 DEF CamInv, StartsInv
    <3>3. \A p \in Operators : request[p].at \in {"engine", "load", "join", "enable"} => request[p].start \in Starts
      BY DEF CamInv, CamTypes, StartsInv, Starts
    <3>4. \A p \in Operators : request'[p].at \in {"engine", "load"} => p # o  BY <2>7
    <3>5. ASSUME NEW p \in Operators
          PROVE  /\ request'[p].at \in {"engine", "load", "join", "enable"} =>
                      request'[p].start \in 1 .. made /\ analyst[request'[p].start].at = "none"
                 /\ request'[p].at \in {"engine", "load"} => opener'[request'[p].start].at = "none"
                 /\ request'[p].at = "release" => request'[p].start \in Starts
      <4>1. CASE p = o  BY <2>1, <2>7, <3>1, <4>1 DEF CamInv, StartsInv
      <4>2. CASE p # o  BY <2>6, <2>7, <3>2, <3>3, <4>2 DEF CamInv, StartsInv
      <4> QED BY <4>1, <4>2
    <3>6. \A p, q \in Operators :
            /\ request'[p].at \in {"engine", "load", "join", "enable"}
            /\ request'[q].at \in {"engine", "load", "join", "enable"}
            /\ request'[p].start = request'[q].start
            => p = q
      <4>1. \A p \in Operators : /\ request'[p].start = request[p].start
                                 /\ request'[p].at \in {"engine", "load", "join", "enable"} =>
                                      request[p].at \in {"engine", "load", "join", "enable"}
        BY <2>1, <2>7, <3>1
      <4> QED BY <4>1 DEF CamInv, StartsInv
    <3>7. \A m \in Starts : m > made => opener'[m].at = "none" /\ analyst[m].at = "none"
      <4>1. made \in Int /\ \A m \in Starts : m \in Int  BY DEF CamInv, CamTypes, Starts
      <4> QED BY <2>2, <2>6, <4>1 DEF CamInv, StartsInv
    <3> QED BY <2>5, <3>5, <3>6, <3>7 DEF StartsInv
  <2>10. \A m \in Starts : ThreadInv(m)'
    BY <2>2, <2>3, <2>5, <2>6 DEF CamInv, ThreadInv
  <2>11. \A m \in Starts : opener'[m].on = opener[m].on /\ opener'[m].ok = opener[m].ok
    BY <2>3, <2>6
  <2>12. \A a \in Starts : FrameInv(a)' /\ OrderInv(a)'
    BY <2>5, <2>11 DEF CamInv, FrameInv, OrderInv, Sole
  <2> QED BY <2>8, <2>9, <2>10, <2>12 DEF CamInv
<1>2. CASE Enable(o)
  <2> DEFINE n == request[o].start  new == [analyst[n] EXCEPT !.at = "begun"]
  <2>1. n \in Starts  BY <1>2 DEF Enable, CamInv, CamTypes, StartsInv, Starts
  <2>2. analyst[n] \in Analyst  BY <2>1 DEF CamInv, CamTypes
  <2>3. new \in Analyst  BY <2>2 DEF Analyst
  <2>4. analyst' = [analyst EXCEPT ![n] = new]  BY <1>2, <2>1 DEF Enable, CamInv, CamTypes
  <2>5. analyst' \in [Starts -> Analyst]  BY <2>1, <2>3, <2>4 DEF CamInv, CamTypes
  <2>6. /\ request' \in [Operators -> CameraRequest]
        /\ DOMAIN panel' = DOMAIN panel /\ panel'.risk = panel.risk
        /\ UNCHANGED <<camera, engine, made, adapter, opener, capturer>>
    BY <1>2 DEF Enable, CamInv, CamTypes, CameraRequest, Moves
  <2>7. CamTypes'  BY <2>5, <2>6 DEF CamInv, CamTypes
  <2>8. StartsInv'
    BY <1>2 DEF Enable, CamInv, CamTypes, StartsInv, CameraRequest, Analyst, Moves, Starts
  <2>9. \A m \in Starts : ThreadInv(m)'
    BY <1>2 DEF Enable, CamInv, CamTypes, StartsInv, ThreadInv, Analyst
  <2>10. \A m \in Starts : analyst'[m].on = analyst[m].on /\ analyst'[m].seen = analyst[m].seen
    BY <1>2 DEF Enable, CamInv, CamTypes, Analyst
  <2>11. \A a \in Starts : FrameInv(a)' /\ OrderInv(a)'
    BY <1>2, <2>10 DEF Enable, CamInv, FrameInv, OrderInv, Sole
  <2> QED BY <2>7, <2>8, <2>9, <2>11 DEF CamInv
<1> QED BY <1>1, <1>2

LEMMA StopSteps ==
  ASSUME CamInv, NEW o \in Operators, StopCamera(o) \/ Release(o)
  PROVE  CamInv'
<1> USE CameraAssumption
<1>1. CASE StopCamera(o)
  <2>1. camera \in Starts \cup {NoCamera}  BY DEF CamInv, CamTypes, Starts, NoCamera
  <2>2. adapter' \in [Starts -> Adapter]
    <3>1. CASE camera = NoCamera  BY <1>1, <3>1 DEF StopCamera, CamInv, CamTypes
    <3>2. CASE camera # NoCamera
      <4>1. PICK a \in Starts : a = camera  BY <2>1, <3>2
      <4> DEFINE new == [adapter[a] EXCEPT !.running = FALSE]
      <4>2. new \in Adapter
        <5>1. adapter[a] \in Adapter  BY DEF CamInv, CamTypes
        <5> QED BY <5>1 DEF Adapter
      <4>3. adapter' = [adapter EXCEPT ![a] = new]
        BY <1>1, <3>2, <4>1 DEF StopCamera, CamInv, CamTypes
      <4> QED BY <4>2, <4>3 DEF CamInv, CamTypes
    <3> QED BY <3>1, <3>2
  <2>3. request' \in [Operators -> CameraRequest]
    <3>1. CASE camera = NoCamera
      BY <1>1, <3>1 DEF StopCamera, CamInv, CamTypes, CameraRequest, Moves
    <3>2. CASE camera # NoCamera
      <4> DEFINE new == [at |-> "release", start |-> camera]
      <4>1. new \in CameraRequest  BY <2>1 DEF CameraRequest, Held
      <4>2. request' = [request EXCEPT ![o] = new]  BY <1>1, <3>2 DEF StopCamera
      <4> QED BY <4>1, <4>2 DEF CamInv, CamTypes
    <3> QED BY <3>1, <3>2
  <2>4. CamTypes'  BY <1>1, <2>2, <2>3 DEF StopCamera, CamInv, CamTypes
  <2>5. StartsInv'
    BY <1>1, <2>1 DEF StopCamera, CamInv, CamTypes, StartsInv, CameraRequest, Moves
  <2>6. \A a \in Starts : /\ adapter'[a].frame = adapter[a].frame
                          /\ adapter'[a].nextId = adapter[a].nextId
                          /\ adapter'[a].running => adapter[a].running
    BY <1>1 DEF StopCamera, CamInv, CamTypes, Adapter
  <2>7. \A a \in Starts : FrameInv(a)' /\ OrderInv(a)'
    BY <1>1, <2>6 DEF StopCamera, CamInv, FrameInv, OrderInv, Sole
  <2> QED BY <1>1, <2>4, <2>5, <2>7 DEF CamInv, StopCamera, ThreadInv
<1>2. CASE Release(o)
  <2>1. CamTypes'
    BY <1>2, SMTT(30) DEF Release, CamInv, CamTypes, StartsInv, CameraRequest, Adapter, Moves
  <2>2. StartsInv'
    BY <1>2, SMTT(30) DEF Release, CamInv, CamTypes, StartsInv, CameraRequest, Moves
  <2>3. \A a \in Starts : /\ adapter'[a].frame = adapter[a].frame
                          /\ adapter'[a].nextId = adapter[a].nextId
                          /\ adapter'[a].running = adapter[a].running
    BY <1>2 DEF Release, CamInv, CamTypes, Adapter
  <2>4. \A a \in Starts : FrameInv(a)' /\ OrderInv(a)'
    <3>1. UNCHANGED <<opener, capturer, analyst>>  BY <1>2 DEF Release
    <3>2. TAKE a \in Starts
    <3>3. FrameInv(a)'  BY <2>3, <3>1 DEF CamInv, FrameInv
    <3>4. OrderInv(a)'  BY <2>3, <3>1, SMTT(30) DEF CamInv, OrderInv, Sole
    <3> QED BY <3>3, <3>4
  <2> QED BY <1>2, <2>1, <2>2, <2>4 DEF CamInv, Release, ThreadInv
<1> QED BY <1>1, <1>2

LEMMA OpenerSteps ==
  ASSUME CamInv, NEW n \in Starts, NEW device \in {"open", "closed"},
         OpenerBegins(n) \/ OpenDevice(n, device) \/ OpenerRuns(n)
  PROVE  CamInv'
<1> USE CameraAssumption
<1>1. CASE OpenerBegins(n)
  <2> DEFINE new == [opener[n] EXCEPT !.at = IF camera = NoCamera THEN "ended" ELSE "open", !.on = camera]
  <2>1. /\ opener[n] \in Opener /\ opener[n].on = NoCamera /\ ~opener[n].ok
        /\ opener[n].at = "begun" /\ capturer[n].at = "none"
    BY <1>1 DEF OpenerBegins, CamInv, CamTypes, ThreadInv, Capturer
  <2>2. camera \in Held  BY DEF CamInv, CamTypes, Starts, NoCamera, Held
  <2>3. /\ new \in Opener /\ new.on = camera /\ ~new.ok
        /\ new.at = IF camera = NoCamera THEN "ended" ELSE "open"
    BY <2>1, <2>2 DEF Opener
  <2>4. opener' = [opener EXCEPT ![n] = new]  BY <1>1 DEF OpenerBegins, CamInv, CamTypes
  <2>5. UNCHANGED <<camera, engine, panel, made, adapter, request, capturer, analyst>>
    BY <1>1 DEF OpenerBegins
  <2> HIDE DEF new
  <2>6. /\ opener' \in [Starts -> Opener] /\ opener'[n] = new
        /\ \A m \in Starts \ {n} : opener'[m] = opener[m]
    BY <2>3, <2>4 DEF CamInv, CamTypes
  <2>7. CamTypes'  BY <2>5, <2>6 DEF CamInv, CamTypes
  <2>8. StartsInv'
    <3>1. \A m \in Starts : opener[m].at = "none" => opener'[m] = opener[m]  BY <2>1, <2>6
    <3>2. \A p \in Operators : request[p].at \in {"engine", "load"} => request[p].start \in Starts
      BY DEF CamInv, CamTypes, StartsInv, Starts
    <3> QED BY <2>5, <3>1, <3>2 DEF CamInv, StartsInv
  <2>9. \A m \in Starts : ThreadInv(m)'  BY <2>1, <2>3, <2>5, <2>6 DEF CamInv, ThreadInv
  <2>10. \A a \in Starts : FrameInv(a)'
    <3>1. \A a \in Starts : a # NoCamera  BY DEF Starts, NoCamera
    <3> QED BY <2>1, <2>3, <2>5, <2>6, <3>1 DEF CamInv, FrameInv
  <2>11. \A a \in Starts : OrderInv(a)'
    <3>1. \A a \in Starts : a # NoCamera  BY DEF Starts, NoCamera
    <3>2. \A a \in Starts : Sole(a)' => Sole(a)  BY <2>1, <2>6, <3>1 DEF Sole
    <3> QED BY <2>1, <2>5, <2>6, <3>2 DEF CamInv, OrderInv
  <2> QED BY <2>7, <2>8, <2>9, <2>10, <2>11 DEF CamInv
<1>2. CASE OpenDevice(n, device)
  <2>1. opener[n].on \in Starts  BY <1>2 DEF OpenDevice, CamInv, CamTypes, ThreadInv, Opener, Held
  <2>2. CamTypes'
    BY <1>2, <2>1, SMTT(30) DEF OpenDevice, CamInv, CamTypes, Opener, Adapter
  <2>3. StartsInv'
    BY <1>2 DEF OpenDevice, CamInv, CamTypes, StartsInv, Opener
  <2>4. \A m \in Starts : ThreadInv(m)'
    BY <1>2 DEF OpenDevice, CamInv, CamTypes, ThreadInv, Opener
  <2>5. /\ \A m \in Starts : opener'[m].ok = opener[m].ok /\ opener'[m].on = opener[m].on
        /\ \A a \in Starts : /\ adapter'[a].frame = adapter[a].frame
                             /\ adapter'[a].nextId = adapter[a].nextId
                             /\ adapter'[a].running = adapter[a].running
    BY <1>2, <2>1 DEF OpenDevice, CamInv, CamTypes, Opener, Adapter
  <2>6. \A a \in Starts : FrameInv(a)' /\ OrderInv(a)'
    BY <1>2, <2>5 DEF OpenDevice, CamInv, FrameInv, OrderInv, Sole
  <2> QED BY <2>2, <2>3, <2>4, <2>6 DEF CamInv
<1>3. CASE OpenerRuns(n)
  <2>1. PICK a \in Starts : a = opener[n].on
    BY <1>3 DEF OpenerRuns, CamInv, CamTypes, ThreadInv, Opener, Held
  <2>2. /\ opener[n] \in Opener /\ ~opener[n].ok /\ opener[n].at = "run"
        /\ capturer[n] \in Capturer /\ capturer[n].at = "none" /\ adapter[a] \in Adapter
    BY <1>3 DEF OpenerRuns, CamInv, CamTypes, ThreadInv
  <2> DEFINE ok == adapter[a].device = "open"
             new == [opener[n] EXCEPT !.at = "ended", !.ok = ok]
             used == IF ok THEN [adapter[a] EXCEPT !.running = TRUE, !.thread = n] ELSE adapter[a]
             loop == IF ok THEN [capturer[n] EXCEPT !.at = "test"] ELSE capturer[n]
  <2>3. /\ new \in Opener /\ new.on = a /\ new.at = "ended" /\ new.ok = ok
    BY <2>1, <2>2 DEF Opener
  <2>4. /\ used \in Adapter /\ used.frame = adapter[a].frame /\ used.nextId = adapter[a].nextId
        /\ used.running => adapter[a].running \/ ok
    BY <2>2 DEF Adapter, Held
  <2>5. loop \in Capturer /\ loop.at \in {"none", "test"}
    BY <2>2 DEF Capturer
  <2>6. /\ opener' = [opener EXCEPT ![n] = new]
        /\ adapter' = [adapter EXCEPT ![a] = used]
        /\ capturer' = [capturer EXCEPT ![n] = loop]
        /\ UNCHANGED <<camera, engine, panel, made, request, analyst>>
    <3>1. /\ opener' = [opener EXCEPT ![n] = new]
          /\ UNCHANGED <<camera, engine, panel, made, request, analyst>>
      BY <1>3, <2>1 DEF OpenerRuns, CamInv, CamTypes
    <3>4. adapter \in [Starts -> Adapter] /\ capturer \in [Starts -> Capturer]
      BY DEF CamInv, CamTypes
    <3>2. CASE ok
      <4>1. adapter' = [adapter EXCEPT ![a].running = TRUE, ![a].thread = n]
            /\ capturer' = [capturer EXCEPT ![n].at = "test"]
        BY <1>3, <2>1, <3>2 DEF OpenerRuns
      <4> QED BY <3>1, <3>2, <3>4, <4>1
    <3>3. CASE ~ok
      <4>1. UNCHANGED <<adapter, capturer>>  BY <1>3, <2>1, <3>3 DEF OpenerRuns
      <4> QED BY <3>1, <3>3, <3>4, <4>1
    <3> QED BY <3>2, <3>3
  <2> HIDE DEF new, used, loop, ok
  <2>7. /\ opener' \in [Starts -> Opener] /\ opener'[n] = new
        /\ \A m \in Starts \ {n} : opener'[m] = opener[m]
    BY <2>3, <2>6 DEF CamInv, CamTypes
  <2>8. /\ adapter' \in [Starts -> Adapter] /\ adapter'[a] = used
        /\ \A b \in Starts \ {a} : adapter'[b] = adapter[b]
    BY <2>4, <2>6 DEF CamInv, CamTypes
  <2>9. /\ capturer' \in [Starts -> Capturer] /\ capturer'[n] = loop
        /\ \A m \in Starts \ {n} : capturer'[m] = capturer[m]
    BY <2>5, <2>6 DEF CamInv, CamTypes
  <2>10. CamTypes'  BY <2>6, <2>7, <2>8, <2>9 DEF CamInv, CamTypes
  <2>11. StartsInv'
    <3>1. \A m \in Starts : opener[m].at = "none" => opener'[m] = opener[m]  BY <2>2, <2>7
    <3>2. \A p \in Operators : request[p].at \in {"engine", "load"} => request[p].start \in Starts
      BY DEF CamInv, CamTypes, StartsInv, Starts
    <3> QED BY <2>6, <3>1, <3>2 DEF CamInv, StartsInv
  <2>12. \A m \in Starts : ThreadInv(m)'
    <3>1. a # NoCamera  BY DEF Starts, NoCamera
    <3> QED BY <2>3, <2>5, <2>6, <2>7, <2>9, <3>1 DEF CamInv, ThreadInv
  <2>13. /\ \A m \in Starts : opener'[m].on = opener[m].on
         /\ \A m \in Starts : opener[m].ok => opener'[m].ok
         /\ \A m \in Starts : capturer'[m].at = "store" => capturer'[m] = capturer[m]
         /\ \A b \in Starts : adapter'[b].frame = adapter[b].frame /\ adapter'[b].nextId = adapter[b].nextId
         /\ \A b \in Starts : adapter'[b].running => adapter[b].running \/ (b = a /\ opener'[n].ok)
    BY <2>1, <2>2, <2>3, <2>4, <2>5, <2>7, <2>8, <2>9
  <2>14. \A b \in Starts : OrderInv(b)'  BY <2>6, <2>13 DEF CamInv, OrderInv, Sole
  <2>15. ASSUME NEW b \in Starts  PROVE FrameInv(b)'
    <3>1. adapter'[b].running => \E m \in Starts : opener'[m].on = b /\ opener'[m].ok
      BY <2>1, <2>13 DEF CamInv, FrameInv
    <3> QED BY <2>13, <3>1 DEF CamInv, FrameInv
  <2> QED BY <2>10, <2>11, <2>12, <2>14, <2>15 DEF CamInv
<1> QED BY <1>1, <1>2, <1>3

LEMMA CaptureSteps ==
  ASSUME CamInv, NEW n \in Starts, CaptureStep(n)
  PROVE  CamInv'
<1> USE CameraAssumption
<1>1. CASE CaptureTest(n) \/ NoFrame(n)
  <2>1. CamTypes'
    <3>1. PICK next \in {"test", "read", "ended"} : capturer' = [capturer EXCEPT ![n].at = next]
      BY <1>1 DEF CaptureTest, NoFrame
    <3>2. capturer' \in [Starts -> Capturer]  BY <3>1 DEF CamInv, CamTypes, Capturer
    <3>3. UNCHANGED <<camera, engine, panel, made, adapter, request, opener, analyst>>
      BY <1>1 DEF CaptureTest, NoFrame
    <3> QED BY <3>2, <3>3 DEF CamInv, CamTypes
  <2>2. /\ \A m \in Starts : capturer'[m].at = "store" => capturer'[m] = capturer[m]
        /\ \A m \in Starts : capturer'[m].at # "none" => capturer[m].at # "none"
        /\ UNCHANGED <<camera, engine, panel, made, adapter, request, opener, analyst>>
    BY <1>1 DEF CaptureTest, NoFrame, CamInv, CamTypes, Capturer
  <2> QED BY <2>1, <2>2 DEF CamInv, StartsInv, ThreadInv, FrameInv, OrderInv, Sole
<1>2. CASE ReadFrame(n)
  <2>1. PICK a \in Starts : a = opener[n].on
    BY <1>2 DEF ReadFrame, CamInv, CamTypes, ThreadInv, Opener, Held
  <2>2. /\ capturer' = [capturer EXCEPT ![n] = [at |-> "store", id |-> adapter[a].nextId]]
        /\ UNCHANGED <<camera, engine, panel, made, adapter, request, opener, analyst>>
        /\ capturer[n].at = "read"
    BY <1>2, <2>1 DEF ReadFrame
  <2>3. adapter[a].nextId \in Nat  BY DEF CamInv, CamTypes, Adapter
  <2>4. CamTypes'  BY <2>2, <2>3 DEF CamInv, CamTypes, Capturer
  <2>5. /\ capturer'[n].at = "store" /\ capturer'[n].id = adapter[a].nextId
        /\ \A m \in Starts \ {n} : capturer'[m] = capturer[m]
    BY <2>2 DEF CamInv, CamTypes
  <2>6. \A m \in Starts : ThreadInv(m)'  BY <2>2, <2>5 DEF CamInv, ThreadInv
  <2>7. \A b \in Starts : FrameInv(b)' /\ OrderInv(b)'
    BY <2>1, <2>2, <2>3, <2>5 DEF CamInv, FrameInv, OrderInv, Sole
  <2> QED BY <2>2, <2>4, <2>6, <2>7 DEF CamInv, StartsInv
<1>3. CASE StoreFrame(n)
  <2>1. PICK a \in Starts : a = opener[n].on
    BY <1>3 DEF StoreFrame, CamInv, CamTypes, ThreadInv, Opener, Held
  <2>2. /\ capturer' = [capturer EXCEPT ![n] = [at |-> "test", id |-> 0]]
        /\ adapter' = [adapter EXCEPT ![a].frame = capturer[n].id, ![a].nextId = @ + 1]
        /\ UNCHANGED <<camera, engine, panel, made, request, opener, analyst>>
        /\ capturer[n].at = "store"
    BY <1>3, <2>1 DEF StoreFrame
  <2>3. adapter[a].nextId \in Nat /\ capturer[n].id \in Int
    BY DEF CamInv, CamTypes, Adapter, Capturer
  <2>4. CamTypes'  BY <2>2, <2>3, SMTT(30) DEF CamInv, CamTypes, Capturer, Adapter
  <2>5. /\ capturer'[n].at = "test"
        /\ \A m \in Starts \ {n} : capturer'[m] = capturer[m]
        /\ adapter'[a].frame = capturer[n].id /\ adapter'[a].nextId = adapter[a].nextId + 1
        /\ adapter'[a].running = adapter[a].running
        /\ \A b \in Starts \ {a} : adapter'[b] = adapter[b]
    BY <2>2 DEF CamInv, CamTypes, Adapter
  <2>6. \A m \in Starts : ThreadInv(m)'  BY <2>2, <2>5 DEF CamInv, ThreadInv
  <2>7. 0 <= capturer[n].id /\ capturer[n].id <= adapter[a].nextId
    BY <2>1, <2>2 DEF CamInv, FrameInv
  <2>8. FrameInv(a)'
    <3>1. \A m \in Starts : capturer'[m].at = "store" /\ opener[m].on = a =>
             0 <= capturer'[m].id /\ capturer'[m].id <= adapter[a].nextId + 1
      <4>1. \A m \in Starts : capturer[m].id \in Int  BY DEF CamInv, CamTypes, Capturer
      <4> QED BY <2>3, <2>5, <4>1 DEF CamInv, FrameInv
    <3>2. adapter'[a].frame < adapter'[a].nextId /\ adapter'[a].frame >= -1
      BY <2>3, <2>5, <2>7
    <3>3. adapter'[a].running => \E m \in Starts : opener[m].on = a /\ opener[m].ok
      BY <2>5 DEF CamInv, FrameInv
    <3> QED BY <2>2, <2>5, <3>1, <3>2, <3>3 DEF FrameInv
  <2>9. OrderInv(a)'
    <3>1. SUFFICES ASSUME Sole(a)
                   PROVE  /\ \A m \in Starts : capturer'[m].at = "store" /\ opener[m].on = a =>
                                capturer'[m].id = adapter'[a].nextId
                          /\ \A m \in Starts : analyst[m].on = a => analyst[m].seen <= adapter'[a].frame
      BY <2>2 DEF OrderInv, Sole
    <3>2. \A m \in Starts : opener[m].on = a => m = n  BY <2>1, <3>1 DEF Sole
    <3>3. capturer[n].id = adapter[a].nextId
      BY <2>1, <2>2, <3>1 DEF CamInv, OrderInv
    <3>4. adapter[a].frame < adapter[a].nextId /\ adapter[a].frame \in Int
      BY DEF CamInv, FrameInv, CamTypes, Adapter
    <3>5. \A m \in Starts : analyst[m].seen \in Int  BY DEF CamInv, CamTypes, Analyst
    <3> QED BY <2>3, <2>5, <3>1, <3>2, <3>3, <3>4, <3>5 DEF CamInv, OrderInv
  <2>10. ASSUME NEW b \in Starts \ {a}  PROVE FrameInv(b)' /\ OrderInv(b)'
    <3>1. \A m \in Starts : opener[m].on = b => m # n  BY <2>1
    <3>2. adapter'[b] = adapter[b]  BY <2>5
    <3>3. /\ UNCHANGED <<opener, analyst>>
          /\ \A m \in Starts : opener[m].on = b => capturer'[m] = capturer[m]
      BY <2>2, <2>5, <3>1
    <3>4. FrameInv(b) /\ OrderInv(b)  BY DEF CamInv
    <3>5. FrameInv(b)'  BY <3>2, <3>3, <3>4 DEF FrameInv
    <3>6. OrderInv(b)'  BY <3>2, <3>3, <3>4 DEF OrderInv, Sole
    <3> QED BY <3>5, <3>6
  <2> QED BY <2>2, <2>4, <2>6, <2>8, <2>9, <2>10 DEF CamInv, StartsInv
<1> QED BY <1>1, <1>2, <1>3 DEF CaptureStep

LEMMA AnalystSteps ==
  ASSUME CamInv, NEW n \in Starts, NEW scene,
         AnalystBegins(n) \/ NextFrame(n) \/ Analyse(n, scene)
  PROVE  CamInv'
<1> USE CameraAssumption
<1>0. analyst[n] \in Analyst  BY DEF CamInv, CamTypes
<1>1. ASSUME NEW new \in Analyst, analyst' = [analyst EXCEPT ![n] = new],
             UNCHANGED <<camera, made, adapter, request, opener, capturer>>,
             panel'.risk \in {"SAFE", "WARNING", "DANGER"}, DOMAIN panel' = DOMAIN panel,
             analyst[n].at # "none", new.at \notin {"none", "begun"},
             new.at \in {"stream", "analyse"} => new.on # NoCamera,
             \A a \in Starts : OrderInv(a) /\ Sole(a) /\ new.on = a => new.seen <= adapter[a].frame
      PROVE  CamInv'
  <2>1. /\ analyst' \in [Starts -> Analyst] /\ analyst'[n] = new
        /\ \A m \in Starts \ {n} : analyst'[m] = analyst[m]
    BY <1>1 DEF CamInv, CamTypes
  <2>2. CamTypes'  BY <1>1, <2>1 DEF CamInv, CamTypes
  <2>3. StartsInv'
    <3>1. \A m \in Starts : analyst[m].at = "none" => analyst'[m] = analyst[m]  BY <1>1, <2>1
    <3>2. \A p \in Operators : request[p].at \in {"engine", "load", "join", "enable"} => request[p].start \in Starts
      BY DEF CamInv, CamTypes, StartsInv, Starts
    <3> QED BY <1>1, <3>1, <3>2 DEF CamInv, StartsInv
  <2>4. \A m \in Starts : ThreadInv(m)'  BY <1>1, <2>1 DEF CamInv, ThreadInv
  <2>5. \A a \in Starts : FrameInv(a)'  BY <1>1 DEF CamInv, FrameInv
  <2>6. ASSUME NEW a \in Starts  PROVE OrderInv(a)'
    <3>1. OrderInv(a)  BY DEF CamInv
    <3>2. Sole(a)' => Sole(a)  BY <1>1 DEF Sole
    <3>3. ASSUME Sole(a), NEW m \in Starts, analyst'[m].on = a
          PROVE  analyst'[m].seen <= adapter[a].frame
      <4>1. CASE m = n  BY <1>1, <2>1, <3>1, <3>3, <4>1
      <4>2. CASE m # n  BY <2>1, <3>1, <3>3, <4>2 DEF OrderInv
      <4> QED BY <4>1, <4>2
    <3> QED BY <1>1, <3>1, <3>2, <3>3 DEF OrderInv
  <2> QED BY <2>2, <2>3, <2>4, <2>5, <2>6 DEF CamInv
<1>2. CASE AnalystBegins(n)
  <2> DEFINE new == [analyst[n] EXCEPT !.at = IF camera = NoCamera THEN "ended" ELSE "stream",
                                       !.on = camera]
  <2>1. camera \in Held  BY DEF CamInv, CamTypes, Starts, NoCamera, Held
  <2>2. /\ analyst[n].at = "begun" /\ analyst[n].seen = -1
        /\ UNCHANGED <<camera, engine, panel, made, adapter, request, opener, capturer>>
    BY <1>2 DEF AnalystBegins, CamInv, ThreadInv
  <2>3. /\ new \in Analyst /\ new.seen = -1 /\ new.on = camera
        /\ new.at = IF camera = NoCamera THEN "ended" ELSE "stream"
    BY <1>0, <2>1, <2>2 DEF Analyst
  <2>4. analyst' = [analyst EXCEPT ![n] = new]  BY <1>2 DEF AnalystBegins, CamInv, CamTypes
  <2> HIDE DEF new
  <2>5. \A a \in Starts : new.seen <= adapter[a].frame
    <3>1. \A a \in Starts : adapter[a].frame >= -1 /\ adapter[a].frame \in Int
      BY DEF CamInv, FrameInv, CamTypes, Adapter
    <3> QED BY <2>3, <3>1
  <2>6. panel'.risk \in {"SAFE", "WARNING", "DANGER"} /\ DOMAIN panel' = DOMAIN panel
    BY <2>2 DEF CamInv, CamTypes
  <2> QED BY <1>1, <2>2, <2>3, <2>4, <2>5, <2>6
<1>3. CASE NextFrame(n)
  <2>1. PICK a \in Starts : a = analyst[n].on
    BY <1>0, <1>3 DEF NextFrame, CamInv, ThreadInv, Analyst, Held
  <2> DEFINE new == [analyst[n] EXCEPT !.seen = adapter[a].frame,
                                       !.at = IF panel.enabled THEN "analyse" ELSE "ended"]
  <2>2. /\ analyst[n].at = "stream"
        /\ UNCHANGED <<camera, engine, panel, made, adapter, request, opener, capturer>>
    BY <1>3 DEF NextFrame
  <2>3. adapter[a].frame \in Int  BY DEF CamInv, CamTypes, Adapter
  <2>4. /\ new \in Analyst /\ new.seen = adapter[a].frame /\ new.on = a
        /\ new.at = IF panel.enabled THEN "analyse" ELSE "ended"
    BY <1>0, <2>1, <2>3 DEF Analyst
  <2>5. analyst' = [analyst EXCEPT ![n] = new]  BY <1>3, <2>1 DEF NextFrame, CamInv, CamTypes
  <2> HIDE DEF new
  <2>6. panel'.risk \in {"SAFE", "WARNING", "DANGER"} /\ DOMAIN panel' = DOMAIN panel
    BY <2>2 DEF CamInv, CamTypes
  <2>7. a # NoCamera  BY DEF Starts, NoCamera
  <2>8. \A b \in Starts : new.on = b => new.seen <= adapter[b].frame  BY <2>3, <2>4
  <2> QED BY <1>1, <2>2, <2>4, <2>5, <2>6, <2>7, <2>8
<1>4. CASE Analyse(n, scene)
  <2> DEFINE new == [analyst[n] EXCEPT !.at = IF engine THEN "stream" ELSE "ended"]
  <2>1. /\ analyst[n].at = "analyse" /\ analyst[n].on # NoCamera
        /\ UNCHANGED <<camera, engine, made, adapter, request, opener, capturer>>
    BY <1>4 DEF Analyse, CamInv, ThreadInv
  <2>2. /\ new \in Analyst /\ new.seen = analyst[n].seen /\ new.on = analyst[n].on
        /\ new.at = IF engine THEN "stream" ELSE "ended"
    BY <1>0 DEF Analyst
  <2>3. analyst' = [analyst EXCEPT ![n] = new]  BY <1>4 DEF Analyse, CamInv, CamTypes
  <2> HIDE DEF new
  <2>4. panel'.risk \in {"SAFE", "WARNING", "DANGER"} /\ DOMAIN panel' = DOMAIN panel
    <3>1. CASE engine
      <4>1. SceneRisk(scene) \in {"SAFE", "WARNING", "DANGER"}  BY DEF SceneRisk
      <4> QED BY <1>4, <3>1, <4>1 DEF Analyse, CamInv, CamTypes
    <3>2. CASE ~engine  BY <1>4, <3>2 DEF Analyse, CamInv, CamTypes
    <3> QED BY <3>1, <3>2
  <2>5. \A a \in Starts : OrderInv(a) /\ Sole(a) /\ new.on = a => new.seen <= adapter[a].frame
    BY <2>2 DEF OrderInv
  <2> QED BY <1>1, <2>1, <2>2, <2>3, <2>4, <2>5
<1> QED BY <1>2, <1>3, <1>4

LEMMA CamInductive == CamInv /\ [CameraNext]_cameraVars => CamInv'
<1>1. ASSUME CamInv, UNCHANGED cameraVars  PROVE CamInv'
  BY <1>1 DEF CamInv, CamTypes, StartsInv, ThreadInv, FrameInv, OrderInv, Sole, cameraVars
<1>2. ASSUME CamInv, NEW o \in Operators,
             \/ MakeAdapter(o) \/ MakeEngine(o) \/ LoadEngine(o) \/ JoinOpener(o) \/ Enable(o)
             \/ Disable(o) \/ StopCamera(o) \/ Release(o) \/ ForgetCamera(o) \/ ForgetEngine(o)
      PROVE  CamInv'
  BY <1>2, RequestSteps, RequestThreads, StopSteps
<1>3. ASSUME CamInv, NEW n \in Starts, OpenerBegins(n) \/ OpenerRuns(n)
      PROVE  CamInv'
  BY <1>3, OpenerSteps
<1>4. ASSUME CamInv, NEW n \in Starts, AnalystBegins(n) \/ NextFrame(n)
      PROVE  CamInv'
  BY <1>4, AnalystSteps
<1> QED BY <1>1, <1>2, <1>3, <1>4, OpenerSteps, CaptureSteps, AnalystSteps DEF CameraNext

LEMMA CamInvariant == CameraRuns => []CamInv
BY CamInitially, CamInductive, PTL DEF CameraRuns

\* The camera's variables keep their types, and an adapter that runs was
\* started: the numbers its frames get are ahead of the frame it holds
\* (camera_adapter.py:75-98, 124-141).
THEOREM CameraTyped == CameraRuns => []CameraTypeOK
<1>1. CamInv => CameraTypeOK
  BY CameraAssumption DEF CameraAssumption, CamInv, CamTypes, FrameInv, CameraTypeOK, Starts, NoCamera
<1> QED BY <1>1, CamInvariant, PTL

\* Threads that capture for the same adapter are one thread, if one is all
\* that Cardinality counts.
LEMMA SoleByCount ==
  ASSUME CamInv, NEW a,
         ~(Cardinality({m \in Starts : opener[m].on = a}) > 1)
  PROVE  Sole(a)
<1> DEFINE S == {m \in Starts : opener[m].on = a}
<1>1. IsFiniteSet(S)
  <2>1. IsFiniteSet(Starts)  BY FS_Interval, CameraAssumption DEF Starts, CameraAssumption
  <2> QED BY <2>1, FS_Subset
<1>2. SUFFICES ASSUME NEW m \in S, NEW n \in S, m # n  PROVE FALSE
  BY DEF Sole
<1>3. IsFiniteSet({m, n}) /\ Cardinality({m, n}) = 2
  <2>1. IsFiniteSet({n}) /\ Cardinality({n}) = 1  BY FS_Singleton
  <2>2. {m, n} = {n} \cup {m} /\ m \notin {n}  BY <1>2
  <2> QED BY <2>1, <2>2, FS_AddElement
<1>4. {m, n} \subseteq S  BY <1>2
<1>5. Cardinality({m, n}) <= Cardinality(S)  BY <1>1, <1>4, FS_Subset
<1>6. Cardinality(S) \in Nat  BY <1>1, FS_CardinalityType
<1> QED BY <1>3, <1>5, <1>6

\* The frames that a stream yields come in the order in which they were
\* captured, unless two threads capture for its adapter
\* (camera_adapter.py:124-141, 167-178).
THEOREM StreamsInOrder == CameraRuns => FramesInOrder
<1> DEFINE InOrder == \A n \in Starts :
             analyst'[n].seen >= analyst[n].seen
             \/ Cardinality({m \in Starts : opener[m].on = analyst[n].on}) > 1
<1>1. ASSUME CamInv, [CameraNext]_cameraVars  PROVE [InOrder]_cameraVars
  <2>1. SUFFICES ASSUME CameraNext, NEW n \in Starts,
                        ~(Cardinality({m \in Starts : opener[m].on = analyst[n].on}) > 1)
                 PROVE  analyst'[n].seen >= analyst[n].seen
    BY <1>1
  <2>2. \A m \in Starts : analyst[m] \in Analyst  BY <1>1 DEF CamInv, CamTypes
  <2>3. analyst[n].seen \in Int  BY <2>2 DEF Analyst
  <2>4. CASE analyst'[n].seen = analyst[n].seen  BY <2>3, <2>4
  <2>5. ASSUME NEW k \in Starts, NextFrame(k)  PROVE analyst'[n].seen >= analyst[n].seen
    <3>1. CASE k # n  BY <1>1, <2>3, <2>5, <3>1 DEF NextFrame, CamInv, CamTypes
    <3>2. CASE k = n
      <4>1. PICK a \in Starts : a = analyst[n].on
        BY <1>1, <2>2, <2>5, <3>2 DEF NextFrame, CamInv, ThreadInv, Analyst, Held
      <4>2. Sole(a)  BY <1>1, <2>1, <4>1, SoleByCount
      <4>3. analyst[n].seen <= adapter[a].frame  BY <1>1, <4>1, <4>2 DEF CamInv, OrderInv
      <4>4. analyst'[n].seen = adapter[a].frame
        BY <1>1, <2>2, <2>5, <3>2, <4>1 DEF NextFrame, CamInv, CamTypes, Analyst
      <4>5. adapter[a].frame \in Int  BY <1>1 DEF CamInv, CamTypes, Adapter
      <4> QED BY <2>3, <4>3, <4>4, <4>5
    <3> QED BY <3>1, <3>2
  <2>6. ASSUME NEW k \in Starts, AnalystBegins(k)  PROVE analyst'[n].seen = analyst[n].seen
    BY <1>1, <2>2, <2>6 DEF AnalystBegins, CamInv, CamTypes, Analyst
  <2>7. ASSUME NEW k \in Starts, NEW scene \in Scenes, Analyse(k, scene)
        PROVE analyst'[n].seen = analyst[n].seen
    BY <1>1, <2>2, <2>7 DEF Analyse, CamInv, CamTypes, Analyst
  <2>8. ASSUME NEW o \in Operators, Enable(o)  PROVE analyst'[n].seen = analyst[n].seen
    BY <1>1, <2>2, <2>8 DEF Enable, CamInv, CamTypes, Analyst
  <2>9. ASSUME NEW o \in Operators,
               \/ MakeAdapter(o) \/ MakeEngine(o) \/ LoadEngine(o) \/ JoinOpener(o)
               \/ Disable(o) \/ StopCamera(o) \/ Release(o) \/ ForgetCamera(o) \/ ForgetEngine(o)
        PROVE analyst'[n].seen = analyst[n].seen
    BY <2>9 DEF MakeAdapter, MakeEngine, LoadEngine, JoinOpener, Disable, StopCamera, Release,
                ForgetCamera, ForgetEngine
  <2>10. ASSUME NEW k \in Starts, NEW device,
                OpenerBegins(k) \/ OpenerRuns(k) \/ OpenDevice(k, device) \/ CaptureStep(k)
         PROVE analyst'[n].seen = analyst[n].seen
    BY <2>10 DEF OpenerBegins, OpenerRuns, OpenDevice, CaptureStep, CaptureTest, NoFrame, ReadFrame,
                 StoreFrame
  <2> QED BY <2>1, <2>4, <2>5, <2>6, <2>7, <2>8, <2>9, <2>10 DEF CameraNext
<1>2. CamInv /\ [CameraNext]_cameraVars => [InOrder]_cameraVars  BY <1>1
<1>3. CameraRuns => []CamInv /\ [][CameraNext]_cameraVars  BY CamInvariant, PTL DEF CameraRuns
<1> QED BY <1>2, <1>3, PTL DEF FramesInOrder

-----------------------------------------------------------------------------
(* The city's emergencies                                                  *)

Alarm == [id : Nat \X Nat, kind : Alarms, at : Sites, status : {"ACTIVE", "RESOLVED"}]

\* The second half of an id is the place in the list, so that an id finds
\* the emergency it was given to; RESOLVED is never taken back.
EmergencyInv ==
  /\ clock \in Nat
  /\ counter = Len(emergencies)
  /\ emergencies \in Seq(Alarm)
  /\ \A i \in DOMAIN emergencies : emergencies[i].id[2] = i
  /\ answered \subseteq DOMAIN emergencies
  /\ \A i \in answered : emergencies[i].status = "RESOLVED"

EmergencySpec == EmergencyInit /\ [][EmergencyNext]_emergencyVars

LEMMA FoundByItsId ==
  ASSUME EmergencyInv, NEW i \in DOMAIN emergencies
  PROVE  Found(emergencies[i].id) = i
<1>1. \A j \in DOMAIN emergencies : emergencies[j].id = emergencies[i].id => j = i
  BY DEF EmergencyInv
<1>2. \A j \in 1 .. i - 1 : emergencies[j].id # emergencies[i].id
  BY <1>1 DEF EmergencyInv
<1> QED BY <1>1, <1>2 DEF Found

LEMMA EmergencyInitially == EmergencyInit => EmergencyInv
  BY DEF EmergencyInit, EmergencyInv

LEMMA EmergencyInductive ==
  ASSUME EmergencyInv, [EmergencyNext]_emergencyVars
  PROVE  EmergencyInv'
<1> USE DEF EmergencyInv
<1>1. CASE Second  BY <1>1 DEF Second
<1>2. ASSUME NEW kind \in Alarms, NEW p \in Sites, Broadcast(kind, p)
      PROVE  EmergencyInv'
  <2> DEFINE e == [id |-> <<clock, counter + 1>>, kind |-> kind, at |-> p, status |-> "ACTIVE"]
  <2>1. e \in Alarm  BY DEF Alarm
  <2>2. emergencies' = Append(emergencies, e)  BY <1>2 DEF Broadcast, NewId
  <2> HIDE DEF Alarm
  <2>3. emergencies' \in Seq(Alarm)  BY <2>1, <2>2
  <2>4. \A i \in DOMAIN emergencies : i \in DOMAIN emergencies' /\ emergencies'[i] = emergencies[i]
    BY <2>1, <2>2
  <2>5. \A i \in DOMAIN emergencies' : emergencies'[i].id[2] = i
    <3> SUFFICES ASSUME NEW i \in DOMAIN emergencies' PROVE emergencies'[i].id[2] = i
      OBVIOUS
    <3>1. CASE i \in DOMAIN emergencies  BY <3>1, <2>4
    <3>2. CASE i \notin DOMAIN emergencies  
      <4>1. i = Len(emergencies) + 1 /\ emergencies'[i] = e  BY <3>2, <2>1, <2>2
      <4> QED BY <4>1
    <3> QED BY <3>1, <3>2
  <2> QED BY <1>2, <2>2, <2>3, <2>4, <2>5 DEF Broadcast
<1>3. ASSUME NEW i \in DOMAIN emergencies, NEW p \in Sites, NEW work \in Works,
             Protect(i, p, work) \/ Redirect(i, p, work)
      PROVE  EmergencyInv'
  BY <1>3 DEF Protect, Redirect
<1>4. ASSUME NEW i \in DOMAIN emergencies, Resolve(i)
      PROVE  EmergencyInv'
  <2>1. emergencies' = [emergencies EXCEPT ![i].status = "RESOLVED"]
    BY <1>4, FoundByItsId DEF Resolve
  <2>2. emergencies' \in Seq(Alarm)
    <3> DEFINE resolved == [emergencies[i] EXCEPT !.status = "RESOLVED"]
    <3>1. emergencies[i] \in Alarm  OBVIOUS
    <3>2. resolved \in Alarm  BY <3>1 DEF Alarm
    <3>3. emergencies' = [emergencies EXCEPT ![i] = resolved]  BY <2>1
    <3> HIDE DEF resolved, Alarm
    <3> QED BY <3>2, <3>3
  <2>3. \A j \in DOMAIN emergencies :
           /\ emergencies'[j].id = emergencies[j].id
           /\ emergencies'[j].status = IF j = i THEN "RESOLVED" ELSE emergencies[j].status
    BY <2>1 DEF Alarm
  <2> HIDE DEF Alarm
  <2>4. DOMAIN emergencies' = DOMAIN emergencies /\ Len(emergencies') = Len(emergencies)
    BY <2>1
  <2> QED BY <1>4, <2>2, <2>3, <2>4 DEF Resolve
<1>5. CASE UNCHANGED emergencyVars  BY <1>5 DEF emergencyVars
<1> QED BY <1>1, <1>2, <1>3, <1>4, <1>5 DEF EmergencyNext

\* resolve_emergency (emergency.py) ends the emergency of the caller it answers
\* RESOLVED: ids are different, so the first with an id is the only one.
THEOREM ResolvedStaysResolved == EmergencySpec => []ResolvedAsAnswered
<1>1. EmergencyInv => ResolvedAsAnswered
  BY DEF EmergencyInv, ResolvedAsAnswered, ActiveNear
<1> QED BY <1>1, EmergencyInitially, EmergencyInductive, PTL DEF EmergencySpec

WillSpec == WillInit /\ [][WillNext]_willVars

Ids == (0 .. MaxClock) \X (1 .. MaxEmergencies)
Broadcasts == [id : Ids, kind : Alarms, at : Sites, status : {"ACTIVE", "RESOLVED"}]
Shielded == {DroneType(w) : w \in Works} \X Alarms

EmergencyTypes ==
  /\ clock \in 0 .. MaxClock
  /\ emergencies \in Seq(Broadcasts)
  /\ redirected \in Seq(DOMAIN emergencies)
  /\ protected \in Seq(Shielded)

Urgent(will) == will[1] = "CRITICAL_BATTERY" => will[2] = "IMMEDIATE_RETRIEVAL"
Wills == {"CRITICAL_BATTERY", "SIGNAL_LOST"}
           \X {"IMMEDIATE_RETRIEVAL", "PRIORITY_RETRIEVAL", "SCHEDULED_RETRIEVAL"}
WillsInv ==
  /\ wills \in Seq(Wills)
  /\ \A w \in DOMAIN wills : Urgent(wills[w])

LEMMA WillsInductive ==
  ASSUME WillsInv, [WillNext]_willVars
  PROVE  WillsInv'
<1>1. CASE FlyOn  BY <1>1 DEF FlyOn, WillsInv
<1>2. CASE CheckHealth
  <2> DEFINE w == <<Health(charge, signal), RecoveryAction(charge)>>
  <2>1. w \in Wills  BY <1>2 DEF CheckHealth, Wills, RecoveryAction
  <2>2. Urgent(w)  BY DEF Urgent, Health, RecoveryAction
  <2>3. wills' = Append(wills, w) /\ UNCHANGED <<charge, signal>>  BY <1>2 DEF CheckHealth
  <2>4. wills \in Seq(Wills)  BY DEF WillsInv
  <2> HIDE DEF w
  <2>5. wills' \in Seq(Wills)  BY <2>1, <2>3, <2>4
  <2>6. \A i \in DOMAIN wills' : Urgent(wills'[i])
    <3>1. \A i \in DOMAIN wills' : (i \in DOMAIN wills /\ wills'[i] = wills[i]) \/ wills'[i] = w
      BY <2>3, <2>4
    <3>2. \A i \in DOMAIN wills : Urgent(wills[i])  BY DEF WillsInv
    <3>3. ASSUME NEW i \in DOMAIN wills'  PROVE Urgent(wills'[i])
      <4>1. CASE wills'[i] = w  BY <2>2, <4>1
      <4>2. CASE i \in DOMAIN wills /\ wills'[i] = wills[i]
        <5>1. Urgent(wills[i])  BY <3>2, <4>2
        <5> QED BY <4>2, <5>1
      <4> QED BY <3>1, <4>1, <4>2
    <3> QED BY <3>3
  <2> QED BY <2>3, <2>5, <2>6 DEF WillsInv
<1>3. CASE UNCHANGED willVars  BY <1>3 DEF willVars, WillsInv
<1> QED BY <1>1, <1>2, <1>3 DEF WillNext

LEMMA EmergencyTypedStep ==
  ASSUME EmergencyInv, EmergencyTypes, [EmergencyNext]_emergencyVars
  PROVE  EmergencyTypes'
<1> USE EmergencyAssumption
<1>a. /\ clock \in 0 .. MaxClock /\ emergencies \in Seq(Broadcasts)
      /\ redirected \in Seq(DOMAIN emergencies) /\ protected \in Seq(Shielded)
      /\ counter = Len(emergencies)
  BY DEF EmergencyTypes, EmergencyInv
<1>1. CASE Second  BY <1>1, <1>a DEF Second, EmergencyTypes
<1>2. ASSUME NEW kind \in Alarms, NEW p \in Sites, Broadcast(kind, p)
      PROVE  EmergencyTypes'
  <2> DEFINE e == [id |-> NewId, kind |-> kind, at |-> p, status |-> "ACTIVE"]
  <2>1. e \in Broadcasts
    <3>1. counter + 1 \in 1 .. MaxEmergencies  BY <1>2, <1>a DEF Broadcast
    <3> QED BY <1>a, <3>1 DEF Broadcasts, Ids, NewId
  <2>2. emergencies' = Append(emergencies, e)  BY <1>2 DEF Broadcast
  <2> HIDE DEF e
  <2>3. emergencies' \in Seq(Broadcasts) /\ DOMAIN emergencies \subseteq DOMAIN emergencies'
    BY <1>a, <2>1, <2>2
  <2>4. redirected \in Seq(DOMAIN emergencies')
    <3>1. \A S, T : S \subseteq T => \A q \in Seq(S) : q \in Seq(T)
      OBVIOUS
    <3> QED BY <1>a, <2>3, <3>1
  <2> QED BY <1>2, <1>a, <2>3, <2>4 DEF Broadcast, EmergencyTypes
<1>3. ASSUME NEW i \in DOMAIN emergencies, NEW p \in Sites, NEW work \in Works, Protect(i, p, work)
      PROVE  EmergencyTypes'
  <2> DEFINE s == <<DroneType(work), emergencies[i].kind>>
  <2>1. s \in Shielded
    <3>1. emergencies[i] \in Broadcasts  BY <1>a
    <3>2. emergencies[i].kind \in Alarms  BY <3>1 DEF Broadcasts
    <3> QED BY <3>2 DEF Shielded
  <2>2. protected' = Append(protected, s) /\ UNCHANGED <<clock, emergencies, redirected>>
    BY <1>3 DEF Protect
  <2> HIDE DEF s
  <2>3. protected' \in Seq(Shielded)  BY <1>a, <2>1, <2>2
  <2> QED BY <1>a, <2>2, <2>3 DEF EmergencyTypes
<1>4. ASSUME NEW i \in DOMAIN emergencies, NEW p \in Sites, NEW work \in Works, Redirect(i, p, work)
      PROVE  EmergencyTypes'
  BY <1>4, <1>a DEF Redirect, EmergencyTypes
<1>5. ASSUME NEW i \in DOMAIN emergencies, Resolve(i)
      PROVE  EmergencyTypes'
  <2> DEFINE resolved == [emergencies[i] EXCEPT !.status = "RESOLVED"]
  <2>1. emergencies' = [emergencies EXCEPT ![i] = resolved] /\ UNCHANGED <<clock, redirected, protected>>
    BY <1>5, FoundByItsId DEF Resolve
  <2>2. emergencies[i] \in Broadcasts  BY <1>a
  <2>3. resolved \in Broadcasts  BY <2>2 DEF Broadcasts
  <2> HIDE DEF resolved
  <2>4. emergencies' \in Seq(Broadcasts) /\ DOMAIN emergencies' = DOMAIN emergencies
    BY <1>a, <2>1, <2>3
  <2> QED BY <1>a, <2>1, <2>4 DEF EmergencyTypes
<1>6. CASE UNCHANGED emergencyVars  BY <1>6 DEF emergencyVars, EmergencyTypes
<1> QED BY <1>1, <1>2, <1>3, <1>4, <1>5, <1>6 DEF EmergencyNext

LEMMA EmergencyTyped == EmergencySpec /\ WillSpec => []EmergencyTypeOK
<1>1. EmergencyInit => EmergencyInv /\ EmergencyTypes
  BY EmergencyInitially, EmergencyAssumption DEF EmergencyInit, EmergencyTypes
<1>2. EmergencyInv /\ EmergencyTypes /\ [EmergencyNext]_emergencyVars => (EmergencyInv /\ EmergencyTypes)'
  BY EmergencyInductive, EmergencyTypedStep
<1>3. WillInit => WillsInv  BY DEF WillInit, WillsInv
<1>4. WillsInv /\ [WillNext]_willVars => WillsInv'  BY WillsInductive
<1>5. EmergencyInv /\ EmergencyTypes /\ WillsInv => EmergencyTypeOK
  BY DEF EmergencyInv, EmergencyTypes, WillsInv, EmergencyTypeOK, Urgent, Broadcasts, Ids, Shielded
<1> QED BY <1>1, <1>2, <1>3, <1>4, <1>5, PTL DEF EmergencySpec, WillSpec
===============================================================================
