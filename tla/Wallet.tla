------------------------------- MODULE Wallet ---------------------------------
(***************************************************************************)
(* dronesync/wallet.py, MinerWallet: a balance and its transactions in     *)
(* SQLite.  Every operation runs under the lock of its object and is made  *)
(* of several statements; credit and debit read the balance before their   *)
(* write transaction begins.  A wallet file may be opened by several       *)
(* objects (main.py and the dashboard build their own), which share no     *)
(* lock.                                                                   *)
(*                                                                         *)
(* Amounts are whole units; ids, times and reasons are left out.           *)
(***************************************************************************)
EXTENDS Integers, Sequences

CONSTANTS
  Wallets,     \* MinerWallet objects on one file
  Clients,     \* threads that use them
  Amounts,     \* what is credited and debited; negative ones included
  MaxEntries,  \* bound on the transactions
  NoOne        \* no thread

\* There is a wallet object, and nobody is no client.
ASSUME WalletAssumption ==
  /\ NoOne \notin Clients
  /\ Amounts \subseteq Int
  /\ Wallets # {}

VARIABLES
  balance,  \* the row of the wallet table
  entries,  \* the transactions table, in time order: [amount, after]
  held,     \* thread in the lock of each object
  step,     \* where each thread is
  call,     \* its operation: [wallet, op, amount]
  read,     \* what its SELECTs have returned so far
  written   \* its UPDATE and INSERT, not committed yet: [amount, after]

walletVars == <<balance, entries, held, step, call, read, written>>

Nothing == [amount |-> 0, after |-> 0]
NoSums == [balance |-> 0, earned |-> 0, penalties |-> 0]
NoCall(w) == [wallet |-> w, op |-> "none", amount |-> 0]

WalletInit ==
  /\ balance = 0
  /\ entries = << >>
  /\ held = [w \in Wallets |-> NoOne]
  /\ step = [c \in Clients |-> "idle"]
  /\ \E w \in Wallets : call = [c \in Clients |-> NoCall(w)]
  /\ read = [c \in Clients |-> NoSums]
  /\ written = [c \in Clients |-> Nothing]

Lesser(a, b) == IF a < b THEN a ELSE b

\* SUM of the first n values.
SumUpTo(f, n) ==
  LET sum[i \in 0 .. n] == IF i = 0 THEN 0 ELSE sum[i - 1] + f[i] IN sum[n]

\* SUM(amount_knx) WHERE amount_knx > 0, and the same of the negative ones.
Gained == [i \in DOMAIN entries |-> IF entries[i].amount > 0 THEN entries[i].amount ELSE 0]
Lost == [i \in DOMAIN entries |-> IF entries[i].amount < 0 THEN -entries[i].amount ELSE 0]
Earnings == SumUpTo(Gained, Len(entries))
Penalties == SumUpTo(Lost, Len(entries))

\* Faulty variant: a debit of more than the balance is not cut.
SignedUncut(c) == IF call[c].op = "credit" THEN call[c].amount ELSE -call[c].amount

\* What the transaction is for: min(amount, current) is taken out by a debit,
\* and a negative debit puts something in.
Signed(c) ==
  IF call[c].op = "credit" THEN call[c].amount
  ELSE -Lesser(call[c].amount, read[c].balance)

Releases(c) ==
  /\ held' = [held EXCEPT ![call[c].wallet] = NoOne]
  /\ step' = [step EXCEPT ![c] = "idle"]

-----------------------------------------------------------------------------
(* Actions of a thread *)

\* deposit is credit and withdraw is debit.  credit refuses a negative amount
\* before it takes the lock.
Call(c, w, op, a) ==
  /\ step[c] = "idle"
  /\ op = "credit" => a >= 0
  /\ op # "summary" => Len(entries) < MaxEntries
  /\ call' = [call EXCEPT ![c] = [wallet |-> w, op |-> op, amount |-> a]]
  /\ step' = [step EXCEPT ![c] = "called"]
  /\ UNCHANGED <<balance, entries, held, read, written>>

\* Faulty variant: the balance is read before the lock is taken.
ReadBalanceUnlocked(c) ==
  /\ step[c] = "called"
  /\ read' = [read EXCEPT ![c] = [NoSums EXCEPT !.balance = balance]]
  /\ step' = [step EXCEPT ![c] = IF call[c].op = "summary" THEN "earned" ELSE "write"]
  /\ UNCHANGED <<balance, entries, held, call, written>>

\* with self._lock, and the SELECT of _get_balance.
ReadBalance(c) ==
  /\ step[c] = "called"
  /\ held[call[c].wallet] = NoOne
  /\ held' = [held EXCEPT ![call[c].wallet] = c]
  /\ read' = [read EXCEPT ![c] = [NoSums EXCEPT !.balance = balance]]
  /\ step' = [step EXCEPT ![c] = IF call[c].op = "summary" THEN "earned" ELSE "write"]
  /\ UNCHANGED <<balance, entries, call, written>>

\* UPDATE wallet and INSERT INTO transactions: the first takes SQLite's write
\* lock, so it waits for the transaction of another object.
Write(c) ==
  /\ step[c] = "write"
  /\ \A d \in Clients : step[d] # "commit"
  /\ written' = [written EXCEPT ![c] =
                   [amount |-> Signed(c), after |-> read[c].balance + Signed(c)]]
  /\ step' = [step EXCEPT ![c] = "commit"]
  /\ UNCHANGED <<balance, entries, held, call, read>>

CommitEntry(c) ==
  /\ step[c] = "commit"
  /\ balance' = written[c].after
  /\ entries' = Append(entries, written[c])
  /\ written' = [written EXCEPT ![c] = Nothing]
  /\ Releases(c)
  /\ UNCHANGED <<call, read>>

\* summary(): the two sums, each by a SELECT of its own, and the answer.
SumEarned(c) ==
  /\ step[c] = "earned"
  /\ read' = [read EXCEPT ![c].earned = Earnings]
  /\ step' = [step EXCEPT ![c] = "penalties"]
  /\ UNCHANGED <<balance, entries, held, call, written>>

SumPenalties(c) ==
  /\ step[c] = "penalties"
  /\ read' = [read EXCEPT ![c].penalties = Penalties]
  /\ Releases(c)
  /\ call' = [call EXCEPT ![c].op = "shown"]
  /\ UNCHANGED <<balance, entries, written>>

\* The process of one object stops: SQLite rolls back what is not committed.
Stop(w) ==
  /\ held[w] # NoOne
  /\ held' = [held EXCEPT ![w] = NoOne]
  /\ step' = [c \in Clients |-> IF call[c].wallet = w THEN "idle" ELSE step[c]]
  /\ written' = [c \in Clients |-> IF call[c].wallet = w THEN Nothing ELSE written[c]]
  /\ call' = [c \in Clients |-> IF call[c].wallet = w THEN NoCall(w) ELSE call[c]]
  /\ UNCHANGED <<balance, entries, read>>

WalletStep(c) ==
  \/ \E w \in Wallets, op \in {"credit", "debit"}, a \in Amounts : Call(c, w, op, a)
  \/ \E w \in Wallets : Call(c, w, "summary", 0)
  \/ ReadBalance(c)
  \/ Write(c)
  \/ CommitEntry(c)
  \/ SumEarned(c)
  \/ SumPenalties(c)

WalletNext == (\E c \in Clients : WalletStep(c)) \/ (\E w \in Wallets : Stop(w))

WalletSpec == WalletInit /\ [][WalletNext]_walletVars

-----------------------------------------------------------------------------
(* Properties *)

WalletTypeOK ==
  /\ balance \in Int
  /\ held \in [Wallets -> Clients \cup {NoOne}]
  /\ step \in [Clients -> {"idle", "called", "write", "commit", "earned", "penalties"}]
  /\ \A c \in Clients : step[c] \in {"write", "commit"} => held[call[c].wallet] = c

\* The balance a summary shows is what it shows as earned less what it shows as
\* penalties, though three SELECTs made it and other threads post meanwhile
\* (wallet.py:188-203).
SummaryAdds ==
  \A c \in Clients :
     call[c].op = "shown" => read[c].balance = read[c].earned - read[c].penalties

\* With one object for the file, any interleaving of its callers, and a stop
\* before a commit, leave a ledger: no update is lost, every entry carries the
\* balance it left, and nothing is overdrawn (wallet.py:119-151).
Account == INSTANCE Ledger
LedgerPromise == Account!Spec
=============================================================================
