------------------------------- MODULE Firewall -------------------------------
(***************************************************************************)
(* dronesync/firewall.py: the sliding window that admits at most           *)
(* MAX_COMMANDS_PER_MINUTE commands.  The mission handler signs the command *)
(* itself (synapse.py:162-172), so only the window can block one.  filter  *)
(* takes no lock: it builds the list of recent times, puts it in place,    *)
(* counts it, and appends the new time, and other threads run in between.  *)
(* Every time in the list is that of one admitted command, and only how    *)
(* many there are is read, so the list is the set of these commands.       *)
(***************************************************************************)
EXTENDS Integers, Sequences, FiniteSets

CONSTANTS
  Callers,     \* threads that call filter
  MaxCommands, \* MAX_COMMANDS_PER_MINUTE
  Window       \* the 60 s of the sliding window

ASSUME FirewallAssumption == MaxCommands \in Nat \ {0} /\ Window \in Nat \ {0}

VARIABLES
  now,      \* int(time.time())
  times,    \* _command_times: the commands whose times are in it
  filtered, \* [at, recent] of each call: its time, and the list it is to put in place
  admitted  \* history: the times of the commands that were admitted, in order

firewallVars == <<times, filtered, admitted>>

FirewallTypeOK ==
  /\ now \in Nat
  /\ admitted \in Seq(Nat)
  /\ times \subseteq DOMAIN admitted
  /\ filtered \in [Callers -> [at : Nat, recent : SUBSET DOMAIN admitted]]

NoCall == [at |-> 0, recent |-> {}]

FirewallInit ==
  /\ now = 0
  /\ times = {}
  /\ filtered = [t \in Callers |-> NoCall]
  /\ admitted = << >>

InWindow(commands) == {i \in commands : now - admitted[i] < Window}

\* [t for t in self._command_times if now - t < 60]
Expire(t) ==
  /\ filtered' = [filtered EXCEPT ![t] = [at |-> now, recent |-> InWindow(times)]]
  /\ UNCHANGED <<times, admitted>>

\* The list is in place; whether it is full is read right after.
PutInPlace(t) ==
  /\ times' = filtered[t].recent
  /\ UNCHANGED <<filtered, admitted>>

\* Faulty variant: one command too many.
FullLate == Cardinality(times) > MaxCommands

Full == Cardinality(times) >= MaxCommands

Admit(t) ==
  /\ admitted' = Append(admitted, filtered[t].at)
  /\ times' = times \cup {Len(admitted')}
  /\ filtered' = [filtered EXCEPT ![t] = NoCall]

\* What a command that is not admitted leaves behind.
Block(t) ==
  /\ filtered' = [filtered EXCEPT ![t] = NoCall]
  /\ UNCHANGED <<times, admitted>>
=============================================================================
