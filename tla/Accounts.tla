------------------------------ MODULE Accounts --------------------------------
(***************************************************************************)
(* dronesync/auth.py, AuthDB: the clients of the REST API, their roles and *)
(* request counts.  All threads of the server use one SQLite connection,   *)
(* without a lock: what one thread has written and not committed is seen   *)
(* by the others and committed by whichever of them commits first.  Keys   *)
(* and names are left out: a client is one that knows its own key.         *)
(***************************************************************************)
EXTENDS Integers

CONSTANTS
  ClientIds,  \* clients there may be
  Root,       \* the client there is from the start, an admin
  OldRoles,   \* roles of clients that an earlier run of the server has left
  Threads     \* threads of the server

Roles == {"admin", "fleet_manager", "operator", "validator", "customer"}

Permissions(role) ==
  CASE role = "admin" -> {"mission:run", "mission:read", "fleet:manage",
                          "validator:vote", "validator:read", "admin:all"}
    [] role = "fleet_manager" -> {"mission:run", "mission:read", "fleet:manage"}
    [] role = "operator" -> {"mission:run", "mission:read"}
    [] role = "validator" -> {"mission:read", "validator:vote", "validator:read"}
    [] role = "customer" -> {"delivery:track"}

VARIABLES
  onDisk,    \* the clients table on disk: [role, active, count]
  table,     \* the clients table as the connection sees it
  verified,  \* what verify_key has returned to each thread: [client, role]
  admitted,  \* history: verifications of each client that were answered
  banned,    \* history: clients whose revocation was answered
  late       \* history: threads whose verification began after that

accountVars == <<onDisk, table, verified, admitted, banned, late>>

Absent == [role |-> "none", active |-> FALSE, count |-> 0]
Active(role) == [role |-> role, active |-> TRUE, count |-> 0]
Rejected == [client |-> Root, role |-> "none"]

AccountsInit ==
  /\ onDisk \in {f \in [ClientIds -> {Absent} \cup {Active(role) : role \in OldRoles \cup {"admin"}}] :
                 \A c \in ClientIds : c = Root <=> f[c].role = "admin"}
  /\ table = onDisk
  /\ verified = [t \in Threads |-> Rejected]
  /\ admitted = [c \in ClientIds |-> 0]
  /\ banned = {}
  /\ late = {}

\* verify_key: the row of the key's hash, or None for a key nobody has and for
\* a client that is not active.
SelectKey(t, c) ==
  /\ verified' = [verified EXCEPT
       ![t] = IF table[c].active THEN [client |-> c, role |-> table[c].role] ELSE Rejected]
  /\ late' = IF c \in banned THEN late \cup {t} ELSE late \ {t}
  /\ UNCHANGED <<onDisk, table, admitted, banned>>

\* UPDATE clients SET last_seen, request_count = request_count + 1
CountRequest(t) ==
  LET c == verified[t].client IN
  /\ table' = [table EXCEPT ![c].count = @ + 1]
  /\ UNCHANGED <<onDisk, verified, admitted, banned, late>>

\* Faulty variant: no commit, another thread's will do.
AdmitUncommitted(t) ==
  /\ admitted' = [admitted EXCEPT ![verified[t].client] = @ + 1]
  /\ UNCHANGED <<onDisk, table, verified, banned, late>>

\* commit() of whatever the connection holds, and the Client is returned.
Admit(t) ==
  /\ onDisk' = table
  /\ admitted' = [admitted EXCEPT ![verified[t].client] = @ + 1]
  /\ UNCHANGED <<table, verified, banned, late>>

\* create_client, once its role is known to be one of the table's.
InsertClient(c, role) ==
  /\ table[c] = Absent
  /\ table' = [table EXCEPT ![c] = Active(role)]
  /\ UNCHANGED <<onDisk, verified, admitted, banned, late>>

DeactivateClient(c) ==
  /\ table' = [table EXCEPT ![c].active = FALSE]
  /\ UNCHANGED <<onDisk, verified, admitted, banned, late>>

CommitClients == onDisk' = table /\ UNCHANGED <<table, verified, admitted, late>>

Answered(revoked) == banned' = banned \cup revoked

\* The server stops and is started again: what was not committed is gone.
RestartAccounts ==
  /\ table' = onDisk
  /\ verified' = [t \in Threads |-> Rejected]
  /\ late' = {}
  /\ UNCHANGED <<onDisk, admitted, banned>>

-----------------------------------------------------------------------------
(* Properties *)

\* Every request that was answered is counted on disk, whoever's commit put it
\* there and through restarts (auth.py:120-124).
CountKept ==
  \A c \in ClientIds : admitted[c] <= onDisk[c].count

\* Once a revocation has been answered, no verification that begins later
\* succeeds, through restarts (auth.py:115-117, 138-145).
RevokedOut == \A t \in late : verified[t].role = "none"

\* What the accounts keep of the requests, and of the revocations, that were
\* answered (auth.py:103-145).
AccountsKept == CountKept /\ RevokedOut
=============================================================================
