------------------------------ MODULE Webhooks --------------------------------
(***************************************************************************)
(* dronesync/webhook.py: the URLs that clients want to be told at, kept in *)
(* SQLite with their secrets encrypted under a key that is made on first   *)
(* use and kept in a file; the threads of the server share the key they    *)
(* have loaded in a global.  Each thread has a connection of its own, so a *)
(* statement and its commit are one step here.  DRONESYNC_WEBHOOK_ENC_KEY  *)
(* is not set.                                                             *)
(***************************************************************************)
EXTENDS Integers, Sequences

CONSTANTS
  Tenants,  \* clients that may register webhooks
  Senders,  \* threads of the server
  MaxHooks  \* bound on the webhooks registered

VARIABLES
  hooks,     \* the webhooks table: [client, key, active]
  keyFile,   \* the key in webhook_enc.key; 0 for no file
  keysMade,  \* history: keys generated
  fernet,    \* the global _fernet; 0 for None
  keyring,   \* each thread in _get_fernet: [at, key]
  raced      \* history: has a thread asked while another was making the key

webhookVars == <<hooks, keyFile, keysMade, fernet, keyring, raced>>

NoKey == 0
Out == [at |-> "out", key |-> NoKey]

WebhooksInit ==
  /\ hooks = << >>
  /\ keyFile = NoKey
  /\ keysMade = 0
  /\ fernet = NoKey
  /\ keyring = [t \in Senders |-> Out]
  /\ raced = FALSE

-----------------------------------------------------------------------------
(* _get_fernet and _load_or_create_key *)

KeyStep(t, ring) == keyring' = [keyring EXCEPT ![t] = ring]

Making(t) == keyring[t].at \in {"load", "save", "set"}

\* if _fernet is None; a thread that finds it there goes straight on.
AskKey(t) ==
  /\ keyring[t].at = "out"
  /\ KeyStep(t, [at |-> IF fernet = NoKey THEN "load" ELSE "ready", key |-> NoKey])
  /\ raced' = (raced \/ (fernet = NoKey /\ \E u \in Senders : Making(u)))
  /\ UNCHANGED <<hooks, keyFile, keysMade, fernet>>

\* The file's key, or a new one.
LoadKey(t) ==
  /\ keyring[t].at = "load"
  /\ IF keyFile # NoKey
     THEN /\ KeyStep(t, [at |-> "set", key |-> keyFile])
          /\ UNCHANGED keysMade
     ELSE /\ KeyStep(t, [at |-> "save", key |-> keysMade + 1])
          /\ keysMade' = keysMade + 1
  /\ UNCHANGED <<hooks, keyFile, fernet, raced>>

SaveKey(t) ==
  /\ keyring[t].at = "save"
  /\ keyFile' = keyring[t].key
  /\ KeyStep(t, [keyring[t] EXCEPT !.at = "set"])
  /\ UNCHANGED <<hooks, keysMade, fernet, raced>>

SetKey(t) ==
  /\ keyring[t].at = "set"
  /\ fernet' = keyring[t].key
  /\ KeyStep(t, [at |-> "ready", key |-> NoKey])
  /\ UNCHANGED <<hooks, keyFile, keysMade, raced>>

GetKey(t) == AskKey(t) \/ LoadKey(t) \/ SaveKey(t) \/ SetKey(t)
HasKey(t) == keyring[t].at = "ready"
LeavesKey(t) == KeyStep(t, Out) /\ UNCHANGED <<keyFile, keysMade, fernet, raced>>

-----------------------------------------------------------------------------
(* WebhookDB *)

\* register(): encrypted with the key the global holds by now.
InsertHook(t, c) ==
  /\ HasKey(t)
  /\ hooks' = Append(hooks, [client |-> c, key |-> fernet, active |-> TRUE])
  /\ LeavesKey(t)

\* deactivate(): true when a row of this client has that id.
DeactivateHook(i, c) ==
  /\ hooks' = [hooks EXCEPT ![i].active = @ /\ hooks[i].client # c]
  /\ UNCHANGED <<keyFile, keysMade, fernet, keyring, raced>>
Deactivates(i, c) == hooks[i].client = c

\* get_webhooks(): the client's active rows.
HooksOf(c) == {i \in DOMAIN hooks : hooks[i].client = c /\ hooks[i].active}

\* decrypt raises on the first secret that is under another key; otherwise
\* send_webhook starts a thread for each hook, whose POST may fail unnoticed.
Readable(i, key) == hooks[i].key = key

RestartWebhooks ==
  /\ fernet' = NoKey
  /\ keyring' = [t \in Senders |-> Out]
  /\ UNCHANGED <<hooks, keyFile, keysMade, raced>>

-----------------------------------------------------------------------------
(* Properties *)

\* Every secret in the table can be decrypted with the key that the file holds,
\* now and after any restart, unless two threads met in the first use of the
\* key, with no file yet (webhook.py:27-48).
SecretsReadable ==
  ~raced => \A i \in DOMAIN hooks : Readable(i, keyFile)
=============================================================================
