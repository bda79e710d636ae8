------------------------------- MODULE RestApi --------------------------------
(***************************************************************************)
(* api.py: the requests of the REST API, each in a thread of the server's  *)
(* pool, over what they share: the accounts (Accounts), the webhooks       *)
(* (Webhooks), the list of scores and its commitments (ScoreRoot) and the  *)
(* reputation of the drone (Reputation), of which the last two live in     *)
(* memory and know no lock.                                                *)
(*                                                                         *)
(* The flight, its score and its evidence are computed by the request      *)
(* alone: a score is chosen.  A live flight comes here when it has been    *)
(* recorded (DroneLink).  A request that the limiter refuses changes       *)
(* nothing.  A revoked or unknown key ends in 401, a missing permission in *)
(* 403.                                                                    *)
(***************************************************************************)
EXTENDS Integers, Sequences, FiniteSets, Accounts, Webhooks, ScoreRoot, Reputation

CONSTANTS
  NewRoles,      \* roles given to new clients, "pilot" (unknown) may be one
  FlightScores,  \* scores of flights
  MaxCalls,      \* bound on the requests
  MaxMissions,   \* bound on the missions
  MaxRestarts    \* bound on the restarts

Flown == 1 .. MaxMissions

\* The accounts, webhooks, score root and reputation are those of these
\* requests: their clients, threads and missions are the same.
ASSUME RestApiAssumption ==
  /\ Root \in ClientIds
  /\ Tenants = ClientIds
  /\ Senders = Threads /\ Writers = Threads
  /\ Entries = Flown
  /\ IsFiniteSet(Threads)
  /\ OldRoles \subseteq Roles

VARIABLES
  job,         \* each thread's request: [at, client, endpoint, mission, root, found]
  answer,      \* its last answer: [endpoint, status, mission, root]
  reputation,  \* DroneReputation.score
  repRead,     \* the score read by a record_mission
  flights,     \* missions run
  calls,
  restarts

apiVars == <<job, answer, reputation, repRead, flights, calls, restarts>>
requestVars == <<accountVars, webhookVars, scoreRootVars, apiVars>>

Required == [run       |-> "mission:run",
             deliver   |-> "mission:run",
             status    |-> "mission:read",
             latest    |-> "mission:read",
             scoreroot |-> "validator:read",
             create    |-> "admin:all",
             revoke    |-> "admin:all",
             me        |-> "none",
             register  |-> "none",
             delete    |-> "none",
             list      |-> "none"]
Endpoints == DOMAIN Required

NoJob == [at |-> "idle", client |-> Root, endpoint |-> "me", mission |-> 0, root |-> << >>,
          found |-> {}]
NoAnswer == [endpoint |-> "me", status |-> 0, mission |-> 0, root |-> << >>]

RequestsInit ==
  /\ AccountsInit
  /\ WebhooksInit
  /\ ScoreRootInit
  /\ job = [t \in Threads |-> NoJob]
  /\ answer = [t \in Threads |-> NoAnswer]
  /\ reputation = BaseScore
  /\ repRead = [t \in Threads |-> BaseScore]
  /\ flights = 0
  /\ calls = 0
  /\ restarts = 0

At(t, label) == job[t].at = label
Go(t, label) == job' = [job EXCEPT ![t].at = label]
Does(t, endpoint) == job[t].endpoint = endpoint

\* The request is over.
Answer(t, status) ==
  /\ job' = [job EXCEPT ![t] = NoJob]
  /\ answer' = [answer EXCEPT ![t] = [endpoint |-> job[t].endpoint, status |-> status,
                                      mission |-> job[t].mission, root |-> job[t].root]]

KeepShared == UNCHANGED <<webhookVars, scoreRootVars, reputation, repRead, flights, calls, restarts>>
KeepMemory == UNCHANGED <<scoreRootVars, reputation, repRead, flights, calls, restarts>>
KeepCounts == UNCHANGED <<calls, restarts>>

-----------------------------------------------------------------------------
(* verify_token and require_permission *)

Arrive(t, c, endpoint) ==
  /\ calls < MaxCalls
  /\ calls' = calls + 1
  /\ SelectKey(t, c)
  /\ job' = [job EXCEPT ![t] = [NoJob EXCEPT !.at = "verify", !.client = c, !.endpoint = endpoint]]
  /\ answer' = [answer EXCEPT ![t] = NoAnswer]
  /\ UNCHANGED <<webhookVars, scoreRootVars, reputation, repRead, flights, restarts>>

RejectKey(t) ==
  /\ At(t, "verify")
  /\ verified[t].role = "none"
  /\ Answer(t, 401)
  /\ UNCHANGED accountVars
  /\ KeepShared

Count(t) ==
  /\ At(t, "verify")
  /\ verified[t].role # "none"
  /\ CountRequest(t)
  /\ Go(t, "admit")
  /\ UNCHANGED answer
  /\ KeepShared

\* The Client is returned; then the permission is looked at.
AdmitRequest(t) ==
  LET need == Required[job[t].endpoint] IN
  /\ At(t, "admit")
  /\ Admit(t)
  /\ IF need \in Permissions(verified[t].role) \cup {"none"}
     THEN Go(t, "serve") /\ UNCHANGED answer
     ELSE Answer(t, 403)
  /\ KeepShared

-----------------------------------------------------------------------------
(* /mission/run and /mission/run-live *)

\* plan, fly, score, create_record; reputation.record_mission reads the score.
RunMission(t) ==
  /\ At(t, "serve") /\ Does(t, "run")
  /\ flights < MaxMissions
  /\ flights' = flights + 1
  /\ job' = [job EXCEPT ![t].at = "repute", ![t].mission = flights + 1]
  /\ repRead' = [repRead EXCEPT ![t] = reputation]
  /\ UNCHANGED <<accountVars, webhookVars, scoreRootVars, answer, reputation>>
  /\ KeepCounts

RecordReputation(t, score) ==
  /\ At(t, "repute")
  /\ reputation' = UpdatedScore(repRead[t], score, TRUE)
  /\ Go(t, "add")
  /\ UNCHANGED <<accountVars, webhookVars, scoreRootVars, answer, repRead, flights>>
  /\ KeepCounts

\* Faulty variant: the root is computed before the score is added.
AddMissionLate(t) ==
  /\ At(t, "add")
  /\ ComputeRoot(t)
  /\ Go(t, "commit")
  /\ UNCHANGED <<accountVars, webhookVars, answer, reputation, repRead, flights>>
  /\ KeepCounts

AddMission(t) ==
  /\ At(t, "add")
  /\ AddScore(job[t].mission)
  /\ Go(t, "compute")
  /\ UNCHANGED <<accountVars, webhookVars, answer, reputation, repRead, flights>>
  /\ KeepCounts

\* scoreroot.commit(), here and in GET /validator/scoreroot.
ComputeMissionRoot(t) ==
  /\ At(t, "compute") \/ (At(t, "serve") /\ Does(t, "scoreroot"))
  /\ ComputeRoot(t)
  /\ Go(t, "commit")
  /\ UNCHANGED <<accountVars, webhookVars, answer, reputation, repRead, flights>>
  /\ KeepCounts

\* The caller gets its own commitment.  A mission goes on to the bundle, the
\* reward and the webhook.
CommitRoot(t) ==
  /\ At(t, "commit")
  /\ Commit(t)
  /\ IF Does(t, "scoreroot")
     THEN Answer(t, 200)
     ELSE /\ job' = [job EXCEPT ![t].at = "notify", ![t].root = root[t]]
          /\ UNCHANGED answer
  /\ UNCHANGED <<accountVars, webhookVars, reputation, repRead, flights>>
  /\ KeepCounts

\* POST /delivery/prove computes its proof and tells the webhooks.
ProveDelivery(t) ==
  /\ At(t, "serve") /\ Does(t, "deliver")
  /\ Go(t, "notify")
  /\ UNCHANGED <<accountVars, webhookVars, answer>>
  /\ KeepMemory

-----------------------------------------------------------------------------
(* Webhooks *)

\* get_webhooks, for send_webhook and for GET /webhooks: first the rows ...
SelectHooks(t) ==
  /\ At(t, "notify") \/ (At(t, "serve") /\ Does(t, "list"))
  /\ job' = [job EXCEPT ![t].at = "decrypt", ![t].found = HooksOf(job[t].client)]
  /\ UNCHANGED <<accountVars, webhookVars, answer>>
  /\ KeepMemory

\* ... and then the key to read their secrets, or to encrypt a new one.
FetchKey(t) ==
  /\ At(t, "decrypt") \/ (At(t, "serve") /\ Does(t, "register"))
  /\ GetKey(t)
  /\ UNCHANGED <<accountVars, job, answer>>
  /\ KeepMemory

\* A secret that cannot be read raises out of the endpoint: 500, although a
\* mission has been scored and committed.
DecryptHooks(t) ==
  /\ At(t, "decrypt")
  /\ HasKey(t)
  /\ LeavesKey(t)
  /\ Answer(t, IF \A i \in job[t].found : Readable(i, fernet) THEN 200 ELSE 500)
  /\ UNCHANGED <<accountVars, hooks>>
  /\ KeepMemory

RegisterHook(t) ==
  /\ At(t, "serve") /\ Does(t, "register")
  /\ Len(hooks) < MaxHooks
  /\ InsertHook(t, job[t].client)
  /\ Answer(t, 200)
  /\ UNCHANGED accountVars
  /\ KeepMemory

DeleteHook(t, i) ==
  /\ At(t, "serve") /\ Does(t, "delete")
  /\ DeactivateHook(i, job[t].client)
  /\ Answer(t, IF Deactivates(i, job[t].client) THEN 200 ELSE 404)
  /\ UNCHANGED accountVars
  /\ KeepMemory

-----------------------------------------------------------------------------
(* The other endpoints *)

\* /me and /popw/latest read and answer.  /drone/status asks get_status for a
\* "reputation_score" it does not have, a KeyError.
Read(t) ==
  /\ At(t, "serve")
  /\ job[t].endpoint \in {"me", "latest", "status"}
  /\ Answer(t, IF Does(t, "status") THEN 500 ELSE 200)
  /\ UNCHANGED accountVars
  /\ KeepShared

CreateClient(t, c, role) ==
  /\ At(t, "serve")
  /\ IF role \in Roles
     THEN InsertClient(c, role) /\ Go(t, "created") /\ UNCHANGED answer
     ELSE Answer(t, 400) /\ UNCHANGED accountVars
  /\ KeepShared

\* An id nobody has is answered in the same way and changes nothing.
RevokeClient(t, c) ==
  /\ At(t, "serve")
  /\ table[c] # Absent
  /\ DeactivateClient(c)
  /\ job' = [job EXCEPT ![t].at = "revoked", ![t].client = c]
  /\ UNCHANGED answer
  /\ KeepShared

CommitAccounts(t) ==
  /\ job[t].at \in {"created", "revoked"}
  /\ CommitClients
  /\ Answered(IF At(t, "revoked") THEN {job[t].client} ELSE {})
  /\ Answer(t, 200)
  /\ KeepShared

\* The server stops and is started again.
Restart ==
  /\ restarts < MaxRestarts
  /\ restarts' = restarts + 1
  /\ RestartAccounts
  /\ RestartWebhooks
  /\ scores' = << >>
  /\ commitments' = << >>
  /\ root' = [t \in Threads |-> << >>]
  /\ job' = [t \in Threads |-> NoJob]
  /\ answer' = [t \in Threads |-> NoAnswer]
  /\ reputation' = BaseScore
  /\ repRead' = [t \in Threads |-> BaseScore]
  /\ UNCHANGED <<flights, calls>>

Serve(t) ==
  \/ RejectKey(t) \/ Count(t) \/ AdmitRequest(t)
  \/ RunMission(t)
  \/ \E score \in FlightScores : RecordReputation(t, score)
  \/ AddMission(t) \/ ComputeMissionRoot(t) \/ CommitRoot(t)
  \/ ProveDelivery(t)
  \/ SelectHooks(t) \/ FetchKey(t) \/ DecryptHooks(t)
  \/ RegisterHook(t)
  \/ \E i \in DOMAIN hooks : DeleteHook(t, i)
  \/ Read(t)
  \/ Does(t, "create") /\ \E c \in ClientIds, role \in NewRoles : CreateClient(t, c, role)
  \/ Does(t, "revoke") /\ \E c \in ClientIds : RevokeClient(t, c)
  \/ CommitAccounts(t)

RequestsNext ==
  \/ \E t \in Threads :
       \/ At(t, "idle") /\ \E c \in ClientIds, endpoint \in Endpoints : Arrive(t, c, endpoint)
       \/ Serve(t)
  \/ Restart

-----------------------------------------------------------------------------
(* Properties *)

\* The score root a mission is answered with is a commitment that covers the
\* mission, though other requests add scores and commit at the same time
\* (api.py:135-136, 156, scoreroot.py:53-70).
RootCoversMission ==
  \A t \in Threads :
     answer[t].endpoint = "run" /\ answer[t].status = 200 =>
       /\ \E i \in DOMAIN answer[t].root : answer[t].root[i] = answer[t].mission
       /\ \E i \in DOMAIN commitments : commitments[i].root = answer[t].root

\* What a client was told, that its request is admitted, that a key is revoked or
\* that a webhook is registered, still holds after other threads' commits and
\* after a restart (auth.py:103-145, webhook.py:27-92).
ClientsServed == AccountsKept /\ SecretsReadable
=============================================================================
