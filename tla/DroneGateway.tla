----------------------------- MODULE DroneGateway -----------------------------
(***************************************************************************)
(* The drone gateway: the threads drone_gateway.start_all starts (HTTP     *)
(* API, WebSocket loop, MQTT client, MAVLink listener) on one registry,    *)
(* and the drones that talk to them.  One WebSocket thread serves every    *)
(* session, so a session that never gets the lock stops them all.          *)
(*                                                                         *)
(* The servers accept every message at any time.  What the drones send is  *)
(* the environment: a drone announces itself on a channel of its Home      *)
(* before it reports there, except as Habits allows.                       *)
(***************************************************************************)
EXTENDS DroneRegistry

CONSTANTS
  Sessions,  \* WebSocket connections
  Home,      \* Home[d]: the channels drone d uses
  Habits,    \* what drones also do: "reconnect" (a second session before the
             \* first has been closed), "unannounced" (telemetry unregistered)
  NoId,      \* an open session whose drone_id is still None
  Closed,    \* no such session
  Horizon    \* bound on the clock

ASSUME GatewayAssumption ==
  /\ Threads = {"http", "ws", "mqtt", "mavlink"}
  /\ Home \in [Ids -> SUBSET Threads]
  /\ Habits \subseteq {"reconnect", "unannounced"}
  /\ {NoId, Closed} \cap Ids = {} /\ NoId # Closed
  /\ Horizon \in Nat

VARIABLES
  session,    \* drone_id in _handle_client of every session
  announced,  \* drones that registered over HTTP or MQTT, as they know it
  link        \* _mavlink_listener: "search", "listen" or "update" per drone

vars == <<drones, lock, clock, session, announced, link>>

Init ==
  /\ RegistryInit
  /\ session = [s \in Sessions |-> Closed]
  /\ announced = [c \in {"http", "mqtt"} |-> {}]
  /\ link = [d \in Ids |-> "search"]

Channel(c) == {d \in Ids : c \in Home[d]}

-----------------------------------------------------------------------------
(* WebSocket: _handle_client *)

\* A connection is accepted; the loop must not be the thread that hangs.
Open(s) ==
  /\ lock # "ws"
  /\ session[s] = Closed
  /\ session' = [session EXCEPT ![s] = NoId]
  /\ UNCHANGED <<registry, announced, link>>

\* {"type": "register"}.  A careful drone first waits for its old session to end.
SessionRegister(s, d) ==
  /\ session[s] \in {NoId, d}
  /\ "reconnect" \in Habits \/ \A r \in Sessions \ {s} : session[r] # d
  /\ Register(d, "ws")
  /\ session' = [session EXCEPT ![s] = d]
  /\ UNCHANGED <<announced, link>>

\* {"type": "telemetry"}: the id in the message replaces the session's.
SessionTelemetry(s, d) ==
  /\ session[s] = d \/ (session[s] = NoId /\ "unannounced" \in Habits)
  /\ UpdateTelemetry(d, "ws")
  /\ session' = [session EXCEPT ![s] = d]
  /\ UNCHANGED <<announced, link>>

SessionHeartbeat(s) ==
  /\ session[s] \in Ids
  /\ Heartbeat(session[s])
  /\ UNCHANGED <<session, announced, link>>

\* Faulty variant: the handler returns without its `finally` block.
CloseQuietly(s) ==
  /\ session[s] # Closed
  /\ lock = Nobody
  /\ session' = [session EXCEPT ![s] = Closed]
  /\ UNCHANGED <<registry, announced, link>>

\* The connection is found closed and `finally` unregisters the session's drone.
Close(s) ==
  /\ session[s] # Closed
  /\ \/ session[s] \in Ids /\ Unregister(session[s])
     \/ session[s] = NoId /\ lock # "ws" /\ UNCHANGED registry
  /\ session' = [session EXCEPT ![s] = Closed]
  /\ UNCHANGED <<announced, link>>

-----------------------------------------------------------------------------
(* HTTP API and MQTT *)

\* POST /drones/register; dronesync/<id>/register
Announce(c, d) ==
  /\ Register(d, c)
  /\ announced' = [announced EXCEPT ![c] = @ \cup {d}]
  /\ UNCHANGED <<session, link>>

\* POST /drones/telemetry; dronesync/<id>/telemetry
Report(c, d) ==
  /\ d \in announced[c] \/ "unannounced" \in Habits
  /\ UpdateTelemetry(d, c)
  /\ UNCHANGED <<session, announced, link>>

\* POST /drones/heartbeat; dronesync/<id>/heartbeat
Beat(c, d) ==
  /\ Heartbeat(d)
  /\ UNCHANGED <<session, announced, link>>

\* POST /drones/unregister
Withdraw(d) ==
  /\ d \in announced["http"]
  /\ Unregister(d)
  /\ announced' = [announced EXCEPT !["http"] = @ \ {d}]
  /\ UNCHANGED <<session, link>>

\* GET /drones, and get_dashboard_drones() of the dashboard
List ==
  /\ GetActiveDrones
  /\ UNCHANGED <<session, announced, link>>

-----------------------------------------------------------------------------
(* MAVLink: _mavlink_listener *)

\* Faulty variant: the listener starts to read without registering its drone.
LinkFoundSilently(d) ==
  /\ lock = Nobody
  /\ \A e \in Ids : link[e] = "search"
  /\ link' = [link EXCEPT ![d] = "listen"]
  /\ UNCHANGED <<registry, session, announced>>

\* wait_heartbeat() answered: one drone at a time is listened to.
LinkFound(d) ==
  /\ \A e \in Ids : link[e] = "search"
  /\ Register(d, "mavlink")
  /\ link' = [link EXCEPT ![d] = "listen"]
  /\ UNCHANGED <<session, announced>>

\* A message: get_drone() and, outside the lock, telem.update().
LinkMessage(d) ==
  /\ lock = Nobody
  /\ link[d] = "listen"
  /\ link' = [link EXCEPT ![d] = "update"]
  /\ UNCHANGED <<registry, session, announced>>

LinkUpdate(d) ==
  /\ link[d] = "update"
  /\ UpdateTelemetry(d, "mavlink")
  /\ link' = [link EXCEPT ![d] = "listen"]
  /\ UNCHANGED <<session, announced>>

\* Any exception: print, sleep, and connect again.
LinkLost(d) ==
  /\ lock # "mavlink"
  /\ link[d] # "search"
  /\ link' = [link EXCEPT ![d] = "search"]
  /\ UNCHANGED <<registry, session, announced>>

Tick ==
  /\ clock < Horizon
  /\ clock' = clock + 1
  /\ UNCHANGED <<drones, lock, session, announced, link>>

-----------------------------------------------------------------------------
Next ==
  \/ \E s \in Sessions : Open(s) \/ SessionHeartbeat(s) \/ Close(s)
  \/ \E s \in Sessions, d \in Channel("ws") :
       SessionRegister(s, d) \/ SessionTelemetry(s, d)
  \/ \E c \in {"http", "mqtt"}, d \in Ids :
       /\ d \in Channel(c)
       /\ Announce(c, d) \/ Report(c, d) \/ Beat(c, d)
  \/ \E d \in Channel("http") : Withdraw(d)
  \/ List
  \/ \E d \in Channel("mavlink") :
       LinkFound(d) \/ LinkMessage(d) \/ LinkUpdate(d) \/ LinkLost(d)
  \/ Tick

Spec == Init /\ [][Next]_vars

-----------------------------------------------------------------------------
(* Properties *)

\* The registry, the sessions and the listener hold what the code can put in them.
TypeOK ==
  /\ RegistryTypeOK /\ SeenInPast
  /\ session \in [Sessions -> Ids \cup {NoId, Closed}]
  /\ announced \in [{"http", "mqtt"} -> SUBSET Ids]
  /\ link \in [Ids -> {"search", "listen", "update"}]

\* A drone that has a session open, or that registered over HTTP or MQTT and has
\* not withdrawn, or that the MAVLink listener reads.
Attached(d) ==
  \/ \E s \in Sessions : session[s] = d
  \/ \E c \in {"http", "mqtt"} : d \in announced[c]
  \/ link[d] # "search"

\* No thread holds the registry's lock for ever: update_telemetry never meets a
\* drone the registry does not know (drone_registry.py:44-51), which would stop
\* every transport of the gateway at its next call.
NotWedged == lock = Nobody

\* The registry and the drones agree: an attached drone is listed, and a drone that
\* only uses WebSocket or HTTP is listed no longer than it is attached
\* (drone_websocket.py:35-37, drone_api.py:74-77).
ListedWhenAttached ==
  \A d \in Ids :
    /\ Attached(d) => Listed(d)
    /\ Listed(d) /\ Home[d] \subseteq {"ws", "http"} => Attached(d)
=============================================================================
