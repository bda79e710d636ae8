------------------------------ MODULE DroneLink -------------------------------
(***************************************************************************)
(* Connections to real drones: dronesync/drone_connector.py and the        *)
(* adapters under it (mavlink_adapter.py, dji_adapter.py, which wraps it,  *)
(* and ros2_adapter.py, which uses ROS 2 or falls back to it), with their  *)
(* two users: POST /mission/run-live (api.py), whose threads each connect, *)
(* record, disconnect and score, and POST /api/connect-drone               *)
(* (dashboard/app.py), which keeps one connector in a global.              *)
(*                                                                         *)
(* pymavlink and rclpy are external: any call of theirs may raise.  A GPS  *)
(* position is an abstract number, 0 when a poll brought none, and the     *)
(* other values of a frame keep the defaults of TelemetryFrame then.       *)
(***************************************************************************)
EXTENDS Integers, Sequences, FiniteSets, SequencesExt

CONSTANTS
  Flyers,    \* threads that serve /mission/run-live
  Panels,    \* threads that serve /api/connect-drone
  MaxLinks,  \* bound on the connectors made
  MaxPolls,  \* bound on the polls of a recording
  Places,    \* GPS positions; 0 among them (the equator)
  Batteries  \* battery readings; 100 among them (none came)

\* A thread serves one request at a time.
ASSUME DroneLinkAssumption == MaxLinks \in Nat /\ Flyers \cap Panels = {}

Kinds == {"mavlink", "dji", "ros2"}
Links == 1 .. MaxLinks
NoLink == 0

VARIABLES
  link,     \* each connector: [kind, socket, ros, connected, frames]
  madeLinks,
  serving,  \* each request: [at, link]
  current   \* the global _drone_connector

linkVars == <<link, madeLinks, serving, current>>

LinkInit ==
  /\ link = [l \in Links |-> [kind |-> "mavlink", socket |-> "none", ros |-> FALSE,
                              connected |-> FALSE, frames |-> << >>]]
  /\ madeLinks = 0
  /\ serving = [r \in Flyers \cup Panels |-> [at |-> "idle", link |-> NoLink]]
  /\ current = NoLink

Answers(r, answer) == serving' = [serving EXCEPT ![r] = [at |-> answer, link |-> NoLink]]
Goes(r, label) == serving' = [serving EXCEPT ![r].at = label]
Free(r) == serving[r].at \notin {"make", "connect", "record"}

\* DroneConnector(...): the adapter for the manufacturer, nothing opened yet.
Made(kind) ==
  /\ madeLinks < MaxLinks
  /\ madeLinks' = madeLinks + 1
  /\ link' = [link EXCEPT ![madeLinks + 1].kind = kind]

-----------------------------------------------------------------------------
(* Adapters *)

\* connect(): the socket may not open, and the wait for a heartbeat may raise,
\* which leaves it open and not connected.  rclpy opens no socket.
Outcomes(kind) == {"refused", "silent", "alive"} \cup (IF kind = "ros2" THEN {"rclpy"} ELSE {})
Opened(l, outcome) ==
  CASE outcome = "refused" -> [l EXCEPT !.socket = "none"]
    [] outcome = "silent"  -> [l EXCEPT !.socket = "open"]
    [] outcome = "alive"   -> [l EXCEPT !.socket = "open", !.connected = TRUE]
    [] outcome = "rclpy"   -> [l EXCEPT !.ros = TRUE, !.connected = TRUE]

\* disconnect(): a connector that never opened its socket has nothing to close.
Closed(l) ==
  [l EXCEPT !.connected = FALSE,
            !.socket = IF l.ros \/ l.socket = "none" THEN @ ELSE "closed"]

\* A poll of record_mission keeps a frame when it brought a position other
\* than 0; without a BATTERY_STATUS message the battery reads 100.
Polled(frames, place, battery) ==
  IF place = 0 THEN frames
  ELSE Append(frames, [place |-> place, battery |-> battery])

\* _to_trajectory: positions and the average battery of its metadata.
Positions(l) == [i \in DOMAIN l.frames |-> l.frames[i].place]
AverageBattery(l) ==
  IF l.frames = << >> THEN 0
  ELSE SumFunction([i \in DOMAIN l.frames |-> l.frames[i].battery]) \div Len(l.frames)

-----------------------------------------------------------------------------
(* POST /mission/run-live *)

RequestFlight(r, kind) ==
  /\ Free(r)
  /\ Made(kind)
  /\ serving' = [serving EXCEPT ![r] = [at |-> "connect", link |-> madeLinks + 1]]
  /\ UNCHANGED current

\* Without a connection the answer is 502 and nothing is closed.
ConnectFlight(r) ==
  LET n == serving[r].link IN
  /\ serving[r].at = "connect"
  /\ \E outcome \in Outcomes(link[n].kind) : link' = [link EXCEPT ![n] = Opened(@, outcome)]
  /\ IF link'[n].connected THEN Goes(r, "record") ELSE Answers(r, "502")
  /\ UNCHANGED <<madeLinks, current>>

\* One poll.  The ROS 2 recording only sleeps: it has no subscription.
Poll(r, place, battery) ==
  LET n == serving[r].link IN
  /\ serving[r].at = "record"
  /\ ~link[n].ros
  /\ Len(link[n].frames) < MaxPolls
  /\ link' = [link EXCEPT ![n].frames = Polled(@, place, battery)]
  /\ UNCHANGED <<madeLinks, serving, current>>

\* Faulty variant: disconnect is called after a recording that went well, not
\* in a finally.
RecordingFailsOpen(r) ==
  /\ serving[r].at = "record"
  /\ Answers(r, "502")
  /\ UNCHANGED <<link, madeLinks, current>>

Disconnect(n) == link' = [link EXCEPT ![n] = Closed(@)]

\* A call of the transport raises, and `finally` disconnects before the 502.
RecordingFails(r) ==
  /\ serving[r].at = "record"
  /\ ~link[serving[r].link].ros
  /\ Disconnect(serving[r].link)
  /\ Answers(r, "502")
  /\ UNCHANGED <<madeLinks, current>>

\* The time is over: `finally` disconnects, and the flight is scored if it has
\* any position.
RecordingEnds(r) ==
  LET n == serving[r].link IN
  /\ serving[r].at = "record"
  /\ Disconnect(n)
  /\ Answers(r, IF Positions(link[n]) = << >> THEN "422" ELSE "scored")
  /\ UNCHANGED <<madeLinks, current>>

-----------------------------------------------------------------------------
(* POST /api/connect-drone *)

\* The connector in the global is disconnected if it is connected.
DropOld(r) ==
  /\ Free(r)
  /\ madeLinks < MaxLinks
  /\ link' = IF current # NoLink /\ link[current].connected
             THEN [link EXCEPT ![current] = Closed(@)] ELSE link
  /\ serving' = [serving EXCEPT ![r] = [at |-> "make", link |-> NoLink]]
  /\ UNCHANGED <<madeLinks, current>>

\* from_ui(): a connection of the table, or the custom address.
MakePanelLink(r, kind) ==
  /\ serving[r].at = "make"
  /\ IF madeLinks = MaxLinks
     THEN /\ Answers(r, "error")
          /\ UNCHANGED <<link, madeLinks, current>>
     ELSE /\ Made(kind)
          /\ current' = madeLinks + 1
          /\ Goes(r, "connect")

\* connect() of whatever the global holds by now, and get_status().
ConnectPanel(r) ==
  /\ serving[r].at = "connect"
  /\ \E outcome \in Outcomes(link[current].kind) :
       link' = [link EXCEPT ![current] = Opened(@, outcome)]
  /\ Answers(r, IF link'[current].connected THEN "connected" ELSE "failed")
  /\ UNCHANGED <<madeLinks, current>>

LinkNext ==
  \/ \E r \in Flyers :
       \/ \E kind \in Kinds : RequestFlight(r, kind)
       \/ ConnectFlight(r)
       \/ \E place \in Places, battery \in Batteries : Poll(r, place, battery)
       \/ RecordingFails(r)
       \/ RecordingEnds(r)
  \/ \E r \in Panels :
       \/ DropOld(r)
       \/ \E kind \in Kinds : MakePanelLink(r, kind)
       \/ ConnectPanel(r)

-----------------------------------------------------------------------------
(* Properties *)

LinkTypeOK ==
  /\ madeLinks \in 0 .. MaxLinks
  /\ current \in 0 .. madeLinks
  /\ \A l \in Links :
       /\ link[l].socket \in {"none", "open", "closed"}
       /\ link[l].ros => link[l].kind = "ros2"
       /\ AverageBattery(link[l]) \in 0 .. 100

\* A connector that is connected belongs to a live mission under way, or is the
\* one the dashboard shows: whichever call of the transport fails, and however
\* often the operator reconnects (api.py:175-190, app.py:1050-1053).
LinksHeld ==
  \A l \in Links :
     link[l].connected => l = current \/ \E r \in Flyers : serving[r].link = l
=============================================================================
