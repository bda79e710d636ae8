---------------------------- MODULE MCDroneGateway ----------------------------
(***************************************************************************)
(* DroneGateway on small instances.                                        *)
(***************************************************************************)
EXTENDS DroneGateway, TLC

CONSTANTS d1, d2, d3, d4

AllThreads == {"http", "ws", "mqtt", "mavlink"}

\* Every drone keeps to one channel.
OneChannel ==
  d1 :> {"ws"} @@ d2 :> {"http"} @@ d3 :> {"mqtt"} @@ d4 :> {"mavlink"}

\* Two drones on the WebSocket server.
OnlyWebSocket == d1 :> {"ws"} @@ d2 :> {"ws"}

Symmetry == Permutations(Sessions)
=============================================================================
