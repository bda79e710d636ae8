-------------------------- MODULE DroneGatewayProofs --------------------------
(***************************************************************************)
(* Proofs about DroneGateway for any number of drones and sessions.        *)
(***************************************************************************)
EXTENDS DroneGateway, TLAPS

LEMMA InitTyped == Init => TypeOK
  BY GatewayAssumption DEF Init, RegistryInit, TypeOK, RegistryTypeOK, SeenInPast

(***************************************************************************)
(* The registry's methods keep its part of the type invariant.             *)
(***************************************************************************)
RegistryOK == RegistryTypeOK /\ SeenInPast

LEMMA RegisterTyped ==
  ASSUME RegistryOK, NEW d \in Ids, NEW c \in Threads, Register(d, c)
  PROVE  RegistryOK'
  BY DEF RegistryOK, RegistryTypeOK, SeenInPast, Register, Entry

LEMMA UnregisterTyped ==
  ASSUME RegistryOK, NEW d \in Ids, Unregister(d)
  PROVE  RegistryOK'
  BY DEF RegistryOK, RegistryTypeOK, SeenInPast, Unregister

LEMMA UpdateTelemetryTyped ==
  ASSUME RegistryOK, NEW d \in Ids, NEW t \in Threads, UpdateTelemetry(d, t)
  PROVE  RegistryOK'
  BY DEF RegistryOK, RegistryTypeOK, SeenInPast, UpdateTelemetry, Listed, Entry

LEMMA HeartbeatTyped ==
  ASSUME RegistryOK, NEW d \in Ids, Heartbeat(d)
  PROVE  RegistryOK'
  BY DEF RegistryOK, RegistryTypeOK, SeenInPast, Heartbeat, Listed, Entry

LEMMA GetActiveDronesTyped ==
  ASSUME RegistryOK, GetActiveDrones
  PROVE  RegistryOK'
<1>1. ASSUME NEW d \in Ids
      PROVE  /\ drones'[d] \in Entry \cup {Absent}
             /\ drones'[d] # Absent => drones'[d].seen <= clock
  <2>1. CASE drones[d] = Absent
    BY <2>1 DEF GetActiveDrones, Listed
  <2>2. CASE drones[d] \in Entry /\ drones[d] # Absent
    <3>1. (clock - drones[d].seen < Timeout) \in BOOLEAN
      OBVIOUS
    <3>2. drones'[d] = [source |-> drones[d].source, seen |-> drones[d].seen,
                        connected |-> (clock - drones[d].seen < Timeout)]
      BY <2>2 DEF GetActiveDrones, Listed, Entry
    <3> QED
      BY <2>2, <3>1, <3>2 DEF Entry, RegistryOK, SeenInPast
  <2> QED
    BY <2>1, <2>2 DEF RegistryOK, RegistryTypeOK
<1>2. drones' = [d \in Ids |-> drones'[d]]
  BY DEF GetActiveDrones
<1> QED
  BY <1>1, <1>2 DEF GetActiveDrones, RegistryOK, RegistryTypeOK, SeenInPast

LEMMA TickTyped ==
  ASSUME RegistryOK, Tick
  PROVE  RegistryOK'
  BY DEF RegistryOK, RegistryTypeOK, SeenInPast, Tick, Entry

LEMMA StepTyped == TypeOK /\ [Next]_vars => TypeOK'
<1> SUFFICES ASSUME TypeOK, [Next]_vars PROVE TypeOK'
  OBVIOUS
<1> USE DEF TypeOK
<1>0. RegistryOK
  BY DEF RegistryOK
<1>1. CASE UNCHANGED vars
  BY <1>1 DEF vars, RegistryTypeOK, SeenInPast
<1>2. ASSUME NEW s \in Sessions, Open(s) PROVE TypeOK'
  BY <1>2 DEF Open, registry, RegistryTypeOK, SeenInPast
<1>3. ASSUME NEW s \in Sessions, SessionHeartbeat(s) PROVE TypeOK'
  <2>1. RegistryOK'
    BY <1>0, <1>3, HeartbeatTyped DEF SessionHeartbeat
  <2> QED
    BY <1>3, <2>1 DEF SessionHeartbeat, RegistryOK
<1>4. ASSUME NEW s \in Sessions, Close(s) PROVE TypeOK'
  <2>1. RegistryOK'
    <3>1. CASE session[s] \in Ids /\ Unregister(session[s])
      BY <1>0, <3>1, UnregisterTyped
    <3>2. CASE UNCHANGED registry
      BY <1>0, <3>2 DEF registry, RegistryOK, RegistryTypeOK, SeenInPast
    <3> QED
      BY <1>4, <3>1, <3>2 DEF Close
  <2> QED
    BY <1>4, <2>1 DEF Close, RegistryOK
<1>5. ASSUME NEW s \in Sessions, NEW d \in Channel("ws"), SessionRegister(s, d)
      PROVE  TypeOK'
  <2>1. RegistryOK'
    BY <1>0, <1>5, RegisterTyped, GatewayAssumption DEF SessionRegister, Channel
  <2> QED
    BY <1>5, <2>1 DEF SessionRegister, Channel, RegistryOK
<1>6. ASSUME NEW s \in Sessions, NEW d \in Channel("ws"), SessionTelemetry(s, d)
      PROVE  TypeOK'
  <2>1. RegistryOK'
    BY <1>0, <1>6, UpdateTelemetryTyped, GatewayAssumption
    DEF SessionTelemetry, Channel
  <2> QED
    BY <1>6, <2>1 DEF SessionTelemetry, Channel, RegistryOK
<1>7. ASSUME NEW c \in {"http", "mqtt"}, NEW d \in Ids,
             Announce(c, d) \/ Report(c, d) \/ Beat(c, d)
      PROVE  TypeOK'
  <2>1. RegistryOK'
    BY <1>0, <1>7, RegisterTyped, UpdateTelemetryTyped, HeartbeatTyped,
       GatewayAssumption DEF Announce, Report, Beat
  <2> QED
    BY <1>7, <2>1 DEF Announce, Report, Beat, RegistryOK
<1>8. ASSUME NEW d \in Channel("http"), Withdraw(d) PROVE TypeOK'
  <2>1. RegistryOK'
    BY <1>0, <1>8, UnregisterTyped DEF Withdraw, Channel
  <2> QED
    BY <1>8, <2>1 DEF Withdraw, RegistryOK
<1>9. CASE List
  <2>1. RegistryOK'
    BY <1>0, <1>9, GetActiveDronesTyped DEF List
  <2> QED
    BY <1>9, <2>1 DEF List, RegistryOK
<1>10. ASSUME NEW d \in Channel("mavlink"),
              LinkFound(d) \/ LinkMessage(d) \/ LinkUpdate(d) \/ LinkLost(d)
       PROVE  TypeOK'
  <2>1. RegistryOK'
    <3>1. CASE UNCHANGED registry
      BY <1>0, <3>1 DEF registry, RegistryOK, RegistryTypeOK, SeenInPast
    <3> QED
      BY <1>0, <1>10, <3>1, RegisterTyped, UpdateTelemetryTyped, GatewayAssumption
      DEF LinkFound, LinkMessage, LinkUpdate, LinkLost, Channel
  <2> QED
    BY <1>10, <2>1
    DEF LinkFound, LinkMessage, LinkUpdate, LinkLost, Channel, RegistryOK
<1>11. CASE Tick
  <2>1. RegistryOK'
    BY <1>0, <1>11, TickTyped
  <2> QED
    BY <1>11, <2>1 DEF Tick, RegistryOK
<1> QED
  BY <1>1, <1>2, <1>3, <1>4, <1>5, <1>6, <1>7, <1>8, <1>9, <1>10, <1>11 DEF Next

(***************************************************************************)
(* The registry, the sessions and the listener hold what they should.      *)
(***************************************************************************)
THEOREM TypeCorrect == Spec => []TypeOK
  BY InitTyped, StepTyped, PTL DEF Spec

-----------------------------------------------------------------------------
(* Careful drones never wedge the gateway *)

\* Every drone keeps to one channel, announces itself before it reports, and waits
\* for its old session to end before it opens another.
CarefulDrones ==
  /\ Habits = {}
  /\ \A d \in Ids : \A c1, c2 \in Home[d] : c1 = c2

\* A drone is attached only through its own channel, and to one session at most.
OwnChannel ==
  /\ \A s \in Sessions : session[s] \in Ids => "ws" \in Home[session[s]]
  /\ \A r, s \in Sessions : session[r] = session[s] /\ session[s] \in Ids => r = s
  /\ \A c \in {"http", "mqtt"} : \A d \in announced[c] : c \in Home[d]
  /\ \A d \in Ids : link[d] # "search" => "mavlink" \in Home[d]

CarefulInv == TypeOK /\ OwnChannel /\ NotWedged /\ ListedWhenAttached

LEMMA CarefulInit == Init => CarefulInv
  BY InitTyped, GatewayAssumption
  DEF CarefulInv, Init, RegistryInit, OwnChannel, NotWedged, ListedWhenAttached,
      Attached, Listed

LEMMA EntryListed ==
  ASSUME NEW e \in Entry
  PROVE  e # Absent
  BY RegistryAssumption DEF Entry

(***************************************************************************)
(* What the registry's methods do to the list, the entries aside.          *)
(***************************************************************************)
LEMMA RegisterLists ==
  ASSUME TypeOK, NEW d \in Ids, NEW c \in Threads, Register(d, c)
  PROVE  /\ \A e \in Ids : Listed(e)' <=> Listed(e) \/ e = d
         /\ lock' = lock
<1>1. [source |-> c, seen |-> clock, connected |-> TRUE] \in Entry
  BY DEF Entry, TypeOK, RegistryTypeOK
<1> QED
  BY <1>1, EntryListed DEF Register, Listed, TypeOK, RegistryTypeOK

LEMMA UnregisterLists ==
  ASSUME TypeOK, NEW d \in Ids, Unregister(d)
  PROVE  /\ \A e \in Ids : Listed(e)' <=> Listed(e) /\ e # d
         /\ lock' = lock
  BY DEF Unregister, Listed, TypeOK, RegistryTypeOK

LEMMA UpdateLists ==
  ASSUME TypeOK, TypeOK', NEW d \in Ids, NEW t \in Threads,
         Listed(d), UpdateTelemetry(d, t)
  PROVE  /\ \A e \in Ids : Listed(e)' <=> Listed(e)
         /\ lock' = lock
<1>1. drones[d] \in Entry
  BY DEF Listed, TypeOK, RegistryTypeOK
<1>2. drones'[d] \in Entry
  BY <1>1 DEF UpdateTelemetry, Entry, TypeOK, RegistryTypeOK
<1> QED
  BY <1>2, EntryListed DEF UpdateTelemetry, Listed, TypeOK, RegistryTypeOK

LEMMA HeartbeatLists ==
  ASSUME TypeOK, NEW d \in Ids, Heartbeat(d)
  PROVE  /\ \A e \in Ids : Listed(e)' <=> Listed(e)
         /\ lock' = lock
<1>1. drones[d] \in Entry
  BY DEF Heartbeat, Listed, TypeOK, RegistryTypeOK
<1>2. drones'[d] \in Entry
  BY <1>1 DEF Heartbeat, Entry, TypeOK, RegistryTypeOK
<1> QED
  BY <1>2, EntryListed DEF Heartbeat, Listed, TypeOK, RegistryTypeOK

LEMMA GetActiveLists ==
  ASSUME TypeOK, GetActiveDrones
  PROVE  /\ \A e \in Ids : Listed(e)' <=> Listed(e)
         /\ lock' = lock
<1>1. ASSUME NEW d \in Ids, Listed(d) PROVE drones'[d] \in Entry
  <2>1. drones[d] \in Entry
    BY <1>1 DEF Listed, TypeOK, RegistryTypeOK
  <2>2. (clock - drones[d].seen < Timeout) \in BOOLEAN
    OBVIOUS
  <2>3. drones'[d] = [source |-> drones[d].source, seen |-> drones[d].seen,
                      connected |-> (clock - drones[d].seen < Timeout)]
    BY <1>1, <2>1 DEF GetActiveDrones, Listed, Entry
  <2> QED
    BY <2>1, <2>2, <2>3 DEF Entry
<1>2. \A d \in Ids : ~Listed(d) => drones'[d] = Absent
  BY DEF GetActiveDrones
<1> QED
  BY <1>1, <1>2, EntryListed DEF GetActiveDrones, Listed

LEMMA CarefulStep ==
  ASSUME CarefulDrones, CarefulInv, [Next]_vars
  PROVE  CarefulInv'
<1> USE DEF CarefulDrones
<1>0. TypeOK /\ TypeOK'
  BY StepTyped DEF CarefulInv
<1> DEFINE Rest == OwnChannel' /\ NotWedged' /\ ListedWhenAttached'
<1>T. /\ session \in [Sessions -> Ids \cup {NoId, Closed}]
      /\ announced \in [{"http", "mqtt"} -> SUBSET Ids]
      /\ link \in [Ids -> {"search", "listen", "update"}]
      /\ lock \in Threads \cup {Nobody}
  BY <1>0 DEF TypeOK, RegistryTypeOK
<1>drones. (UNCHANGED drones) => \A e \in Ids : Listed(e)' <=> Listed(e)
  BY DEF Listed
<1>same. (UNCHANGED registry) => lock' = lock /\ \A e \in Ids : Listed(e)' <=> Listed(e)
  BY <1>drones DEF registry
<1> USE GatewayAssumption
    DEF CarefulInv, OwnChannel, NotWedged, ListedWhenAttached, Attached
<1>1. ASSUME UNCHANGED vars PROVE Rest
  BY <1>1, <1>T, <1>drones DEF vars
<1>2. ASSUME NEW s \in Sessions, Open(s) PROVE Rest
  BY <1>2, <1>T, <1>same DEF Open
<1>3. ASSUME NEW s \in Sessions, SessionHeartbeat(s) PROVE Rest
  BY <1>0, <1>3, <1>T, HeartbeatLists DEF SessionHeartbeat
<1>4. ASSUME NEW s \in Sessions, Close(s) PROVE Rest
  <2>1. CASE session[s] \in Ids /\ Unregister(session[s])
    BY <1>0, <1>4, <1>T, <2>1, UnregisterLists DEF Close
  <2>2. CASE session[s] = NoId /\ UNCHANGED registry
    BY <1>4, <1>T, <1>same, <2>2 DEF Close
  <2> QED
    BY <1>4, <2>1, <2>2 DEF Close
<1>5. ASSUME NEW s \in Sessions, NEW d \in Channel("ws"), SessionRegister(s, d)
      PROVE  Rest
  BY <1>0, <1>5, <1>T, RegisterLists DEF SessionRegister, Channel
<1>6. ASSUME NEW s \in Sessions, NEW d \in Channel("ws"), SessionTelemetry(s, d)
      PROVE  Rest
  <2>1. session[s] = d /\ Listed(d)
    BY <1>6 DEF SessionTelemetry, Channel
  <2> QED
    BY <1>0, <1>6, <1>T, <2>1, UpdateLists DEF SessionTelemetry, Channel
<1>7. ASSUME NEW c \in {"http", "mqtt"}, NEW d \in Channel(c), Announce(c, d)
      PROVE  Rest
  BY <1>0, <1>7, <1>T, RegisterLists DEF Announce, Channel
<1>8. ASSUME NEW c \in {"http", "mqtt"}, NEW d \in Channel(c), Report(c, d)
      PROVE  Rest
  <2>1. Listed(d)
    BY <1>8 DEF Report, Channel
  <2> QED
    BY <1>0, <1>8, <1>T, <2>1, UpdateLists DEF Report, Channel
<1>9. ASSUME NEW c \in {"http", "mqtt"}, NEW d \in Channel(c), Beat(c, d)
      PROVE  Rest
  BY <1>0, <1>9, <1>T, HeartbeatLists DEF Beat, Channel
<1>10. ASSUME NEW d \in Channel("http"), Withdraw(d) PROVE Rest
  BY <1>0, <1>10, <1>T, UnregisterLists DEF Withdraw, Channel
<1>11. ASSUME List PROVE Rest
  BY <1>0, <1>11, <1>T, GetActiveLists DEF List
<1>12. ASSUME NEW d \in Channel("mavlink"), LinkFound(d) PROVE Rest
  BY <1>0, <1>12, <1>T, RegisterLists DEF LinkFound, Channel
<1>13. ASSUME NEW d \in Channel("mavlink"), LinkMessage(d) \/ LinkLost(d) PROVE Rest
  BY <1>13, <1>T, <1>same DEF LinkMessage, LinkLost, Channel
<1>14. ASSUME NEW d \in Channel("mavlink"), LinkUpdate(d) PROVE Rest
  <2>1. Listed(d)
    BY <1>14 DEF LinkUpdate, Channel
  <2> QED
    BY <1>0, <1>14, <1>T, <2>1, UpdateLists DEF LinkUpdate, Channel
<1>15. ASSUME Tick PROVE Rest
  BY <1>15, <1>T, <1>drones DEF Tick
<1> HIDE DEF Rest, CarefulInv, OwnChannel, NotWedged, ListedWhenAttached, Attached
<1>16. Rest
  BY <1>1, <1>2, <1>3, <1>4, <1>5, <1>6, <1>7, <1>8, <1>9, <1>10, <1>11, <1>12,
     <1>13, <1>14, <1>15 DEF Next, Channel
<1> QED
  BY <1>0, <1>16 DEF Rest, CarefulInv

(***************************************************************************)
(* With careful drones update_telemetry always finds its drone, so no      *)
(* thread of the gateway ever waits for a lock it holds.                   *)
(***************************************************************************)
THEOREM CarefulNeverWedge ==
  ASSUME CarefulDrones
  PROVE  Spec => []NotWedged
<1>1. Init => CarefulInv
  BY CarefulInit
<1>2. CarefulInv /\ [Next]_vars => CarefulInv'
  BY CarefulStep
<1>3. CarefulInv => NotWedged
  BY DEF CarefulInv
<1> QED
  BY <1>1, <1>2, <1>3, PTL DEF Spec

(***************************************************************************)
(* With careful drones the registry lists exactly the drones attached.     *)
(***************************************************************************)
THEOREM CarefulListed ==
  ASSUME CarefulDrones
  PROVE  Spec => []ListedWhenAttached
<1>1. Init => CarefulInv
  BY CarefulInit
<1>2. CarefulInv /\ [Next]_vars => CarefulInv'
  BY CarefulStep
<1>3. CarefulInv => ListedWhenAttached
  BY DEF CarefulInv
<1> QED
  BY <1>1, <1>2, <1>3, PTL DEF Spec
=============================================================================
