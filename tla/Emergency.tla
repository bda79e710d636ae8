----------------------------- MODULE Emergency ------------------------------
(***************************************************************************)
(* The city's emergencies and a drone's last will                          *)
(* (src/dronesync/emergency.py, src/dronesync/last_will.py).               *)
(*                                                                         *)
(* An authority broadcasts an emergency and resolves it later by its id;   *)
(* drones ask whether one redirects them; a drone's periodic health check  *)
(* writes its last will when the battery or the link is about to go.       *)
(*                                                                         *)
(* Positions are points of a line, in units of 100 m.  An emergency is the *)
(* dictionary broadcast_emergency returned and keeps: who holds it sees it *)
(* change, and get_active_for_location hands out copies of it.             *)
(* check_drone_override reads only what never changes, so that it does not *)
(* matter which of these a caller shows it.                                *)
(***************************************************************************)
EXTENDS Integers, Sequences, FiniteSetsExt

CONSTANTS
  Alarms,          \* emergency types the authorities broadcast
  Works,          \* mission types the drones fly
  Sites,         \* where emergencies and drones are
  MaxEmergencies, \* bound on the broadcasts
  MaxClock,       \* bound on the clock, in seconds
  MaxChecks,      \* bound on the drones redirected or protected
  Charges,        \* battery charges, in percent
  Signals,        \* signal strengths, in percent
  MaxWills        \* bound on the last wills

\* The bounds are numbers.
ASSUME EmergencyAssumption == MaxClock \in Nat /\ MaxEmergencies \in Nat

VARIABLES
  clock,
  counter,      \* _emergency_counter
  emergencies,  \* active_emergencies
  redirected,   \* redirected_drones: the index of the emergency of each
  protected,    \* protected_drones: the drone's type and the emergency's
  answered,     \* emergencies whose authority was told RESOLVED
  charge,
  signal,
  wills         \* the last wills: cause and recovery action of each

emergencyVars == <<clock, counter, emergencies, redirected, protected, answered>>
willVars == <<charge, signal, wills>>

Near(kind) ==
  [FIRE |-> 5, ACCIDENT |-> 3, SEARCH_RESCUE |-> 10, HAZMAT |-> 8,
   MEDICAL_EMERGENCY |-> 4][kind]

Needs(kind) ==
  [FIRE |-> {"fire", "cargo", "patrol"},
   ACCIDENT |-> {"patrol", "surveillance", "cargo"},
   SEARCH_RESCUE |-> {"patrol", "surveillance", "cargo", "medical"},
   HAZMAT |-> {"hazmat", "patrol", "cargo"},
   MEDICAL_EMERGENCY |-> {"medical", "cargo"}][kind]

DroneType(work) ==
  CASE work \in {"organ_delivery", "medical_delivery"} -> "medical"
    [] work \in {"patrol", "inspection"} -> "patrol"
    [] work = "surveillance" -> "surveillance"
    [] work = "fire_support" -> "fire"
    [] work = "hazmat_support" -> "hazmat"
    [] OTHER -> "cargo"

Away(p, q) == IF p < q THEN q - p ELSE p - q

EmergencyInit ==
  /\ clock = 0
  /\ counter = 0
  /\ emergencies = <<>>
  /\ redirected = <<>>
  /\ protected = <<>>
  /\ answered = {}

Second ==
  /\ clock < MaxClock
  /\ clock' = clock + 1
  /\ UNCHANGED <<counter, emergencies, redirected, protected, answered>>

\* Faulty variant: the id is the second of the broadcast.
NewIdOfSecond == <<clock, 0>>

NewId == <<clock, counter + 1>>

Broadcast(kind, p) ==
  /\ Len(emergencies) < MaxEmergencies
  /\ counter' = counter + 1
  /\ emergencies' = Append(emergencies,
       [id |-> NewId, kind |-> kind, at |-> p, status |-> "ACTIVE"])
  /\ UNCHANGED <<clock, redirected, protected, answered>>

InRadius(i, p) == Away(p, emergencies[i].at) <= Near(emergencies[i].kind)

Suits(i, work) == DroneType(work) \in Needs(emergencies[i].kind)

\* check_drone_override for a drone that is too far away changes nothing.
Protect(i, p, work) ==
  /\ Len(redirected) + Len(protected) < MaxChecks
  /\ InRadius(i, p)
  /\ ~Suits(i, work)
  /\ protected' = Append(protected, <<DroneType(work), emergencies[i].kind>>)
  /\ UNCHANGED <<clock, counter, emergencies, redirected, answered>>

Redirect(i, p, work) ==
  /\ Len(redirected) + Len(protected) < MaxChecks
  /\ InRadius(i, p)
  /\ Suits(i, work)
  /\ redirected' = Append(redirected, i)
  /\ UNCHANGED <<clock, counter, emergencies, protected, answered>>

\* The first emergency with this id, as the loop of resolve_emergency finds it.
Found(id) ==
  CHOOSE i \in DOMAIN emergencies :
    /\ emergencies[i].id = id
    /\ \A j \in 1 .. i - 1 : emergencies[j].id # id

\* The authority of emergency i resolves it, maybe a second time.
Resolve(i) ==
  /\ emergencies' = [emergencies EXCEPT ![Found(emergencies[i].id)].status = "RESOLVED"]
  /\ answered' = answered \cup {i}
  /\ UNCHANGED <<clock, counter, redirected, protected>>

ActiveNear(p) ==
  {i \in DOMAIN emergencies : emergencies[i].status = "ACTIVE" /\ InRadius(i, p)}

EmergencyNext ==
  \/ Second
  \/ \E kind \in Alarms, p \in Sites : Broadcast(kind, p)
  \/ \E i \in DOMAIN emergencies :
       \/ \E p \in Sites, work \in Works : Protect(i, p, work) \/ Redirect(i, p, work)
       \/ Resolve(i)

-----------------------------------------------------------------------------
(* The last will of one drone in one flight. *)

WillInit ==
  /\ charge = Max(Charges)
  /\ signal = Max(Signals)
  /\ wills = <<>>

RecoveryAction(c) ==
  IF c < 5 THEN "IMMEDIATE_RETRIEVAL"
  ELSE IF c < 15 THEN "PRIORITY_RETRIEVAL"
  ELSE "SCHEDULED_RETRIEVAL"

Health(c, s) ==
  IF c < 5 THEN "CRITICAL_BATTERY"
  ELSE IF s < 10 THEN "SIGNAL_LOST"
  ELSE IF c < 15 THEN "LOW_BATTERY"
  ELSE IF s < 30 THEN "WEAK_SIGNAL"
  ELSE "OK"

FlyOn ==
  /\ charge' \in {c \in Charges : c <= charge}
  /\ signal' \in Signals
  /\ UNCHANGED wills

\* check_health keeps nothing: every check of a failing drone writes a will.
CheckHealth ==
  /\ Len(wills) < MaxWills
  /\ Health(charge, signal) \in {"CRITICAL_BATTERY", "SIGNAL_LOST"}
  /\ wills' = Append(wills, <<Health(charge, signal), RecoveryAction(charge)>>)
  /\ UNCHANGED <<charge, signal>>

WillNext == FlyOn \/ CheckHealth

-----------------------------------------------------------------------------
\* The types of what the override protocol and the last will keep; a will
\* that names the battery comes with the most urgent recovery action, from
\* the same threshold in another method.
EmergencyTypeOK ==
  /\ clock \in 0 .. MaxClock
  /\ counter = Len(emergencies)
  /\ emergencies \in Seq([id : (0 .. MaxClock) \X (1 .. MaxEmergencies), kind : Alarms,
                          at : Sites, status : {"ACTIVE", "RESOLVED"}])
  /\ redirected \in Seq(DOMAIN emergencies)
  /\ protected \in Seq({DroneType(w) : w \in Works} \X Alarms)
  /\ answered \subseteq DOMAIN emergencies
  /\ \A w \in DOMAIN wills : wills[w][1] = "CRITICAL_BATTERY" => wills[w][2] = "IMMEDIATE_RETRIEVAL"

\* An authority that was told RESOLVED has ended its own emergency: nobody who
\* asks for the emergencies near any place is shown it again.  The answer only
\* says that some emergency has the id (resolve_emergency), whatever else was
\* broadcast in the same second.
ResolvedAsAnswered ==
  \A i \in answered : \A p \in Sites : i \notin ActiveNear(p)
=============================================================================
