---------------------------- MODULE DroneRegistry ----------------------------
(***************************************************************************)
(* dronesync/drone_registry.py: the table of drones all transports of the  *)
(* gateway share.  Every method body runs under one threading.Lock, which  *)
(* is not reentrant, so a method is one step that needs the lock free; the *)
(* one exception is update_telemetry of an unknown drone, which calls      *)
(* register while it holds the lock and never returns.                     *)
(***************************************************************************)
EXTENDS Integers

CONSTANTS
  Ids,      \* drone ids
  Threads,  \* the gateway's threads; also the "source" a drone registers with
  Timeout,  \* HEARTBEAT_TIMEOUT
  Nobody,   \* no thread
  Absent    \* no entry for the drone

ASSUME RegistryAssumption ==
  /\ Timeout \in Nat \ {0}
  /\ Nobody \notin Threads
  /\ Absent \notin [source: Threads, seen: Nat, connected: BOOLEAN]

VARIABLES
  drones,   \* _drones: source, last_seen and connected of every entry
  lock,     \* _lock: the thread holding it
  clock     \* int(time.time())

registry == <<drones, lock, clock>>

Entry == [source: Threads, seen: Nat, connected: BOOLEAN]

RegistryTypeOK ==
  /\ drones \in [Ids -> Entry \cup {Absent}]
  /\ lock \in Threads \cup {Nobody}
  /\ clock \in Nat

\* Nothing has been heard from in the future.
SeenInPast == \A d \in Ids : drones[d] # Absent => drones[d].seen <= clock

RegistryInit ==
  /\ drones = [d \in Ids |-> Absent]
  /\ lock = Nobody
  /\ clock = 0

Listed(d) == drones[d] # Absent

\* Faulty variant: last_seen holds the time at which the entry expires.
RegisterExpiry(d, source) ==
  /\ lock = Nobody
  /\ drones' = [drones EXCEPT
                  ![d] = [source |-> source, seen |-> clock + Timeout,
                          connected |-> TRUE]]
  /\ UNCHANGED <<lock, clock>>

\* register(): the entry is replaced, whoever made it.
Register(d, source) ==
  /\ lock = Nobody
  /\ drones' = [drones EXCEPT
                  ![d] = [source |-> source, seen |-> clock, connected |-> TRUE]]
  /\ UNCHANGED <<lock, clock>>

\* unregister(), which also answers when there is nothing to remove.
Unregister(d) ==
  /\ lock = Nobody
  /\ drones' = [drones EXCEPT ![d] = Absent]
  /\ UNCHANGED <<lock, clock>>

\* update_telemetry() called by thread t.  The nested register() waits for the
\* lock its own caller holds.
UpdateTelemetry(d, t) ==
  /\ lock = Nobody
  /\ \/ /\ Listed(d)
        /\ drones' = [drones EXCEPT ![d].seen = clock, ![d].connected = TRUE]
        /\ UNCHANGED <<lock, clock>>
     \/ /\ ~Listed(d)
        /\ lock' = t
        /\ UNCHANGED <<drones, clock>>

\* heartbeat(): last_seen only; the connected flag stays as it is.
Heartbeat(d) ==
  /\ lock = Nobody
  /\ Listed(d)
  /\ drones' = [drones EXCEPT ![d].seen = clock]
  /\ UNCHANGED <<lock, clock>>

\* get_active_drones(): the only place where a drone is marked offline.
GetActiveDrones ==
  /\ lock = Nobody
  /\ drones' = [d \in Ids |->
                  IF Listed(d)
                  THEN [drones[d] EXCEPT !.connected = (clock - drones[d].seen < Timeout)]
                  ELSE Absent]
  /\ UNCHANGED <<lock, clock>>
=============================================================================
