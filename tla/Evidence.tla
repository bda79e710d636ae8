----------------------------- MODULE Evidence -------------------------------
(***************************************************************************)
(* The evidence of a mission: the record a PoPWRecord object makes and     *)
(* verifies (src/dronesync/verifier.py), the bundle around it              *)
(* (src/dronesync/sensor_bundle.py), the checks of the external verifier   *)
(* (src/verify_popw.py) and the store of the export service                *)
(* (src/dronesync/popw_export.py).                                         *)
(*                                                                         *)
(* Every handler, pipeline and service makes a PoPWRecord object of its    *)
(* own, with two new keys, and registers the attestation key with the      *)
(* class; all of this is forgotten when the process stops.  Records and    *)
(* bundles go to files and outlive it.  A hash is what is hashed, and a    *)
(* signature is what is signed together with the key.                      *)
(***************************************************************************)
EXTENDS Integers, FiniteSets

CONSTANTS
  Missions,     \* mission ids
  Tracks,       \* trajectories
  Marks,        \* scores
  MaxObjects,   \* bound on the PoPWRecord objects of a process
  MaxRecords,   \* bound on the records
  MaxRuns       \* bound on the processes, one after the other

\* Scores are percentages (validator/scorer.py caps them); a process runs.
ASSUME EvidenceAssumption ==
  /\ Marks \subseteq 0 .. 100
  /\ MaxObjects \in Nat /\ MaxRecords \in Nat /\ MaxRuns \in Nat \ {0}

VARIABLES
  run,        \* number of the process
  attested,   \* attestation_count of each of its PoPWRecord objects
  trusted,    \* TEEAttestation._trusted_keys
  records,    \* the records made
  bundles,    \* the bundles packed from them
  stored      \* _popw_store: the score of each mission's proof, or -1

evidenceVars == <<run, attested, trusted, records, bundles, stored>>

Key(object) == <<run, object>>

Objects == DOMAIN attested

Attestation(object, m, t, s) ==
  [id |-> attested[object] + 1, mission |-> m, track |-> t, score |-> s, key |-> Key(object)]

Record(object, m, t, s) ==
  [mission |-> m, track |-> t, score |-> s, key |-> Key(object),
   attestation |-> Attestation(object, m, t, s),
   signed |-> <<m, t, s, attested[object] + 1>>]

EvidenceInit ==
  /\ run = 1
  /\ attested = <<>>
  /\ trusted = {}
  /\ records = {}
  /\ bundles = {}
  /\ stored = [m \in Missions |-> -1]

\* Faulty variant: the keys are registered by the first object only.
MakeObjectUntrusted ==
  /\ Cardinality(Objects) < MaxObjects
  /\ LET object == Cardinality(Objects) + 1
     IN  /\ attested' = [o \in Objects \cup {object} |-> IF o = object THEN 0 ELSE attested[o]]
         /\ trusted' = IF trusted = {} THEN {Key(object)} ELSE trusted
  /\ UNCHANGED <<run, records, bundles, stored>>

\* PoPWRecord().
MakeObject ==
  /\ Cardinality(Objects) < MaxObjects
  /\ LET object == Cardinality(Objects) + 1
     IN  /\ attested' = [o \in Objects \cup {object} |-> IF o = object THEN 0 ELSE attested[o]]
         /\ trusted' = trusted \cup {Key(object)}
  /\ UNCHANGED <<run, records, bundles, stored>>

\* create_record, which attests the mission first.
CreateRecord(object, m, t, s) ==
  /\ Cardinality(records) < MaxRecords
  /\ records' = records \cup {Record(object, m, t, s)}
  /\ attested' = [attested EXCEPT ![object] = @ + 1]
  /\ UNCHANGED <<run, trusted, bundles, stored>>

\* SensorBundle.pack: the hash covers everything else in the bundle.
PackedFields(r) == [mission |-> r.mission, track |-> r.track, score |-> r.score, att |-> r.attestation.id]

Pack(r) ==
  /\ bundles' = bundles \cup {[fields |-> PackedFields(r), hash |-> PackedFields(r)]}
  /\ UNCHANGED <<run, attested, trusted, records, stored>>

\* A second proof for a mission takes the place of the first.
SubmitProof(b) ==
  /\ stored' = [stored EXCEPT ![b.fields.mission] = b.fields.score]
  /\ UNCHANGED <<run, attested, trusted, records, bundles>>

RestartProcess ==
  /\ run < MaxRuns
  /\ run' = run + 1
  /\ attested' = <<>>
  /\ trusted' = {}
  /\ stored' = [m \in Missions |-> -1]
  /\ UNCHANGED <<records, bundles>>

EvidenceNext ==
  \/ MakeObject
  \/ \E o \in Objects, m \in Missions, t \in Tracks, s \in Marks : CreateRecord(o, m, t, s)
  \/ \E r \in records : Pack(r)
  \/ \E b \in bundles : SubmitProof(b)
  \/ RestartProcess

TeeValid(r) == r.attestation.key \in trusted

SignatureValid(r) == r.signed = <<r.mission, r.track, r.score, r.attestation.id>>

FullyVerified(r) == TeeValid(r) /\ SignatureValid(r)

\* verify in verify_popw.py: what it compares, of ten checks.
ExternallyVerified(r) ==
  /\ r.score \in 0 .. 100
  /\ r.attestation.track = r.track
  /\ r.attestation.mission = r.mission

BundleValid(b) == b.hash = b.fields

\* verify_popw of the export service; the proof it stores is hashed as stored.
ProofValid(m) == stored[m] >= 60

-----------------------------------------------------------------------------
\* The types of the records; a bundle's hash is of its own content.
EvidenceTypeOK ==
  /\ run \in 1 .. MaxRuns
  /\ Objects \subseteq 1 .. MaxObjects
  /\ \A o \in Objects : attested[o] \in 0 .. MaxRecords
  /\ trusted \subseteq (1 .. MaxRuns) \X (1 .. MaxObjects)
  /\ \A r \in records :
       /\ r.mission \in Missions /\ r.track \in Tracks /\ r.score \in Marks
       /\ r.attestation.id \in 1 .. MaxRecords
  /\ \A b \in bundles : BundleValid(b)
  /\ stored \in [Missions -> Marks \cup {-1}]

\* Every object of the process that made a record verifies it, although each
\* object has keys of its own, and the external verifier accepts it in any
\* process; after a restart no object of the package verifies it any more,
\* because the registry of trusted keys is gone (TEEAttestation.is_trusted_key).
\* Two attestations are told apart by key and number, never by number alone.  A
\* mission the export service calls valid has such a record (popw_export.py:38-57).
EvidenceAccepted ==
  /\ \A r \in records :
       /\ FullyVerified(r) <=> r.attestation.key[1] = run
       /\ ExternallyVerified(r)
       /\ \A q \in records :
            r.attestation.key = q.attestation.key /\ r.attestation.id = q.attestation.id => r = q
  /\ \A m \in Missions : ProofValid(m) =>
       \E r \in records : r.mission = m /\ r.score = stored[m] /\ ExternallyVerified(r)
=============================================================================
