----------------------------- MODULE DroneStorage -----------------------------
(***************************************************************************)
(* dronesync/storage.py, DroneStorage: one JSON file with the missions of  *)
(* a drone.  append_mission loads the file, appends, and saves the whole   *)
(* of it again: open(path, "w") empties the file, the text goes in when it *)
(* is closed, and nobody else is kept out in between.  load() of a file    *)
(* that does not parse renames it and answers an empty state; a thread     *)
(* that had the file open then writes into the renamed one.  A file that   *)
(* does not exist reads like one without missions.  The integrity hash is  *)
(* left out: it always fits a text that parses.                            *)
(***************************************************************************)
EXTENDS Integers, Sequences

CONSTANTS
  Savers,  \* threads that append missions
  Saved,   \* mission records
  Keep     \* how many missions are kept (1000)

ASSUME StorageAssumption == Keep \in Nat \ {0}

VARIABLES
  file,    \* [text, missions]: what the text is, and the missions of a whole one
  state,   \* the missions each thread has loaded and appended to
  handle   \* the file a thread is writing: "none", the "path", or a "renamed" one

storageVars == <<file, state, handle>>

Holding(missions) == [text |-> "whole", missions |-> missions]
Unreadable(text) == [text |-> text, missions |-> << >>]
Readable == file.text = "whole"

StorageTypeOK ==
  /\ file \in [text : {"whole", "empty", "garbled"}, missions : Seq(Saved)]
  /\ Len(file.missions) <= Keep
  /\ state \in [Savers -> Seq(Saved)]
  /\ handle \in [Savers -> {"none", "path", "renamed"}]

StorageInit ==
  /\ file = Holding(<< >>)
  /\ state = [t \in Savers |-> << >>]
  /\ handle = [t \in Savers |-> "none"]

LastKept(s) == SubSeq(s, IF Len(s) > Keep THEN Len(s) - Keep + 1 ELSE 1, Len(s))

\* Renaming takes the file away from under the threads that have it open.
Renamed == [u \in Savers |-> IF handle[u] = "path" THEN "renamed" ELSE handle[u]]

LoadAnd(t, missions) ==
  /\ state' = [state EXCEPT ![t] = missions]
  /\ \/ Readable /\ UNCHANGED <<file, handle>>
     \/ ~Readable /\ file' = Holding(<< >>) /\ handle' = Renamed

\* Faulty variant: the oldest missions are dropped before the new one comes in.
LoadAndAppendTrimmed(t, m) == LoadAnd(t, Append(LastKept(file.missions), m))

\* load(), and the mission appended to what it answers.
LoadAndAppend(t, m) == LoadAnd(t, LastKept(Append(file.missions, m)))

OpenToWrite(t) ==
  /\ file' = Unreadable("empty")
  /\ handle' = [handle EXCEPT ![t] = "path"]
  /\ UNCHANGED state

\* The text is written from the start of the file, and the file closed.  What
\* other threads have written since this one emptied it may stick out behind.
WriteAndClose(t) ==
  /\ \/ handle[t] = "path" /\ file' = Holding(state[t])
     \/ handle[t] = "path" /\ file.text # "empty" /\ file' = Unreadable("garbled")
     \/ handle[t] = "renamed" /\ UNCHANGED file
  /\ handle' = [handle EXCEPT ![t] = "none"]
  /\ state' = [state EXCEPT ![t] = << >>]
=============================================================================
