--------------------------- MODULE DurableIsolation -------------------------
(***************************************************************************)
(* What the engine with its database file promises: SnapshotIsolation      *)
(* between restarts; a checkpoint saves the committed rows of all tables,  *)
(* and nothing that is only staged; a restart, at whatever moment, ends    *)
(* every transaction and brings back the rows of the last checkpoint.      *)
(***************************************************************************)
EXTENDS SnapshotIsolation

VARIABLE file    \* the rows of each table in the database file

SavedInit == Init /\ file = db

Statement == Next /\ UNCHANGED file

Checkpoint == file' = db /\ UNCHANGED vars

Restart == db' = file /\ NoSessions' /\ UNCHANGED file

SavedNext == Statement \/ Checkpoint \/ Restart

SavedSpec == SavedInit /\ [][SavedNext]_<<vars, file>>
=============================================================================
