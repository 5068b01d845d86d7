--------------------------- MODULE MCPersistence ----------------------------
(***************************************************************************)
(* Persistence with a history variable: the content of the last checkpoint *)
(* that returned without an error, or Absent.                              *)
(***************************************************************************)
EXTENDS Persistence

VARIABLE acknowledged

HInit == Init /\ acknowledged = Absent

HNext ==
  /\ Next
  /\ acknowledged' = IF rename THEN live ELSE acknowledged

HSpec == HInit /\ [][HNext]_<<vars, acknowledged>>

(***************************************************************************)
(* "A checkpoint writes a committed generation to durable storage": what a *)
(* checkpoint has saved stays in the file until the next one.              *)
(* writeSnapshot renames the file and does not sync the directory.         *)
(***************************************************************************)
CheckpointDurable == acknowledged \in {Absent, dir.path.data}
=============================================================================
