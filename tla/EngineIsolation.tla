--------------------------- MODULE EngineIsolation --------------------------
(***************************************************************************)
(* The engine implements SnapshotIsolation, on any number of tables, as    *)
(* long as its commits are atomic (see Engine, CommitAtomic).  A COMMIT    *)
(* that fails on its second table or later publishes the tables it has     *)
(* reached; that is the only way in which isolation is lost, and with one  *)
(* table there is none.                                                    *)
(***************************************************************************)
EXTENDS Engine

(* The writes that a session has staged on a table. *)
StagedWrites(s, t) ==
  IF t \in DOMAIN transactions[s]
    THEN [inserts |-> transactions[s][t].inserts,
          updates |-> transactions[s][t].updates,
          deletes |-> transactions[s][t].deletes]
    ELSE [inserts |-> NoRows, updates |-> NoRows, deletes |-> {}]

(* The rows that a session has before it. *)
SnapshotRows(s, t) == IF active[s] THEN baseRows(s, t) ELSE NoRows

Isolation == INSTANCE SnapshotIsolation WITH
  db     <- [t \in Tables |-> store[t].rows],
  open   <- active,
  snap   <- [s \in Sessions |-> [t \in Tables |-> SnapshotRows(s, t)]],
  staged <- [s \in Sessions |-> [t \in Tables |-> StagedWrites(s, t)]]

(***************************************************************************)
(* "Overlapping writer sessions can commit in order without losing staged  *)
(* rows": sessions see what SnapshotIsolation lets them see.  A reader's   *)
(* rows, of all tables, are those of the time of its BEGIN, whether they   *)
(* come from the live stores or from a retained copy; a COMMIT that gets   *)
(* other row ids than it staged loses no row, neither its own nor anybody  *)
(* else's.                                                                 *)
(***************************************************************************)
Isolated == Isolation!Spec

(***************************************************************************)
(* What was on the screen is what is stored: a session that nobody has     *)
(* overtaken since its BEGIN commits, under the same ids, the very rows    *)
(* that Transaction.scanWithBase showed it of each table it wrote.         *)
(***************************************************************************)
CommitsWhatItShows ==
  [][\A s \in Sessions : \A t \in DOMAIN transactions[s] :
       /\ commit_sequence' # commit_sequence
       /\ active[s] /\ ~active'[s]
       /\ snapshot_handle[s] = commit_sequence
       => store'[t].rows = scanRowsForTable(s, t)]_vars
=============================================================================
