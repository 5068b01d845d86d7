------------------------- MODULE SnapshotIsolation --------------------------
(***************************************************************************)
(* What the engine promises the sessions that share its tables, without    *)
(* generations, retained copies, reference counts or queues:               *)
(*                                                                         *)
(*   - a transaction reads the rows committed when it began, and its own   *)
(*     writes, however many others commit meanwhile;                       *)
(*   - COMMIT applies its staged writes to the rows committed by then, on  *)
(*     all tables in one step, and touches no other row; staged inserts    *)
(*     keep their values and get ids of their own;                         *)
(*   - nothing else changes the committed rows.                            *)
(*                                                                         *)
(* It is snapshot isolation without a rule against write-write conflicts:  *)
(* a COMMIT may overwrite a row that another one updated after the         *)
(* snapshot was taken.                                                     *)
(***************************************************************************)
CONSTANTS Sessions, Tables, RowIds, Values

VARIABLES db,       \* the committed rows of each table: id -> value
          open,     \* the sessions that have a transaction
          snap,     \* the rows committed when it began
          staged    \* the writes it has staged on each table

vars == <<db, open, snap, staged>>

Rows == UNION {[D -> Values] : D \in SUBSET RowIds}

NoRows == [id \in {} |-> 0]

Writes == [inserts : Rows, updates : Rows, deletes : SUBSET RowIds]

NoWrites == [inserts |-> NoRows, updates |-> NoRows, deletes |-> {}]

(* Writes that mean something to a session that reads base. *)
WellStaged(w, base) ==
  /\ DOMAIN w.inserts \cap DOMAIN base = {}
  /\ w.deletes \subseteq DOMAIN base
  /\ DOMAIN w.updates \subseteq DOMAIN base \ w.deletes

(* new is old with the writes w applied, and differs from it nowhere else. *)
Applies(w, old, new) ==
  LET kept == DOMAIN old \ w.deletes
  IN  /\ w.deletes \subseteq DOMAIN old
      /\ DOMAIN w.updates \subseteq kept
      /\ \E ids \in [DOMAIN w.inserts -> RowIds \ kept] :
           /\ DOMAIN new = kept \cup {ids[i] : i \in DOMAIN w.inserts}
           /\ \A i, j \in DOMAIN w.inserts : ids[i] = ids[j] => i = j
           /\ \A i \in DOMAIN w.inserts : new[ids[i]] = w.inserts[i]
           /\ \A id \in kept :
                new[id] = IF id \in DOMAIN w.updates THEN w.updates[id] ELSE old[id]

NoSessions ==
  /\ open = [s \in Sessions |-> FALSE]
  /\ snap = [s \in Sessions |-> [t \in Tables |-> NoRows]]
  /\ staged = [s \in Sessions |-> [t \in Tables |-> NoWrites]]

Init == db \in [Tables -> Rows] /\ NoSessions

Begin(s) ==
  /\ ~open[s]
  /\ open' = [open EXCEPT ![s] = TRUE]
  /\ snap' = [snap EXCEPT ![s] = db]
  /\ UNCHANGED <<db, staged>>

Write(s) ==
  /\ open[s]
  /\ UNCHANGED <<open, db, snap>>
  /\ staged' = [staged EXCEPT ![s] = staged'[s]]
  /\ staged'[s] \in [Tables -> Writes]
  /\ \A t \in Tables : WellStaged(staged'[s][t], snap[s][t])

Close(s) ==
  /\ open[s]
  /\ open' = [open EXCEPT ![s] = FALSE]
  /\ snap' = [snap EXCEPT ![s] = [t \in Tables |-> NoRows]]
  /\ staged' = [staged EXCEPT ![s] = [t \in Tables |-> NoWrites]]

Commit(s) ==
  /\ Close(s)
  /\ \A t \in Tables : Applies(staged[s][t], db[t], db'[t])

Rollback(s) == Close(s) /\ UNCHANGED db

Next == \E s \in Sessions : Begin(s) \/ Write(s) \/ Commit(s) \/ Rollback(s)

Spec == Init /\ [][Next]_vars
=============================================================================
