------------------------------ MODULE RowStore ------------------------------
(***************************************************************************)
(* The committed rows of one table (src/db/row_store.zig).                 *)
(*                                                                         *)
(* A store is the record [rows, next_id].  `rows' maps the id of every     *)
(* committed row to its value; the order of the list, which only a SELECT  *)
(* without ORDER BY can see, is left out.  A value stands for the whole    *)
(* tuple of column values, already validated against the table.            *)
(***************************************************************************)
EXTENDS Naturals

CONSTANTS Values,       \* the row values the model distinguishes
          MaxRowId      \* bound on row ids (u64 in the code)

ASSUME MaxRowIdAssumption == MaxRowId \in Nat

RowIds == 1..MaxRowId

Rows == UNION {[D -> Values] : D \in SUBSET RowIds}

NoRows == [id \in {} |-> 0]

Stores == [rows : Rows, next_id : 1..(MaxRowId + 1)]

(* A store with no row; the first id it hands out is 1. *)
InitStore == [rows |-> NoRows, next_id |-> 1]

(* RowStore.get(id) finds a row. *)
HasRow(st, id) == id \in DOMAIN st.rows

(***************************************************************************)
(* n is the value of next_id after rows with the ids in `used' went into   *)
(* st by insertWithId, in any order: each id at or above next_id moves     *)
(* next_id just past itself.                                               *)
(***************************************************************************)
IsNextRowId(n, st, used) ==
  /\ n \in {st.next_id} \cup {id + 1 : id \in used}
  /\ n >= st.next_id
  /\ \A id \in used : n > id
=============================================================================
