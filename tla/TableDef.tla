------------------------------ MODULE TableDef ------------------------------
(***************************************************************************)
(* Definitions of tables (src/db/catalog.zig): how CREATE TABLE, and       *)
(* everything that copies a definition, validates columns and indexes.     *)
(* A default value is known by its type.                                   *)
(***************************************************************************)
EXTENDS Naturals, Sequences

CONSTANTS Identifiers,  \* names of columns and indexes
          NoName,       \* an index name of null
          NoDefault,    \* a default_value of null: the column has none
          Rejected      \* what TableDef.init gives when it returns an error

ASSUME NullsAssumption ==
  /\ "PRIMARY" \in Identifiers
  /\ NoName \notin Identifiers

Types == {"integer", "text"}

(* A ColumnSpec and a ColumnDef have the same fields. *)
ColumnSpecs ==
  [name : Identifiers, column_type : Types, nullable : BOOLEAN,
   default_value : Types \cup {"null", NoDefault},
   primary_key : BOOLEAN, auto_increment : BOOLEAN]

(* The index of an IndexDef always has a name; that of an IndexSpec may not. *)
IndexSpecs(names) ==
  [name : names, columns : Seq(Identifiers), primary : BOOLEAN]

Definitions ==
  [columns : Seq(ColumnSpecs), indexes : Seq(IndexSpecs(Identifiers))]

(* What a TableDef is made from. *)
TableSpecs ==
  [columns : Seq(ColumnSpecs), indexes : Seq(IndexSpecs(Identifiers \cup {NoName}))]

ASSUME RejectedAssumption == Rejected \notin Definitions

effectiveNullable(c) == c.nullable /\ ~c.primary_key /\ ~c.auto_increment

(* ColumnDef.init, when it returns no error. *)
DefaultAccepted(c) ==
  \/ c.default_value = NoDefault
  \/ c.default_value = "null" /\ effectiveNullable(c)
  \/ c.default_value = c.column_type

validateColumns(columns) ==
  \A k \in DOMAIN columns :
    /\ columns[k].auto_increment => columns[k].column_type = "integer"
    /\ \A j \in 1..(k - 1) : columns[j].name # columns[k].name

(***************************************************************************)
(* Two names are compared only when both are given: what an index without  *)
(* a name will be called does not count.                                   *)
(***************************************************************************)
validateIndexes(columns, indexes) ==
  \A k \in DOMAIN indexes :
    /\ \A j \in 1..(k - 1) :
         /\ ~(indexes[j].primary /\ indexes[k].primary)
         /\ indexes[k].name # NoName => indexes[j].name # indexes[k].name
    /\ \A i \in DOMAIN indexes[k].columns :
         \E c \in DOMAIN columns : columns[c].name = indexes[k].columns[i]

(* IndexDef.init *)
IndexDef(index) ==
  [index EXCEPT !.name =
     IF index.name # NoName THEN index.name
     ELSE IF index.primary THEN "PRIMARY" ELSE index.columns[1]]

(* The column is one of the primary index. *)
InPrimary(column, indexes) ==
  \E k \in DOMAIN indexes :
    /\ indexes[k].primary
    /\ \E i \in DOMAIN indexes[k].columns : indexes[k].columns[i] = column.name

(* ColumnDef.init, and what the loop over the indexes changes afterwards. *)
ColumnDef(column, indexes) ==
  [column EXCEPT
     !.nullable    = effectiveNullable(column) /\ ~InPrimary(column, indexes),
     !.primary_key = @ \/ InPrimary(column, indexes)]

(* TableDef.init *)
init(spec) ==
  IF /\ validateColumns(spec.columns)
     /\ validateIndexes(spec.columns, spec.indexes)
     /\ \A k \in DOMAIN spec.columns : DefaultAccepted(spec.columns[k])
     /\ \A k \in DOMAIN spec.indexes : spec.indexes[k].columns # <<>>
    THEN [columns |-> [k \in DOMAIN spec.columns |->
                         ColumnDef(spec.columns[k], spec.indexes)],
          indexes |-> [k \in DOMAIN spec.indexes |-> IndexDef(spec.indexes[k])]]
    ELSE Rejected

(***************************************************************************)
(* cloneTableDef: a definition goes through TableDef.init once more, with  *)
(* the names that its indexes have got and the attributes that its columns *)
(* have got.                                                               *)
(***************************************************************************)
cloneTableDef(def) == init(def)
=============================================================================
