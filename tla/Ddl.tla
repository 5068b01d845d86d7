-------------------------------- MODULE Ddl ---------------------------------
(***************************************************************************)
(* Tables, views and procedures that come and go (src/db/executor.zig):    *)
(* the list of table states, the catalog and the registries beside it, the *)
(* open transactions that point into the list, and the file in which       *)
(* definitions are saved.  Statements run one at a time.                   *)
(*                                                                         *)
(* A row is known by the name of the table it was written to, and fits     *)
(* every table.  What a COMMIT does besides publishing, and how it fails,  *)
(* is in Engine.  Bodies of views and procedures are either supported or   *)
(* not.                                                                    *)
(***************************************************************************)
EXTENDS TableDef

CONSTANTS Names,        \* names of tables, views and procedures
          Sessions,
          Statements,   \* columns and indexes of CREATE TABLE statements
          Params        \* numbers of parameters of procedures

VARIABLES
  db_catalog,     \* Database.db_catalog
  tables,         \* Database.tables: TableStates, each pointing to its definition
  views,          \* Database.views
  procedures,     \* Database.procedures: the number of parameters of each
  active,         \* Session.active
  transactions,   \* Session.transactions: where the store of each one is
  saved,          \* the database file
  wild,           \* memory of no TableState has been used as one
  loud            \* history: the list has changed under an open transaction

vars == <<db_catalog, tables, views, procedures, active, transactions, saved, wild, loud>>

NoTransactions == [n \in {} |-> 0]

NameOf(k) == tables[k].name

TableNames == {NameOf(k) : k \in DOMAIN tables}

(* findTableIndex and findTableStateIndex; 0 when there is none. *)
findTableIndex(list, n) ==
  IF \E k \in DOMAIN list : list[k].name = n
    THEN CHOOSE k \in DOMAIN list : list[k].name = n
    ELSE 0

(* nameUsedOutsideTables, nameUsedOutsideViews and nameUsedOutsideProcedures *)
NameUsed(n) ==
  \/ findTableIndex(db_catalog.tables, n) # 0
  \/ n \in db_catalog.views \cup db_catalog.procedures

Init ==
  /\ db_catalog = [tables |-> <<>>, views |-> {}, procedures |-> {}]
  /\ tables = <<>>
  /\ views = {}
  /\ procedures = NoTransactions
  /\ active = [s \in Sessions |-> FALSE]
  /\ transactions = [s \in Sessions |-> NoTransactions]
  /\ saved = [tables |-> <<>>, views |-> {}, procedures |-> {}]
  /\ wild = FALSE
  /\ loud = FALSE

-----------------------------------------------------------------------------
(***************************************************************************)
(* CREATE TABLE and DROP TABLE.                                            *)
(***************************************************************************)

(* The list of table states changes: who has a transaction open notices. *)
ListChanges ==
  loud' = (loud \/ \E s \in Sessions : transactions[s] # NoTransactions)

(* ArrayList.orderedRemove: those behind move down. *)
orderedRemove(list, k) == SubSeq(list, 1, k - 1) \o SubSeq(list, k + 1, Len(list))

refreshTablePointers(states, defs) ==
  [k \in DOMAIN states |->
     [states[k] EXCEPT !.table = findTableIndex(defs, states[k].name)]]

PrimaryColumns(columns) == SelectSeq(columns, LAMBDA c : c.primary_key)

(* The TableSpec of a statement: PRIMARY KEY of columns becomes an index. *)
TableSpec(stmt) ==
  LET primary == PrimaryColumns(stmt.columns)
      index   == [name    |-> NoName,
                  columns |-> [k \in DOMAIN primary |-> primary[k].name],
                  primary |-> TRUE]
  IN  [columns |-> stmt.columns,
       indexes |-> (IF primary = <<>> THEN <<>> ELSE <<index>>) \o stmt.indexes]

ASSUME StatementsAssumption ==
  /\ \A stmt \in Statements : TableSpec(stmt) \in TableSpecs
  /\ Params \subseteq Nat

(***************************************************************************)
(* Database.createTable, when it neither finds the table (IF NOT EXISTS)   *)
(* nor returns an error.  An append may move the list, and with it the     *)
(* stores that open transactions point to.                                 *)
(***************************************************************************)
createTable(n, stmt) ==
  /\ ~wild
  /\ ~NameUsed(n)
  /\ init(TableSpec(stmt)) # Rejected
  /\ LET defs   == Append(db_catalog.tables, [name |-> n, def |-> init(TableSpec(stmt))])
         states == Append(tables, [name |-> n, rows |-> {}, table |-> Len(defs)])
     IN  /\ db_catalog' = [db_catalog EXCEPT !.tables = defs]
         /\ tables' = refreshTablePointers(states, defs)
  /\ \/ UNCHANGED transactions
     \/ transactions' = [s \in Sessions |->
          [t \in DOMAIN transactions[s] |-> [transactions[s][t] EXCEPT !.moved = TRUE]]]
  /\ ListChanges
  /\ UNCHANGED <<views, procedures, active, saved, wild>>

(* A fault: definitions move in the catalog, and the stores are not told. *)
dropTableStale(n) ==
  /\ ~wild
  /\ n \in TableNames
  /\ LET defs   == orderedRemove(db_catalog.tables, findTableIndex(db_catalog.tables, n))
         states == orderedRemove(tables, findTableIndex(tables, n))
     IN  /\ db_catalog' = [db_catalog EXCEPT !.tables = defs]
         /\ tables' = states
  /\ ListChanges
  /\ UNCHANGED <<views, procedures, active, transactions, saved, wild>>

(***************************************************************************)
(* Database.dropTable, when the table exists.  The states behind it move   *)
(* down by one; open transactions keep pointing to where they pointed.     *)
(***************************************************************************)
dropTable(n) ==
  /\ ~wild
  /\ n \in TableNames
  /\ LET defs   == orderedRemove(db_catalog.tables, findTableIndex(db_catalog.tables, n))
         states == orderedRemove(tables, findTableIndex(tables, n))
     IN  /\ db_catalog' = [db_catalog EXCEPT !.tables = defs]
         /\ tables' = refreshTablePointers(states, defs)
  /\ ListChanges
  /\ UNCHANGED <<views, procedures, active, transactions, saved, wild>>

-----------------------------------------------------------------------------
(***************************************************************************)
(* Views and procedures: first the catalog, then the registry, whose       *)
(* refusal (of a duplicate, of an unsupported body) takes the entry out of *)
(* the catalog again.                                                      *)
(***************************************************************************)

(* Database.createView *)
createView(n, supported) ==
  /\ ~wild
  /\ ~NameUsed(n)
  /\ IF supported /\ n \notin views
       THEN /\ db_catalog' = [db_catalog EXCEPT !.views = @ \cup {n}]
            /\ views' = views \cup {n}
       ELSE UNCHANGED <<db_catalog, views>>
  /\ UNCHANGED <<tables, procedures, active, transactions, saved, wild, loud>>

(* DROP VIEW, when the registry has the view. *)
dropView(n) ==
  /\ ~wild
  /\ n \in views
  /\ views' = views \ {n}
  /\ db_catalog' = [db_catalog EXCEPT !.views = @ \ {n}]
  /\ UNCHANGED <<tables, procedures, active, transactions, saved, wild, loud>>

(* Database.createProcedure *)
createProcedure(n, params, supported) ==
  /\ ~wild
  /\ ~NameUsed(n)
  /\ IF supported /\ n \notin DOMAIN procedures
       THEN /\ db_catalog' = [db_catalog EXCEPT !.procedures = @ \cup {n}]
            /\ procedures' = [p \in DOMAIN procedures \cup {n} |->
                                IF p = n THEN params ELSE procedures[p]]
       ELSE UNCHANGED <<db_catalog, procedures>>
  /\ UNCHANGED <<tables, views, active, transactions, saved, wild, loud>>

(* DROP PROCEDURE, when the registry has the procedure. *)
dropProcedure(n) ==
  /\ ~wild
  /\ n \in DOMAIN procedures
  /\ procedures' = [p \in DOMAIN procedures \ {n} |-> procedures[p]]
  /\ db_catalog' = [db_catalog EXCEPT !.procedures = @ \ {n}]
  /\ UNCHANGED <<tables, views, active, transactions, saved, wild, loud>>

-----------------------------------------------------------------------------
(***************************************************************************)
(* Transactions.                                                           *)
(***************************************************************************)

(* Session.begin *)
begin(s) ==
  /\ ~wild
  /\ ~active[s]
  /\ active' = [active EXCEPT ![s] = TRUE]
  /\ UNCHANGED <<db_catalog, tables, views, procedures, transactions, saved, wild, loud>>

(* The place that the pointer denotes holds no TableState, or not any more. *)
Dangling(pointer) == pointer.moved \/ pointer.slot > Len(tables)

(* A fault: a new transaction is given the store of the last table. *)
writeToLast(s, n) ==
  /\ ~wild
  /\ active[s]
  /\ n \in TableNames
  /\ transactions' = [transactions EXCEPT ![s] =
       [t \in DOMAIN transactions[s] \cup {n} |->
          IF t \in DOMAIN transactions[s]
            THEN transactions[s][t]
            ELSE [slot |-> Len(tables), moved |-> FALSE]]]
  /\ wild' = (n \in DOMAIN transactions[s] /\ Dangling(transactions[s][n]))
  /\ UNCHANGED <<db_catalog, tables, views, procedures, active, saved, loud>>

(***************************************************************************)
(* A statement that stages a row.  Session.transactionFor looks for a      *)
(* transaction of that name, whatever has become of the table meanwhile,   *)
(* and begins one only when there is none.                                 *)
(***************************************************************************)
write(s, n) ==
  /\ ~wild
  /\ active[s]
  /\ n \in TableNames
  /\ transactions' = [transactions EXCEPT ![s] =
       [t \in DOMAIN transactions[s] \cup {n} |->
          IF t \in DOMAIN transactions[s]
            THEN transactions[s][t]
            ELSE [slot |-> findTableIndex(tables, n), moved |-> FALSE]]]
  /\ wild' = (n \in DOMAIN transactions[s] /\ Dangling(transactions[s][n]))
  /\ UNCHANGED <<db_catalog, tables, views, procedures, active, saved, loud>>

(* The session ends its transaction. *)
clearTransactions(s) ==
  /\ active' = [active EXCEPT ![s] = FALSE]
  /\ transactions' = [transactions EXCEPT ![s] = NoTransactions]

(***************************************************************************)
(* Session.commit, when it succeeds: each transaction publishes in the     *)
(* store it points to.                                                     *)
(***************************************************************************)
commit(s) ==
  /\ ~wild
  /\ active[s]
  /\ \A t \in DOMAIN transactions[s] : ~Dangling(transactions[s][t])
  /\ tables' = refreshTablePointers(
       [k \in DOMAIN tables |-> [tables[k] EXCEPT !.rows =
          @ \cup {t \in DOMAIN transactions[s] : transactions[s][t].slot = k}]],
       db_catalog.tables)
  /\ clearTransactions(s)
  /\ UNCHANGED <<db_catalog, views, procedures, saved, wild, loud>>

(***************************************************************************)
(* Session.commit through a pointer to memory that holds no TableState:    *)
(* nothing can be said of the process from here on.                        *)
(***************************************************************************)
commitWild(s) ==
  /\ ~wild
  /\ active[s]
  /\ \E t \in DOMAIN transactions[s] : Dangling(transactions[s][t])
  /\ wild' = TRUE
  /\ UNCHANGED <<db_catalog, tables, views, procedures, active, transactions, saved, loud>>

(* Session.rollback *)
rollback(s) ==
  /\ ~wild
  /\ active[s]
  /\ clearTransactions(s)
  /\ UNCHANGED <<db_catalog, tables, views, procedures, saved, wild, loud>>

-----------------------------------------------------------------------------
(***************************************************************************)
(* The database file.  A table is saved with its definition and its rows,  *)
(* a view with its body, a procedure with its body and no parameters.      *)
(***************************************************************************)

(* Database.exportSnapshot *)
exportSnapshot ==
  [tables     |-> [k \in DOMAIN tables |->
                     [name |-> tables[k].name,
                      def  |-> cloneTableDef(db_catalog.tables[tables[k].table].def),
                      rows |-> tables[k].rows]],
   views      |-> db_catalog.views,
   procedures |-> db_catalog.procedures]

(* A fault: a definition that cannot be copied is saved all the same. *)
checkpointUnchecked ==
  /\ ~wild
  /\ saved' = [exportSnapshot EXCEPT !.tables =
       [k \in DOMAIN tables |-> [exportSnapshot.tables[k] EXCEPT !.def =
          db_catalog.tables[tables[k].table].def]]]
  /\ UNCHANGED <<db_catalog, tables, views, procedures, active, transactions, wild, loud>>

(* DatabaseHandle.checkpoint, when every definition can be copied. *)
checkpoint ==
  /\ ~wild
  /\ \A k \in DOMAIN tables : exportSnapshot.tables[k].def # Rejected
  /\ saved' = exportSnapshot
  /\ UNCHANGED <<db_catalog, tables, views, procedures, active, transactions, wild, loud>>

(* decodeTable creates the table, and initFromSnapshot copies its definition. *)
RestoredDef(def) ==
  IF init(def) = Rejected THEN Rejected ELSE cloneTableDef(init(def))

RestoredProcedures(names) == [p \in names |-> 0]

(***************************************************************************)
(* The process ends, in whatever way, and another one opens the file:      *)
(* decodeSnapshot and Database.initFromSnapshot.                           *)
(***************************************************************************)
initFromSnapshot ==
  LET defs == [k \in DOMAIN saved.tables |->
                 [name |-> saved.tables[k].name, def |-> RestoredDef(saved.tables[k].def)]]
  IN  /\ \A k \in DOMAIN defs : defs[k].def # Rejected
      /\ db_catalog' = [tables     |-> defs,
                        views      |-> saved.views,
                        procedures |-> saved.procedures]
      /\ tables' = refreshTablePointers(
           [k \in DOMAIN defs |->
              [name |-> saved.tables[k].name, rows |-> saved.tables[k].rows, table |-> k]],
           defs)
      /\ views' = saved.views
      /\ procedures' = RestoredProcedures(saved.procedures)
      /\ active' = [s \in Sessions |-> FALSE]
      /\ transactions' = [s \in Sessions |-> NoTransactions]
      /\ wild' = FALSE
      /\ UNCHANGED <<saved, loud>>

-----------------------------------------------------------------------------
Next ==
  \/ \E n \in Names :
       \/ \E stmt \in Statements : createTable(n, stmt)
       \/ dropTable(n)
       \/ \E supported \in BOOLEAN : createView(n, supported)
       \/ dropView(n)
       \/ \E params \in Params, supported \in BOOLEAN : createProcedure(n, params, supported)
       \/ dropProcedure(n)
  \/ \E s \in Sessions :
       \/ begin(s) \/ commit(s) \/ commitWild(s) \/ rollback(s)
       \/ \E n \in Names : write(s, n)
  \/ checkpoint
  \/ initFromSnapshot

Spec == Init /\ [][Next]_vars

-----------------------------------------------------------------------------
Pointers == [slot : Nat \ {0}, moved : BOOLEAN]

TypeOK ==
  /\ db_catalog \in [tables     : Seq([name : Names, def : Definitions]),
                     views      : SUBSET Names,
                     procedures : SUBSET Names]
  /\ tables \in Seq([name : Names, rows : SUBSET Names, table : Nat])
  /\ views \in SUBSET Names
  /\ DOMAIN procedures \subseteq Names
  /\ procedures \in [DOMAIN procedures -> Nat]
  /\ active \in [Sessions -> BOOLEAN]
  /\ DOMAIN transactions = Sessions
  /\ \A s \in Sessions :
       /\ DOMAIN transactions[s] \subseteq Names
       /\ transactions[s] \in [DOMAIN transactions[s] -> Pointers]
  /\ saved \in [tables     : Seq([name : Names, def : Definitions, rows : SUBSET Names]),
                views      : SUBSET Names,
                procedures : SUBSET Names]
  /\ wild \in BOOLEAN
  /\ loud \in BOOLEAN

(***************************************************************************)
(* "View lifecycle operations must preserve catalog consistency": whatever *)
(* is created, refused, dropped, saved and reopened, the catalog and the   *)
(* registries name the same tables, views and procedures, a name belongs   *)
(* to one of them only, and every store points to the definition of its    *)
(* own table.                                                              *)
(***************************************************************************)
CatalogAgrees ==
  /\ TableNames = {db_catalog.tables[k].name : k \in DOMAIN db_catalog.tables}
  /\ \A k \in DOMAIN tables :
       /\ tables[k].table \in DOMAIN db_catalog.tables
       /\ db_catalog.tables[tables[k].table].name = tables[k].name
       /\ \A j \in DOMAIN tables : tables[j].name = tables[k].name => j = k
  /\ views = db_catalog.views
  /\ DOMAIN procedures = db_catalog.procedures
  /\ views \cap TableNames = {}
  /\ DOMAIN procedures \cap (TableNames \cup views) = {}

(***************************************************************************)
(* "Committed state can be written to disk and reopened": a checkpoint     *)
(* that has succeeded can be opened, and gives back the definitions that   *)
(* it saved, although a definition is validated anew each time it is       *)
(* copied.                                                                 *)
(***************************************************************************)
FileOpens ==
  \A k \in DOMAIN saved.tables : RestoredDef(saved.tables[k].def) = saved.tables[k].def

(***************************************************************************)
(* "`COMMIT` publishes staged writes": every row is in the table that it   *)
(* was written to.  It does not hold when a table is dropped meanwhile:    *)
(* the transaction then publishes in the table that has taken its place.   *)
(***************************************************************************)
PublishedWhereStaged ==
  \A k \in DOMAIN tables : tables[k].rows \subseteq {tables[k].name}

(***************************************************************************)
(* Pointers of open transactions into Database.tables are sound as long as *)
(* no table is created or dropped while a session has written to one and   *)
(* not committed: then rows are published in the tables they were written  *)
(* to, and no pointer dangles.                                             *)
(***************************************************************************)
QuietDdlIsSafe == ~loud => ~wild /\ PublishedWhereStaged

(***************************************************************************)
(* "Committed state can be written to disk and reopened": a table that     *)
(* CREATE TABLE has accepted can be saved, and has the same definition     *)
(* when the file is opened again.  It does not hold: a definition that is  *)
(* copied is validated with the index names and the attributes that it has *)
(* got, and may be rejected.                                               *)
(***************************************************************************)
TablesReopen ==
  \A k \in DOMAIN db_catalog.tables :
    LET copy == cloneTableDef(db_catalog.tables[k].def)
    IN  copy # Rejected /\ RestoredDef(copy) = db_catalog.tables[k].def

(***************************************************************************)
(* "constrained persistent views and procedures": a procedure takes the    *)
(* parameters it was created with, also when it has been saved and opened  *)
(* again.  It does not hold: the file has no parameters.                   *)
(***************************************************************************)
ProceduresReopen == procedures = RestoredProcedures(db_catalog.procedures)
=============================================================================
