------------------------------ MODULE Procedure -----------------------------
(***************************************************************************)
(* CALL (src/db/executor.zig): the interpreter of stored procedures.       *)
(*                                                                         *)
(* A body is a sequence of statements; DECLARE, SET, IF and WHILE work on  *)
(* one flat environment of variables, and an SQL statement goes, with the  *)
(* variables in it replaced by their values, to the session that made the  *)
(* call.  CALL holds the database until it returns, so it is a function of *)
(* what it finds.                                                          *)
(*                                                                         *)
(* The table has one nullable INTEGER column "a".  A view is what the      *)
(* session sees of it (Transaction.scanWithBase) and the id that its next  *)
(* row takes.  Integers are not bounded here.                              *)
(***************************************************************************)
EXTENDS SqlValue, Sequences, TLC
LOCAL INSTANCE SequencesExt
LOCAL INSTANCE Functions

CONSTANT MaxLoop    \* max_procedure_loop_iterations

(***************************************************************************)
(* Expressions are tagged tuples, as values are.                           *)
(***************************************************************************)
Literal(v)        == <<"literal", v>>
Identifier(name)  == <<"identifier", name>>
Binary(op, l, r)  == <<"binary", op, l, r>>

evalBinaryValues(op, l, r) ==
  LET c == compareValues(l, r)
  IN  CASE op = "less_than" -> OrError(c, Boolean(c[2] < 0))
        [] op = "add"       -> IF l[1] = "integer" /\ r[1] = "integer" THEN Integer(l[2] + r[2])
                               ELSE Error("TypeMismatch")

(* The value of e where scope gives names their values. *)
RECURSIVE Eval(_, _, _)
Eval(e, scope, unknown) ==
  CASE e[1] = "literal"    -> e[2]
    [] e[1] = "identifier" -> IF e[2] \in DOMAIN scope THEN scope[e[2]] ELSE Error(unknown)
    [] e[1] = "binary"     ->
         LET l == Eval(e[3], scope, unknown)
             r == Eval(e[4], scope, unknown)
         IN  OrError(l, OrError(r, evalBinaryValues(e[2], l, r)))

evalProcedureExpression(env, e) == Eval(e, env, "UnknownObject")

evalExpression(row, e) == Eval(e, "a" :> row, "UnknownColumn")

(* A condition, of WHERE, IF or WHILE: TRUE, FALSE or an error. *)
AsCondition(v) == IF v[1] \in {"boolean", "error"} THEN v ELSE Error("TypeMismatch")

-----------------------------------------------------------------------------
(***************************************************************************)
(* SQL statements.                                                         *)
(***************************************************************************)

Insert(e)        == [op |-> "insert", value |-> e]
Update(e, where) == [op |-> "update", value |-> e, where |-> where]
Delete(where)    == [op |-> "delete", where |-> where]
Select(where)    == [op |-> "select", where |-> where]

SqlOps == {"insert", "update", "delete", "select"}

(* What a statement or a CALL has done: an error is a string, "" is none. *)
Outcome(view, count, error) == [view |-> view, count |-> count, error |-> error]

Failed(view, error) == Outcome(view, 0, error)

(* The type of the column, and of the parameters: INTEGER, or NULL. *)
acceptsValue(v) ==
  IF v[1] \in {"integer", "null", "error"} THEN v ELSE Error("TypeMismatch")

(* rowValuesForInsert takes literals only. *)
rowValuesForInsert(e) ==
  IF e[1] = "literal" THEN acceptsValue(e[2]) ELSE Error("UnsupportedExpression")

executeInsert(st, view) ==
  LET v == rowValuesForInsert(st.value)
  IN  IF IsError(v) THEN Failed(view, v[2])
      ELSE Outcome([rows    |-> view.rows @@ (view.next_id :> v),
                    next_id |-> view.next_id + 1], 1, "")

(* A row that matches, as the loops of UPDATE and of DELETE treat it. *)
updateRow(st, id, done) ==
  LET v == acceptsValue(evalExpression(done.view.rows[id], st.value))
  IN  IF IsError(v) THEN [done EXCEPT !.error = v[2]]
      ELSE [done EXCEPT !.view.rows[id] = v, !.count = @ + 1]

deleteRow(st, id, done) ==
  [done EXCEPT !.view.rows = Restrict(@, DOMAIN @ \ {id}), !.count = @ + 1]

selectRow(st, id, done) == done

(* The loop over the rows scanned at its start; an error leaves what was done. *)
ForMatchingRows(st, view, Row(_, _, _)) ==
  LET Turn(done, id) ==
        LET match == AsCondition(evalExpression(done.view.rows[id], st.where))
        IN  CASE done.error # ""                            -> done
              [] done.error = "" /\ IsError(match)          -> [done EXCEPT !.error = match[2]]
              [] done.error = "" /\ match = Boolean(FALSE)  -> done
              [] done.error = "" /\ match = Boolean(TRUE)   -> Row(st, id, done)
  IN  FoldLeft(Turn, Outcome(view, 0, ""), SetToSortSeq(DOMAIN view.rows, <))

(* Database.executeStatement for the statements a body may hold. *)
executeStatement(active, st, view) ==
  IF st.op # "select" /\ ~active THEN Failed(view, "TransactionRequired")
  ELSE CASE st.op = "insert" -> executeInsert(st, view)
         [] st.op = "update" -> ForMatchingRows(st, view, updateRow)
         [] st.op = "delete" -> ForMatchingRows(st, view, deleteRow)
         [] st.op = "select" -> ForMatchingRows(st, view, selectRow)

-----------------------------------------------------------------------------
(***************************************************************************)
(* Procedure bodies.  The state of a run is the environment, which maps    *)
(* the names declared so far to values, with the outcome so far.           *)
(***************************************************************************)

Declare(name, e)   == [op |-> "declare_var", name |-> name, value |-> e]
Set(name, e)       == [op |-> "set_var", name |-> name, value |-> e]
If(c, then, else)  == [op |-> "if_statement", condition |-> c, then |-> then, else |-> else]
While(c, body)     == [op |-> "while_statement", condition |-> c, body |-> body]

RECURSIVE materializeProcedureExpression(_, _)
materializeProcedureExpression(e, env) ==
  CASE e[1] = "literal"    -> e
    [] e[1] = "identifier" -> IF e[2] \in DOMAIN env THEN Literal(env[e[2]]) ELSE e
    [] e[1] = "binary"     -> Binary(e[2], materializeProcedureExpression(e[3], env),
                                           materializeProcedureExpression(e[4], env))

(* Every expression of the statement, with the variables' values in it. *)
materializeProcedureStatement(st, env) ==
  [field \in DOMAIN st |->
     IF field = "op" THEN st.op ELSE materializeProcedureExpression(st[field], env)]

Fail(s, kind) == [s EXCEPT !.out.error = kind]

(* "try": the run goes on with v unless v is an error. *)
Try(s, v, Then(_)) == IF IsError(v) THEN Fail(s, v[2]) ELSE Then(v)

Unless(s, t) == IF s.out.error # "" THEN s ELSE t

(* ProcedureEnv.declare and ProcedureEnv.set *)
declare(s, name, v) ==
  IF name \in DOMAIN s.env THEN Fail(s, "DuplicateObject")
  ELSE [s EXCEPT !.env = @ @@ (name :> v)]

set(s, name, v) ==
  IF name \in DOMAIN s.env THEN [s EXCEPT !.env[name] = v]
  ELSE Fail(s, "UnknownObject")

executeSql(active, st, s) ==
  LET r == executeStatement(active, materializeProcedureStatement(st, s.env), s.out.view)
  IN  [s EXCEPT !.out = Outcome(r.view, s.out.count + r.count, r.error)]

RECURSIVE executeProcedureBody(_, _, _), executeProcedureStatement(_, _, _),
          executeWhile(_, _, _, _)

(* A fault: the loop may take one turn too many. *)
executeWhileLate(active, st, s, iterations) ==
  Try(s, AsCondition(evalProcedureExpression(s.env, st.condition)), LAMBDA c :
    IF ~c[2] THEN s
    ELSE IF iterations > MaxLoop THEN Fail(s, "UnsupportedProcedure")
    ELSE LET t == executeProcedureBody(active, st.body, s)
         IN  Unless(t, executeWhile(active, st, t, iterations + 1)))

(* The loop, after so many turns of it. *)
executeWhile(active, st, s, iterations) ==
  Try(s, AsCondition(evalProcedureExpression(s.env, st.condition)), LAMBDA c :
    IF ~c[2] THEN s
    ELSE IF iterations >= MaxLoop THEN Fail(s, "UnsupportedProcedure")
    ELSE LET t == executeProcedureBody(active, st.body, s)
         IN  Unless(t, executeWhile(active, st, t, iterations + 1)))

executeProcedureStatement(active, st, s) ==
  CASE st.op = "declare_var" ->
         Try(s, evalProcedureExpression(s.env, st.value), LAMBDA v : declare(s, st.name, v))
    [] st.op = "set_var" ->
         Try(s, evalProcedureExpression(s.env, st.value), LAMBDA v : set(s, st.name, v))
    [] st.op \in SqlOps -> executeSql(active, st, s)
    [] st.op = "if_statement" ->
         Try(s, AsCondition(evalProcedureExpression(s.env, st.condition)),
             LAMBDA c : executeProcedureBody(active, IF c[2] THEN st.then ELSE st.else, s))
    [] st.op = "while_statement" -> executeWhile(active, st, s, 0)

executeProcedureBody(active, body, s) ==
  FoldLeft(LAMBDA t, st : Unless(t, executeProcedureStatement(active, st, t)), s, body)

(***************************************************************************)
(* Arguments are evaluated one by one, each in the environment that holds  *)
(* the parameters before it.                                               *)
(***************************************************************************)
Bind(params, args, view) ==
  FoldLeft(LAMBDA s, i :
             Unless(s, Try(s, acceptsValue(evalProcedureExpression(s.env, args[i])),
                           LAMBDA v : declare(s, params[i], v))),
           [env |-> << >>, out |-> Outcome(view, 0, "")],
           [i \in 1..Len(params) |-> i])

executeCall(active, stored, args, view) ==
  IF Len(args) # Len(stored.params) THEN Failed(view, "ColumnCountMismatch")
  ELSE LET s == Bind(stored.params, args, view)
       IN  Unless(s, executeProcedureBody(active, stored.body, s)).out
=============================================================================
