----------------------------- MODULE MCProcedure ----------------------------
(***************************************************************************)
(* Calls of procedures, and the direct SQL that each of them stands for.   *)
(***************************************************************************)
EXTENDS Procedure, FiniteSets
LOCAL INSTANCE SequencesExt

-----------------------------------------------------------------------------
(***************************************************************************)
(* The calls: parameters with arguments, and bodies of one to three        *)
(* statements over a parameter p, a variable x and the column a.           *)
(***************************************************************************)
P == Identifier("p")
X == Identifier("x")
A == Identifier("a")
Two == Literal(Integer(2))

Bindings ==
  { <<<<"p">>, <<Two>>>>,
    <<<<"p">>, <<Literal(Null)>>>>,
    <<<<"p">>, <<Literal(Boolean(TRUE))>>>>,
    <<<<"p">>, <<>>>>,
    <<<<"p", "x">>, <<Two, P>>>>,
    <<<<"p", "p">>, <<Two, Two>>>>,
    <<<<"p", "x">>, <<X, Two>>>> }

Declares == {Declare("x", Literal(Integer(0))), Declare("x", Literal(Null)), Declare("a", P)}
Step     == Set("x", Binary("add", X, Literal(Integer(1))))
Writes   == {Insert(X), Insert(Binary("add", X, P)), Delete(Binary("less_than", A, X)),
             Update(Binary("add", A, X), Binary("less_than", A, P))}
Simple   == Declares \cup Writes \cup {Step, Set("x", A), Select(Binary("less_than", X, A))}
Conditions == {Binary("less_than", X, P), Literal(Boolean(TRUE)), Literal(Integer(1))}

Loops    == {While(c, <<st, Step>>) : c \in Conditions, st \in Simple}
Branches == {If(c, <<st>>, <<Step>>) : c \in Conditions, st \in Simple \cup Loops}
Nested   == {While(Binary("less_than", X, P), <<st, Step>>) : st \in Branches \cup Loops}

Bodies == {<<first, st, Insert(X)>> : first \in Simple, st \in Loops \cup Branches \cup Nested}
            \cup {<<Declare("x", Literal(Integer(0))), If(c, <<>>, <<>>), st>> :
                    c \in Conditions, st \in Simple \cup Loops}

Views == { [rows |-> 1 :> Integer(1) @@ 2 :> Integer(0), next_id |-> 3],
           [rows |-> 1 :> Integer(0) @@ 2 :> Null @@ 3 :> Integer(1), next_id |-> 5] }

Calls ==
  {[of |-> "call", stored |-> [params |-> b[1], body |-> body], args |-> b[2],
    active |-> active, view |-> view] :
     b \in Bindings, body \in Bodies, active \in BOOLEAN, view \in Views}

-----------------------------------------------------------------------------
(***************************************************************************)
(* The reference: what a reader of the body would type instead of CALL.    *)
(* A loop stands for MaxLoop copies of its body, each under the condition, *)
(* and an error when that is not enough; no statement of a body reads the  *)
(* table into a variable, so what there is to type is known beforehand.    *)
(***************************************************************************)
RECURSIVE Unrolled(_, _)
Unrolled(loop, turns) ==
  <<If(loop.condition,
       IF turns = 0 THEN <<[op |-> "stop"]>> ELSE loop.body \o Unrolled(loop, turns - 1),
       <<>>)>>

(* The statements to type from here on, each with the variables there are then, and what ends them. *)
RECURSIVE Script(_, _, _)
Script(body, env, typed) ==
  IF body = <<>> THEN [typed |-> typed, error |-> ""]
  ELSE
    LET st   == Head(body)
        rest == Tail(body)
        v    == evalProcedureExpression(env, st.value)
        c    == evalProcedureExpression(env, st.condition)
        Ends(kind) == [typed |-> typed, error |-> kind]
    IN  CASE st.op = "stop"            -> Ends("UnsupportedProcedure")
          [] st.op = "while_statement" -> Script(Unrolled(st, MaxLoop) \o rest, env, typed)
          [] st.op \in SqlOps          -> Script(rest, env, Append(typed, <<st, env>>))
          [] st.op = "if_statement" ->
               IF IsError(c) THEN Ends(c[2])
               ELSE IF c[1] # "boolean" THEN Ends("TypeMismatch")
               ELSE Script((IF c[2] THEN st.then ELSE st.else) \o rest, env, typed)
          [] st.op \in {"parameter", "declare_var"} ->
               IF IsError(v) THEN Ends(v[2])
               ELSE IF st.op = "parameter" /\ v[1] = "boolean" THEN Ends("TypeMismatch")
               ELSE IF st.name \in DOMAIN env THEN Ends("DuplicateObject")
               ELSE Script(rest, (st.name :> v) @@ env, typed)
          [] st.op = "set_var" ->
               IF IsError(v) THEN Ends(v[2])
               ELSE IF st.name \notin DOMAIN env THEN Ends("UnknownObject")
               ELSE Script(rest, (st.name :> v) @@ env, typed)

(* A name stands for the variable that has it, a column's name too. *)
Means(e, env, row) == Eval(e, env @@ ("a" :> row), "UnknownColumn")

(* What goes wrong with one row under UPDATE, DELETE or SELECT: "" if nothing. *)
RowError(st, env, row) ==
  LET where == Means(st.where, env, row)
      value == Means(st.value, env, row)
  IN  IF IsError(where) THEN where[2]
      ELSE IF where[1] # "boolean" THEN "TypeMismatch"
      ELSE IF st.op # "update" \/ ~where[2] THEN ""
      ELSE IF IsError(value) THEN value[2]
      ELSE IF value[1] = "boolean" THEN "TypeMismatch" ELSE ""

(* The rows that match are changed, up to the first that something goes wrong with. *)
TypeOnRows(st, env, view) ==
  LET rows    == view.rows
      bad     == {id \in DOMAIN rows : RowError(st, env, rows[id]) # ""}
      reached == {id \in DOMAIN rows : \A b \in bad : id < b}
      hit     == {id \in reached : Means(st.where, env, rows[id]) = Boolean(TRUE)}
      left    == IF st.op = "delete" THEN DOMAIN rows \ hit ELSE DOMAIN rows
  IN  Outcome([view EXCEPT !.rows = [id \in left |->
                  IF id \in hit /\ st.op = "update" THEN Means(st.value, env, rows[id]) ELSE rows[id]]],
              IF st.op = "select" THEN 0 ELSE Cardinality(hit),
              IF bad = {} THEN ""
              ELSE RowError(st, env, rows[CHOOSE b \in bad : \A c \in bad : b <= c]))

(* INSERT takes a literal or a variable. *)
TypeInsert(st, env, view) ==
  LET v == evalProcedureExpression(env, st.value)
  IN  IF st.value[1] = "binary" \/ IsError(v) THEN Outcome(view, 0, "UnsupportedExpression")
      ELSE IF v[1] = "boolean" THEN Outcome(view, 0, "TypeMismatch")
      ELSE Outcome([rows    |-> (view.next_id :> v) @@ view.rows,
                    next_id |-> view.next_id + 1], 1, "")

Type(active, st, env, view) ==
  IF st.op # "select" /\ ~active THEN Outcome(view, 0, "TransactionRequired")
  ELSE IF st.op = "insert" THEN TypeInsert(st, env, view) ELSE TypeOnRows(st, env, view)

(* The parameters are variables declared first; a wrong call types nothing. *)
Direct(c) ==
  LET params == [i \in DOMAIN c.args |-> [op   |-> "parameter", name |-> c.stored.params[i],
                                          value |-> c.args[i]]]
      script == Script(params \o c.stored.body, << >>, <<>>)
      Typing(done, t) ==
        LET r == Type(c.active, t[1], t[2], done.view)
        IN  IF done.error # "" THEN done ELSE Outcome(r.view, done.count + r.count, r.error)
      typed  == FoldLeft(Typing, Outcome(c.view, 0, ""), script.typed)
  IN  IF Len(c.args) # Len(c.stored.params) THEN Outcome(c.view, 0, "ColumnCountMismatch")
      ELSE IF typed.error # "" THEN typed
      ELSE [typed EXCEPT !.error = script.error]
=============================================================================
