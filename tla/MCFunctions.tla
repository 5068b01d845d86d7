----------------------------- MODULE MCFunctions ----------------------------
(***************************************************************************)
(* The functions of the engine that have no state of their own, each one   *)
(* compared with a reference.  A state is one input of one of them;        *)
(* nothing happens in it.                                                  *)
(***************************************************************************)
EXTENDS CodecLaws, QueryLaws

CONSTANT MaxLoop

Call   == INSTANCE MCProcedure
Sql    == INSTANCE MCQuery
File   == INSTANCE MCCodec

Init ==
  \/ input \in Call!Calls
  \/ input \in Sql!SelectInputs
  \/ input \in Sql!JoinInputs
  \/ input \in Sql!GroupInputs
  \/ input \in Sql!TopKInputs
  \/ input \in File!CodecInputs

Next == UNCHANGED input

Spec == Init /\ [][Next]_input

(***************************************************************************)
(* "Caller-visible writes, rollback behavior, and committed results must   *)
(* match equivalent direct SQL statements": a CALL leaves in the caller's  *)
(* transaction the rows, and returns the count or the error, that its      *)
(* statements leave and return when they are typed one after another until *)
(* one fails, with every loop written out and stopped at the cap.          *)
(***************************************************************************)
CallIsDirectSql ==
  input.of = "call" =>
    Call!executeCall(input.active, input.stored, input.args, input.view) = Call!Direct(input)

(***************************************************************************)
(* GROUP BY puts rows together exactly when all their keys are the same,   *)
(* NULL being the same as NULL and a blob the same as nothing; every       *)
(* aggregate is that of its class, and HAVING, ORDER BY and LIMIT choose   *)
(* among the classes in the order of their first rows.  A column that is   *)
(* not in GROUP BY fails with InvalidGrouping, whatever the rows; else the *)
(* SELECT fails exactly when HAVING has a class it cannot test, ORDER BY   *)
(* two it cannot compare, or a class that is shown has no value.           *)
(***************************************************************************)
GroupsAreClasses == input.of = "group" => Sql!GroupsAgree(input)
=============================================================================
