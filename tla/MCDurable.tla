----------------------------- MODULE MCDurable ------------------------------
(* Small instances of Durable. *)
EXTENDS Durable, TLC

(* A table with no row, as CREATE TABLE leaves it. *)
Empty == {InitStore}

(* A table with one row, as a reopened database has it. *)
OneRow == {[rows |-> [id \in {1} |-> v], next_id |-> 2] : v \in Values}

EmptyOrOneRow == Empty \cup OneRow

Symmetric == Permutations(Sessions) \cup Permutations(Values)
=============================================================================
