------------------------------ MODULE MCEngine ------------------------------
(* Small instances of Engine. *)
EXTENDS Engine

(* A table with no row, as CREATE TABLE leaves it. *)
Empty == {InitStore}

(* A table with one row, as a reopened database has it. *)
OneRow == {[rows |-> [id \in {1} |-> v], next_id |-> 2] : v \in Values}

EmptyOrOneRow == Empty \cup OneRow
=============================================================================
