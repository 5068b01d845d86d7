------------------------------- MODULE MCDdl --------------------------------
(* Small instances of Ddl. *)
EXTENDS Ddl, TLC

(* An INTEGER column. *)
Column(name, nullable, default_value, primary_key) ==
  [name |-> name, column_type |-> "integer", nullable |-> nullable,
   default_value |-> default_value, primary_key |-> primary_key, auto_increment |-> FALSE]

Index(name, column, primary) ==
  [name |-> name, columns |-> <<column>>, primary |-> primary]

(* (a INTEGER) *)
Plain == [columns |-> <<Column("a", TRUE, NoDefault, FALSE)>>, indexes |-> <<>>]

(* (a INTEGER PRIMARY KEY, INDEX (a)) *)
Keyed == [columns |-> <<Column("a", FALSE, NoDefault, TRUE)>>,
          indexes |-> <<Index(NoName, "a", FALSE)>>]

(* (a INTEGER, INDEX (a), INDEX (a)) *)
TwoIndexes == [columns |-> <<Column("a", TRUE, NoDefault, FALSE)>>,
               indexes |-> <<Index(NoName, "a", FALSE), Index(NoName, "a", FALSE)>>]

(* (a INTEGER DEFAULT NULL, PRIMARY KEY (a)) *)
DefaultNull == [columns |-> <<Column("a", TRUE, "null", FALSE)>>,
                indexes |-> <<Index(NoName, "a", TRUE)>>]

OneStatement == {Plain}
TwoStatements == {Keyed, DefaultNull}
AllStatements == {Plain, Keyed, TwoIndexes, DefaultNull}

Symmetric == Permutations(Names) \cup Permutations(Sessions)
=============================================================================
