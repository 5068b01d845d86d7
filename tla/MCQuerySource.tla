---------------------------- MODULE MCQuerySource ---------------------------
(***************************************************************************)
(* Queries over two names, which views and CTEs share, and one table.      *)
(***************************************************************************)
EXTENDS QuerySource

Leaves == {Named(n) : n \in ViewNames \cup Tables}

Plain(sources) == [ctes |-> <<>>, sources |-> sources]

Ctes == {[name |-> n, query |-> Plain({s})] : n \in ViewNames, s \in Leaves}

(* One source under at most one CTE. *)
OneCte == {[ctes |-> c, sources |-> {s}] : c \in {<<>>} \cup {<<d>> : d \in Ctes}, s \in Leaves}

(***************************************************************************)
(* A join of everything in a derived table, under two CTEs, the second of  *)
(* which may have a CTE of its own.  The names are interchangeable, so the *)
(* first has a fixed one.                                                  *)
(***************************************************************************)
Deep == {[ctes |-> <<c, [name |-> n, query |-> q]>>, sources |-> {Derived(Plain(Leaves))}] :
           c \in {d \in Ctes : d.name = "a"}, n \in ViewNames, q \in OneCte}
=============================================================================
