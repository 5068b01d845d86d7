----------------------------- MODULE QuerySource ----------------------------
(***************************************************************************)
(* How SELECT finds what its sources name (src/db/query_source.zig): a     *)
(* common table expression (CTE) in scope, else a view, else a table.  The *)
(* code descends into every source of a query; a behaviour here descends   *)
(* into one of them, so that all behaviours together are the descent.      *)
(*                                                                         *)
(* A query is [ctes, sources]: the list of its CTEs, each with a name and  *)
(* a query, and the set of the leaves of its FROM clause, each the name of *)
(* something or a derived table.  A scope is the sequence of the lists     *)
(* that are visible, the innermost first; lists without a CTE are left     *)
(* out.                                                                    *)
(***************************************************************************)
EXTENDS Naturals, Sequences

CONSTANTS Tables,       \* the names of the base tables
          ViewNames,    \* names that views may have
          ViewQueries,  \* queries that views may have
          Statements,   \* queries that a session may run
          NoView,       \* in place of the query of a view that is not there
          Idle,         \* no SELECT is running
          MaxDepth      \* the depth at which no view is opened: 8 in the code

VARIABLES views,    \* the query of each view
          at        \* where the descent is: [source, scope, depth]

vars == <<views, at>>

Named(name)    == [kind |-> "base_table", name |-> name]
Derived(query) == [kind |-> "derived_table", query |-> query]

Init ==
  /\ views = [v \in ViewNames |-> NoView]
  /\ at = Idle

-----------------------------------------------------------------------------
(* The levels of the scope that hold a CTE of this name, and its places there. *)
Holds(level, name) == \E i \in DOMAIN level : level[i].name = name

First(S) == CHOOSE k \in S : \A j \in S : k <= j

(* findCte: the innermost level, and in it the first CTE, of this name. *)
findCte(scope, name) ==
  LET level == First({k \in DOMAIN scope : Holds(scope[k], name)})
      index == First({i \in DOMAIN scope[level] : scope[level][i].name = name})
  IN  [level |-> level, index |-> index]

InScope(scope, name) == \E k \in DOMAIN scope : Holds(scope[k], name)

WithLevel(ctes, scope) == IF ctes = <<>> THEN scope ELSE <<ctes>> \o scope

Outward(scope, level) == SubSeq(scope, level + 1, Len(scope))

(* A fault: a CTE is in the scope of its own query. *)
ScopeWithItself(scope, found) ==
  WithLevel(SubSeq(scope[found.level], 1, found.index), Outward(scope, found.level))

(* What the query of a CTE sees: the CTEs before it, and what is further out. *)
definition_scope(scope, found) ==
  WithLevel(SubSeq(scope[found.level], 1, found.index - 1), Outward(scope, found.level))

(***************************************************************************)
(* executeSelectScoped: one of the sources of the query is looked up in    *)
(* the scope that the query's own CTEs extend.  The depth is only compared *)
(* with MaxDepth, and counts no further.                                   *)
(***************************************************************************)
executeSelectScoped(query, parent, depth) ==
  \E s \in query.sources :
    at' = [source |-> s,
           scope  |-> WithLevel(query.ctes, parent),
           depth  |-> IF depth < MaxDepth THEN depth ELSE MaxDepth]

Running == at # Idle

IsNamed == Running /\ at.source.kind = "base_table"

Cte  == IsNamed /\ InScope(at.scope, at.source.name)
View == /\ IsNamed
        /\ ~InScope(at.scope, at.source.name)
        /\ at.source.name \in ViewNames
        /\ views[at.source.name] # NoView

-----------------------------------------------------------------------------
executeSelect ==
  /\ at = Idle
  /\ \E q \in Statements : executeSelectScoped(q, <<>>, 0)
  /\ UNCHANGED views

executeDerivedSource ==
  /\ Running
  /\ at.source.kind = "derived_table"
  /\ executeSelectScoped(at.source.query, at.scope, at.depth + 1)
  /\ UNCHANGED views

(* executeNamedSource: a CTE, however deep. *)
executeCte ==
  /\ Cte
  /\ LET found == findCte(at.scope, at.source.name)
     IN  executeSelectScoped(at.scope[found.level][found.index].query,
                             definition_scope(at.scope, found), at.depth + 1)
  /\ UNCHANGED views

(* executeNamedSource: a view, whose query sees the CTEs of the caller. *)
executeView ==
  /\ View
  /\ at.depth < MaxDepth
  /\ executeSelectScoped(views[at.source.name], at.scope, at.depth + 1)
  /\ UNCHANGED views

UnsupportedView ==
  /\ View
  /\ at.depth >= MaxDepth
  /\ at' = Idle
  /\ UNCHANGED views

(* A table, or the error that there is none: the descent is over. *)
load_base_table ==
  /\ IsNamed /\ ~Cte /\ ~View
  /\ at' = Idle
  /\ UNCHANGED views

(* Between two SELECTs: nothing checks what the query of a view names. *)
createView ==
  /\ at = Idle
  /\ \E v \in ViewNames, q \in ViewQueries :
       views[v] = NoView /\ views' = [views EXCEPT ![v] = q]
  /\ UNCHANGED at

dropView ==
  /\ at = Idle
  /\ \E v \in ViewNames : views[v] # NoView /\ views' = [views EXCEPT ![v] = NoView]
  /\ UNCHANGED at

Descend ==
  executeDerivedSource \/ executeCte \/ executeView \/ UnsupportedView \/ load_base_table

Next == executeSelect \/ Descend \/ createView \/ dropView

(* A call runs until it returns. *)
Spec == Init /\ [][Next]_vars /\ WF_vars(Descend)

-----------------------------------------------------------------------------
(***************************************************************************)
(* Every SELECT ends, with rows or an error, whatever the views and CTEs   *)
(* name: themselves, each other, or, by way of the caller's scope, a CTE   *)
(* that names the view again.                                              *)
(***************************************************************************)
SelectEnds == Running ~> at = Idle
=============================================================================
