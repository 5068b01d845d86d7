----------------------------- MODULE SavedState -----------------------------
(***************************************************************************)
(* What a database file promises to the program that opens it.  The file   *)
(* holds one content at a time, the whole of what some checkpoint saved.   *)
(* A crash loses what was not saved.  A power cut may also bring an        *)
(* earlier content back, as long as the file system has not settled.       *)
(***************************************************************************)
CONSTANTS Contents,     \* what a database can hold
          Empty,        \* what a new one holds
          Absent,       \* no file
          Down          \* no open database

VARIABLES live,     \* what the open database holds, or Down
          saved,    \* what an open would read, or Absent
          older     \* what a power cut could put in its place

vars == <<live, saved, older>>

Init == live = Down /\ saved = Absent /\ older = {}

Open ==
  /\ live = Down
  /\ saved # Absent
  /\ live' = saved
  /\ UNCHANGED <<saved, older>>

(* A new database; the file changes with its first checkpoint. *)
Create ==
  /\ live = Down
  /\ live' = Empty
  /\ UNCHANGED <<saved, older>>

Execute ==
  /\ live # Down
  /\ live' \in Contents
  /\ UNCHANGED <<saved, older>>

(* The open database is saved; it may be closed in the same call. *)
Checkpoint ==
  /\ live # Down
  /\ live' \in {live, Down}
  /\ saved' = live
  /\ older' = (older \cup {saved}) \ {live}

(* The database is closed without saving, or its process dies. *)
Stop ==
  /\ live' = Down
  /\ UNCHANGED <<saved, older>>

Settle ==
  /\ older' = {}
  /\ UNCHANGED <<live, saved>>

PowerCut ==
  /\ live' = Down
  /\ saved' \in {saved} \cup older
  /\ older' = {}

Next == Open \/ Create \/ Execute \/ Checkpoint \/ Stop \/ Settle \/ PowerCut

Spec == Init /\ [][Next]_vars
=============================================================================
