---------------------------- MODULE Persistence -----------------------------
(***************************************************************************)
(* The database file (src/db/persistence.zig) under the two owners that    *)
(* write it: DatabaseHandle (src/abi/handles.zig) and the facade Database  *)
(* (src/db/database.zig).  One of them is open at a time, and its calls do *)
(* not overlap.  writeSnapshot is one action for each call that it makes   *)
(* on the directory, so that an error, a crash or a power cut can come     *)
(* between any two of them.                                                *)
(*                                                                         *)
(* A content is a whole DatabaseSnapshot.  Bytes that decodeSnapshot       *)
(* refuses, by header, length or checksum, are Torn.                       *)
(***************************************************************************)
EXTENDS FiniteSets, Naturals

CONSTANTS Contents,     \* the committed states of a database
          Empty,        \* the state of a new one
          Absent,       \* no file
          Torn,         \* a file that readSnapshot refuses
          Down,         \* no open database
          MaxUnsettled  \* bound on the directories that a power cut may bring back

ASSUME ContentsAssumption ==
  /\ Empty \in Contents
  /\ Absent \notin Contents
  /\ Torn \notin Contents \cup {Absent}
  /\ Down \notin Contents

VARIABLES
  dir,        \* the directory: the files at path and at path.tmp
  journal,    \* earlier directories that a power cut may bring back
  live,       \* the committed state in memory, or Down
  phase,      \* how far writeSnapshot has come
  caller      \* who called it

vars == <<dir, journal, live, phase, caller>>

Files == [data : Contents \cup {Absent, Torn}, synced : BOOLEAN]

NoFile == [data |-> Absent, synced |-> TRUE]

Phases == {"idle", "encoded", "deleted", "created", "written", "synced"}

TypeOK ==
  /\ dir \in [path : Files, tmp : Files]
  /\ journal \subseteq [path : Files, tmp : Files]
  /\ live \in Contents \cup {Down}
  /\ phase \in Phases
  /\ caller \in {"checkpoint", "create", "close"}

Init ==
  /\ dir = [path |-> NoFile, tmp |-> NoFile]
  /\ journal = {}
  /\ live = Down
  /\ phase = "idle"
  /\ caller = "checkpoint"

-----------------------------------------------------------------------------
(***************************************************************************)
(* The file system (external).  writeSnapshot syncs the file and not the   *)
(* directory: what it does to the directory is in order and atomic, but a  *)
(* power cut may undo the latest of it.                                    *)
(***************************************************************************)

ChangeDir(d) ==
  /\ dir' = d
  /\ journal' = journal \cup {dir}
  /\ Cardinality(journal') <= MaxUnsettled

(* What a power cut leaves of a file. *)
Survivors(f) ==
  {g \in Files : g.synced /\ (g.data = f.data \/ (~f.synced /\ g.data = Torn))}

Settle ==
  /\ journal # {}
  /\ journal' = {}
  /\ UNCHANGED <<dir, live, phase, caller>>

PowerCut ==
  /\ \E d \in journal \cup {dir} :
       \E p \in Survivors(d.path), t \in Survivors(d.tmp) :
         dir' = [path |-> p, tmp |-> t]
  /\ journal' = {}
  /\ live' = Down
  /\ phase' = "idle"
  /\ caller' = "checkpoint"

(* The process dies. *)
Crash ==
  /\ live # Down
  /\ live' = Down
  /\ phase' = "idle"
  /\ caller' = "checkpoint"
  /\ UNCHANGED <<dir, journal>>

-----------------------------------------------------------------------------
(***************************************************************************)
(* The calls on an owner.                                                  *)
(***************************************************************************)

(* The call of writeSnapshot begins: the state is encoded in memory. *)
writeSnapshot(by) == phase' = "encoded" /\ caller' = by

(* A file that readSnapshot accepts. *)
open ==
  /\ live = Down
  /\ dir.path.data \in Contents
  /\ live' = dir.path.data
  /\ UNCHANGED <<dir, journal, phase, caller>>

(***************************************************************************)
(* A new database, whose first checkpoint belongs to the call: both        *)
(* openOrCreate when there is no file, and Database.create whether there   *)
(* is one or not.                                                          *)
(***************************************************************************)
create ==
  /\ live = Down
  /\ live' = Empty
  /\ writeSnapshot("create")
  /\ UNCHANGED <<dir, journal>>

(* A statement, or a call of the facade, that changes committed state. *)
execute ==
  /\ live # Down
  /\ phase = "idle"
  /\ live' \in Contents \ {live}
  /\ UNCHANGED <<dir, journal, phase, caller>>

checkpoint ==
  /\ live # Down
  /\ phase = "idle"
  /\ writeSnapshot("checkpoint")
  /\ UNCHANGED <<dir, journal, live>>

(* The facade's close: a checkpoint, and deinit when it succeeds. *)
close ==
  /\ live # Down
  /\ phase = "idle"
  /\ writeSnapshot("close")
  /\ UNCHANGED <<dir, journal, live>>

(* A fault: the owner is torn down while its call is still writing. *)
deinitAnytime ==
  /\ live # Down
  /\ live' = Down
  /\ UNCHANGED <<dir, journal, phase, caller>>

(* DatabaseHandle.deinit (shovelerdb_close) saves nothing. *)
deinit ==
  /\ live # Down
  /\ phase = "idle"
  /\ live' = Down
  /\ UNCHANGED <<dir, journal, phase, caller>>

-----------------------------------------------------------------------------
(***************************************************************************)
(* writeSnapshot.                                                          *)
(***************************************************************************)

(* A fault: the old database is removed to make room for the new one. *)
deleteOld ==
  /\ phase = "encoded"
  /\ phase' = "deleted"
  /\ ChangeDir([path |-> NoFile, tmp |-> NoFile])
  /\ UNCHANGED <<live, caller>>

(* A temporary file that an earlier attempt has left is removed. *)
deleteTmp ==
  /\ phase = "encoded"
  /\ phase' = "deleted"
  /\ ChangeDir([dir EXCEPT !.tmp = NoFile])
  /\ UNCHANGED <<live, caller>>

createFile ==
  /\ phase = "deleted"
  /\ phase' = "created"
  /\ ChangeDir([dir EXCEPT !.tmp = [data |-> Torn, synced |-> FALSE]])
  /\ UNCHANGED <<live, caller>>

writeStreamingAll ==
  /\ phase = "created"
  /\ phase' = "written"
  /\ dir' = [dir EXCEPT !.tmp = [data |-> live, synced |-> FALSE]]
  /\ UNCHANGED <<journal, live, caller>>

(* A fault: the file is not synced. *)
syncOmitted ==
  /\ phase = "written"
  /\ phase' = "synced"
  /\ UNCHANGED <<dir, journal, live, caller>>

sync ==
  /\ phase = "written"
  /\ phase' = "synced"
  /\ dir' = [dir EXCEPT !.tmp = [data |-> dir.tmp.data, synced |-> TRUE]]
  /\ UNCHANGED <<journal, live, caller>>

(* What the caller does when writeSnapshot has returned. *)
Return(ok) ==
  /\ phase' = "idle"
  /\ caller' = "checkpoint"
  /\ live' = IF caller = (IF ok THEN "close" ELSE "create") THEN Down ELSE live

(* The new file takes the place of the old one, and the call succeeds. *)
rename ==
  /\ phase = "synced"
  /\ ChangeDir([path |-> dir.tmp, tmp |-> NoFile])
  /\ Return(TRUE)

(***************************************************************************)
(* The next call on the directory returns an error.  Once the temporary    *)
(* file has been created the error path tries to delete it, and ignores it *)
(* when that fails too.                                                    *)
(***************************************************************************)
fails ==
  /\ phase # "idle"
  /\ \/ UNCHANGED <<dir, journal>>
     \/ /\ phase \in {"created", "written", "synced"}
        /\ ChangeDir([dir EXCEPT !.tmp = NoFile])
  /\ Return(FALSE)

-----------------------------------------------------------------------------
Next ==
  \/ open \/ create \/ execute \/ checkpoint \/ close \/ deinit
  \/ deleteTmp \/ createFile \/ writeStreamingAll \/ sync \/ rename \/ fails
  \/ Crash \/ PowerCut \/ Settle

Spec == Init /\ [][Next]_vars

-----------------------------------------------------------------------------
(***************************************************************************)
(* "Persistence writes are crash-conscious": whatever fails and whenever   *)
(* the process or the power does, the file at path is never one that       *)
(* readSnapshot refuses, neither now nor after a power cut.                *)
(***************************************************************************)
FileIntact ==
  \A d \in journal \cup {dir} : \A f \in Survivors(d.path) : f.data # Torn

SavedBefore == {d.path.data : d \in journal} \ {dir.path.data}

Promise == INSTANCE SavedState WITH saved <- dir.path.data, older <- SavedBefore

(***************************************************************************)
(* "A failed checkpoint leaves the last durable generation intact": the    *)
(* steps of writeSnapshot and of its callers, with errors, crashes and     *)
(* power cuts between them, are the atomic steps of SavedState.            *)
(***************************************************************************)
Saves == Promise!Spec
=============================================================================
