----------------------------- MODULE Embedding ------------------------------
(***************************************************************************)
(* The C interface (src/abi/c_api.zig, handles.zig, result.zig) on top of  *)
(* the database file: a database handle with the status of its last call.  *)
(* Persistence says what happens to the file; here every call of the       *)
(* interface also returns a status, possibly many steps after it began.    *)
(*                                                                         *)
(* The owner of the file is a DatabaseHandle or the facade Database, which *)
(* has no statuses.  Callers use a handle until they close it; a call      *)
(* without a handle or without an out_result is refused before it touches  *)
(* anything.  Errors are known by the status that statusFromError gives    *)
(* them.  Results, copies of rows with a cursor, are left out.             *)
(***************************************************************************)
EXTENDS Persistence

CONSTANTS SqlErrors,    \* the statuses of statements that fail
          IoErrors      \* the statuses of calls on the directory that fail

ASSUME ErrorsAssumption == "ok" \notin SqlErrors \cup IoErrors
ASSUME OwnersAssumption == Down \notin {"handle", "facade"}

VARIABLES
  owner,          \* who has the file open
  last_status,    \* DatabaseHandle.last_status
  last_call       \* history: the call on the handle that returned last

abiVars == <<owner, last_status, last_call>>

allVars == <<vars, abiVars>>

AInit ==
  /\ Init
  /\ owner = Down
  /\ last_status = "ok"
  /\ last_call = "open"

(* A call returns, and the handle keeps the status. *)
ReturnStatus(call, status) ==
  /\ last_status' = status
  /\ last_call' = call

-----------------------------------------------------------------------------
(***************************************************************************)
(* shovelerdb_open_or_create: a file that can be read is opened; when      *)
(* there is none, a new database is checkpointed before the call returns.  *)
(* A file that cannot be read gives a status and no handle.                *)
(***************************************************************************)
shovelerdb_open_or_create ==
  /\ open \/ (dir.path.data = Absent /\ create)
  /\ owner' = "handle"
  /\ ReturnStatus("open", "ok")

(***************************************************************************)
(* shovelerdb_execute, whose statement may change the committed state.  So *)
(* may one that fails: a COMMIT that returns half-way has published some   *)
(* of its tables.                                                          *)
(***************************************************************************)
shovelerdb_execute ==
  /\ owner = "handle"
  /\ execute \/ (live # Down /\ phase = "idle" /\ UNCHANGED vars)
  /\ \E status \in {"ok"} \cup SqlErrors : ReturnStatus("execute", status)
  /\ UNCHANGED owner

(* shovelerdb_checkpoint begins; it returns with Returns. *)
shovelerdb_checkpoint ==
  /\ owner = "handle"
  /\ checkpoint
  /\ UNCHANGED abiVars

(* What becomes of the owner when writeSnapshot returns to it. *)
ReturnsWith(status) ==
  /\ IF owner = "handle" THEN ReturnStatus(caller, status)
                         ELSE UNCHANGED <<last_status, last_call>>
  /\ owner' = IF live' = Down THEN Down ELSE owner

(* A fault: an error of writeSnapshot is swallowed. *)
ReturnsOk == (rename \/ fails) /\ ReturnsWith("ok")

(***************************************************************************)
(* writeSnapshot returns to the call that began it.  When the first        *)
(* checkpoint of a new database fails, its handle is taken apart.          *)
(***************************************************************************)
Returns ==
  \/ rename /\ ReturnsWith("ok")
  \/ fails /\ \E status \in IoErrors : ReturnsWith(status)

(* shovelerdb_close *)
shovelerdb_close ==
  /\ owner = "handle"
  /\ deinit
  /\ owner' = Down
  /\ UNCHANGED <<last_status, last_call>>

-----------------------------------------------------------------------------
(***************************************************************************)
(* The rest: the facade as the owner, the calls that writeSnapshot makes,  *)
(* and the ends of the process, which no handle survives.                  *)
(***************************************************************************)

Facade ==
  \/ /\ open \/ create
     /\ owner' = "facade"
     /\ UNCHANGED <<last_status, last_call>>
  \/ /\ owner = "facade"
     /\ \/ (execute \/ checkpoint \/ close) /\ UNCHANGED owner
        \/ deinit /\ owner' = Down
     /\ UNCHANGED <<last_status, last_call>>

Writes ==
  /\ deleteTmp \/ createFile \/ writeStreamingAll \/ sync
  /\ UNCHANGED abiVars

Ends ==
  /\ Crash \/ PowerCut
  /\ owner' = Down
  /\ last_status' = "ok"
  /\ last_call' = "open"

ANext ==
  \/ shovelerdb_open_or_create \/ shovelerdb_execute
  \/ shovelerdb_checkpoint \/ shovelerdb_close
  \/ Facade
  \/ Writes \/ Returns \/ Ends
  \/ Settle /\ UNCHANGED abiVars

ASpec == AInit /\ [][ANext]_allVars

-----------------------------------------------------------------------------
(***************************************************************************)
(* "`SHOVELERDB_STATUS_OK` is the only success value": when the handle's   *)
(* diagnostic is ok and its last call opened or checkpointed the database, *)
(* the file holds the committed state, whatever failed before.             *)
(***************************************************************************)
StatusTruthful ==
  owner = "handle" /\ phase = "idle" /\ last_status = "ok" /\
    last_call \in {"open", "create", "checkpoint"} => dir.path.data = live
=============================================================================
