-------------------------- MODULE EmbeddingProofs ---------------------------
(***************************************************************************)
(* Theorems about Persistence, and about Embedding.  The calls of the C    *)
(* interface are steps of Persistence, whose theorems therefore hold of    *)
(* them.                                                                   *)
(***************************************************************************)
EXTENDS Embedding, TLAPS

Dirs == [path : Files, tmp : Files]

(* A file that a power cut does not touch and that readSnapshot does not refuse. *)
Whole(f) == f.synced = TRUE /\ f.data # Torn

(***************************************************************************)
(* The inductive invariant: the file at path is whole in every directory   *)
(* that a power cut may leave, an owner is open while writeSnapshot runs,  *)
(* and from the write on the temporary file holds its state, synced before *)
(* the rename.                                                             *)
(***************************************************************************)
IInv ==
  /\ TypeOK
  /\ \A d \in journal \cup {dir} : Whole(d.path)
  /\ phase # "idle" => live # Down
  /\ phase \in {"written", "synced"} => dir.tmp.data = live
  /\ phase = "synced" => dir.tmp.synced = TRUE

(* A power cut leaves a synced file as it is. *)
LEMMA WholeSurvives ==
  ASSUME NEW f \in Files, Whole(f), NEW g \in Survivors(f)
  PROVE  g = f
BY DEF Whole, Survivors, Files

(* At first there is no file. *)
LEMMA InitIInv == Init => IInv
BY ContentsAssumption
   DEF Init, IInv, TypeOK, Files, NoFile, Phases, Whole

(* One change of the directory, to one whose file at path is whole. *)
LEMMA ChangeDirWhole ==
  ASSUME IInv, NEW d \in Dirs, Whole(d.path), ChangeDir(d)
  PROVE  /\ dir' \in Dirs
         /\ journal' \subseteq Dirs
         /\ \A e \in journal' \cup {dir'} : Whole(e.path)
BY DEF IInv, TypeOK, ChangeDir, Dirs

(* The directory with another temporary file. *)
LEMMA WithTmp ==
  ASSUME IInv, NEW f \in Files
  PROVE  /\ [dir EXCEPT !.tmp = f] \in Dirs
         /\ [dir EXCEPT !.tmp = f].path = dir.path
         /\ [dir EXCEPT !.tmp = f].tmp = f
         /\ Whole([dir EXCEPT !.tmp = f].path)
BY DEF IInv, TypeOK, Dirs

(* The files that writeSnapshot makes. *)
LEMMA FileTypes ==
  /\ NoFile \in Files
  /\ [data |-> Torn, synced |-> FALSE] \in Files
  /\ \A c \in Contents : \A b \in BOOLEAN : [data |-> c, synced |-> b] \in Files
BY DEF NoFile, Files

(* Calls that do not touch the directory. *)
LEMMA CallsPreserve ==
  ASSUME IInv, open \/ create \/ execute \/ checkpoint \/ close \/ deinit
  PROVE  IInv'
BY ContentsAssumption
   DEF IInv, TypeOK, Phases, writeSnapshot, open, create, execute, checkpoint, close, deinit, Whole

(* The temporary is deleted. *)
LEMMA deleteTmpPreserves == ASSUME IInv, deleteTmp PROVE IInv'
<1>1. ChangeDir([dir EXCEPT !.tmp = NoFile])
  BY DEF deleteTmp
<1>2. /\ dir' \in Dirs
      /\ journal' \subseteq Dirs
      /\ \A e \in journal' \cup {dir'} : Whole(e.path)
  BY ZenonT(30), <1>1, ChangeDirWhole, WithTmp, FileTypes
<1>3. QED
  BY <1>2 DEF IInv, TypeOK, Dirs, Phases, deleteTmp, Whole

(* A torn temporary is created. *)
LEMMA createFilePreserves == ASSUME IInv, createFile PROVE IInv'
<1>1. ChangeDir([dir EXCEPT !.tmp = [data |-> Torn, synced |-> FALSE]])
  BY DEF createFile
<1>2. /\ dir' \in Dirs
      /\ journal' \subseteq Dirs
      /\ \A e \in journal' \cup {dir'} : Whole(e.path)
  BY Zenon, <1>1, ChangeDirWhole, WithTmp, FileTypes
<1>3. QED
  BY <1>2 DEF IInv, TypeOK, Dirs, Phases, createFile, Whole

(* The temporary is written. *)
LEMMA writePreserves == ASSUME IInv, writeStreamingAll PROVE IInv'
<1>1. live \in Contents
  BY DEF IInv, TypeOK, writeStreamingAll
<1> DEFINE f == [data |-> live, synced |-> FALSE]
<1>2. f \in Files
  BY ZenonT(30), <1>1, FileTypes
<1>3. dir' \in Dirs /\ dir'.path = dir.path /\ dir'.tmp = f
  BY Zenon, <1>2, WithTmp DEF writeStreamingAll
<1>4. QED
  BY <1>3 DEF IInv, TypeOK, Dirs, Phases, writeStreamingAll, Whole

(* The temporary is synced. *)
LEMMA syncPreserves == ASSUME IInv, sync PROVE IInv'
<1> DEFINE f == [data |-> dir.tmp.data, synced |-> TRUE]
<1>1. dir.tmp.data = live /\ live \in Contents
  BY DEF IInv, TypeOK, sync
<1>2. f \in Files
  BY ZenonT(30), <1>1, FileTypes
<1>3. dir' \in Dirs /\ dir'.path = dir.path /\ dir'.tmp = f
  BY Zenon, <1>2, WithTmp DEF sync
<1>4. QED
  BY <1>1, <1>3 DEF IInv, TypeOK, Dirs, Phases, sync, Whole

(* Only a whole temporary is renamed, and it holds the committed state. *)
LEMMA renamePreserves ==
  ASSUME IInv, rename
  PROVE  /\ IInv'
         /\ dir'.path.data = live
         /\ live \in Contents
<1>1. dir.tmp.data = live /\ live \in Contents /\ dir.tmp.synced = TRUE
  BY DEF IInv, TypeOK, rename
<1> DEFINE d == [path |-> dir.tmp, tmp |-> NoFile]
<1>2. d \in Dirs /\ Whole(d.path)
  BY <1>1, FileTypes, ContentsAssumption DEF IInv, TypeOK, Dirs, Whole
<1>3. /\ dir' = d
      /\ dir' \in Dirs
      /\ journal' \subseteq Dirs
      /\ \A e \in journal' \cup {dir'} : Whole(e.path)
  <2>1. ChangeDir(d)
    BY DEF rename
  <2> HIDE DEF d
  <2>2. QED
    BY <1>2, <2>1, ChangeDirWhole DEF ChangeDir
<1>4. QED
  BY <1>1, <1>3 DEF IInv, TypeOK, Dirs, Phases, rename, Return, Whole

(* A failure at most deletes the temporary. *)
LEMMA failsPreserves ==
  ASSUME IInv, fails
  PROVE  IInv' /\ dir'.path = dir.path
<1>1. /\ dir' \in Dirs
      /\ journal' \subseteq Dirs
      /\ \A e \in journal' \cup {dir'} : Whole(e.path)
      /\ dir'.path = dir.path
  <2>1. CASE UNCHANGED <<dir, journal>>
    BY <2>1 DEF IInv, TypeOK, Dirs
  <2>2. CASE ChangeDir([dir EXCEPT !.tmp = NoFile])
    <3>1. dir' = [dir EXCEPT !.tmp = NoFile]
      BY <2>2 DEF ChangeDir
    <3>2. QED
      BY Zenon, <2>2, <3>1, ChangeDirWhole, WithTmp, FileTypes
  <2>3. QED
    BY <2>1, <2>2 DEF fails
<1>2. QED
  BY <1>1 DEF IInv, TypeOK, Dirs, Phases, fails, Return, Whole

(* A power cut leaves at path what some directory that it may leave has there. *)
LEMMA PowerCutPreserves ==
  ASSUME IInv, PowerCut
  PROVE  IInv' /\ \E d \in journal \cup {dir} : dir'.path = d.path
<1>1. PICK d \in journal \cup {dir} :
        \E p \in Survivors(d.path), t \in Survivors(d.tmp) :
          dir' = [path |-> p, tmp |-> t]
  BY DEF PowerCut
<1>2. PICK p \in Survivors(d.path), t \in Survivors(d.tmp) :
        dir' = [path |-> p, tmp |-> t]
  BY <1>1
<1>3. d.path \in Files /\ Whole(d.path)
  BY DEF IInv, TypeOK
<1>4. p = d.path
  BY <1>3, WholeSurvives
<1>5. p \in Files /\ t \in Files
  BY DEF Survivors
<1>6. dir' \in Dirs /\ dir'.path = d.path /\ Whole(dir'.path)
  BY <1>2, <1>3, <1>4, <1>5 DEF Dirs
<1>7. QED
  BY <1>6 DEF IInv, TypeOK, Dirs, Phases, PowerCut, Whole

(* Every step preserves the invariant. *)
LEMMA StepIInv == ASSUME IInv, [Next]_vars PROVE IInv'
<1>1. CASE open \/ create \/ execute \/ checkpoint \/ close \/ deinit
  BY <1>1, CallsPreserve
<1>2. CASE deleteTmp
  BY <1>2, deleteTmpPreserves
<1>3. CASE createFile
  BY <1>3, createFilePreserves
<1>4. CASE writeStreamingAll
  BY <1>4, writePreserves
<1>5. CASE sync
  BY <1>5, syncPreserves
<1>6. CASE rename
  BY <1>6, renamePreserves
<1>7. CASE fails
  BY <1>7, failsPreserves
<1>8. CASE Crash
  BY <1>8 DEF IInv, TypeOK, Phases, Crash, Whole
<1>9. CASE PowerCut
  BY <1>9, PowerCutPreserves
<1>10. CASE Settle
  BY <1>10 DEF IInv, TypeOK, Settle, Whole
<1>11. CASE UNCHANGED vars
  BY <1>11 DEF IInv, TypeOK, vars, Whole
<1>12. QED
  BY <1>1, <1>2, <1>3, <1>4, <1>5, <1>6, <1>7, <1>8, <1>9, <1>10, <1>11 DEF Next

(***************************************************************************)
(* Every call on an owner and every step of writeSnapshot, with errors,    *)
(* crashes and power cuts between them, preserves the inductive invariant. *)
(***************************************************************************)
THEOREM Invariance == Spec => []IInv
<1>1. Init => IInv
  BY InitIInv
<1>2. IInv /\ [Next]_vars => IInv'
  BY StepIInv
<1>3. QED
  BY <1>1, <1>2, PTL DEF Spec

(***************************************************************************)
(* The owner, the file and the temporary file stay well typed: what is in  *)
(* a file is the state of an open database, also when calls fail.          *)
(***************************************************************************)
THEOREM TypeCorrect == Spec => []TypeOK
<1>1. IInv => TypeOK
  BY DEF IInv
<1>2. QED
  BY <1>1, Invariance, PTL

(***************************************************************************)
(* writeSnapshot, with its errors and with crashes and power cuts between  *)
(* its calls, never leaves a file at path that readSnapshot refuses.       *)
(***************************************************************************)
THEOREM FileStaysIntact == Spec => []FileIntact
<1>1. IInv => FileIntact
  <2> SUFFICES ASSUME IInv, NEW d \in journal \cup {dir}, NEW f \in Survivors(d.path)
               PROVE  f.data # Torn
    BY DEF FileIntact
  <2>1. d.path \in Files /\ Whole(d.path)
    BY DEF IInv, TypeOK
  <2>2. f = d.path
    BY <2>1, WholeSurvives
  <2>3. QED
    BY <2>1, <2>2 DEF Whole
<1>2. QED
  BY <1>1, Invariance, PTL

-----------------------------------------------------------------------------
(***************************************************************************)
(* The refinement of SavedState.                                           *)
(***************************************************************************)

(* What a power cut could bring back is the same after a step that leaves *)
(* the file at path as it is.                                             *)
LEMMA OlderKept ==
  ASSUME journal' = journal \/ journal' = journal \cup {dir}, dir'.path = dir.path
  PROVE  dir'.path.data = dir.path.data /\ SavedBefore' = SavedBefore
BY DEF SavedBefore

(* What happens to the temporary is not visible. *)
LEMMA TmpStepsStutter ==
  ASSUME IInv, deleteTmp \/ createFile \/ writeStreamingAll \/ sync
  PROVE  UNCHANGED <<live, dir.path.data, SavedBefore>>
<1>1. dir'.path = dir.path
  BY DEF IInv, TypeOK, deleteTmp, createFile, writeStreamingAll, sync, ChangeDir
<1>2. journal' = journal \/ journal' = journal \cup {dir}
  BY DEF deleteTmp, createFile, writeStreamingAll, sync, ChangeDir
<1>3. live' = live
  BY DEF deleteTmp, createFile, writeStreamingAll, sync
<1>4. QED
  BY <1>1, <1>2, <1>3, OlderKept

(* Calls that do not touch the directory refine. *)
LEMMA CallsRefine ==
  ASSUME IInv, open \/ create \/ execute \/ checkpoint \/ close \/ deinit \/ Crash
  PROVE  [Promise!Next]_(Promise!vars)
<1>1. dir'.path.data = dir.path.data /\ SavedBefore' = SavedBefore
  <2>1. dir' = dir /\ journal' = journal
    BY DEF open, create, execute, checkpoint, close, deinit, Crash
  <2>2. QED
    BY <2>1, OlderKept
<1>2. CASE open \/ create
  <2>1. Promise!Open \/ Promise!Create
    BY <1>1, <1>2, ContentsAssumption DEF open, create, Promise!Open, Promise!Create
  <2>2. QED
    BY <2>1 DEF Promise!Next
<1>3. CASE execute
  <2>1. Promise!Execute
    BY <1>1, <1>3 DEF execute, Promise!Execute
  <2>2. QED
    BY <2>1 DEF Promise!Next
<1>4. CASE checkpoint \/ close
  BY <1>1, <1>4 DEF checkpoint, close, Promise!vars
<1>5. CASE deinit \/ Crash
  <2>1. Promise!Stop
    BY <1>1, <1>5 DEF deinit, Crash, Promise!Stop
  <2>2. QED
    BY <2>1 DEF Promise!Next
<1>6. QED
  BY <1>2, <1>3, <1>4, <1>5

(* The rename is the checkpoint. *)
LEMMA renameRefines ==
  ASSUME IInv, rename
  PROVE  Promise!Checkpoint
<1>1. dir'.path.data = live /\ live \in Contents
  BY renamePreserves
<1>2. live # Down
  BY <1>1, ContentsAssumption
<1>3. live' \in {live, Down}
  BY DEF rename, Return
<1>4. journal' = journal \cup {dir}
  BY DEF rename, ChangeDir
<1>5. SavedBefore' = (SavedBefore \cup {dir.path.data}) \ {live}
  <2>1. SavedBefore' = {d.path.data : d \in journal \cup {dir}} \ {live}
    BY <1>1, <1>4 DEF SavedBefore
  <2>2. {d.path.data : d \in journal \cup {dir}}
          = {d.path.data : d \in journal} \cup {dir.path.data}
    OBVIOUS
  <2>3. QED
    BY <2>1, <2>2 DEF SavedBefore
<1>6. QED
  BY <1>1, <1>2, <1>3, <1>5 DEF Promise!Checkpoint

(* A failed checkpoint is none. *)
LEMMA failsRefines ==
  ASSUME IInv, fails
  PROVE  Promise!Stop \/ UNCHANGED <<live, dir.path.data, SavedBefore>>
<1>1. dir'.path = dir.path
  BY failsPreserves
<1>2. journal' = journal \/ journal' = journal \cup {dir}
  BY DEF fails, ChangeDir
<1>3. dir'.path.data = dir.path.data /\ SavedBefore' = SavedBefore
  BY <1>1, <1>2, OlderKept
<1>4. live' = Down \/ live' = live
  BY DEF fails, Return
<1>5. QED
  BY <1>3, <1>4 DEF Promise!Stop

(* A power cut brings back what some earlier checkpoint saved. *)
LEMMA PowerCutRefines ==
  ASSUME IInv, PowerCut
  PROVE  Promise!PowerCut
<1>1. PICK d \in journal \cup {dir} : dir'.path = d.path
  BY PowerCutPreserves
<1>2. dir'.path.data \in {dir.path.data} \cup SavedBefore
  BY <1>1 DEF SavedBefore
<1>3. SavedBefore' = {}
  BY DEF PowerCut, SavedBefore
<1>4. QED
  BY <1>2, <1>3 DEF PowerCut, Promise!PowerCut

(***************************************************************************)
(* DatabaseHandle and the facade save their state as SavedState promises:  *)
(* a checkpoint takes effect at its rename and at no other step, and a     *)
(* failed one leaves what was saved.                                       *)
(***************************************************************************)
THEOREM CheckpointsAreAtomic == Spec => Saves
<1>1. Init => Promise!Init
  BY DEF Init, NoFile, SavedBefore, Promise!Init
<1>2. ASSUME IInv, [Next]_vars
      PROVE  [Promise!Next]_(Promise!vars)
  <2>1. CASE open \/ create \/ execute \/ checkpoint \/ close \/ deinit \/ Crash
    BY <1>2, <2>1, CallsRefine
  <2>2. CASE deleteTmp \/ createFile \/ writeStreamingAll \/ sync
    BY <1>2, <2>2, TmpStepsStutter DEF Promise!vars
  <2>3. CASE rename
    BY <1>2, <2>3, renameRefines DEF Promise!Next
  <2>4. CASE fails
    BY <1>2, <2>4, failsRefines DEF Promise!Next, Promise!vars
  <2>5. CASE PowerCut
    BY <1>2, <2>5, PowerCutRefines DEF Promise!Next
  <2>6. CASE Settle
    <3>1. Promise!Settle
      BY <2>6 DEF Settle, SavedBefore, Promise!Settle
    <3>2. QED
      BY <3>1 DEF Promise!Next
  <2>7. CASE UNCHANGED vars
    <3>1. UNCHANGED <<live, dir.path.data, SavedBefore>>
      BY <2>7 DEF vars, SavedBefore
    <3>2. QED
      BY <3>1 DEF Promise!vars
  <2>8. QED
    BY <1>2, <2>1, <2>2, <2>3, <2>4, <2>5, <2>6, <2>7 DEF Next
<1>3. QED
  BY <1>1, <1>2, Invariance, PTL DEF Spec, Saves, Promise!Spec

-----------------------------------------------------------------------------
(* Every step of the interface is a step of Persistence or leaves it alone. *)
LEMMA StepIsPersistence ==
  ASSUME [ANext]_allVars
  PROVE  [Next]_vars
<1>1. CASE shovelerdb_open_or_create \/ shovelerdb_checkpoint \/ shovelerdb_close
  BY <1>1 DEF shovelerdb_open_or_create, shovelerdb_checkpoint, shovelerdb_close, Next
<1>2. CASE shovelerdb_execute
  BY Zenon, <1>2 DEF shovelerdb_execute, Next
<1>3. CASE Facade \/ Writes
  BY <1>3 DEF Facade, Writes, Next
<1>4. CASE Returns \/ Ends \/ Settle
  BY <1>4 DEF Returns, Ends, Next
<1>5. CASE UNCHANGED allVars
  BY <1>5 DEF allVars
<1>. QED
  BY <1>1, <1>2, <1>3, <1>4, <1>5 DEF ANext

(***************************************************************************)
(* The C interface does nothing to the file and the committed state that   *)
(* Persistence does not allow.                                             *)
(***************************************************************************)
THEOREM EmbeddingIsPersistence == ASpec => Spec
<1>1. AInit => Init
  BY DEF AInit
<1>2. [ANext]_allVars => [Next]_vars
  BY StepIsPersistence
<1>. QED
  BY <1>1, <1>2, PTL DEF ASpec, Spec

(***************************************************************************)
(* So whatever the callers of the C functions do, after failed calls and   *)
(* across crashes and power cuts, the file at path is intact and a         *)
(* checkpoint takes effect at once or not at all.                          *)
(***************************************************************************)
THEOREM EmbeddingKeepsTheFile == ASpec => []TypeOK /\ []FileIntact /\ Saves
BY EmbeddingIsPersistence, TypeCorrect, FileStaysIntact, CheckpointsAreAtomic, PTL

-----------------------------------------------------------------------------
(***************************************************************************)
(* Statuses.                                                               *)
(***************************************************************************)

(* A call that has returned to the owner of the handle. *)
LEMMA ReturnsTruthful ==
  ASSUME IInv, Returns, owner' = "handle", last_status' = "ok"
  PROVE  dir'.path.data = live'
<1>1. live' # Down /\ owner = "handle"
  BY OwnersAssumption DEF Returns, ReturnsWith
<1>2. ASSUME rename
      PROVE  dir'.path.data = live'
  <2>1. dir'.path.data = live
    BY <1>2, renamePreserves
  <2>2. live' = live
    BY <1>1, <1>2 DEF rename, Return
  <2>. QED
    BY <2>1, <2>2
<1>3. ASSUME NEW status \in IoErrors, ReturnsWith(status)
      PROVE  FALSE
  BY <1>1, <1>3, ErrorsAssumption DEF ReturnsWith, ReturnStatus
<1>. QED
  BY <1>2, <1>3 DEF Returns

(* Every step keeps the status truthful. *)
LEMMA StepTruthful ==
  ASSUME IInv, StatusTruthful, [ANext]_allVars
  PROVE  StatusTruthful'
<1>. SUFFICES ASSUME owner' = "handle", phase' = "idle", last_status' = "ok",
                     last_call' \in {"open", "create", "checkpoint"}
              PROVE  dir'.path.data = live'
  BY DEF StatusTruthful
<1>1. CASE shovelerdb_open_or_create
  <2>1. open
    BY <1>1 DEF shovelerdb_open_or_create, create, writeSnapshot
  <2>. QED
    BY <2>1 DEF open
<1>2. CASE shovelerdb_execute
  BY <1>2 DEF shovelerdb_execute, ReturnStatus
<1>3. CASE shovelerdb_checkpoint \/ shovelerdb_close
  BY <1>3, OwnersAssumption DEF shovelerdb_checkpoint, checkpoint, writeSnapshot, shovelerdb_close
<1>4. CASE Facade
  BY <1>4, OwnersAssumption DEF Facade
<1>5. CASE Writes
  BY <1>5 DEF Writes, deleteTmp, createFile, writeStreamingAll, sync
<1>6. CASE Returns
  BY <1>6, ReturnsTruthful
<1>7. CASE Ends
  BY <1>7, OwnersAssumption DEF Ends
<1>8. CASE Settle /\ UNCHANGED abiVars
  BY <1>8 DEF Settle, abiVars, StatusTruthful
<1>9. CASE UNCHANGED allVars
  BY <1>9 DEF allVars, abiVars, vars, StatusTruthful
<1>. QED
  BY <1>1, <1>2, <1>3, <1>4, <1>5, <1>6, <1>7, <1>8, <1>9 DEF ANext

(***************************************************************************)
(* When a call that saves has returned ok, the file holds the committed    *)
(* state, whatever failed before it, also statements that had already      *)
(* changed the committed state.                                            *)
(***************************************************************************)
THEOREM StatusIsTruthful == ASpec => []StatusTruthful
<1>1. AInit => StatusTruthful
  BY OwnersAssumption DEF AInit, StatusTruthful
<1>2. IInv /\ StatusTruthful /\ [ANext]_allVars => StatusTruthful'
  BY StepTruthful
<1>. QED
  BY <1>1, <1>2, EmbeddingIsPersistence, Invariance, PTL DEF ASpec
=============================================================================
