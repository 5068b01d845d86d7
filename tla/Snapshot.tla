------------------------------ MODULE Snapshot ------------------------------
(***************************************************************************)
(* The snapshot registry (src/db/snapshot.zig): a reference count per      *)
(* generation that some session has captured, and a retained copy of the   *)
(* stores for the generations that a later commit was about to overwrite.  *)
(* A generation without an entry in the list of active generations is one  *)
(* with reference count 0.                                                 *)
(***************************************************************************)
EXTENDS Naturals, FiniteSets

CONSTANTS MaxCommits,       \* bound on commit sequences (u64 in the code)
          RetentionLimit,   \* Config.snapshot_retention_generations
          NoHandle          \* a session's null snapshot handle

ASSUME MaxCommitsAssumption == MaxCommits \in Nat
ASSUME RetentionLimitAssumption == RetentionLimit \in Nat \ {0}

Generations == 0..MaxCommits

ASSUME NoHandleAssumption == NoHandle \notin Generations

(* reg is a registry that retains members of Copies. *)
IsRegistry(reg, Copies) ==
  /\ reg = [active |-> reg.active, retained |-> reg.retained]
  /\ reg.active \in [Generations -> Nat]
  /\ DOMAIN reg.retained \subseteq Generations
  /\ reg.retained \in [DOMAIN reg.retained -> Copies]

InitRegistry == [active   |-> [g \in Generations |-> 0],
                 retained |-> [g \in {} |-> 0]]

(* Registry.acquire *)
acquire(reg, g) == [reg EXCEPT !.active[g] = @ + 1]

(* Registry.sweepReleasedGenerations *)
sweepReleasedGenerations(reg) ==
  LET kept == {g \in DOMAIN reg.retained : reg.active[g] # 0}
  IN  [reg EXCEPT !.retained = [g \in kept |-> reg.retained[g]]]

(* A fault: the count goes down, but copies nobody reads stay. *)
releaseWithoutSweep(reg, handle) ==
  IF handle = NoHandle \/ reg.active[handle] = 0
    THEN reg
    ELSE [reg EXCEPT !.active[handle] = @ - 1]

(* SnapshotHandle.release, and Registry.releaseGeneration under it. *)
release(reg, handle) ==
  IF handle = NoHandle \/ reg.active[handle] = 0
    THEN reg
    ELSE sweepReleasedGenerations(
           [reg EXCEPT !.active[handle] = @ - 1])

(* A fault: one reader is discounted, whatever it reads. *)
needsRetentionDiscounted(reg, g, excluding) ==
  LET own == IF reg.active[g] > 0 THEN 1 ELSE 0
  IN  reg.active[g] - own > 0 /\ g \notin DOMAIN reg.retained

(* Registry.needsRetention: somebody other than `excluding' reads g. *)
needsRetention(reg, g, excluding) ==
  LET own == IF excluding = g /\ reg.active[g] > 0 THEN 1 ELSE 0
  IN  reg.active[g] - own > 0 /\ g \notin DOMAIN reg.retained

(* Registry.retainGeneration is refused with SnapshotRetentionExceeded. *)
RetentionExceeded(reg) ==
  Cardinality(DOMAIN sweepReleasedGenerations(reg).retained) >= RetentionLimit

(* Registry.retainGeneration, for a generation not retained yet. *)
retainGeneration(reg, g, stores) ==
  LET swept == sweepReleasedGenerations(reg)
  IN  [swept EXCEPT !.retained =
         [h \in DOMAIN @ \cup {g} |-> IF h = g THEN stores ELSE @[h]]]
=============================================================================
