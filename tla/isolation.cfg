SPECIFICATION Spec
CONSTANTS
  Values = {v1, v2}
  VectorValues = {v2}
  MaxRowId = 2
  MaxCommits = 2
  RetentionLimit = 1
  NoHandle = NoHandle
  MaxPendingWrites = 1
  Sessions = {s1, s2}
  Tables = {t1}
  InitialStores <- EmptyOrOneRow
  DrainBudgets = {1}
SYMMETRY Symmetric
INVARIANTS OverlayCurrent StagedIdsFresh CommitLoopAgrees
PROPERTIES Isolated CommitsWhatItShows
