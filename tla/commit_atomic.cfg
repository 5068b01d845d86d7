SPECIFICATION Spec
CONSTANTS
  Values = {v1}
  VectorValues = {}
  MaxRowId = 1
  MaxCommits = 2
  RetentionLimit = 1
  NoHandle = NoHandle
  MaxPendingWrites = 1
  Sessions = {s1, s2}
  Tables = {t1, t2}
  InitialStores <- EmptyOrOneRow
  DrainBudgets = {}
INVARIANTS CommitAtomic
