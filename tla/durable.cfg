SPECIFICATION DSpec
CONSTANTS
  Values = {v1, v2}
  VectorValues = {}
  MaxRowId = 1
  MaxCommits = 2
  RetentionLimit = 1
  NoHandle = NoHandle
  MaxPendingWrites = 1
  Sessions = {s1, s2, s3}
  Tables = {t1}
  InitialStores <- EmptyOrOneRow
  DrainBudgets = {}
SYMMETRY Symmetric
INVARIANTS TypeOK NoReaderLost RegistryExact OneTicket
PROPERTIES SnapshotStable RowIdsMonotonic CompletedInOrder DurablyIsolated
