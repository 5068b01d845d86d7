SPECIFICATION HSpec
CONSTANTS
  Contents = {c0, c1}
  Empty = c0
  Absent = Absent
  Torn = Torn
  Down = Down
  MaxUnsettled = 3
INVARIANTS CheckpointDurable
