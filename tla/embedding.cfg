SPECIFICATION ASpec
CONSTANTS
  Contents = {c0, c1}
  Empty = c0
  Absent = Absent
  Torn = Torn
  Down = Down
  MaxUnsettled = 4
  SqlErrors = {sql_error}
  IoErrors = {io_error}
INVARIANTS TypeOK FileIntact StatusTruthful
PROPERTIES Saves
