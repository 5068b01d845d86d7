SPECIFICATION Spec
CONSTANTS
  Tables = {"t"}
  ViewNames = {"a", "b"}
  ViewQueries <- OneCte
  Statements <- Deep
  NoView = NoView
  Idle = Idle
  MaxDepth = 3
PROPERTY SelectEnds
