SPECIFICATION Spec
CONSTANTS
  Identifiers = {"a", "PRIMARY"}
  NoName = NoName
  NoDefault = NoDefault
  Rejected = Rejected
  Names = {n1, n2}
  Sessions = {s1}
  Statements <- AllStatements
  Params = {0, 1}
INVARIANTS TablesReopen
