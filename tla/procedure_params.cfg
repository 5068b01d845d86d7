SPECIFICATION Spec
CONSTANTS
  Identifiers = {"a", "PRIMARY"}
  NoName = NoName
  NoDefault = NoDefault
  Rejected = Rejected
  Names = {n1, n2}
  Sessions = {s1}
  Statements <- OneStatement
  Params = {0, 1}
INVARIANTS ProceduresReopen
