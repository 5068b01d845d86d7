SPECIFICATION Spec
CONSTANTS
  Identifiers = {"a", "PRIMARY"}
  NoName = NoName
  NoDefault = NoDefault
  Rejected = Rejected
  Names = {n1, n2, n3}
  Sessions = {s1}
  Statements <- OneStatement
  Params = {}
SYMMETRY Symmetric
INVARIANTS PublishedWhereStaged
