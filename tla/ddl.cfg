SPECIFICATION Spec
CONSTANTS
  Identifiers = {"a", "PRIMARY"}
  NoName = NoName
  NoDefault = NoDefault
  Rejected = Rejected
  Names = {n1, n2}
  Sessions = {s1}
  Statements <- TwoStatements
  Params = {1}
SYMMETRY Symmetric
INVARIANTS CatalogAgrees FileOpens QuietDdlIsSafe
