SPECIFICATION Spec
SYMMETRY Symmetry
CONSTANTS
  e1 = e1
  c1 = c1
  c2 = c2
  s1 = s1
  s2 = s2
  d1 = d1
  none = none
  nil = nil
  p1 = p1
  Envs = {e1}
  Conns = {c1}
  Stmts = {s1, s2}
  Descs = {d1}
  NoHandle = none
  Sizes = {2, 1001}
  Pointers = {nil, p1}
  NullPtr = nil
  StmtSets = {"METADATA_ID", "ROW_ARRAY_SIZE"}
  ConnSets = {"METADATA_ID", "AUTOCOMMIT", "ROWSET_SIZE", "LOGIN_TIMEOUT"}
  MaxRecords = 2
  MaxCalls = 7
INVARIANT ErrorIsExplained
INVARIANT AttributesReadBack
PROPERTY OthersDiagnosticsKept
CHECK_DEADLOCK FALSE
