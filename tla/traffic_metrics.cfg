CONSTANTS
  a1 = a1
  a2 = a2
  h1 = h1
  h2 = h2
  l1 = l1
  x1 = x1
  n1 = n1
  Null = Null
  Dash = Dash
  Analyses = {a1, a2}
  Private = {h1, h2}
  LinkLocal = {l1}
  Public = {x1}
  Known = {h1}
  Names = {n1}
  NoName = Null
  Unset = Dash
  Rows <- FewRows
  MaxRows = 3
  TopN = 2
SPECIFICATION Spec
SYMMETRY Interchangeable
INVARIANTS
  TrafficAddsUp
  TalkersRanked
  NamesAgree
CHECK_DEADLOCK FALSE
