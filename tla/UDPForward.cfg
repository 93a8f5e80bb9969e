SPECIFICATION Spec
CONSTANTS
  f1 = f1
  f2 = f2
  A = A
  B = B
  p = p
  r = r
  Flow <- MCFlow
  Kind <- MCKind
  Peer <- MCPeer
  SrcPort <- MCSrcPort
  RandomPort = {}
  Sess = {s1, s2}
  None = None
SYMMETRY SessSymmetry
INVARIANTS
  IdentityTrue
  RegisterNeverClashes
CHECK_DEADLOCK FALSE
