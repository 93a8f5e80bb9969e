SPECIFICATION LineSpec
CONSTANTS
  v1 = v1  v2 = v2
  Key = {k1, k2}
  Value = {v1, v2, empty}
  Empty = empty
  Absent = absent
  NoFile = noFile
  Caller = {c1, c2}
  self = self  service = service  subnet = subnet  via = via  behind = behind
  Conn = {1, 2, 3}
  None = None  Default = Default
SYMMETRY StoreSymmetry
INVARIANT
  OwnKeyOrFile
CHECK_DEADLOCK FALSE
