SPECIFICATION Spec
CONSTANTS
  v1 = v1
  v2 = v2
  Key = {k1, k2}
  Value = {v1, v2, empty}
  Empty = empty
  Absent = absent
  NoFile = noFile
  Caller = {c1, c2}
SYMMETRY StoreSymmetry
INVARIANT Persists
