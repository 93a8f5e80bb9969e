SPECIFICATION Spec
CONSTANTS
  c1 = c1  c2 = c2  c3 = c3
  w1 = w1  w2 = w2  k1 = k1  k2 = k2
  inject = inject  source = source  sub = sub
INVARIANTS
  TypeOK
  ExecSafe
  LinkSafe
  
  
PROPERTY CallsReturn
CHECK_DEADLOCK FALSE
