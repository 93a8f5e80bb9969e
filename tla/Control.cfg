SPECIFICATION Spec
CONSTANTS
  e1 = e1  e2 = e2  server = server  addr = addr
INVARIANTS
  TypeOK
  ControlSafe
  SessionSafe
  DialSafe
  RelaySafe
PROPERTIES
  
  ControlGoesOn
  WorkEnds
CHECK_DEADLOCK FALSE
