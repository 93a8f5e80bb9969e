SPECIFICATION Spec
CONSTANTS
  Conn = {c1, c2, c3}
  Class = {"refused", "served"}
  Max = 2
INVARIANT InFlightIsRunning
CHECK_DEADLOCK FALSE
