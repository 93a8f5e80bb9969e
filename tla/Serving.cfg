SPECIFICATION MCSpec
CONSTANTS
  a = a  b = b  c = c
  g1 = g1  g2 = g2  p1 = p1  p2 = p2
  f1 = f1  f2 = f2  f3 = f3  f4 = f4
  peerA = peerA  peerB = peerB  srcPort = srcPort  random = random  none = none  s1 = s1
  Ips <- MCThree
  Name = name
  Literal = FALSE
  Dialer = {d1, d2}
  MaxFlaps = 1
  LookupErrors = TRUE
  FalseEmpty = TRUE
  Blackhole = TRUE
INVARIANTS
  Types
  
  NothingBeforeConnected
PROPERTIES
  DialEnds
  StartupEnds
  StoppedSessionsClose
CHECK_DEADLOCK FALSE
