SPECIFICATION FairSpec
CONSTANTS
  Src = {a, b, x}
  Accept = {a, b}
  Sess = {s1, s2}
  Encrypted = TRUE
  NoSess = NoSess
  NoSrc = NoSrc
INVARIANTS
  EntriesLive
  NoOrphan
  DeletesOwnSession
PROPERTIES
  Collected
  ImplementsBindings
CHECK_DEADLOCK FALSE
