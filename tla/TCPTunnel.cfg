SPECIFICATION FairSpec
CONSTANTS
  secret = secret
  other = other
  Setting <- MCSetting
  Password = {secret, other}
  NoPw = none
  NApp = 2
  NBack = 1
INVARIANTS
  TypeOK
  StreamFaithful
  NothingInTheClear
PROPERTIES
  NoncesExchanged
  
CHECK_DEADLOCK FALSE
