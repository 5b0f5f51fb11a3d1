SPECIFICATION FairSpec
CONSTANTS
  Tokens = {none, t1, t2, bad}
  NoToken = none
  Valid = {t1, t2}
  Sockets = {s1, s2, s3}
  StrictMode = TRUE
  Down = Down
INVARIANTS
  TypeOK
  ConnectedIsBacked
  WrongStatusIsLate
  OneConnection
PROPERTIES
  StreamReturns
  ImplementsSubscription
