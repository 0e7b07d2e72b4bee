SPECIFICATION Spec
CONSTANTS
  Server <- MCServer
  me = 2
  MaxZxid = 1
  MaxEpoch = 2
CONSTRAINT TwoClaims
INVARIANTS
  TypeOK
  LeadsInOwnEpoch
PROPERTIES
  NeverBehindOwnLog
