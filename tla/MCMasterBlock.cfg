\* Two data nodes and two wanted copies of one block, terms of two versions.
CONSTANTS
  TermWidth = 2
  Server = {s1, s2}
  Rack <- OneRack
  BlockCount = 2
  WriteLease = 1
  RecoverLease = 2
  RecoverAndWriteInterval = 1
  MaxNow = 2
  Reported = {2, 3}
  Sizes = {1}
  MaxReplicas = 3
  s1 = s1
  s2 = s2
SPECIFICATION Spec
CHECK_DEADLOCK FALSE
SYMMETRY ServerSymmetry
INVARIANTS
  TypeOK
  ExpectWithinOneTerm
  NoHealthyReplicaAhead
  LeaseCoversReplicas
PROPERTIES
  VersionsNeverGoBack
  NewTermIsNewest
  RepairOnlyWhenQuiet
