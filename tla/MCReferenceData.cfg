\* Three sessions, each a client's or the script's; one of them may be cut.
SPECIFICATION FairSpec
CONSTANTS
  s1 = s1  s2 = s2  s3 = s3
  Session = {s1, s2, s3}
  Requests <- MCRequests
  Initial <- MCInitial
  MaxRequests = 3
  MaxFaults = 1
CHECK_DEADLOCK FALSE
INVARIANTS
  OneRowPerKey
  ReferencesHold
  AuditMatchesRows
  CreatedIsStored
  SeedIsWhole
PROPERTIES
  ConflictIsTrue
  EveryCreationEnds
