\* A reader and two writers of one account under fairness; Redis fails or a request
\* is cut once.
SPECIFICATION FairSpec
CONSTANTS
  r1 = r1
  w1 = w1  w2 = w2
  a1 = a1  ghost = ghost
  Reader = {r1}
  Writer = {w1, w2}
  Account = {a1, ghost}
  KnownAccount = {a1}
  Day <- MCDay
  Writes <- MCWrites
  Faults = {"redis", "crash"}
  MaxFaults = 1
  MaxWrites = 2
INVARIANTS
  RightEntriesAreDeleted
  CachedWasTrue
PROPERTIES
  StaleEnds
