\* A reader races a COMMIT and its invalidation; no fault.
SPECIFICATION Spec
CONSTANTS
  r1 = r1
  w1 = w1  w2 = w2
  a1 = a1  ghost = ghost
  Reader = {r1}
  Writer = {w1}
  Account = {a1}
  KnownAccount = {a1}
  Day <- MCDay
  Writes <- MCWrites
  Faults = {}
  MaxFaults = 0
  MaxWrites = 2
INVARIANTS
  HitsSeeFinishedWrites
