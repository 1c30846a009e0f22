\* Two clients that create one currency; no fault.
SPECIFICATION Spec
CONSTANTS
  s1 = s1  s2 = s2  s3 = s3
  Session = {s1, s2}
  Requests <- MCDuplicates
  Initial <- MCInitial
  MaxRequests = 2
  MaxFaults = 0
CHECK_DEADLOCK FALSE
INVARIANTS
  DuplicatesAreCaught
