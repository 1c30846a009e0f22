\* Something fails between the COMMIT and the end of cache().
SPECIFICATION Spec
CONSTANTS
  r1 = r1  r2 = r2  r3 = r3
  t1 = t1  t2 = t2
  k1 = k1
  NoKey = NoKey  NoTx = NoTx
  Request = {r1, r2}
  Key = {k1}
  Body <- MCBody
  TxId = {t1, t2}
  Faults = {"afterCommit"}
  MaxFaults = 1
INVARIANTS
  PostedOnce
