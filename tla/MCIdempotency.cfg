\* Three requests with one key and two bodies; Redis may fail, a request may be cut.
SPECIFICATION Spec
CONSTANTS
  r1 = r1  r2 = r2  r3 = r3
  t1 = t1  t2 = t2
  k1 = k1
  NoKey = NoKey  NoTx = NoTx
  Request = {r1, r2, r3}
  Key = {k1}
  Body <- MCBody
  TxId = {t1, t2}
  Faults = {"redis", "crash"}
  MaxFaults = 2
SYMMETRY MCSymmetry
INVARIANTS
  TypeOK
  KeyAdmitsOne
  PostedOnce
  CommittedHoldsKey
  PendingIsGuarded
PROPERTIES
  ResponseStays
