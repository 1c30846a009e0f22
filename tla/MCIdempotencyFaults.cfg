\* Two requests under fairness; every kind of fault.
SPECIFICATION FairSpec
CONSTANTS
  r1 = r1  r2 = r2  r3 = r3
  t1 = t1  t2 = t2
  k1 = k1
  NoKey = NoKey  NoTx = NoTx
  Request = {r1, r2}
  Key = {k1}
  Body <- MCBody
  TxId = {t1, t2}
  Faults = {"redis", "crash", "afterCommit", "keysLost"}
  MaxFaults = 2
INVARIANTS
  AnswersTrue
PROPERTIES
  PendingEnds
