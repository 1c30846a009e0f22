\* One client, one user whose row changes once, pages of one row.
SPECIFICATION Spec
CONSTANTS
  u1 = u1  c1 = c1  w1 = w1  w2 = w2
  User = {u1}
  Client = {c1}
  Reader = c1
  Lifetime = 1
  LoginTime = 1
  MaxTime = 2
  MaxChanges = 1
  TxId <- MCTxId
  EntryIds <- MCEntryIds
  Date <- MCDate
  Limit = 1
INVARIANTS
  PagesMissNothing
  AuditMissesOnlyTies
  EntityHistoryComplete
  RevocationWindow
PROPERTIES
  PagesForEntitled
