\* Two sessions, a journal of up to four transactions, every payload.
SPECIFICATION Spec
CONSTANTS
  s1 = s1  s2 = s2  s3 = s3
  t1 = t1  t2 = t2  t3 = t3  t4 = t4
  NoTx = NoTx
  Session = {s1, s2}
  TxId = {t1, t2, t3, t4}
  Account <- MCAccount
  ActiveAccount <- MCActiveAccount
  CurrencyOf <- MCCurrencyOf
  Currency <- MCCurrency
  KnownCurrency <- MCKnownCurrency
  BaseCurrency = "USD"
  RateScale <- MCRateScale
  MaxBigInt = 8
  Date <- MCDate
  Payloads <- MCPayloads
  Rates <- MCRates
  MaxTx = 4
SYMMETRY MCSymmetry
INVARIANTS
  TypeOK
  LockDiscipline
  JournalWellFormed
  VoidedOnceByMirror
  AuditMatchesJournal
  VoidNetsToZero
  TrialBalance
  UsdAtRateOfCurrency
  UsdSidesWithinRounding
  PostedCanBeVoided
  AnswersHold
PROPERTIES
  ImplementsLedgerSpec
