\* Three clients, one key, under fairness; no symmetry.
SPECIFICATION ApiFairSpec
CONSTANTS
  s1 = s1  s2 = s2  s3 = s3
  t1 = t1  t2 = t2  t3 = t3  t4 = t4
  k1 = k1  noKey = noKey  r1 = r1
  NoTx = NoTx
  Session = {s1, s2, s3}
  Poster = {s1, s2}
  Voider = {s2, s3}
  Reader = {r1}
  TxId = {t1, t2}
  Account <- MCAccount
  ActiveAccount <- MCActiveAccount
  CurrencyOf <- MCCurrencyOf
  Currency <- MCCurrency
  KnownCurrency <- MCKnownCurrency
  BaseCurrency = "USD"
  RateScale <- MCRateScale
  MaxBigInt = 8
  Date <- MCDate
  Payloads <- MCPosts
  Rates = {}
  MaxTx = 2
  Key = {k1}
  NoKey = noKey
  Asks <- MCAsks
  Watched <- MCWatched
INVARIANTS
  AnsweredIsInJournal
  CachedIsExact
  ToldIsVisible
PROPERTIES
  ImplementsIdempotency
  EveryRequestEnds
