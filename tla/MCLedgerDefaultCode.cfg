\* Payloads that leave currency_code out: the schema's default is the base currency.
SPECIFICATION Spec
CONSTANTS
  s1 = s1  s2 = s2  s3 = s3
  t1 = t1  t2 = t2  t3 = t3  t4 = t4
  NoTx = NoTx
  Session = {s1}
  TxId = {t1, t2, t3, t4}
  Account <- MCAccount
  ActiveAccount <- MCActiveAccount
  CurrencyOf <- MCCurrencyOf
  Currency <- MCCurrency
  KnownCurrency <- MCKnownCurrency
  BaseCurrency = "USD"
  RateScale <- MCRateScale
  MaxBigInt = 8
  Date <- MCDate
  Payloads <- MCPayloadsDefaultCode
  Rates <- MCRates
  MaxTx = 2
INVARIANTS
  UsdAtRateOfCurrency
