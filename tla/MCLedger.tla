------------------------------ MODULE MCLedger ------------------------------
(***************************************************************************)
(* Small instances of Ledger for TLC: four active accounts, two in the base*)
(* currency and two in another, one inactive account, three days.          *)
(***************************************************************************)
EXTENDS Ledger, TLC

CONSTANTS s1, s2, s3, t1, t2, t3, t4

MCAccount == {"cash", "sales", "eurCash", "eurSales", "closed"}
MCActiveAccount == MCAccount \ {"closed"}
MCCurrencyOf ==
  [a \in MCActiveAccount |-> IF a \in {"cash", "sales"} THEN "USD" ELSE "EUR"]
MCCurrency == {"USD", "EUR", "XXX"}
MCKnownCurrency == {"USD", "EUR"}

\* Quarters make rounding visible, down, up and at a half.
MCRateScale == 4
MCDate == {1, 2, 3}

Line(a, dir, n, c) == [account |-> a, direction |-> dir, amount |-> n, currency |-> c]

Pay(code, day, lines) == [code |-> code, date |-> day, entries |-> lines]

Sale == Pay("USD", 1, <<Line("cash", "debit", 3, "USD"), Line("sales", "credit", 3, "USD")>>)

\* Five lines: the debits are rounded one by one, the credit as a whole.
SaleInEur ==
  Pay("EUR", 2, [i \in 1 .. 4 |-> Line("eurCash", "debit", 1, "EUR")]
                \o <<Line("eurSales", "credit", 4, "EUR")>>)

\* currency_code left out: the schema's default is the base currency.
SaleInEurDefaultCode == [SaleInEur EXCEPT !.code = "USD"]

\* More than a BIGINT column of this instance holds; and amounts that fit with a
\* sum that does not.
Huge == Pay("USD", 1, <<Line("cash", "debit", 9, "USD"), Line("sales", "credit", 9, "USD")>>)
HugeSum ==
  Pay("USD", 1, <<Line("cash", "debit", 5, "USD"), Line("cash", "debit", 4, "USD"),
                  Line("sales", "credit", 4, "USD"), Line("sales", "credit", 5, "USD")>>)

Unbalanced == Pay("USD", 1, <<Line("cash", "debit", 2, "USD"), Line("sales", "credit", 3, "USD")>>)
OneSided == Pay("USD", 1, <<Line("cash", "debit", 1, "USD"), Line("sales", "debit", 1, "USD")>>)
TwoCurrencies ==
  Pay("USD", 1, <<Line("cash", "debit", 1, "USD"), Line("eurCash", "credit", 1, "EUR")>>)
WrongCurrency ==
  Pay("USD", 1, <<Line("cash", "debit", 1, "USD"), Line("eurCash", "credit", 1, "USD")>>)
Closed ==
  Pay("USD", 1, <<Line("cash", "debit", 1, "USD"), Line("closed", "credit", 1, "USD")>>)

MCRejected == {Unbalanced, OneSided, TwoCurrencies, WrongCurrency, Closed}
MCPayloads == {Sale, SaleInEur, Huge, HugeSum} \cup MCRejected
MCPayloadsDefaultCode == {Sale, SaleInEurDefaultCode, Unbalanced}

EurRate(day, r) == [currency |-> "EUR", date |-> day, rate |-> r]

\* Less than a dollar to the euro, then a dollar and a half, and two rates that one
\* day cannot both have.
MCRates == {EurRate(1, 3), EurRate(2, 6), EurRate(3, 5), EurRate(3, 7)}

MCSymmetry == Permutations(Session) \cup Permutations(TxId)
=============================================================================
