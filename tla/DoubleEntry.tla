---------------------------- MODULE DoubleEntry ----------------------------
(***************************************************************************)
(* The data of the ledger and the pure rules on it: journal entries, the   *)
(* checks create_transaction makes on a payload, the conversion of an      *)
(* amount to USD, and the mirror image void_transaction gives a reversal.  *)
(*                                                                         *)
(* Money is in integer minor units.  A rate (Numeric(18, 8) in the table)  *)
(* is the integer rate * RateScale, so the base currency's rate 1 is       *)
(* RateScale itself.                                                       *)
(***************************************************************************)
EXTENDS Integers, Sequences, FiniteSets, Functions, FiniteSetsExt

CONSTANTS
  Account,          \* every account id a request can name
  ActiveAccount,    \* the accounts with is_active = TRUE
  CurrencyOf,       \* the currency of each active account
  Currency,         \* every currency code a request can name
  KnownCurrency,    \* the codes in the currencies table
  BaseCurrency,     \* "USD"
  RateScale,        \* one unit of the base currency, as a rate
  MaxBigInt,        \* the largest value of a BIGINT column
  Date              \* the days a transaction or a rate can carry

ASSUME DataAssumption ==
  /\ ActiveAccount \subseteq Account
  /\ KnownCurrency \subseteq Currency
  /\ CurrencyOf \in [ActiveAccount -> KnownCurrency]     \* the foreign key on accounts
  /\ BaseCurrency \in Currency
  /\ RateScale \in Nat \ {0}
  /\ MaxBigInt \in Nat
  /\ Date \subseteq Nat

Direction == {"debit", "credit"}

\* What the schema lets through: an amount is a positive integer.
PayloadEntry ==
  [account : Account, direction : Direction, amount : Nat \ {0}, currency : Currency]

Payload == [code : Currency, date : Date, entries : Seq(PayloadEntry)]

Entry ==
  [account : Account, direction : Direction, amount : Nat \ {0},
   currency : Currency, usd : Nat]

ExchangeRate == [currency : Currency, date : Date, rate : Nat \ {0}]

-----------------------------------------------------------------------------
(* Sums over the entries of one transaction. *)

Amounts(entries) == [i \in DOMAIN entries |-> entries[i].amount]

Side(entries, dir) == {i \in DOMAIN entries : entries[i].direction = dir}

SideSum(entries, dir) == SumFunctionOnSet(Amounts(entries), Side(entries, dir))

Balanced(entries) == SideSum(entries, "debit") = SideSum(entries, "credit")

BothSides(entries) == \A dir \in Direction : Side(entries, dir) # {}

SingleCurrency(entries) ==
  \A i, j \in DOMAIN entries : entries[i].currency = entries[j].currency

\* What every transaction of the ledger is required to be.
WellFormed(entries) ==
  Balanced(entries) /\ BothSides(entries) /\ SingleCurrency(entries)

-----------------------------------------------------------------------------
(* create_transaction: the checks that answer 422. *)

AccountsFound(entries) == \A i \in DOMAIN entries : entries[i].account \in ActiveAccount

CurrencyMatchesAccount(entries) ==
  \A i \in DOMAIN entries : entries[i].currency = CurrencyOf[entries[i].account]

\* Mutants of Accepted: without the check that there is one currency, and without
\* the one that an account gets entries in its own.
AcceptedMixed(p) ==
  /\ Len(p.entries) >= 2 /\ AccountsFound(p.entries) /\ BothSides(p.entries)
  /\ CurrencyMatchesAccount(p.entries) /\ Balanced(p.entries)

AcceptedForeign(p) ==
  /\ Len(p.entries) >= 2 /\ AccountsFound(p.entries) /\ BothSides(p.entries)
  /\ SingleCurrency(p.entries) /\ Balanced(p.entries)

Accepted(p) ==
  /\ Len(p.entries) >= 2
  /\ AccountsFound(p.entries)
  /\ BothSides(p.entries)
  /\ SingleCurrency(p.entries)
  /\ CurrencyMatchesAccount(p.entries)
  /\ Balanced(p.entries)

-----------------------------------------------------------------------------
(* The rate of a transaction: 1 in the base currency; else the latest rate *)
(* published for a day on or before the transaction's.                     *)

Candidates(rates, code, date) ==
  {r \in rates : r.currency = code /\ r.date <= date}

RateKnown(rates, code, date) ==
  \/ code = BaseCurrency
  \/ /\ {code, BaseCurrency} \subseteq KnownCurrency
     /\ Candidates(rates, code, date) # {}

\* Mutants: the earliest rate, and the latest of all, whatever the date of the transaction.
EarliestRate(rates, code, date) ==
  IF code = BaseCurrency THEN RateScale
  ELSE (CHOOSE r \in Candidates(rates, code, date) :
          \A q \in Candidates(rates, code, date) : r.date <= q.date).rate

LatestRateOfAll(rates, code, date) ==
  IF code = BaseCurrency THEN RateScale
  ELSE (CHOOSE r \in rates :
          r.currency = code /\ \A q \in rates : q.currency = code => q.date <= r.date).rate

ResolveUsdConversionRate(rates, code, date) ==
  IF code = BaseCurrency THEN RateScale
  ELSE (CHOOSE r \in Candidates(rates, code, date) :
          \A q \in Candidates(rates, code, date) : q.date <= r.date).rate

\* Mutant: int() of the product.
ConvertAmountDown(amount, rate) == (amount * rate) \div RateScale

\* Decimal.quantize(1, ROUND_HALF_UP) of amount * rate, for positive operands.
ConvertAmountUsd(amount, rate) == (2 * amount * rate + RateScale) \div (2 * RateScale)

\* The entries create_transaction stores for a payload's entries.
Convert(entries, rate) ==
  [i \in DOMAIN entries |->
     [account |-> entries[i].account, direction |-> entries[i].direction,
      amount |-> entries[i].amount, currency |-> entries[i].currency,
      usd |-> ConvertAmountUsd(entries[i].amount, rate)]]

\* The BIGINT columns of entries, and the two BIGINT sums of the deferred trigger
\* check_entries_balance.
FitsColumns(entries) ==
  \A i \in DOMAIN entries : entries[i].amount <= MaxBigInt /\ entries[i].usd <= MaxBigInt

TriggerAccepts(entries) ==
  /\ \A dir \in Direction : SideSum(entries, dir) <= MaxBigInt
  /\ Balanced(entries)

-----------------------------------------------------------------------------
(* void_transaction: the entries of the reversal. *)

Opposite(dir) == IF dir = "debit" THEN "credit" ELSE "debit"

\* Mutant: only the debits change sides.
MirrorDebits(entries) == [i \in DOMAIN entries |-> [entries[i] EXCEPT !.direction = "credit"]]

Mirror(entries) ==
  [i \in DOMAIN entries |-> [entries[i] EXCEPT !.direction = Opposite(@)]]
=============================================================================
