------------------------- MODULE DoubleEntryProofs -------------------------
(***************************************************************************)
(* Facts about the pure rules of DoubleEntry, for any accounts, currencies,*)
(* rates and amounts: what the mirror image of a set of entries and the    *)
(* conversion to USD preserve, and how far the rounding may go.            *)
(***************************************************************************)
EXTENDS Journal, WellFoundedInduction, FiniteSetTheorems, TLAPS

LEMMA OppositeType == \A dir \in Direction : Opposite(dir) \in Direction
  BY DEF Direction, Opposite

(* The mirror image of entries is a sequence of entries of the same length.*)
LEMMA MirrorType ==
  ASSUME NEW entries \in Seq(Entry)
  PROVE  /\ Mirror(entries) \in Seq(Entry)
         /\ DOMAIN Mirror(entries) = DOMAIN entries
  <1>1. /\ Len(entries) \in Nat /\ DOMAIN entries = 1 .. Len(entries)
        /\ \A i \in DOMAIN entries : entries[i] \in Entry
    OBVIOUS
  <1>2. ASSUME NEW i \in DOMAIN entries
        PROVE  [entries[i] EXCEPT !.direction = Opposite(@)] \in Entry
    BY <1>1, OppositeType DEF Entry
  <1>3. Mirror(entries) \in [1 .. Len(entries) -> Entry]
    BY <1>1, <1>2 DEF Mirror
  <1> QED  BY <1>1, <1>3 DEF Mirror

(* What was debited is credited in the mirror image, and the other way     *)
(* round, by the same amounts.                                             *)
LEMMA MirrorSums ==
  ASSUME NEW entries \in Seq(Entry)
  PROVE  /\ Side(Mirror(entries), "debit") = Side(entries, "credit")
         /\ Side(Mirror(entries), "credit") = Side(entries, "debit")
         /\ Amounts(Mirror(entries)) = Amounts(entries)
  <1>1. \A i \in DOMAIN entries : entries[i] \in Entry
    OBVIOUS
  <1>2. DOMAIN Mirror(entries) = DOMAIN entries
    BY MirrorType
  <1>3. ASSUME NEW i \in DOMAIN entries
        PROVE  /\ Mirror(entries)[i].direction = Opposite(entries[i].direction)
               /\ Mirror(entries)[i].amount = entries[i].amount
               /\ entries[i].direction \in Direction
    BY <1>1 DEF Mirror, Entry
  <1>4. Amounts(Mirror(entries)) = Amounts(entries)
    BY <1>2, <1>3 DEF Amounts
  <1> QED  BY <1>2, <1>3, <1>4 DEF Side, Opposite, Direction

(* The reversal of a well-formed transaction is well formed: it balances   *)
(* because the original does.                                              *)
THEOREM MirrorWellFormed ==
  ASSUME NEW entries \in Seq(Entry), WellFormed(entries)
  PROVE  WellFormed(Mirror(entries))
  <1>1. Balanced(Mirror(entries))
    BY MirrorSums DEF WellFormed, Balanced, SideSum
  <1>2. BothSides(Mirror(entries))
    BY MirrorSums DEF WellFormed, BothSides, Direction
  <1>3. SingleCurrency(Mirror(entries))
    <2>1. \A i \in DOMAIN entries : entries[i] \in Entry
      OBVIOUS
    <2>2. \A i \in DOMAIN entries : Mirror(entries)[i].currency = entries[i].currency
      BY <2>1 DEF Mirror, Entry
    <2> QED  BY <2>2, MirrorType DEF WellFormed, SingleCurrency
  <1> QED  BY <1>1, <1>2, <1>3 DEF WellFormed

-----------------------------------------------------------------------------
(* Half-up rounding: the USD amount is a natural number, and it is off the *)
(* exact product by at most half a cent.                                   *)
THEOREM ConversionBound ==
  ASSUME NEW amount \in Nat, NEW r \in Nat
  PROVE  /\ ConvertAmountUsd(amount, r) \in Nat
         /\ 2 * RateScale * ConvertAmountUsd(amount, r) <= 2 * amount * r + RateScale
         /\ 2 * amount * r - RateScale < 2 * RateScale * ConvertAmountUsd(amount, r)
  <1> DEFINE x == 2 * amount * r + RateScale
             y == 2 * RateScale
  <1>1. RateScale \in Nat /\ RateScale > 0
    BY DataAssumption
  <1>2. 2 * amount * r \in Nat
    OBVIOUS
  <1>3. x \in Nat /\ y \in Nat /\ y > 0
    BY <1>1, <1>2
  <1> HIDE DEF x, y
  <1>4. x \div y \in Nat /\ y * (x \div y) <= x /\ x < y * (x \div y) + y
    BY <1>3
  <1>5. y * (x \div y) = 2 * RateScale * (x \div y)
    BY DEF y
  <1>6. /\ 2 * RateScale * (x \div y) <= 2 * amount * r + RateScale
        /\ 2 * amount * r + RateScale < 2 * RateScale * (x \div y) + 2 * RateScale
    BY <1>4, <1>5 DEF x, y
  <1>7. ConvertAmountUsd(amount, r) = x \div y
    BY DEF ConvertAmountUsd, x, y
  <1>8. 2 * RateScale * (x \div y) \in Int
    BY <1>1, <1>4
  <1> QED  BY <1>1, <1>2, <1>4, <1>6, <1>7, <1>8

(* An amount in the base currency is its own USD amount.                   *)
LEMMA BaseIsIdentity ==
  ASSUME NEW amount \in Nat
  PROVE  ConvertAmountUsd(amount, RateScale) = amount
  <1> DEFINE c == ConvertAmountUsd(amount, RateScale)
  <1>1. RateScale \in Nat /\ RateScale > 0
    BY DataAssumption
  <1>2. /\ c \in Nat
        /\ 2 * RateScale * c <= 2 * amount * RateScale + RateScale
        /\ 2 * amount * RateScale - RateScale < 2 * RateScale * c
    BY <1>1, ConversionBound
  <1> HIDE DEF c
  <1>3. ASSUME c > amount PROVE FALSE
    <2>1. RateScale * c >= RateScale * (amount + 1)
      BY <1>1, <1>2, <1>3
    <2> QED  BY <1>1, <1>2, <2>1
  <1>4. ASSUME c < amount PROVE FALSE
    <2>1. RateScale * (c + 1) <= RateScale * amount
      BY <1>1, <1>2, <1>4
    <2> QED  BY <1>1, <1>2, <2>1
  <1>5. c = amount
    BY <1>2, <1>3, <1>4
  <1> QED  BY <1>5 DEF c

(* What create_transaction stores for an accepted payload is a well-formed *)
(* sequence of entries, at any rate.                                       *)
THEOREM ConvertWellFormed ==
  ASSUME NEW p \in Payload, Accepted(p), NEW r \in Nat
  PROVE  /\ Convert(p.entries, r) \in Seq(Entry)
         /\ WellFormed(Convert(p.entries, r))
  <1> DEFINE e == p.entries
             f == Convert(e, r)
  <1>1. /\ e \in Seq(PayloadEntry)
        /\ Len(e) \in Nat /\ DOMAIN e = 1 .. Len(e)
        /\ \A i \in DOMAIN e : e[i] \in PayloadEntry
    BY DEF Payload
  <1>2. DOMAIN f = DOMAIN e
    BY DEF Convert
  <1>3. ASSUME NEW i \in DOMAIN e
        PROVE  /\ f[i] \in Entry
               /\ f[i].amount = e[i].amount
               /\ f[i].direction = e[i].direction
               /\ f[i].currency = e[i].currency
    <2>1. e[i] \in PayloadEntry
      BY <1>1
    <2>2. ConvertAmountUsd(e[i].amount, r) \in Nat
      BY <2>1, ConversionBound DEF PayloadEntry
    <2>3. f[i] = [account |-> e[i].account, direction |-> e[i].direction,
                  amount |-> e[i].amount, currency |-> e[i].currency,
                  usd |-> ConvertAmountUsd(e[i].amount, r)]
      BY DEF Convert
    <2> QED  BY <2>1, <2>2, <2>3 DEF PayloadEntry, Entry
  <1>4. f = [i \in 1 .. Len(e) |-> f[i]]
    BY <1>1 DEF Convert
  <1>5. f \in Seq(Entry)
    BY <1>1, <1>2, <1>3, <1>4
  <1>6. Amounts(f) = Amounts(e) /\ \A dir : Side(f, dir) = Side(e, dir)
    BY <1>2, <1>3 DEF Amounts, Side
  <1>7. Balanced(f) /\ BothSides(f)
    BY <1>6 DEF Accepted, Balanced, SideSum, BothSides
  <1>8. SingleCurrency(f)
    BY <1>2, <1>3 DEF Accepted, SingleCurrency
  <1> QED  BY <1>5, <1>7, <1>8 DEF WellFormed

-----------------------------------------------------------------------------
LEMMA LeastNatural ==
  ASSUME NEW T \in SUBSET Nat, T # {}
  PROVE  \E x \in T : \A y \in T : x <= y
  <1> DEFINE R == OpToRel(<, Nat)
  <1>1. \A x, y \in Nat : y < x => <<y, x>> \in R
    BY DEF OpToRel
  <1>2. IsWellFoundedOn(R, Nat)
    BY NatLessThanWellFounded
  <1> HIDE DEF R
  <1>3. PICK x \in T : \A y \in T : ~ (<<y, x>> \in R)
    BY <1>2, WFMin
  <1>4. ASSUME NEW y \in T PROVE x <= y
    <2>1. x \in Nat /\ y \in Nat
      OBVIOUS
    <2>2. ~ (y < x)
      BY <1>1, <1>3, <2>1, Zenon
    <2> QED  BY <2>1, <2>2
  <1> QED  BY <1>4

(* When a rate is known, the one found is that of the currency's latest day*)
(* on or before the transaction's (find_exchange_rate).                    *)
THEOREM LatestRate ==
  ASSUME NEW rates \in SUBSET ExchangeRate, NEW code, NEW date \in Date,
         RateKnown(rates, code, date)
  PROVE  /\ ResolveUsdConversionRate(rates, code, date) \in Nat \ {0}
         /\ code # BaseCurrency =>
              \E r \in Candidates(rates, code, date) :
                /\ r.rate = ResolveUsdConversionRate(rates, code, date)
                /\ \A q \in Candidates(rates, code, date) : q.date <= r.date
  <1>1. CASE code = BaseCurrency
    BY <1>1, DataAssumption DEF ResolveUsdConversionRate
  <1>2. CASE code # BaseCurrency
    <2> DEFINE C == Candidates(rates, code, date)
               Gaps == {date - r.date : r \in C}
    <2>1. C # {} /\ \A r \in C : r \in ExchangeRate /\ r.date <= date
      BY <1>2 DEF RateKnown, Candidates
    <2>2. date \in Nat /\ \A r \in C : r.date \in Nat
      BY <2>1, DataAssumption DEF ExchangeRate
    <2>3. Gaps \in SUBSET Nat /\ Gaps # {}
      BY <2>1, <2>2
    <2>4. PICK x \in Gaps : \A y \in Gaps : x <= y
      BY <2>3, LeastNatural
    <2>5. \E r \in C : \A q \in C : q.date <= r.date
      <3>1. PICK r \in C : x = date - r.date
        OBVIOUS
      <3>2. ASSUME NEW q \in C PROVE q.date <= r.date
        <4>1. x <= date - q.date
          BY <2>4
        <4> QED  BY <2>2, <3>1, <4>1
      <3> QED  BY <3>2
    <2> DEFINE best == CHOOSE r \in C : \A q \in C : q.date <= r.date
    <2>6. best \in C /\ \A q \in C : q.date <= best.date
      BY <2>5
    <2>7. ResolveUsdConversionRate(rates, code, date) = best.rate
      BY <1>2 DEF ResolveUsdConversionRate
    <2> HIDE DEF best
    <2>8. best.rate \in Nat \ {0}
      BY <2>1, <2>6 DEF ExchangeRate
    <2> QED  BY <1>2, <2>6, <2>7, <2>8
  <1> QED  BY <1>1, <1>2

-----------------------------------------------------------------------------
(* Sums over finite sets *)

(* Induction over a finite set: P is the set of the subsets of S for which *)
(* what is to be shown holds.                                              *)
LEMMA FiniteInduction ==
  ASSUME NEW S, IsFiniteSet(S), NEW P, {} \in P,
         \A T \in SUBSET S, x \in S : T \in P /\ x \notin T => T \cup {x} \in P
  PROVE  S \in P
  <1> DEFINE Bad == {T \in SUBSET S : T \notin P}
             Sizes == {Cardinality(T) : T \in Bad}
  <1>1. \A T \in SUBSET S : IsFiniteSet(T) /\ Cardinality(T) \in Nat
    BY FS_Subset, FS_CardinalityType
  <1>2. Sizes \in SUBSET Nat
    BY <1>1
  <1>3. ASSUME Bad # {} PROVE FALSE
    <2>1. Sizes # {}
      BY <1>3
    <2>2. PICK n \in Sizes : \A m \in Sizes : n <= m
      BY <1>2, <2>1, LeastNatural
    <2>3. PICK T \in Bad : Cardinality(T) = n
      BY <2>2
    <2>4. PICK x : x \in T
      BY <2>3
    <2>5. T \ {x} \in SUBSET S /\ Cardinality(T \ {x}) = n - 1 /\ n \in Nat
      BY <1>1, <2>3, <2>4, FS_RemoveElement
    <2>6. T \ {x} \in P
      BY <2>2, <2>5
    <2>7. (T \ {x}) \cup {x} = T /\ x \in S /\ x \notin T \ {x}
      BY <2>3, <2>4
    <2> QED  BY <2>3, <2>5, <2>6, <2>7
  <1> QED  BY <1>3

\* SumFunctionOnSet, unfolded: a table of the sums over every subset.
AnyOf(s) == CHOOSE x \in s : TRUE

SumStep(fun, s, table) == IF s = {} THEN 0 ELSE fun[AnyOf(s)] + table[s \ {AnyOf(s)}]

IsSumTable(fun, D, table) == table = [s \in D |-> SumStep(fun, s, table)]

SumTable(fun, S) == CHOOSE table : IsSumTable(fun, SUBSET S, table)

LEMMA SumIsTable ==
  ASSUME NEW fun, NEW S
  PROVE  SumFunctionOnSet(fun, S) = SumTable(fun, S)[S]
  BY DEF SumFunctionOnSet, FoldFunctionOnSet, MapThenFoldSet, SumTable, IsSumTable, SumStep, AnyOf

LEMMA AnyOfIn == \A s : s # {} => AnyOf(s) \in s
  BY DEF AnyOf

\* The subsets of S with at most n elements.
Upto(S, n) == {s \in SUBSET S : Cardinality(s) <= n}

LEMMA SmallerSubset ==
  ASSUME NEW S, IsFiniteSet(S), NEW n \in Nat, NEW s \in Upto(S, n), s # {}
  PROVE  n # 0 /\ n - 1 \in Nat /\ s \ {AnyOf(s)} \in Upto(S, n - 1)
  <1>1. IsFiniteSet(s) /\ Cardinality(s) \in Nat /\ Cardinality(s) <= n /\ Cardinality(s) # 0
    BY FS_Subset, FS_CardinalityType, FS_EmptySet DEF Upto
  <1>2. Cardinality(s \ {AnyOf(s)}) = Cardinality(s) - 1
    BY <1>1, AnyOfIn, FS_RemoveElement
  <1> QED  BY <1>1, <1>2 DEF Upto

(* There is such a table, built by the size of the subsets.                *)
LEMMA SumTableStep ==
  ASSUME NEW fun, NEW S, IsFiniteSet(S), NEW n \in Nat, n # 0,
         NEW f, IsSumTable(fun, Upto(S, n - 1), f)
  PROVE  \E g : IsSumTable(fun, Upto(S, n), g)
  <1> DEFINE g == [s \in Upto(S, n) |-> SumStep(fun, s, f)]
  <1>1. \A s \in Upto(S, n - 1) : s \in Upto(S, n)
    BY FS_Subset, FS_CardinalityType DEF Upto
  <1>2. \A s \in Upto(S, n - 1) : g[s] = f[s]
    BY <1>1 DEF IsSumTable
  <1>3. ASSUME NEW s \in Upto(S, n) PROVE SumStep(fun, s, f) = SumStep(fun, s, g)
    <2>1. CASE s = {}
      BY <2>1 DEF SumStep
    <2>2. CASE s # {}
      <3>1. s \ {AnyOf(s)} \in Upto(S, n - 1)
        BY <2>2, SmallerSubset
      <3> HIDE DEF g
      <3> QED  BY <1>2, <2>2, <3>1 DEF SumStep
    <2> QED  BY <2>1, <2>2
  <1>4. g = [s \in Upto(S, n) |-> SumStep(fun, s, g)]
    BY <1>3
  <1> QED  BY <1>4 DEF IsSumTable

LEMMA SumTableExists ==
  ASSUME NEW fun, NEW S, IsFiniteSet(S)
  PROVE  IsSumTable(fun, SUBSET S, SumTable(fun, S))
  <1> DEFINE Bad == {n \in Nat : ~ \E t : IsSumTable(fun, Upto(S, n), t)}
  <1>1. Bad = {}
    <2> SUFFICES ASSUME Bad # {} PROVE FALSE
      OBVIOUS
    <2>1. PICK n \in Bad : \A m \in Bad : n <= m
      BY LeastNatural
    <2>2. CASE n = 0
      <3>1. \A s \in Upto(S, 0) : s = {}
        BY SmallerSubset
      <3>2. [s \in Upto(S, 0) |-> 0] = [s \in Upto(S, 0) |-> SumStep(fun, s, [r \in Upto(S, 0) |-> 0])]
        BY <3>1 DEF SumStep
      <3>3. IsSumTable(fun, Upto(S, 0), [s \in Upto(S, 0) |-> 0])
        BY <3>2 DEF IsSumTable
      <3> QED  BY <2>2, <3>3
    <2>3. CASE n # 0
      <3>1. n - 1 \in Nat /\ ~ (n <= n - 1)
        BY <2>3
      <3>2. n - 1 \notin Bad
        BY <2>1, <3>1
      <3>3. PICK f : IsSumTable(fun, Upto(S, n - 1), f)
        BY <3>1, <3>2
      <3>4. \E g : IsSumTable(fun, Upto(S, n), g)
        BY <2>3, <3>3, SumTableStep
      <3> QED  BY <3>4
    <2> QED  BY <2>2, <2>3
  <1>2. Cardinality(S) \in Nat /\ Upto(S, Cardinality(S)) = SUBSET S
    BY FS_Subset, FS_CardinalityType DEF Upto
  <1>3. Cardinality(S) \notin Bad
    BY <1>1
  <1>4. \E t : IsSumTable(fun, Upto(S, Cardinality(S)), t)
    BY <1>2, <1>3
  <1>5. \E t : IsSumTable(fun, SUBSET S, t)
    BY <1>2, <1>4
  <1> QED  BY <1>5 DEF SumTable

LEMMA TableEntry ==
  ASSUME NEW fun, NEW D, NEW t, IsSumTable(fun, D, t), NEW s \in D
  PROVE  t[s] = SumStep(fun, s, t)
  <1>1. \A f : f = [r \in D |-> SumStep(fun, r, t)] => f[s] = SumStep(fun, s, t)
    OBVIOUS
  <1> QED  BY <1>1 DEF IsSumTable

(* What a table says of a subset does not depend on the set it is for.     *)
LEMMA TablesAgree ==
  ASSUME NEW fun, NEW S, IsFiniteSet(S), NEW T \in SUBSET S, NEW u \in SUBSET T
  PROVE  SumTable(fun, S)[u] = SumTable(fun, T)[u]
  <1> DEFINE st == SumTable(fun, S)
             tt == SumTable(fun, T)
             Bad == {n \in Nat : \E v \in Upto(T, n) : st[v] # tt[v]}
  <1>1. IsFiniteSet(T) /\ SUBSET T \subseteq SUBSET S
    BY FS_Subset
  <1>2. /\ \A v \in SUBSET T : st[v] = SumStep(fun, v, st)
        /\ \A v \in SUBSET T : tt[v] = SumStep(fun, v, tt)
    BY <1>1, SumTableExists, TableEntry
  <1> HIDE DEF st, tt
  <1>3. ASSUME Bad # {} PROVE FALSE
    <2>1. PICK n \in Bad : \A m \in Bad : n <= m
      BY <1>3, LeastNatural
    <2>2. PICK v \in Upto(T, n) : st[v] # tt[v]
      BY <2>1
    <2>3. v \in SUBSET T
      BY DEF Upto
    <2>4. v # {}
      BY <1>2, <2>2, <2>3 DEF SumStep
    <2>5. n - 1 \in Nat /\ v \ {AnyOf(v)} \in Upto(T, n - 1)
      BY <1>1, <2>1, <2>4, SmallerSubset
    <2>6. ~ (n <= n - 1)
      OBVIOUS
    <2>7. st[v \ {AnyOf(v)}] = tt[v \ {AnyOf(v)}]
      BY <2>1, <2>5, <2>6
    <2> QED  BY <1>2, <2>2, <2>3, <2>4, <2>7 DEF SumStep
  <1>4. Cardinality(T) \in Nat /\ u \in Upto(T, Cardinality(T))
    BY <1>1, FS_Subset, FS_CardinalityType DEF Upto
  <1> QED  BY <1>3, <1>4 DEF st, tt

(* The sum over a set is one element's value and the sum over the rest.    *)
LEMMA SumEmpty == \A fun : SumFunctionOnSet(fun, {}) = 0
  <1> TAKE fun
  <1>1. IsSumTable(fun, SUBSET {}, SumTable(fun, {}))
    BY SumTableExists, FS_EmptySet
  <1>2. SumTable(fun, {})[{}] = SumStep(fun, {}, SumTable(fun, {}))
    BY <1>1, TableEntry
  <1> QED  BY <1>2, SumIsTable DEF SumStep

LEMMA SumUnfold ==
  ASSUME NEW fun, NEW S, IsFiniteSet(S), S # {}
  PROVE  SumFunctionOnSet(fun, S) = fun[AnyOf(S)] + SumFunctionOnSet(fun, S \ {AnyOf(S)})
  <1> DEFINE R == S \ {AnyOf(S)}
  <1>1. SumTable(fun, S)[S] = fun[AnyOf(S)] + SumTable(fun, S)[R]
    <2>1. IsSumTable(fun, SUBSET S, SumTable(fun, S)) /\ S \in SUBSET S
      BY SumTableExists
    <2>2. SumTable(fun, S)[S] = SumStep(fun, S, SumTable(fun, S))
      BY <2>1, TableEntry
    <2> QED  BY <2>2 DEF SumStep
  <1>2. SumTable(fun, S)[R] = SumTable(fun, R)[R]
    BY TablesAgree
  <1> QED  BY <1>1, <1>2, SumIsTable

LEMMA SumType ==
  ASSUME NEW S, IsFiniteSet(S), NEW fun, \A x \in S : fun[x] \in Int
  PROVE  SumFunctionOnSet(fun, S) \in Int
  <1> DEFINE Bad == {n \in Nat : \E T \in Upto(S, n) : SumFunctionOnSet(fun, T) \notin Int}
  <1>1. ASSUME Bad # {} PROVE FALSE
    <2>1. PICK n \in Bad : \A m \in Bad : n <= m
      BY <1>1, LeastNatural
    <2>2. PICK T \in Upto(S, n) : SumFunctionOnSet(fun, T) \notin Int
      BY <2>1
    <2>3. T # {} /\ IsFiniteSet(T) /\ T \subseteq S
      <3>1. T # {}
        BY <2>2, SumEmpty
      <3>2. T \in SUBSET S
        BY DEF Upto
      <3> QED  BY <3>1, <3>2, FS_Subset
    <2>4. n - 1 \in Nat /\ T \ {AnyOf(T)} \in Upto(S, n - 1) /\ ~ (n <= n - 1)
      BY <2>3, SmallerSubset
    <2>5. SumFunctionOnSet(fun, T \ {AnyOf(T)}) \in Int
      BY <2>1, <2>4
    <2>6. fun[AnyOf(T)] \in Int
      BY <2>3, AnyOfIn
    <2> QED  BY <2>2, <2>3, <2>5, <2>6, SumUnfold
  <1>2. Cardinality(S) \in Nat /\ S \in Upto(S, Cardinality(S))
    BY FS_CardinalityType DEF Upto
  <1> QED  BY <1>1, <1>2

(* Any element may be taken from a sum, not only the one the definition    *)
(* takes.                                                                  *)
LEMMA SumTake ==
  ASSUME NEW S, IsFiniteSet(S), NEW fun, \A y \in S : fun[y] \in Int, NEW x \in S
  PROVE  SumFunctionOnSet(fun, S) = fun[x] + SumFunctionOnSet(fun, S \ {x})
  <1> DEFINE Sum(T) == SumFunctionOnSet(fun, T)
             Takes(T) == \A y \in T : Sum(T) = fun[y] + Sum(T \ {y})
             Bad == {n \in Nat : \E T \in Upto(S, n) : ~ Takes(T)}
  <1>1. ASSUME NEW T \in SUBSET S
        PROVE  IsFiniteSet(T) /\ Sum(T) \in Int
    <2>1. IsFiniteSet(T)
      BY FS_Subset
    <2> QED  BY <2>1, SumType
  <1>2. \A T \in SUBSET S : T # {} => Sum(T) = fun[AnyOf(T)] + Sum(T \ {AnyOf(T)})
    BY <1>1, SumUnfold
  <1> HIDE DEF Sum
  <1>3. ASSUME Bad # {} PROVE FALSE
    <2>1. PICK n \in Bad : \A m \in Bad : n <= m
      BY <1>3, LeastNatural
    <2>2. PICK T \in Upto(S, n) : ~ Takes(T)
      BY <2>1
    <2>3. PICK y \in T : Sum(T) # fun[y] + Sum(T \ {y})
      BY <2>2
    <2>4. T \in SUBSET S
      BY DEF Upto
    <2> DEFINE z == AnyOf(T)
               R == (T \ {y}) \ {z}
    <2>5. z \in T /\ Sum(T) = fun[z] + Sum(T \ {z})
      BY <1>2, <2>3, <2>4, AnyOfIn
    <2> HIDE DEF z
    <2>6. y # z
      BY <2>3, <2>5
    <2>7. n - 1 \in Nat /\ n - 1 \notin Bad
      <3>1. n - 1 \in Nat
        BY <2>1, <2>3, SmallerSubset
      <3> QED  BY <2>1, <3>1
    <2>8. ASSUME NEW u \in T PROVE Takes(T \ {u})
      <3>1. IsFiniteSet(T) /\ Cardinality(T) \in Nat /\ Cardinality(T) <= n
        BY <1>1, <2>4, FS_CardinalityType DEF Upto
      <3>2. Cardinality(T \ {u}) = Cardinality(T) - 1
        BY <3>1, FS_RemoveElement
      <3>3. T \ {u} \in Upto(S, n - 1)
        BY <2>1, <2>4, <3>1, <3>2 DEF Upto
      <3> QED  BY <2>7, <3>3
    <2>9. Sum(T \ {y}) = fun[z] + Sum(R)
      BY <2>5, <2>6, <2>8
    <2>10. Sum(T \ {z}) = fun[y] + Sum(R)
      <3>1. (T \ {z}) \ {y} = R
        OBVIOUS
      <3> QED  BY <2>5, <2>6, <2>8, <3>1
    <2>11. Sum(R) \in Int /\ fun[y] \in Int /\ fun[z] \in Int
      BY <1>1, <2>4, <2>5
    <2> QED  BY <2>3, <2>5, <2>9, <2>10, <2>11
  <1>4. Cardinality(S) \in Nat /\ S \in Upto(S, Cardinality(S))
    BY FS_CardinalityType DEF Upto
  <1>5. Takes(S)
    BY <1>3, <1>4
  <1> QED  BY <1>5 DEF Sum

LEMMA SumAdd ==
  ASSUME NEW S, IsFiniteSet(S), NEW x, x \notin S,
         NEW fun, \A y \in S \cup {x} : fun[y] \in Int
  PROVE  SumFunctionOnSet(fun, S \cup {x}) = fun[x] + SumFunctionOnSet(fun, S)
  <1>1. IsFiniteSet(S \cup {x})
    BY FS_AddElement
  <1>2. (S \cup {x}) \ {x} = S
    OBVIOUS
  <1> QED  BY <1>1, <1>2, SumTake

(* Sums of two functions that agree on the set are the same.               *)
LEMMA SumSame ==
  ASSUME NEW S, IsFiniteSet(S), NEW f, NEW g,
         \A x \in S : f[x] \in Int /\ g[x] = f[x]
  PROVE  SumFunctionOnSet(f, S) = SumFunctionOnSet(g, S)
  <1> DEFINE P == {T \in SUBSET S : SumFunctionOnSet(f, T) = SumFunctionOnSet(g, T)}
  <1>1. {} \in P
    BY SumEmpty
  <1>2. ASSUME NEW T \in SUBSET S, NEW x \in S, T \in P, x \notin T
        PROVE  T \cup {x} \in P
    <2>1. IsFiniteSet(T)
      BY FS_Subset
    <2>2. /\ SumFunctionOnSet(f, T \cup {x}) = f[x] + SumFunctionOnSet(f, T)
          /\ SumFunctionOnSet(g, T \cup {x}) = g[x] + SumFunctionOnSet(g, T)
      BY <1>2, <2>1, SumAdd
    <2> QED  BY <1>2, <2>2
  <1> HIDE DEF P
  <1>3. S \in P
    BY <1>1, <1>2, FiniteInduction
  <1> QED  BY <1>3 DEF P

LEMMA SumUnion ==
  ASSUME NEW S, IsFiniteSet(S), NEW R, IsFiniteSet(R), S \cap R = {},
         NEW f, \A x \in S \cup R : f[x] \in Int
  PROVE  SumFunctionOnSet(f, S \cup R) = SumFunctionOnSet(f, S) + SumFunctionOnSet(f, R)
  <1> DEFINE Sum(T) == SumFunctionOnSet(f, T)
             P == {T \in SUBSET R : Sum(S \cup T) = Sum(S) + Sum(T)}
  <1>1. \A T \in SUBSET R :
          /\ IsFiniteSet(T) /\ IsFiniteSet(S \cup T)
          /\ Sum(T) \in Int /\ Sum(S \cup T) \in Int
    BY FS_Subset, FS_Union, SumType
  <1>2. Sum(S) \in Int
    BY SumType
  <1>3. {} \in P
    <2>1. S \cup {} = S /\ Sum({}) = 0
      BY SumEmpty
    <2> HIDE DEF Sum
    <2> QED  BY <1>2, <2>1
  <1>4. ASSUME NEW T \in SUBSET R, NEW x \in R, T \in P, x \notin T
        PROVE  T \cup {x} \in P
    <2>1. Sum(T \cup {x}) = f[x] + Sum(T)
      BY <1>1, <1>4, SumAdd
    <2>2. (S \cup T) \cup {x} = S \cup (T \cup {x}) /\ x \notin S \cup T
      BY <1>4
    <2>3. Sum((S \cup T) \cup {x}) = f[x] + Sum(S \cup T)
      BY <1>1, <2>2, SumAdd
    <2>4. f[x] \in Int /\ Sum(T) \in Int /\ Sum(S \cup T) = Sum(S) + Sum(T)
      BY <1>1, <1>4
    <2>5. Sum(S \cup (T \cup {x})) = f[x] + Sum(S \cup T)
      BY <2>2, <2>3
    <2> HIDE DEF Sum
    <2>6. f[x] + (Sum(S) + Sum(T)) = Sum(S) + (f[x] + Sum(T))
      BY <1>2, <2>4
    <2>7. Sum(S \cup (T \cup {x})) = Sum(S) + Sum(T \cup {x})
      BY <2>1, <2>4, <2>5, <2>6
    <2> QED  BY <2>7
  <1> HIDE DEF P
  <1>5. R \in P
    BY <1>3, <1>4, FiniteInduction
  <1> QED  BY <1>5 DEF P

Images(h, S) == {h[x] : x \in S}

(* A sum may be taken over other indices, one for each.                    *)
LEMMA SumImage ==
  ASSUME NEW S, IsFiniteSet(S), NEW h, \A x, y \in S : h[x] = h[y] => x = y,
         NEW f, NEW g, \A x \in S : f[x] \in Int /\ g[h[x]] = f[x]
  PROVE  IsFiniteSet(Images(h, S)) /\ SumFunctionOnSet(f, S) = SumFunctionOnSet(g, Images(h, S))
  <1> DEFINE P == {T \in SUBSET S : /\ IsFiniteSet(Images(h, T))
                                    /\ SumFunctionOnSet(f, T) = SumFunctionOnSet(g, Images(h, T))}
  <1>1. {} \in P
    <2>1. Images(h, {}) = {}
      BY DEF Images
    <2> QED  BY <2>1, SumEmpty, FS_EmptySet
  <1>2. ASSUME NEW T \in SUBSET S, NEW x \in S, T \in P, x \notin T
        PROVE  T \cup {x} \in P
    <2>1. IsFiniteSet(T) /\ IsFiniteSet(Images(h, T))
      BY <1>2, FS_Subset
    <2>2. Images(h, T \cup {x}) = Images(h, T) \cup {h[x]}
      BY DEF Images
    <2>3. h[x] \notin Images(h, T)
      BY <1>2 DEF Images
    <2>4. \A y \in Images(h, T) \cup {h[x]} : g[y] \in Int
      BY DEF Images
    <2>5. SumFunctionOnSet(f, T \cup {x}) = f[x] + SumFunctionOnSet(f, T)
      BY <1>2, <2>1, SumAdd
    <2>6. SumFunctionOnSet(g, Images(h, T) \cup {h[x]}) = g[h[x]] + SumFunctionOnSet(g, Images(h, T))
      BY <2>1, <2>3, <2>4, SumAdd
    <2>7. IsFiniteSet(Images(h, T) \cup {h[x]})
      BY <2>1, FS_AddElement
    <2> QED  BY <1>2, <2>2, <2>5, <2>6, <2>7
  <1> HIDE DEF P
  <1>3. S \in P
    BY <1>1, <1>2, FiniteInduction
  <1> QED  BY <1>3 DEF P

(* The sum of the differences is the difference of the sums.               *)
LEMMA SumDifference ==
  ASSUME NEW S, IsFiniteSet(S), NEW f, NEW g, NEW d,
         \A x \in S : f[x] \in Int /\ g[x] \in Int /\ d[x] = f[x] - g[x]
  PROVE  SumFunctionOnSet(d, S) = SumFunctionOnSet(f, S) - SumFunctionOnSet(g, S)
  <1> DEFINE P == {T \in SUBSET S :
                     SumFunctionOnSet(d, T) = SumFunctionOnSet(f, T) - SumFunctionOnSet(g, T)}
  <1>1. {} \in P
    <2>1. 0 = 0 - 0
      OBVIOUS
    <2> QED  BY <2>1, SumEmpty
  <1>2. ASSUME NEW T \in SUBSET S, NEW x \in S, T \in P, x \notin T
        PROVE  T \cup {x} \in P
    <2>1. IsFiniteSet(T)
      BY FS_Subset
    <2>2. SumFunctionOnSet(f, T) \in Int /\ SumFunctionOnSet(g, T) \in Int
      BY <2>1, SumType
    <2>3. \A y \in S : d[y] \in Int
      OBVIOUS
    <2>4. SumFunctionOnSet(f, T \cup {x}) = f[x] + SumFunctionOnSet(f, T)
      BY <1>2, <2>1, SumAdd
    <2>5. SumFunctionOnSet(g, T \cup {x}) = g[x] + SumFunctionOnSet(g, T)
      BY <1>2, <2>1, SumAdd
    <2>6. SumFunctionOnSet(d, T \cup {x}) = d[x] + SumFunctionOnSet(d, T)
      BY <1>2, <2>1, <2>3, SumAdd
    <2> QED  BY <1>2, <2>2, <2>4, <2>5, <2>6
  <1> HIDE DEF P
  <1>3. S \in P
    BY <1>1, <1>2, FiniteInduction
  <1> QED  BY <1>3 DEF P

(* A bound on every term, with its slack, is one on the sum.               *)
LEMMA SumBound ==
  ASSUME NEW S, IsFiniteSet(S), NEW f, NEW g, NEW p \in Int, NEW q \in Int, NEW c \in Int,
         \A x \in S : f[x] \in Int /\ g[x] \in Int /\ p * f[x] <= q * g[x] + c
  PROVE  p * SumFunctionOnSet(f, S) <= q * SumFunctionOnSet(g, S) + c * Cardinality(S)
  <1> DEFINE P == {T \in SUBSET S :
                     p * SumFunctionOnSet(f, T) <= q * SumFunctionOnSet(g, T) + c * Cardinality(T)}
  <1>1. {} \in P
    <2>1. p * 0 <= q * 0 + c * 0
      OBVIOUS
    <2> QED  BY <2>1, SumEmpty, FS_EmptySet
  <1>2. ASSUME NEW T \in SUBSET S, NEW x \in S, T \in P, x \notin T
        PROVE  T \cup {x} \in P
    <2>1. IsFiniteSet(T) /\ Cardinality(T) \in Nat
      BY FS_Subset, FS_CardinalityType
    <2>2. SumFunctionOnSet(f, T) \in Int /\ SumFunctionOnSet(g, T) \in Int
      BY <2>1, SumType
    <2>3. SumFunctionOnSet(f, T \cup {x}) = f[x] + SumFunctionOnSet(f, T)
      BY <1>2, <2>1, SumAdd
    <2>4. SumFunctionOnSet(g, T \cup {x}) = g[x] + SumFunctionOnSet(g, T)
      BY <1>2, <2>1, SumAdd
    <2>5. Cardinality(T \cup {x}) = Cardinality(T) + 1
      BY <1>2, <2>1, FS_AddElement
    <2>6. \A fs, gs, n, a, b \in Int :
            p * a <= q * b + c /\ p * fs <= q * gs + c * n
              => p * (a + fs) <= q * (b + gs) + c * (n + 1)
      OBVIOUS
    <2>7. /\ p * SumFunctionOnSet(f, T) <= q * SumFunctionOnSet(g, T) + c * Cardinality(T)
          /\ p * f[x] <= q * g[x] + c /\ f[x] \in Int /\ g[x] \in Int
      BY <1>2
    <2>8. p * SumFunctionOnSet(f, T \cup {x})
            <= q * SumFunctionOnSet(g, T \cup {x}) + c * Cardinality(T \cup {x})
      BY <2>1, <2>2, <2>3, <2>4, <2>5, <2>6, <2>7
    <2> QED  BY <2>8
  <1> HIDE DEF P
  <1>3. S \in P
    BY <1>1, <1>2, FiniteInduction
  <1> QED  BY <1>3 DEF P

Whole(part, K) == UNION {part[k] : k \in K}

(* Adding up in parts, and the sums of the parts, is adding up all.        *)
LEMMA SumParts ==
  ASSUME NEW K, IsFiniteSet(K), NEW part, \A k \in K : IsFiniteSet(part[k]),
         \A k, m \in K : k # m => part[k] \cap part[m] = {},
         NEW f, \A k \in K : \A x \in part[k] : f[x] \in Int,
         NEW sums, \A k \in K : sums[k] = SumFunctionOnSet(f, part[k])
  PROVE  /\ IsFiniteSet(Whole(part, K))
         /\ SumFunctionOnSet(sums, K) = SumFunctionOnSet(f, Whole(part, K))
  <1> DEFINE P == {T \in SUBSET K : /\ IsFiniteSet(Whole(part, T))
                                    /\ SumFunctionOnSet(sums, T) = SumFunctionOnSet(f, Whole(part, T))}
  <1>1. {} \in P
    <2>1. Whole(part, {}) = {}
      BY DEF Whole
    <2> QED  BY <2>1, SumEmpty, FS_EmptySet
  <1>2. ASSUME NEW T \in SUBSET K, NEW x \in K, T \in P, x \notin T
        PROVE  T \cup {x} \in P
    <2>1. IsFiniteSet(T)
      BY FS_Subset
    <2>2. \A k \in K : sums[k] \in Int
      BY SumType
    <2>3. Whole(part, T \cup {x}) = Whole(part, T) \cup part[x]
      BY DEF Whole
    <2>4. Whole(part, T) \cap part[x] = {}
      BY <1>2 DEF Whole
    <2>5. \A y \in Whole(part, T) \cup part[x] : f[y] \in Int
      BY DEF Whole
    <2>6. IsFiniteSet(Whole(part, T)) /\ SumFunctionOnSet(sums, T) = SumFunctionOnSet(f, Whole(part, T))
      BY <1>2
    <2>7. SumFunctionOnSet(f, Whole(part, T) \cup part[x])
            = SumFunctionOnSet(f, Whole(part, T)) + SumFunctionOnSet(f, part[x])
      BY <2>4, <2>5, <2>6, SumUnion
    <2>8. SumFunctionOnSet(sums, T \cup {x}) = sums[x] + SumFunctionOnSet(sums, T)
      BY <1>2, <2>1, <2>2, SumAdd
    <2>9. SumFunctionOnSet(f, Whole(part, T)) \in Int
      BY <2>5, <2>6, SumType
    <2>10. SumFunctionOnSet(f, part[x]) \in Int
      BY <2>2
    <2>11. IsFiniteSet(Whole(part, T) \cup part[x])
      BY <2>6, FS_Union
    <2>12. SumFunctionOnSet(sums, T \cup {x}) = SumFunctionOnSet(f, Whole(part, T \cup {x}))
      <3>1. SumFunctionOnSet(f, Whole(part, T)) + sums[x] = sums[x] + SumFunctionOnSet(f, Whole(part, T))
        BY <2>2, <2>9
      <3>2. sums[x] = SumFunctionOnSet(f, part[x])
        OBVIOUS
      <3>3. SumFunctionOnSet(f, Whole(part, T \cup {x})) = SumFunctionOnSet(f, Whole(part, T) \cup part[x])
        BY <2>3
      <3> QED  BY <2>6, <2>7, <2>8, <3>1, <3>2, <3>3
    <2>13. IsFiniteSet(Whole(part, T \cup {x}))
      BY <2>3, <2>11
    <2> QED  BY <2>12, <2>13
  <1> HIDE DEF P
  <1>3. K \in P
    BY <1>1, <1>2, FiniteInduction
  <1> QED  BY <1>3 DEF P

-----------------------------------------------------------------------------
(* The lines calculate_balance adds up *)

\* A table of rows, as the journal and every part of it is.
IsTable(table) == IsFiniteSet(DOMAIN table) /\ \A t \in DOMAIN table : table[t] \in TxRow

Counted(table, day) ==
  {u \in DOMAIN table : table[u].date <= day /\ table[u].status \in CountedStatus}

Line(table, t, i) == <<t, i, table[t].entries[i].amount>>

TxLines(table, t, dir) == {Line(table, t, i) : i \in Side(table[t].entries, dir)}

LEMMA LinesAre ==
  ASSUME NEW table, NEW a, NEW day, NEW dir, NEW l
  PROVE  l \in Lines(table, a, day, dir) <=>
           \E t \in Counted(table, day) : \E i \in Side(table[t].entries, dir) :
             table[t].entries[i].account = a /\ l = Line(table, t, i)
  BY DEF Lines, Counted, Line

(* What a transaction moves on one side is the total of its lines there.   *)
LEMMA TxLinesTotal ==
  ASSUME NEW table, IsTable(table), NEW t \in DOMAIN table, NEW dir
  PROVE  /\ IsFiniteSet(TxLines(table, t, dir))
         /\ \A l \in TxLines(table, t, dir) : l[3] \in Int
         /\ LinesTotal(TxLines(table, t, dir)) = SideSum(table[t].entries, dir)
  <1> DEFINE e == table[t].entries
             S == Side(e, dir)
             h == [i \in S |-> Line(table, t, i)]
             g == [l \in TxLines(table, t, dir) |-> l[3]]
  <1>1. e \in Seq(Entry)
    BY DEF IsTable, TxRow
  <1>2. IsFiniteSet(S)
    <2>1. DOMAIN e = 1 .. Len(e) /\ Len(e) \in Nat /\ S \subseteq DOMAIN e
      BY <1>1 DEF Side
    <2>2. IsFiniteSet(1 .. Len(e))
      BY <2>1, FS_Interval
    <2> QED  BY <2>1, <2>2, FS_Subset
  <1>3. \A i \in S : e[i].amount \in Int
    <2>1. \A i \in DOMAIN e : e[i] \in Entry
      BY <1>1
    <2> QED  BY <2>1 DEF Side, Entry
  <1>4. TxLines(table, t, dir) = Images(h, S)
    BY DEF TxLines, Images
  <1>5. \A i, j \in S : h[i] = h[j] => i = j
    BY DEF Line
  <1>6. \A i \in S : Amounts(e)[i] \in Int /\ g[h[i]] = Amounts(e)[i]
    BY <1>3 DEF Amounts, Side, Line, TxLines
  <1>7. \A l \in TxLines(table, t, dir) : l[3] \in Int
    BY <1>3 DEF TxLines, Line
  <1> HIDE DEF e, S, h, g
  <1>8. IsFiniteSet(Images(h, S))
        /\ SumFunctionOnSet(Amounts(e), S) = SumFunctionOnSet(g, Images(h, S))
    BY <1>2, <1>5, <1>6, SumImage
  <1> QED  BY <1>4, <1>7, <1>8 DEF LinesTotal, SideSum, e, S, g

(* The lines of some transactions, and the totals of each.                 *)
LEMMA TotalParts ==
  ASSUME NEW K, IsFiniteSet(K), NEW part,
         \A k \in K : IsFiniteSet(part[k]) /\ \A l \in part[k] : l[3] \in Int,
         \A k, m \in K : k # m => part[k] \cap part[m] = {},
         NEW totals, \A k \in K : totals[k] = LinesTotal(part[k])
  PROVE  /\ IsFiniteSet(Whole(part, K))
         /\ SumFunctionOnSet(totals, K) = LinesTotal(Whole(part, K))
  <1> DEFINE all == Whole(part, K)
             f == [l \in all |-> l[3]]
  <1>1. ASSUME NEW k \in K PROVE totals[k] = SumFunctionOnSet(f, part[k])
    <2> DEFINE g == [l \in part[k] |-> l[3]]
    <2>1. \A l \in part[k] : g[l] \in Int /\ f[l] = g[l]
      BY DEF Whole
    <2> HIDE DEF f, g
    <2>2. SumFunctionOnSet(g, part[k]) = SumFunctionOnSet(f, part[k])
      BY <2>1, SumSame
    <2> QED  BY <2>2 DEF LinesTotal, g
  <1>2. \A k \in K : \A l \in part[k] : f[l] \in Int
    BY DEF Whole
  <1> HIDE DEF f
  <1>3. IsFiniteSet(all) /\ SumFunctionOnSet(totals, K) = SumFunctionOnSet(f, all)
    BY <1>1, <1>2, SumParts
  <1> QED  BY <1>3 DEF LinesTotal, f

LEMMA LinesFinite ==
  ASSUME NEW table, IsTable(table), NEW a, NEW day, NEW dir
  PROVE  /\ IsFiniteSet(Lines(table, a, day, dir))
         /\ \A l \in Lines(table, a, day, dir) : l[3] \in Int
  <1> DEFINE part == [t \in DOMAIN table |-> TxLines(table, t, dir)]
  <1>1. \A t \in DOMAIN table : IsFiniteSet(part[t]) /\ \A l \in part[t] : l[3] \in Int
    BY TxLinesTotal
  <1>2. Lines(table, a, day, dir) \subseteq Whole(part, DOMAIN table)
    BY LinesAre DEF TxLines, Counted, Whole
  <1>3. \A t, u \in DOMAIN table : t # u => part[t] \cap part[u] = {}
    BY DEF TxLines, Line
  <1>4. IsFiniteSet(Whole(part, DOMAIN table))
    <2> DEFINE totals == [t \in DOMAIN table |-> LinesTotal(part[t])]
    <2>1. \A t \in DOMAIN table : totals[t] = LinesTotal(part[t])
      OBVIOUS
    <2>2. IsFiniteSet(DOMAIN table)
      BY DEF IsTable
    <2> HIDE DEF part, totals
    <2> QED  BY <1>1, <1>3, <2>1, <2>2, TotalParts
  <1>5. \A l \in Whole(part, DOMAIN table) : l[3] \in Int
    BY <1>1 DEF Whole
  <1> QED  BY <1>2, <1>4, <1>5, FS_Subset

LEMMA TotalType ==
  ASSUME NEW lines, IsFiniteSet(lines), \A l \in lines : l[3] \in Int
  PROVE  LinesTotal(lines) \in Int
  BY SumType DEF LinesTotal

(* Transactions that are added and do not touch an account, and voids of   *)
(* those it has, leave its balance alone.                                  *)
LEMMA SameBalance ==
  ASSUME NEW table, NEW other, NEW a, NEW day, DOMAIN table \subseteq DOMAIN other,
         \A t \in DOMAIN table :
           /\ other[t].date = table[t].date /\ other[t].entries = table[t].entries
           /\ table[t].status \in CountedStatus /\ other[t].status \in CountedStatus,
         \A t \in DOMAIN other \ DOMAIN table : \A i \in DOMAIN other[t].entries :
           other[t].entries[i].account # a
  PROVE  CalculateBalance(table, a, day) = CalculateBalance(other, a, day)
  <1>1. ASSUME NEW dir PROVE Lines(table, a, day, dir) = Lines(other, a, day, dir)
    <2>1. ASSUME NEW t \in DOMAIN table
          PROVE  /\ t \in Counted(table, day) <=> t \in Counted(other, day)
                 /\ other[t].entries = table[t].entries
                 /\ \A i : Line(table, t, i) = Line(other, t, i)
      BY DEF Counted, Line
    <2>2. Counted(table, day) \subseteq DOMAIN table /\ Counted(other, day) \subseteq DOMAIN other
      BY DEF Counted
    <2>3. ASSUME NEW l \in Lines(table, a, day, dir) PROVE l \in Lines(other, a, day, dir)
      <3>1. PICK t \in Counted(table, day) : \E i \in Side(table[t].entries, dir) :
              table[t].entries[i].account = a /\ l = Line(table, t, i)
        BY LinesAre
      <3> QED  BY <2>1, <2>2, <3>1, LinesAre
    <2>4. ASSUME NEW l \in Lines(other, a, day, dir) PROVE l \in Lines(table, a, day, dir)
      <3>1. PICK t \in Counted(other, day) : \E i \in Side(other[t].entries, dir) :
              other[t].entries[i].account = a /\ l = Line(other, t, i)
        BY LinesAre
      <3>2. t \in DOMAIN table
        BY <2>2, <3>1 DEF Side
      <3> QED  BY <2>1, <3>1, <3>2, LinesAre
    <2> QED  BY <2>3, <2>4
  <1> QED  BY <1>1 DEF CalculateBalance

-----------------------------------------------------------------------------
(* The accounts of one currency *)

\* Every account is active and its entries are in its own currency.
OfAccounts(entries) == AccountsFound(entries) /\ CurrencyMatchesAccount(entries)

\* The transactions that count and are in currency c.
CountedIn(table, day, c) ==
  {t \in Counted(table, day) :
     \A i \in DOMAIN table[t].entries : table[t].entries[i].currency = c}

AccountTotals(table, accounts, day, dir) ==
  [a \in accounts |-> LinesTotal(Lines(table, a, day, dir))]

TxTotals(table, day, dir, c) ==
  [t \in CountedIn(table, day, c) |-> SideSum(table[t].entries, dir)]

(* What the accounts of a currency are debited, or credited, is what the   *)
(* transactions in that currency debit, or credit.                         *)
LEMMA AccountsTotal ==
  ASSUME NEW table, IsTable(table), NEW day, NEW dir, NEW c,
         \A t \in DOMAIN table :
           OfAccounts(table[t].entries) /\ SingleCurrency(table[t].entries),
         NEW accounts, accounts = {a \in ActiveAccount : CurrencyOf[a] = c}, IsFiniteSet(accounts)
  PROVE  SumFunctionOnSet(AccountTotals(table, accounts, day, dir), accounts)
           = SumFunctionOnSet(TxTotals(table, day, dir, c), CountedIn(table, day, c))
  <1> DEFINE T == CountedIn(table, day, c)
             byAccount == [a \in accounts |-> Lines(table, a, day, dir)]
             byTx == [t \in T |-> TxLines(table, t, dir)]
             ofAccount == AccountTotals(table, accounts, day, dir)
             ofTx == TxTotals(table, day, dir, c)
  <1>1. T \subseteq DOMAIN table /\ IsFiniteSet(T)
    <2>1. T \subseteq DOMAIN table
      BY DEF CountedIn, Counted
    <2> QED  BY <2>1, FS_Subset DEF IsTable
  <1>2. Whole(byAccount, accounts) = Whole(byTx, T)
    <2>1. ASSUME NEW a \in accounts, NEW l \in byAccount[a]
          PROVE  \E t \in T : l \in byTx[t]
      <3>1. PICK t \in Counted(table, day) : \E i \in Side(table[t].entries, dir) :
              table[t].entries[i].account = a /\ l = Line(table, t, i)
        BY <2>1, LinesAre
      <3>2. PICK i \in Side(table[t].entries, dir) :
              table[t].entries[i].account = a /\ l = Line(table, t, i)
        BY <3>1
      <3>3. t \in DOMAIN table /\ i \in DOMAIN table[t].entries
        BY DEF Counted, Side
      <3>4. table[t].entries[i].currency = c
        BY <3>2, <3>3 DEF OfAccounts, CurrencyMatchesAccount
      <3>5. \A j \in DOMAIN table[t].entries : table[t].entries[j].currency = c
        BY <3>3, <3>4 DEF SingleCurrency
      <3>6. t \in T /\ l \in TxLines(table, t, dir)
        BY <3>2, <3>5 DEF CountedIn, TxLines
      <3> QED  BY <3>6
    <2>2. ASSUME NEW t \in T, NEW l \in byTx[t]
          PROVE  \E a \in accounts : l \in byAccount[a]
      <3>1. PICK i \in Side(table[t].entries, dir) : l = Line(table, t, i)
        BY <2>2 DEF TxLines
      <3>2. t \in Counted(table, day) /\ i \in DOMAIN table[t].entries /\ t \in DOMAIN table
            /\ table[t].entries[i].currency = c
        BY DEF CountedIn, Counted, Side
      <3> DEFINE a == table[t].entries[i].account
      <3>3. a \in accounts
        BY <3>2 DEF OfAccounts, AccountsFound, CurrencyMatchesAccount
      <3>4. l \in Lines(table, a, day, dir)
        BY <3>1, <3>2, LinesAre
      <3> QED  BY <3>3, <3>4
    <2> HIDE DEF byAccount, byTx, T
    <2> QED  BY <2>1, <2>2 DEF Whole
  <1>3. \A a \in accounts : IsFiniteSet(byAccount[a]) /\ \A l \in byAccount[a] : l[3] \in Int
    BY LinesFinite
  <1>4. \A t \in T : IsFiniteSet(byTx[t]) /\ \A l \in byTx[t] : l[3] \in Int
    BY <1>1, TxLinesTotal
  <1>5. \A a, b \in accounts : a # b => byAccount[a] \cap byAccount[b] = {}
    <2> SUFFICES ASSUME NEW a \in accounts, NEW b \in accounts,
                        NEW l \in Lines(table, a, day, dir), l \in Lines(table, b, day, dir)
                 PROVE  a = b
      OBVIOUS
    <2>1. PICK t \in Counted(table, day) : \E i \in Side(table[t].entries, dir) :
            table[t].entries[i].account = a /\ l = Line(table, t, i)
      BY LinesAre
    <2>2. PICK u \in Counted(table, day) : \E i \in Side(table[u].entries, dir) :
            table[u].entries[i].account = b /\ l = Line(table, u, i)
      BY LinesAre
    <2> QED  BY <2>1, <2>2 DEF Line
  <1>6. \A t, u \in T : t # u => byTx[t] \cap byTx[u] = {}
    BY DEF TxLines, Line
  <1>7. \A a \in accounts : ofAccount[a] = LinesTotal(byAccount[a])
    BY DEF AccountTotals
  <1>8. \A t \in T : ofTx[t] = LinesTotal(byTx[t])
    BY <1>1, TxLinesTotal DEF TxTotals
  <1> HIDE DEF T, byAccount, byTx, ofAccount, ofTx
  <1>9. SumFunctionOnSet(ofAccount, accounts) = LinesTotal(Whole(byAccount, accounts))
    BY <1>3, <1>5, <1>7, TotalParts
  <1>10. SumFunctionOnSet(ofTx, T) = LinesTotal(Whole(byTx, T))
    BY <1>1, <1>4, <1>6, <1>8, TotalParts
  <1>11. SumFunctionOnSet(ofAccount, accounts) = SumFunctionOnSet(ofTx, T)
    BY <1>2, <1>9, <1>10
  <1> QED  BY <1>11 DEF ofAccount, ofTx, T

Balances(table, accounts, day) == [a \in accounts |-> CalculateBalance(table, a, day)]

(* A table of balanced transactions, each in one currency and on accounts  *)
(* of that currency, has a trial balance of zero.                          *)
THEOREM BalancesCancel ==
  ASSUME NEW table, IsTable(table), NEW day, NEW c,
         \A t \in DOMAIN table : OfAccounts(table[t].entries) /\ WellFormed(table[t].entries),
         NEW accounts, accounts = {a \in ActiveAccount : CurrencyOf[a] = c}, IsFiniteSet(accounts)
  PROVE  SumFunctionOnSet(Balances(table, accounts, day), accounts) = 0
  <1> DEFINE T == CountedIn(table, day, c)
             balance == Balances(table, accounts, day)
             total(dir) == AccountTotals(table, accounts, day, dir)
             moved(dir) == TxTotals(table, day, dir, c)
  <1>1. \A t \in DOMAIN table : SingleCurrency(table[t].entries) /\ Balanced(table[t].entries)
    BY DEF WellFormed
  <1>2. moved("debit") = moved("credit")
    <2>1. T \subseteq DOMAIN table
      BY DEF CountedIn, Counted
    <2> QED  BY <1>1, <2>1 DEF Balanced, TxTotals
  <1>3. ASSUME NEW dir
        PROVE  SumFunctionOnSet(total(dir), accounts) = SumFunctionOnSet(moved(dir), T)
    BY <1>1, AccountsTotal
  <1>4. \A dir : \A a \in accounts : total(dir)[a] \in Int
    BY LinesFinite, TotalType DEF AccountTotals
  <1>5. \A a \in accounts : balance[a] = total("debit")[a] - total("credit")[a]
    BY DEF CalculateBalance, AccountTotals, Balances
  <1> HIDE DEF balance, total, moved, T
  <1>6. SumFunctionOnSet(balance, accounts)
          = SumFunctionOnSet(total("debit"), accounts) - SumFunctionOnSet(total("credit"), accounts)
    BY <1>4, <1>5, SumDifference
  <1>7. SumFunctionOnSet(total("debit"), accounts) \in Int
    BY <1>4, SumType
  <1>8. SumFunctionOnSet(total("debit"), accounts) = SumFunctionOnSet(total("credit"), accounts)
    BY <1>2, <1>3
  <1>9. SumFunctionOnSet(balance, accounts) = 0
    BY <1>6, <1>7, <1>8
  <1> QED  BY <1>9 DEF balance

-----------------------------------------------------------------------------
(* Transactions that undo each other *)

LEMMA TotalUnion ==
  ASSUME NEW L, IsFiniteSet(L), NEW M, IsFiniteSet(M), L \cap M = {},
         \A l \in L \cup M : l[3] \in Int
  PROVE  LinesTotal(L \cup M) = LinesTotal(L) + LinesTotal(M)
  <1> DEFINE f == [l \in L \cup M |-> l[3]]
             fl == [l \in L |-> l[3]]
             fm == [l \in M |-> l[3]]
  <1>1. \A l \in L \cup M : f[l] \in Int
    OBVIOUS
  <1>2. \A l \in L : fl[l] \in Int /\ f[l] = fl[l]
    OBVIOUS
  <1>3. \A l \in M : fm[l] \in Int /\ f[l] = fm[l]
    OBVIOUS
  <1> HIDE DEF f, fl, fm
  <1>4. SumFunctionOnSet(f, L \cup M) = SumFunctionOnSet(f, L) + SumFunctionOnSet(f, M)
    BY <1>1, SumUnion
  <1>5. SumFunctionOnSet(fl, L) = SumFunctionOnSet(f, L)
    BY <1>2, SumSame
  <1>6. SumFunctionOnSet(fm, M) = SumFunctionOnSet(f, M)
    BY <1>3, SumSame
  <1> QED  BY <1>4, <1>5, <1>6 DEF LinesTotal, f, fl, fm

\* Other debits what row credits and credits what it debits, on the same day.
Undoes(other, row) ==
  /\ other.date = row.date
  /\ DOMAIN other.entries = DOMAIN row.entries
  /\ \A i \in DOMAIN row.entries :
       /\ other.entries[i].account = row.entries[i].account
       /\ other.entries[i].amount = row.entries[i].amount
       /\ other.entries[i].direction = Opposite(row.entries[i].direction)

LEMMA MirrorUndoes ==
  ASSUME NEW row \in TxRow, NEW other \in TxRow,
         other.date = row.date, other.entries = Mirror(row.entries)
  PROVE  Undoes(other, row) /\ Undoes(row, other)
  <1> DEFINE e == row.entries
             m == Mirror(e)
  <1>1. e \in Seq(Entry) /\ \A i \in DOMAIN e : e[i] \in Entry
    BY DEF TxRow
  <1>2. DOMAIN m = DOMAIN e
    BY <1>1, MirrorType
  <1>3. ASSUME NEW i \in DOMAIN e
        PROVE  /\ m[i].account = e[i].account /\ m[i].amount = e[i].amount
               /\ m[i].direction = Opposite(e[i].direction)
               /\ e[i].direction = Opposite(m[i].direction)
    BY <1>1 DEF Mirror, Entry, Opposite, Direction
  <1> QED  BY <1>2, <1>3 DEF Undoes

\* The lines of the transactions in U.
LinesIn(table, U, a, day, dir) == {l \in Lines(table, a, day, dir) : l[1] \in U}

\* The rows that are not in U.
Without(table, U) == [t \in DOMAIN table \ U |-> table[t]]

LEMMA LinesWithout ==
  ASSUME NEW table, IsTable(table), NEW U, NEW a, NEW day, NEW dir
  PROVE  LinesTotal(Lines(table, a, day, dir))
           = LinesTotal(Lines(Without(table, U), a, day, dir))
               + LinesTotal(LinesIn(table, U, a, day, dir))
  <1> DEFINE all == Lines(table, a, day, dir)
             out == Lines(Without(table, U), a, day, dir)
             in == LinesIn(table, U, a, day, dir)
  <1>1. ASSUME NEW l PROVE l \in out <=> l \in all /\ l[1] \notin U
    <2>1. Counted(Without(table, U), day) = Counted(table, day) \ U
      BY DEF Counted, Without
    <2>2. \A t \in Counted(Without(table, U), day) : Without(table, U)[t] = table[t]
      BY DEF Counted, Without
    <2>3. \A t, i : Line(table, t, i)[1] = t
      BY DEF Line
    <2>4. \A t \in Counted(Without(table, U), day) :
            \A i : Line(Without(table, U), t, i) = Line(table, t, i)
      BY <2>2 DEF Line
    <2>5. ASSUME l \in out PROVE l \in all /\ l[1] \notin U
      <3>1. PICK t \in Counted(Without(table, U), day) :
              \E i \in Side(Without(table, U)[t].entries, dir) :
                Without(table, U)[t].entries[i].account = a /\ l = Line(Without(table, U), t, i)
        BY <2>5, LinesAre
      <3> QED  BY <2>1, <2>2, <2>3, <2>4, <3>1, LinesAre
    <2>6. ASSUME l \in all, l[1] \notin U PROVE l \in out
      <3>1. PICK t \in Counted(table, day) : \E i \in Side(table[t].entries, dir) :
              table[t].entries[i].account = a /\ l = Line(table, t, i)
        BY <2>6, LinesAre
      <3>2. t \in Counted(Without(table, U), day)
        BY <2>1, <2>3, <2>6, <3>1
      <3> QED  BY <2>2, <2>4, <3>1, <3>2, LinesAre
    <2> QED  BY <2>5, <2>6
  <1>2. all = out \cup in /\ out \cap in = {}
    BY <1>1 DEF LinesIn
  <1>3. IsFiniteSet(all) /\ \A l \in all : l[3] \in Int
    BY LinesFinite
  <1> HIDE DEF all, out, in
  <1>4. IsFiniteSet(out) /\ IsFiniteSet(in)
    BY <1>2, <1>3, FS_Subset
  <1>5. LinesTotal(all) = LinesTotal(out) + LinesTotal(in)
    BY <1>2, <1>3, <1>4, TotalUnion
  <1> QED  BY <1>5 DEF all, out, in

(* Transactions that undo each other in pairs drop out of every balance.   *)
THEOREM PairsCancel ==
  ASSUME NEW table, IsTable(table), NEW U \in SUBSET DOMAIN table, NEW partner,
         \A t \in U : /\ partner[t] \in U /\ partner[partner[t]] = t
                      /\ Undoes(table[partner[t]], table[t]),
         NEW a, NEW day
  PROVE  CalculateBalance(table, a, day) = CalculateBalance(Without(table, U), a, day)
  <1> DEFINE debits == LinesIn(table, U, a, day, "debit")
             credits == LinesIn(table, U, a, day, "credit")
             h == [l \in debits |-> <<partner[l[1]], l[2], l[3]>>]
             f == [l \in debits |-> l[3]]
             g == [l \in credits |-> l[3]]
  <1>1. /\ IsFiniteSet(debits) /\ \A l \in debits : l[3] \in Int
        /\ IsFiniteSet(credits) /\ \A l \in credits : l[3] \in Int
    BY LinesFinite, FS_Subset DEF LinesIn
  <1>2. ASSUME NEW dir \in Direction, NEW l \in LinesIn(table, U, a, day, dir)
        PROVE  /\ l = <<l[1], l[2], l[3]>> /\ l[1] \in U
               /\ <<partner[l[1]], l[2], l[3]>> \in LinesIn(table, U, a, day, Opposite(dir))
    <2>1. PICK t \in Counted(table, day) : \E i \in Side(table[t].entries, dir) :
            table[t].entries[i].account = a /\ l = Line(table, t, i)
      BY LinesAre DEF LinesIn
    <2>2. PICK i \in Side(table[t].entries, dir) :
            table[t].entries[i].account = a /\ l = Line(table, t, i)
      BY <2>1
    <2> DEFINE p == partner[t]
    <2>3. l = <<t, i, table[t].entries[i].amount>> /\ t \in U
      BY <2>2 DEF LinesIn, Line
    <2>4. p \in U /\ p \in DOMAIN table /\ Undoes(table[p], table[t])
      BY <2>3
    <2>5. i \in DOMAIN table[t].entries /\ table[t].entries[i].direction = dir
      BY DEF Side
    <2>6. p \in Counted(table, day)
      <3>1. table[p].status \in CountedStatus
        BY <2>4 DEF IsTable, TxRow, Status, CountedStatus
      <3> QED  BY <2>4, <3>1 DEF Counted, Undoes
    <2>7. /\ i \in Side(table[p].entries, Opposite(dir)) /\ table[p].entries[i].account = a
          /\ table[p].entries[i].amount = table[t].entries[i].amount
      BY <2>2, <2>4, <2>5 DEF Undoes, Side
    <2>8. Line(table, p, i) = <<p, i, table[t].entries[i].amount>>
      BY <2>7 DEF Line
    <2>9. Line(table, p, i) \in Lines(table, a, day, Opposite(dir))
      BY <2>6, <2>7, LinesAre
    <2> QED  BY <2>3, <2>4, <2>8, <2>9 DEF LinesIn
  <1>3. "debit" \in Direction /\ "credit" \in Direction
        /\ Opposite("debit") = "credit" /\ Opposite("credit") = "debit"
    BY DEF Direction, Opposite
  <1>4. Images(h, debits) = credits
    <2>1. ASSUME NEW l \in debits PROVE h[l] \in credits
      BY <1>2, <1>3
    <2>2. ASSUME NEW l \in credits PROVE \E k \in debits : l = h[k]
      <3>1. /\ l = <<l[1], l[2], l[3]>> /\ l[1] \in U
            /\ <<partner[l[1]], l[2], l[3]>> \in debits
        BY <1>2, <1>3
      <3>2. h[<<partner[l[1]], l[2], l[3]>>] = <<partner[partner[l[1]]], l[2], l[3]>>
        BY <3>1
      <3> QED  BY <3>1, <3>2
    <2> HIDE DEF h, debits, credits
    <2> QED  BY <2>1, <2>2 DEF Images
  <1>5. ASSUME NEW k \in debits, NEW l \in debits, h[k] = h[l] PROVE k = l
    <2>1. /\ k = <<k[1], k[2], k[3]>> /\ l = <<l[1], l[2], l[3]>> /\ k[1] \in U /\ l[1] \in U
      BY <1>2, <1>3
    <2>2. partner[k[1]] = partner[l[1]] /\ k[2] = l[2] /\ k[3] = l[3]
      BY <1>5
    <2>3. k[1] = l[1]
      BY <2>1, <2>2
    <2> QED  BY <2>1, <2>2, <2>3
  <1>6. \A l \in debits : f[l] \in Int /\ g[h[l]] = f[l]
    <2>1. ASSUME NEW l \in debits PROVE h[l] \in credits /\ h[l][3] = l[3]
      BY <1>2, <1>3
    <2> QED  BY <1>1, <2>1
  <1> HIDE DEF debits, credits, h, f, g
  <1>7. SumFunctionOnSet(f, debits) = SumFunctionOnSet(g, credits)
    BY <1>1, <1>4, <1>5, <1>6, SumImage
  <1>8. LinesTotal(debits) = LinesTotal(credits)
    BY <1>7 DEF LinesTotal, f, g
  <1>9. LinesTotal(debits) \in Int /\ LinesTotal(credits) \in Int
    BY <1>1, TotalType
  <1>10. IsTable(Without(table, U))
    BY FS_Subset DEF IsTable, Without
  <1>11. \A dir : LinesTotal(Lines(Without(table, U), a, day, dir)) \in Int
    BY <1>10, LinesFinite, TotalType
  <1>12. /\ LinesTotal(Lines(table, a, day, "debit"))
              = LinesTotal(Lines(Without(table, U), a, day, "debit")) + LinesTotal(debits)
         /\ LinesTotal(Lines(table, a, day, "credit"))
              = LinesTotal(Lines(Without(table, U), a, day, "credit")) + LinesTotal(credits)
    BY LinesWithout DEF debits, credits
  <1>13. \A x, y, n, m \in Int : n = m => (x + n) - (y + m) = x - y
    OBVIOUS
  <1> QED  BY <1>8, <1>9, <1>11, <1>12, <1>13 DEF CalculateBalance
=============================================================================
