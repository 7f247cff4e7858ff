---------------------------- MODULE AssetProofs ----------------------------
(***************************************************************************)
(* Proofs about asset.hpp's arithmetic, for every width of int64_t.        *)
(***************************************************************************)
EXTENDS Asset, Induction

(* What fits an int64_t is kept as it is. *)
LEMMA WrapExact ==
    ASSUME NEW x \in int64
    PROVE  wrap(x) = x
  <1> DEFINE H == 2 * Quarter
             M == 4 * Quarter
  <1>1. H \in Nat /\ M \in Nat /\ M = H + H /\ x \in Int /\ -H <= x /\ x < H
    BY QuarterAssumption DEF int64
  <1>2. x + H \in Nat /\ x + H < M
    BY <1>1
  <1>3. (x + H) % M = x + H
    <2> HIDE DEF H, M
    <2> QED
      BY <1>1, <1>2, ModBelow
  <1> QED
    BY <1>1, <1>3 DEF wrap

(* Whatever is computed, an int64_t holds the result. *)
LEMMA WrapType ==
    ASSUME NEW x \in Int
    PROVE  wrap(x) \in int64
  <1> DEFINE H == 2 * Quarter
             M == 4 * Quarter
  <1>1. H \in Nat /\ M \in Nat /\ M > 0 /\ M = H + H
    BY QuarterAssumption
  <1>2. (x + H) % M \in 0 .. (M - 1)
    <2> HIDE DEF H, M
    <2> QED
      BY <1>1
  <1> QED
    BY <1>1, <1>2 DEF wrap, int64

(* Sums and differences of amounts in range fit an int64_t. *)
LEMMA SumFits ==
    ASSUME NEW x \in Int, NEW y \in Int,
           is_amount_within_range(x), is_amount_within_range(y)
    PROVE  /\ x + y \in int64 /\ x - y \in int64 /\ -x \in int64
           /\ wrap(x + y) = x + y /\ wrap(x - y) = x - y /\ wrap(-x) = -x
  <1>1. x + y \in int64 /\ x - y \in int64 /\ -x \in int64
    BY QuarterAssumption DEF is_amount_within_range, max_amount, int64
  <1> QED
    BY <1>1, WrapExact

LEMMA AmountTypes ==
    ASSUME NEW a \in Asset
    PROVE  /\ a.amount \in Int /\ a.amount \in int64
           /\ -(2 * Quarter) <= a.amount /\ a.amount <= 2 * Quarter - 1
           /\ a = [amount |-> a.amount, symbol |-> a.symbol]
           /\ a.symbol \in Symbol
  BY QuarterAssumption DEF Asset, int64

LEMMA QuotientSmaller ==
    ASSUME NEW x \in Int, NEW y \in Int, y # 0
    PROVE  /\ Quotient(x, y) \in Int
           /\ -Abs(x) <= Quotient(x, y) /\ Quotient(x, y) <= Abs(x)
  <1> DEFINE n == Abs(x)
             d == Abs(y)
  <1>1. n \in Nat /\ d \in Nat \ {0}
    BY DEF Abs
  <1>2. \A m \in Nat, k \in Nat \ {0} : m \div k \in Nat /\ m \div k <= m
    <2> SUFFICES ASSUME NEW m \in Nat, NEW k \in Nat \ {0}
                 PROVE  m \div k \in Nat /\ m \div k <= m
      OBVIOUS
    <2>1. m \div k \in Nat /\ m = k * (m \div k) + (m % k) /\ m % k \in Nat
      OBVIOUS
    <2>2. \A q \in Nat : q <= k * q
      OBVIOUS
    <2>3. m \div k <= k * (m \div k)
      BY <2>1, <2>2
    <2>4. k * (m \div k) \in Nat
      BY <2>1
    <2> QED
      BY <2>1, <2>3, <2>4
  <1>3. n \div d \in Nat /\ n \div d <= n
    <2> HIDE DEF n, d
    <2> QED
      BY <1>1, <1>2
  <1>4. Quotient(x, y) \in {n \div d, -(n \div d)}
    BY DEF Quotient
  <1> HIDE DEF n, d
  <1> QED
    BY <1>1, <1>3, <1>4 DEF n

(* With operands in range, every operation of asset.hpp:85-236 gives the      *)
(* exact result, or its checks stop the instance, and what it gives is in     *)
(* range again: nothing wraps before it is checked, however wide int64_t is.  *)
THEOREM ArithmeticExact ==
    ASSUME NEW a \in Asset, NEW b \in Asset, NEW x \in int64,
           is_amount_within_range(a.amount), is_amount_within_range(b.amount)
    PROVE  /\ negate(a).amount = -a.amount
           /\ is_amount_within_range(negate(a).amount)
           /\ plus(a, b).amount = a.amount + b.amount
           /\ plus_ok(a, b) => is_amount_within_range(plus(a, b).amount)
           /\ minus(a, b).amount = a.amount - b.amount
           /\ minus_ok(a, b) => is_amount_within_range(minus(a, b).amount)
           /\ times_ok(a, x) => /\ times(a, x).amount = a.amount * x
                                /\ is_amount_within_range(times(a, x).amount)
           /\ divide_ok(a, x) => /\ divide(a, x).amount = Quotient(a.amount, x)
                                 /\ is_amount_within_range(divide(a, x).amount)
           /\ ratio_ok(a, b) => is_amount_within_range(ratio(a, b))
  <1>1. /\ a.amount \in Int /\ b.amount \in Int /\ x \in Int
        /\ a = [amount |-> a.amount, symbol |-> a.symbol]
    BY AmountTypes, QuarterAssumption DEF int64
  <1>2. /\ negate(a).amount = wrap(-a.amount)
        /\ plus(a, b).amount = wrap(a.amount + b.amount)
        /\ minus(a, b).amount = wrap(a.amount - b.amount)
        /\ times(a, x).amount = wrap(a.amount * x)
        /\ divide(a, x).amount = Quotient(a.amount, x)
    BY DEF negate, plus, minus, times, divide, Asset
  <1>3. /\ wrap(-a.amount) = -a.amount
        /\ wrap(a.amount + b.amount) = a.amount + b.amount
        /\ wrap(a.amount - b.amount) = a.amount - b.amount
    BY <1>1, SumFits
  <1>4. is_amount_within_range(negate(a).amount)
    BY <1>1, <1>2, <1>3, QuarterAssumption DEF is_amount_within_range, max_amount
  <1>5. /\ plus_ok(a, b) => is_amount_within_range(plus(a, b).amount)
        /\ minus_ok(a, b) => is_amount_within_range(minus(a, b).amount)
    BY DEF plus_ok, minus_ok
  <1>6. ASSUME times_ok(a, x)
        PROVE  /\ times(a, x).amount = a.amount * x
               /\ is_amount_within_range(times(a, x).amount)
    <2> DEFINE p == a.amount * x
    <2>1. p \in Int /\ is_amount_within_range(p)
      BY <1>1, <1>6 DEF times_ok
    <2> HIDE DEF p
    <2>2. p \in int64
      BY <2>1, QuarterAssumption DEF is_amount_within_range, max_amount, int64
    <2>3. wrap(p) = p
      BY <2>2, WrapExact
    <2> QED
      BY <1>2, <2>1, <2>3 DEF p
  <1>7. \A y \in Int : y # 0 => is_amount_within_range(Quotient(a.amount, y))
    <2> SUFFICES ASSUME NEW y \in Int, y # 0
                 PROVE  is_amount_within_range(Quotient(a.amount, y))
      OBVIOUS
    <2>1. /\ Quotient(a.amount, y) \in Int
          /\ -Abs(a.amount) <= Quotient(a.amount, y) /\ Quotient(a.amount, y) <= Abs(a.amount)
      BY <1>1, QuotientSmaller
    <2>2. Abs(a.amount) \in Int /\ Abs(a.amount) <= max_amount
      BY <1>1, QuarterAssumption DEF Abs, is_amount_within_range, max_amount
    <2> QED
      BY <2>1, <2>2, QuarterAssumption DEF is_amount_within_range, max_amount
  <1>8. divide_ok(a, x) => is_amount_within_range(divide(a, x).amount)
    BY <1>1, <1>2, <1>7 DEF divide_ok
  <1>9. ratio_ok(a, b) => is_amount_within_range(ratio(a, b))
    BY <1>1, <1>7 DEF ratio_ok, ratio
  <1> QED
    BY <1>2, <1>3, <1>4, <1>5, <1>6, <1>8, <1>9

-----------------------------------------------------------------------------
(* The text of an amount *)

(* p10 is the table of the powers of the radix up to n. *)
Powers(p10, n) == p10 = [p \in 0 .. n |-> IF p = 0 THEN 1 ELSE Radix * p10[p - 1]]

LEMMA PowersExist ==
    ASSUME NEW n \in Nat
    PROVE  \E p10 : Powers(p10, n)
  <1> DEFINE T == {m \in Nat : ~\E p10 : Powers(p10, m)}
  <1>1. 0 \notin T
    <2>1. Powers([p \in 0 .. 0 |-> 1], 0)
      BY DEF Powers
    <2> QED
      BY <2>1
  <1>2. ASSUME NEW m \in Nat, m \notin T PROVE m + 1 \notin T
    <2>1. PICK g : Powers(g, m)
      BY <1>2
    <2> DEFINE h == [p \in 0 .. (m + 1) |-> IF p \in 0 .. m THEN g[p] ELSE Radix * g[m]]
    <2>2. ASSUME NEW p \in 0 .. (m + 1)
          PROVE  h[p] = IF p = 0 THEN 1 ELSE Radix * h[p - 1]
      <3>1. CASE p \in 0 .. m
        <4>1. g[p] = IF p = 0 THEN 1 ELSE Radix * g[p - 1]
          BY <2>1, <3>1 DEF Powers
        <4>2. p # 0 => p - 1 \in 0 .. m /\ p - 1 \in 0 .. (m + 1)
          BY <3>1
        <4> QED
          BY <3>1, <4>1, <4>2
      <3>2. CASE p = m + 1
        BY <3>2
      <3> QED
        BY <3>1, <3>2
    <2>3. Powers(h, m + 1)
      BY <2>2 DEF Powers
    <2> QED
      BY <2>3
  <1>3. T \subseteq Nat
    OBVIOUS
  <1>4. T = {}
    <2> HIDE DEF T
    <2>1. ASSUME T # {} PROVE FALSE
      <3>1. PICK k \in T : \A m \in T : k <= m
        BY <1>3, <2>1, LeastNatural
      <3>2. k - 1 \in Nat /\ k - 1 \notin T /\ (k - 1) + 1 = k
        BY <1>1, <1>3, <3>1
      <3> QED
        BY <1>2, <3>2
    <2> QED
      BY <2>1
  <1> QED
    BY <1>4

LEMMA PrecisionPositive ==
    ASSUME NEW s \in Symbol
    PROVE  precision_in_10(s) \in Nat \ {0}
  <1> DEFINE n == s.precision
             p10 == CHOOSE g : Powers(g, n)
  <1>1. n \in Nat
    BY DEF Symbol
  <1>2. precision_in_10(s) = p10[n]
    BY DEF precision_in_10, Powers
  <1>3. Powers(p10, n)
    BY <1>1, PowersExist
  <1> HIDE DEF p10, n
  <1> DEFINE T == {p \in 0 .. n : p10[p] \notin Nat \ {0}}
  <1>4. T \subseteq Nat
    BY <1>1
  <1>5. T = {}
    <2>1. ASSUME T # {} PROVE FALSE
      <3>1. PICK k \in T : \A m \in T : k <= m
        <4> HIDE DEF T
        <4> QED
          BY <1>4, <2>1, LeastNatural
      <3>2. k \in 0 .. n /\ p10[k] \notin Nat \ {0} /\ k \in Nat
        BY <1>4
      <3>3. p10[k] = IF k = 0 THEN 1 ELSE Radix * p10[k - 1]
        BY <1>3, <3>2 DEF Powers
      <3>4. k # 0
        BY <3>2, <3>3
      <3>5. k - 1 \in 0 .. n /\ k - 1 \notin T
        BY <1>1, <3>1, <3>2, <3>4
      <3>6. p10[k - 1] \in Nat \ {0}
        BY <3>5
      <3>7. Radix * p10[k - 1] \in Nat \ {0}
        BY <3>6, TextAssumption
      <3> QED
        BY <3>2, <3>3, <3>4, <3>7
    <2> QED
      BY <2>1
  <1>6. n \in 0 .. n
    BY <1>1
  <1> QED
    BY <1>2, <1>5, <1>6

(* Quotient and remainder give the dividend back.                           *)
LEMMA Division ==
    ASSUME NEW x \in Nat, NEW y \in Nat \ {0}
    PROVE  /\ x \div y \in Nat /\ x % y \in Nat
           /\ (x \div y) * y + (x % y) = x
  <1>1. x \div y \in Int /\ x % y \in 0 .. (y - 1)
    OBVIOUS
  <1>2. x = y * (x \div y) + (x % y)
    BY EuclideanDivision
  <1>3. x \div y \in Nat
    OBVIOUS
  <1>4. y * (x \div y) = (x \div y) * y
    BY <1>3
  <1> QED
    BY <1>1, <1>2, <1>3, <1>4

(* An amount that is not negative is read back from its text, whatever the    *)
(* precision, as long as there is a decimal point.                            *)
LEMMA ReadBack ==
    ASSUME NEW b \in Asset, 0 <= b.amount, is_valid(b), b.symbol.precision > 0
    PROVE  from_string_ok(to_string(b)) /\ from_string(to_string(b)) = b
  <1> DEFINE p10 == precision_in_10(b.symbol)
             t == to_string(b)
  <1>1. b.amount \in Nat /\ p10 \in Nat \ {0} /\ b.amount \in int64
    BY AmountTypes, PrecisionPositive
  <1>2. /\ b.amount \div p10 \in Nat /\ b.amount % p10 \in Nat
        /\ (b.amount \div p10) * p10 + (b.amount % p10) = b.amount
    <2> HIDE DEF p10
    <2> QED
      BY <1>1, Division
  <1>3. Abs(b.amount) = b.amount /\ Abs(p10) = p10
    <2> HIDE DEF p10
    <2> QED
      BY <1>1 DEF Abs
  <1>4. ~(Quotient(b.amount, p10) < 0)
    <2> HIDE DEF p10
    <2> QED
      BY <1>1, <1>2, <1>3 DEF Quotient
  <1>5. /\ ~t.negative
        /\ t.int = b.amount \div p10 /\ t.fraction = b.amount % p10
        /\ t.digits = b.symbol.precision /\ t.code = b.symbol.code
    BY <1>3, <1>4 DEF to_string
  <1> HIDE DEF t
  <1>6. read_symbol(t) = b.symbol
    <2>1. b.symbol = [code |-> b.symbol.code, precision |-> b.symbol.precision]
      BY DEF Asset, Symbol
    <2> QED
      BY <1>5, <2>1 DEF read_symbol
  <1>7. read_amount(t) = b.amount
    <2>1. read_amount(t) = wrap(1 * t.int * p10 + 1 * t.fraction)
      BY <1>5, <1>6 DEF read_amount
    <2>2. 1 * t.int * p10 + 1 * t.fraction = b.amount
      <3> HIDE DEF p10
      <3> QED
        BY <1>1, <1>2, <1>5
    <2> QED
      BY <1>1, <2>1, <2>2, WrapExact
  <1>8. asset(b.amount, b.symbol) = b
    BY DEF asset, Asset
  <1>9. asset_ok(b.amount, b.symbol) /\ b.symbol.precision <= MaxPrecision
    BY <1>8 DEF asset, asset_ok, is_valid, symbol_is_valid
  <1> QED
    BY <1>6, <1>7, <1>8, <1>9 DEF from_string_ok, from_string, t
=============================================================================
