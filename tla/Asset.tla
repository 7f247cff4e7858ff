------------------------------- MODULE Asset -------------------------------
(***************************************************************************)
(* libraries/wasmlib/core/asset.hpp: an amount and the symbol it counts,   *)
(* with checked arithmetic on int64_t, and its text form; with the parts   *)
(* of core/symbol.hpp it rests on.                                         *)
(*                                                                         *)
(* An operation that may fail is a pair of operators: x_ok says that every *)
(* wasm::check in it holds (else the instance stops), x is its result.     *)
(* The width of int64_t is a parameter, and arithmetic wraps.              *)
(***************************************************************************)
EXTENDS Integers

CONSTANTS
    Quarter,        \* 2^62
    Codes,          \* symbol codes whose characters are valid
    NoCode,         \* the code of symbol(), which is_valid refuses
    MaxPrecision,   \* symbol::max_precision
    Radix,          \* the radix of the text form (10)
    IntMax          \* the largest int, which atoi can give

ASSUME QuarterAssumption == Quarter \in Nat \ {0}

ASSUME CodesAssumption == NoCode \notin Codes

ASSUME PrecisionAssumption == MaxPrecision \in Nat

ASSUME TextAssumption == Radix \in Nat \ {0, 1} /\ IntMax \in Nat

int64 == -(2 * Quarter) .. (2 * Quarter - 1)

max_amount == Quarter - 1

(* What is left of x in an int64_t *)
wrap(x) == ((x + 2 * Quarter) % (4 * Quarter)) - 2 * Quarter

Symbol == [code : Codes \union {NoCode}, precision : Nat]

Asset == [amount : int64, symbol : Symbol]

(* symbol(): the raw value 0 *)
NoSymbol == [code |-> NoCode, precision |-> 0]

symbol_is_valid(s) == s.code \in Codes /\ s.precision <= MaxPrecision

is_amount_within_range(x) == -max_amount <= x /\ x <= max_amount

is_valid(a) == is_amount_within_range(a.amount) /\ symbol_is_valid(a.symbol)

(* asset(a, s) *)
asset_ok(x, s) == is_valid([amount |-> x, symbol |-> s])
asset(x, s) == [amount |-> x, symbol |-> s]

(* operator-() *)
negate(a) == [a EXCEPT !.amount = wrap(-@)]

(* operator-= *)
minus(a, b) == [a EXCEPT !.amount = wrap(@ - b.amount)]
minus_ok(a, b) ==
    /\ b.symbol = a.symbol
    /\ is_amount_within_range(minus(a, b).amount)

(* operator+= *)
plus(a, b) == [a EXCEPT !.amount = wrap(@ + b.amount)]
plus_ok(a, b) ==
    /\ b.symbol = a.symbol
    /\ is_amount_within_range(plus(a, b).amount)

(* operator*=: the product is formed in int128_t. *)
times(a, x) == [a EXCEPT !.amount = wrap(@ * x)]
times_ok(a, x) == is_amount_within_range(a.amount * x)

Abs(x) == IF x < 0 THEN -x ELSE x

(* Division of C: towards zero *)
Quotient(x, y) ==
    LET q == Abs(x) \div Abs(y) IN IF (x < 0) = (y < 0) THEN q ELSE -q

(* operator/= *)
divide_ok(a, x) == x # 0 /\ ~(a.amount = -(2 * Quarter) /\ x = -1)
divide(a, x) == [a EXCEPT !.amount = Quotient(@, x)]

(* operator/(a, b), which gives a number.  The smallest amount divided by -1 *)
(* is not checked for: i64.div_s traps.                                      *)
ratio_ok(a, b) ==
    /\ b.amount # 0 /\ a.symbol = b.symbol
    /\ ~(a.amount = -(2 * Quarter) /\ b.amount = -1)
ratio(a, b) == Quotient(a.amount, b.amount)

-----------------------------------------------------------------------------
(* Text.  The number part of "-12.05 WICC" is [negative |-> TRUE, int |-> 12, *)
(* digits |-> 2, fraction |-> 5]; without decimal point digits is 0.        *)

precision_in_10(s) ==
    LET p10[p \in 0 .. s.precision] == IF p = 0 THEN 1 ELSE Radix * p10[p - 1]
    IN p10[s.precision]

(* Mutant of to_string: zeros after the decimal point are not written. *)
to_string_short(a) ==
    LET p10 == precision_in_10(a.symbol)
        change == Abs(a.amount) % p10
    IN [negative |-> Quotient(a.amount, p10) < 0,
        int |-> Abs(a.amount) \div p10,
        digits |-> IF a.symbol.precision = 0 THEN 0
                   ELSE CHOOSE n \in 1 .. a.symbol.precision :
                           change < Radix ^ n /\ (n = 1 \/ change >= Radix ^ (n - 1)),
        fraction |-> change,
        code |-> a.symbol.code]

(* "%lld" of amount/p10 writes no sign when the quotient is 0. *)
to_string(a) ==
    LET p10 == precision_in_10(a.symbol)
    IN [negative |-> Quotient(a.amount, p10) < 0,
        int |-> Abs(a.amount) \div p10,
        digits |-> a.symbol.precision,
        fraction |-> Abs(a.amount) % p10,
        code |-> a.symbol.code]

(* Characters of "%lld" *)
Characters(t) ==
    (IF t.negative THEN 1 ELSE 0) +
    (CHOOSE n \in 1 .. 64 : t.int < Radix ^ n /\ (n = 1 \/ t.int >= Radix ^ (n - 1)))

(* The precision is amount_str.size() - dot_pos - 1; without a point, where  *)
(* dot_pos is npos, that is the size of the whole number.                    *)
read_symbol(t) ==
    [code |-> t.code,
     precision |-> IF t.digits > 0 THEN t.digits ELSE Characters(t)]

(* atoi gives an int; what it gives for a larger number is undefined. *)
atoi_fits(t) == t.int <= IntMax /\ t.fraction <= IntMax

read_amount(t) ==
    LET sign == IF t.negative THEN -1 ELSE 1 IN
    wrap(sign * t.int * precision_in_10(read_symbol(t)) + sign * t.fraction)

from_string_ok(t) ==
    /\ read_symbol(t).precision <= MaxPrecision
    /\ asset_ok(read_amount(t), read_symbol(t))

from_string(t) == asset(read_amount(t), read_symbol(t))
=============================================================================
