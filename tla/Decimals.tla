------------------------------ MODULE Decimals ------------------------------
(***************************************************************************)
(* The decimals that sizes, prices, position and cash are made of, as the   *)
(* program uses Python's: a coefficient, an exponent and a sign, arithmetic *)
(* that keeps PREC digits, and the one text a decimal is ever recorded as   *)
(* (`canonical.decimal_text`).                                              *)
(***************************************************************************)
EXTENDS Integers

CONSTANTS
    PREC,                   \* digits the default context keeps: 28
    MAX_DECIMAL_PLACES,
    MAX_MAGNITUDE_DIGITS

ASSUME PrecisionAssumption ==
          PREC \in Nat \ {0} /\ MAX_DECIMAL_PLACES \in Nat /\ MAX_MAGNITUDE_DIGITS \in Nat

DecimalType == [neg : BOOLEAN, coeff : Nat, exp : Int]
Decimal(neg, coeff, exp) == [neg |-> neg, coeff |-> coeff, exp |-> exp]
Zero == Decimal(FALSE, 0, 0)

Larger(a, b)  == IF a >= b THEN a ELSE b
Smaller(a, b) == IF a =< b THEN a ELSE b

(* The powers of ten.                                                        *)
Pow10[k \in Nat] == IF k = 0 THEN 1 ELSE 10 * Pow10[k - 1]

(* How many digits a coefficient has; zero has one.                          *)
Digits(n) == CHOOSE k \in 1..(n + 1) : n < Pow10[k] /\ (k > 1 => n >= Pow10[k - 1])

(* The number a decimal is, in units of 10^-places: a whole one when the     *)
(* decimal has no more places than that.                                     *)
Units(d, places) == (IF d.neg THEN -1 ELSE 1) * d.coeff * Pow10[d.exp + places]

-----------------------------------------------------------------------------
(* n / 10^k, half to even.                                                   *)
RoundHalfEven(n, k) ==
    LET q == n \div Pow10[k]
        r == n % Pow10[k]
    IN  IF 2 * r > Pow10[k] \/ (2 * r = Pow10[k] /\ q % 2 = 1) THEN q + 1 ELSE q

(* What every operation does to its exact result.  Rounding 99.. up gives    *)
(* one digit more, a zero, which is taken off again.                         *)
Fix(d) ==
    LET k == Digits(d.coeff) - PREC
        c == RoundHalfEven(d.coeff, Larger(k, 0))
    IN  IF k =< 0 THEN d
        ELSE IF c = Pow10[PREC] THEN Decimal(d.neg, Pow10[PREC - 1], d.exp + k + 1)
        ELSE Decimal(d.neg, c, d.exp + k)

(* An exact number of units of 10^exp; zero has no sign.                     *)
FromUnits(n, exp) == Decimal(n < 0, IF n < 0 THEN -n ELSE n, exp)

(* Faulty Plus: the sum is taken to the coarser of the two scales.           *)
PlusCoarse(a, b) ==
    LET fine == Smaller(a.exp, b.exp)
        exp  == Larger(a.exp, b.exp)
    IN  Fix(FromUnits((Units(a, -fine) + Units(b, -fine)) \div Pow10[exp - fine], exp))

Plus(a, b) ==
    LET exp == Smaller(a.exp, b.exp)
    IN  Fix(FromUnits(Units(a, -exp) + Units(b, -exp), exp))

Negated(a)  == Fix(Decimal(~a.neg /\ a.coeff # 0, a.coeff, a.exp))
Minus(a, b) == Plus(a, Negated(b))
Times(a, b) == Fix(Decimal(a.neg # b.neg, a.coeff * b.coeff, a.exp + b.exp))

-----------------------------------------------------------------------------
(* plausible_decimal.  adjusted() is the exponent of the first digit.        *)
Plausible(d) ==
    /\ ~d.neg /\ d.coeff > 0
    /\ d.exp >= -MAX_DECIMAL_PLACES
    /\ d.exp + Digits(d.coeff) - 1 =< MAX_MAGNITUDE_DIGITS

(* Faulty Text: trailing zeros are dropped.                                  *)
TextNormalised(d) ==
    LET width  == Larger(-d.exp, 0)
        places == CHOOSE p \in 0..width :
                     /\ d.coeff % Pow10[width - p] = 0
                     /\ \A o \in 0..(p - 1) : d.coeff % Pow10[width - o] # 0
    IN  [neg |-> d.neg /\ d.coeff # 0, digits |-> (d.coeff * Pow10[Larger(d.exp, 0)]) \div Pow10[width - places],
         places |-> places]

(* decimal_text: positional, trailing zeros kept, no negative zero.  A text  *)
(* is its sign, its digits read as one number, and how many follow the point.*)
Text(d) ==
    [neg    |-> d.neg /\ d.coeff # 0,
     digits |-> d.coeff * Pow10[Larger(d.exp, 0)],
     places |-> Larger(-d.exp, 0)]

=============================================================================
