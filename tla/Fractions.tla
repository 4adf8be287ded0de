----------------------------- MODULE Fractions -----------------------------
(***************************************************************************)
(* Exact fractions in lowest terms, <<numerator, denominator>>, where the  *)
(* program computes with floating point.                                   *)
(***************************************************************************)
EXTENDS Integers

Gcd[p \in Nat \X Nat] == IF p[2] = 0 THEN p[1] ELSE Gcd[<<p[2], p[1] % p[2]>>]

\* n / d, for a positive d.
Fraction(n, d) ==
    LET g == Gcd[<<IF n < 0 THEN 0 - n ELSE n, d>>]
    IN IF n < 0 THEN <<0 - ((0 - n) \div g), d \div g>> ELSE <<n \div g, d \div g>>

\* A fraction in lowest terms, which every operator here makes.
IsFraction(x) == x \in Int \X (Nat \ {0}) /\ x = Fraction(x[1], x[2])

Zero == <<0, 1>>
One == <<1, 1>>

Plus(x, y) == Fraction(x[1] * y[2] + y[1] * x[2], x[2] * y[2])
Minus(x, y) == Fraction(x[1] * y[2] - y[1] * x[2], x[2] * y[2])
Times(x, y) == Fraction(x[1] * y[1], x[2] * y[2])

\* x / y, for a y that is not zero.
Over(x, y) ==
    IF y[1] > 0 THEN Fraction(x[1] * y[2], x[2] * y[1])
    ELSE Fraction(0 - x[1] * y[2], 0 - x[2] * y[1])

AtMost(x, y) == x[1] * y[2] <= y[1] * x[2]
Below(x, y) == x[1] * y[2] < y[1] * x[2]

Least(S) == CHOOSE x \in S : \A y \in S : AtMost(x, y)
Greatest(S) == CHOOSE x \in S : \A y \in S : AtMost(y, x)
=============================================================================
