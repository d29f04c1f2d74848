------------------------------ MODULE Decimals ------------------------------
(***************************************************************************)
(* Money, prices and proportions.  The program computes with               *)
(* decimal.Decimal; here an amount is an exact fraction, a numerator over  *)
(* a positive denominator, so that dividing loses nothing and a rounding   *)
(* appears only where the code rounds.                                     *)
(***************************************************************************)
EXTENDS Integers, Functions

Fraction == Int \X (Nat \ {0})
PositiveFraction == (Nat \ {0}) \X (Nat \ {0})

Whole(n) == <<n, 1>>
Percent(n) == <<n, 100>>
Zero == Whole(0)
One == Whole(1)

\* Euclid's algorithm, so that a fraction is kept in lowest terms.
gcd[pair \in Nat \X Nat] ==
    IF pair[2] = 0 THEN pair[1] ELSE gcd[<<pair[2], pair[1] % pair[2]>>]

Lowest(n, d) == LET g == gcd[<<d, n % d>>] IN <<n \div g, d \div g>>

Plus(a, b) == Lowest(a[1] * b[2] + b[1] * a[2], a[2] * b[2])
Minus(a, b) == Plus(a, <<-b[1], b[2]>>)
Times(a, b) == Lowest(a[1] * b[1], a[2] * b[2])
\* b is positive.
Over(a, b) == Lowest(a[1] * b[2], a[2] * b[1])

Leq(a, b) == a[1] * b[2] <= b[1] * a[2]
Less(a, b) == ~Leq(b, a)
Same(a, b) == a[1] * b[2] = b[1] * a[2]
Positive(a) == a[1] > 0

Smaller(a, b) == IF Leq(a, b) THEN a ELSE b
Larger(a, b) == IF Leq(a, b) THEN b ELSE a
Least(S) == CHOOSE x \in S : \A y \in S : Leq(x, y)
Between(low, a, high) == Smaller(high, Larger(low, a))

\* The largest multiple of 1/step that is at most a.
RoundDown(a, step) == <<(a[1] * step) \div a[2], step>>

\* 10 ** n.
TenTo[n \in Nat] == IF n = 0 THEN 1 ELSE 10 * TenTo[n - 1]

TotalOf(f) == FoldFunction(Plus, Zero, f)

=============================================================================
