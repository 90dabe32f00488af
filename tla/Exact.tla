-------------------------------- MODULE Exact --------------------------------
(***************************************************************************)
(* Exact numbers where the code has f64: rationals <<num, den>>, den > 0.  *)
(* Rounding, infinities and NaN are left out.                              *)
(***************************************************************************)
EXTENDS Integers, Outcome

Num(n) == <<n, 1>>
Plus(a, b) == <<a[1] * b[2] + b[1] * a[2], a[2] * b[2]>>
Minus(a, b) == <<a[1] * b[2] - b[1] * a[2], a[2] * b[2]>>
Times(a, b) == <<a[1] * b[1], a[2] * b[2]>>
Over(a, b) == IF b[1] > 0 THEN <<a[1] * b[2], a[2] * b[1]>> ELSE <<-(a[1] * b[2]), -(a[2] * b[1])>>
Less(a, b) == a[1] * b[2] < b[1] * a[2]
AtMost(a, b) == ~Less(b, a)
Clamp(v, lo, hi) == IF Less(v, lo) THEN lo ELSE IF Less(hi, v) THEN hi ELSE v
Lesser(a, b) == IF Less(b, a) THEN b ELSE a
Greater(a, b) == IF Less(a, b) THEN b ELSE a

\* The same rational in lowest terms.
Lowest(a) ==
  LET gcd[x \in Nat, y \in Nat] == IF y = 0 THEN x ELSE gcd[y, x % y]
      g == gcd[IF a[1] < 0 THEN -a[1] ELSE a[1], a[2]]
  IN <<a[1] \div g, a[2] \div g>>

\* Towards minus and plus infinity, to the nearest integer (halves up).
Floor(a) == a[1] \div a[2]
Ceil(a) == -((-a[1]) \div a[2])
Nearest(a) == (2 * a[1] + a[2]) \div (2 * a[2])
==============================================================================
