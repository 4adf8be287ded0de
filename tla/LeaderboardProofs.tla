-------------------------- MODULE LeaderboardProofs -------------------------
(***************************************************************************)
(* What holds of the leaderboard for every config, all models, and any     *)
(* number and kind of rows: who is not ranked does not matter, a gap is    *)
(* not a zero, better is not behind, and a failure is of no use.           *)
(*                                                                         *)
(* The program computes with numbers, the model with fractions in lowest   *)
(* terms.  A fraction x Is(x, n, d) the number n / d; finitely many of     *)
(* them have a common denominator, over which whatever is made of them is  *)
(* a matter of their numerators.                                           *)
(***************************************************************************)
EXTENDS Leaderboard, FoldFacts, TLAPS

-----------------------------------------------------------------------------
(* Exact fractions *)

\* The common divisors of a pair that are a sum of multiples of its parts.
Bezout(p) ==
    {g \in Nat : /\ \E x, y \in Nat : p[1] = g * x /\ p[2] = g * y
                 /\ \E u, v \in Int : g = u * p[1] + v * p[2]}

LEMMA DivMod ==
  ASSUME NEW a \in Nat, NEW b \in Nat \ {0}
  PROVE  a \div b \in Nat /\ a % b \in Nat /\ a % b < b /\ a = b * (a \div b) + (a % b)
  OBVIOUS

\* A step of Euclid's algorithm keeps them.
LEMMA BezoutStep ==
  ASSUME NEW a \in Nat, NEW b \in Nat \ {0}
  PROVE  Bezout(<<a, b>>) = Bezout(<<b, a % b>>)
<1>1. PICK q \in Nat, r \in Nat : r = a % b /\ a = b * q + r
  BY DivMod
<1>2. ASSUME NEW g \in Bezout(<<a, b>>) PROVE g \in Bezout(<<b, r>>)
  <2>1. PICK x \in Nat, y \in Nat : a = g * x /\ b = g * y
    BY DEF Bezout
  <2>2. PICK u \in Int, v \in Int : g = u * a + v * b
    BY DEF Bezout
  <2>3. g \in Nat
    BY DEF Bezout
  <2>4. r = g * (x - y * q) /\ x - y * q \in Int
    <3>1. r = g * x - (g * y) * q
      <4>1. r = a - b * q /\ b * q \in Int
        BY <1>1
      <4> QED
        BY <2>1, <4>1
    <3>2. (g * y) * q = g * (y * q) /\ y * q \in Nat
      BY <2>3
    <3>3. g * x - g * (y * q) = g * (x - y * q)
      BY <2>3, <3>2
    <3> QED
      BY <3>1, <3>2, <3>3
  <2>5. x - y * q \in Nat
    <3> DEFINE z == x - y * q
    <3>1. z \in Int /\ r = g * z
      BY <2>4
    <3> HIDE DEF z
    <3>2. g # 0
      BY <2>1
    <3>3. z < 0 => g * z < 0
      BY <2>3, <3>1, <3>2
    <3> QED
      BY <1>1, <3>1, <3>3 DEF z
  <2>6. g = (u * q + v) * b + u * r /\ u * q + v \in Int
    <3>1. u * a = u * (b * q) + u * r
      BY <1>1
    <3>2. u * (b * q) = (u * q) * b
      BY <1>1
    <3>3. (u * q + v) * b = (u * q) * b + v * b
      BY <1>1
    <3> QED
      BY <1>1, <2>2, <3>1, <3>2, <3>3
  <2> QED
    BY <2>1, <2>3, <2>4, <2>5, <2>6 DEF Bezout
<1>3. ASSUME NEW g \in Bezout(<<b, r>>) PROVE g \in Bezout(<<a, b>>)
  <2>1. PICK x \in Nat, y \in Nat : b = g * x /\ r = g * y
    BY DEF Bezout
  <2>2. PICK u \in Int, v \in Int : g = u * b + v * r
    BY DEF Bezout
  <2>3. g \in Nat
    BY DEF Bezout
  <2>4. a = g * (x * q + y) /\ x * q + y \in Nat
    <3>1. a = (g * x) * q + g * y
      BY <1>1, <2>1
    <3>2. (g * x) * q = g * (x * q) /\ x * q \in Nat
      BY <2>3
    <3> QED
      BY <2>3, <3>1, <3>2
  <2>5. g = v * a + (u - v * q) * b /\ u - v * q \in Int
    <3>1. v * r = v * a - v * (b * q)
      <4>1. r = a - b * q /\ b * q \in Int
        BY <1>1
      <4> QED
        BY <4>1
    <3>2. v * (b * q) = (v * q) * b
      BY <1>1
    <3>3. (u - v * q) * b = u * b - (v * q) * b
      BY <1>1
    <3> QED
      BY <2>2, <3>1, <3>2, <3>3
  <2> QED
    BY <2>1, <2>3, <2>4, <2>5 DEF Bezout
<1> QED
  BY <1>1, <1>2, <1>3

LEMMA BezoutEnd ==
  ASSUME NEW a \in Nat
  PROVE  Bezout(<<a, 0>>) = {a}
<1>1. a \in Bezout(<<a, 0>>)
  <2>1. a = a * 1 /\ 0 = a * 0 /\ a = 1 * a + 0 * 0
    OBVIOUS
  <2> QED
    BY <2>1 DEF Bezout
<1>2. ASSUME NEW g \in Bezout(<<a, 0>>) PROVE g = a
  <2>1. PICK x \in Nat : a = g * x
    BY DEF Bezout
  <2>2. PICK u \in Int : g = u * a
    <3>1. PICK u \in Int, v \in Int : g = u * a + v * 0
      BY DEF Bezout
    <3> QED
      BY <3>1
  <2>3. g \in Nat
    BY DEF Bezout
  <2>4. CASE a = 0
    BY <2>2, <2>4
  <2>5. CASE a # 0
    <3>1. g # 0 /\ x # 0
      BY <2>1, <2>3, <2>5
    <3>2. u > 0
      BY <2>2, <2>3, <2>5, <3>1
    <3>3. g <= a
      BY <2>1, <2>3, <3>1
    <3>4. a <= g
      BY <2>2, <2>3, <3>2
    <3> QED
      BY <2>3, <3>3, <3>4
  <2> QED
    BY <2>4, <2>5
<1> QED
  BY <1>1, <1>2

\* The algorithm has a result for every pair.
LEMMA GcdIs ==
  Gcd = [p \in Nat \X Nat |-> IF p[2] = 0 THEN p[1] ELSE Gcd[<<p[2], p[1] % p[2]>>]]
<1> DEFINE g == [p \in Nat \X Nat |-> CHOOSE d : d \in Bezout(p)]
<1>1. ASSUME NEW a \in Nat, NEW b \in Nat
      PROVE  g[<<a, b>>] = IF b = 0 THEN a ELSE g[<<b, a % b>>]
  <2>1. g[<<a, b>>] = CHOOSE d : d \in Bezout(<<a, b>>)
    OBVIOUS
  <2>2. CASE b = 0
    <3>1. Bezout(<<a, b>>) = {a}
      BY <2>2, BezoutEnd
    <3> QED
      BY <2>1, <2>2, <3>1
  <2>3. CASE b # 0
    <3>1. Bezout(<<a, b>>) = Bezout(<<b, a % b>>)
      BY <2>3, BezoutStep
    <3>2. <<b, a % b>> \in Nat \X Nat
      BY <2>3, DivMod
    <3>3. g[<<b, a % b>>] = CHOOSE d : d \in Bezout(<<b, a % b>>)
      BY <3>2
    <3> QED
      BY <2>1, <2>3, <3>1, <3>3
  <2> QED
    BY <2>2, <2>3
<1>2. g = [p \in Nat \X Nat |-> g[p]]
  OBVIOUS
<1> HIDE DEF g
<1>3. \A p \in Nat \X Nat : g[p] = IF p[2] = 0 THEN p[1] ELSE g[<<p[2], p[1] % p[2]>>]
  <2> TAKE p \in Nat \X Nat
  <2>1. PICK a \in Nat, b \in Nat : p = <<a, b>>
    OBVIOUS
  <2> QED
    BY <1>1, <2>1
<1>4. g = [p \in Nat \X Nat |-> IF p[2] = 0 THEN p[1] ELSE g[<<p[2], p[1] % p[2]>>]]
  BY <1>2, <1>3
<1> QED
  BY <1>4 DEF Gcd

\* What it computes is a common divisor, and a sum of multiples of the two.
LEMMA GcdDivides ==
  ASSUME NEW a \in Nat, NEW b \in Nat
  PROVE  Gcd[<<a, b>>] \in Bezout(<<a, b>>)
<1> DEFINE good == {k \in 0..b : \A i \in 0..k, x \in Nat : Gcd[<<x, i>>] \in Bezout(<<x, i>>)}
<1>1. ASSUME NEW x \in Nat, NEW y \in Nat
      PROVE  Gcd[<<x, y>>] = IF y = 0 THEN x ELSE Gcd[<<y, x % y>>]
  BY GcdIs
<1>2. ASSUME NEW x \in Nat PROVE Gcd[<<x, 0>>] \in Bezout(<<x, 0>>)
  BY <1>1, BezoutEnd
<1>3. 0 \in good
  <2>1. 0..0 = {0}
    OBVIOUS
  <2> QED
    BY <1>2, <2>1
<1>4. ASSUME NEW k \in 1..b, k - 1 \in good PROVE k \in good
  <2>1. ASSUME NEW x \in Nat PROVE Gcd[<<x, k>>] \in Bezout(<<x, k>>)
    <3>1. k \in Nat \ {0} /\ x % k \in 0..(k - 1)
      BY DivMod
    <3>2. Gcd[<<k, x % k>>] \in Bezout(<<k, x % k>>)
      BY <1>4, <3>1
    <3> QED
      BY <1>1, <3>1, <3>2, BezoutStep
  <2>2. \A i \in 0..k : i \in 0..(k - 1) \/ i = k
    OBVIOUS
  <2> QED
    BY <1>4, <2>1, <2>2
<1>5. good = 0..b
  <2>1. good \in SUBSET (0..b)
    OBVIOUS
  <2> HIDE DEF good
  <2> QED
    BY <1>3, <1>4, <2>1, UpTo
<1> QED
  BY <1>5

\* x is the number n / d.
Is(x, n, d) == x[1] * d = n * x[2]

Quotients == Int \X (Nat \ {0})

LEMMA CancelLeft ==
  ASSUME NEW g \in Nat \ {0}, NEW x \in Int, NEW y \in Int, g * x = g * y
  PROVE  x = y
<1>1. g * (x - y) = 0
  OBVIOUS
<1>2. x - y > 0 => g * (x - y) > 0
  OBVIOUS
<1>3. x - y < 0 => g * (x - y) < 0
  OBVIOUS
<1> QED
  BY <1>1, <1>2, <1>3

LEMMA QuotientIs ==
  ASSUME NEW g \in Nat \ {0}, NEW x \in Nat
  PROVE  (g * x) \div g = x
<1>1. PICK a \in Nat : a = g * x
  OBVIOUS
<1>2. PICK q \in Nat, r \in Nat : q = a \div g /\ r < g /\ a = g * q + r
  BY DivMod
<1>3. g * (x - q) = r
  BY <1>1, <1>2
<1>4. x - q > 0 => g * (x - q) >= g
  OBVIOUS
<1>5. x - q < 0 => g * (x - q) < 0
  OBVIOUS
<1>6. x = q
  BY <1>2, <1>3, <1>4, <1>5
<1> QED
  BY <1>1, <1>2, <1>6

\* The parts of a fraction are those of the quotient, without what they share.
Coprimes(x, y) == \E u, v \in Int : u * x + v * y = 1

Parts(n, d, g, x, y) ==
    /\ Fraction(n, d) = <<x, y>> /\ n = g * x /\ d = g * y
    /\ Coprimes(x, y)

LEMMA FractionParts ==
  ASSUME NEW n \in Int, NEW d \in Nat \ {0}
  PROVE  \E g \in Nat \ {0}, x \in Int, y \in Nat \ {0} : Parts(n, d, g, x, y)
<1> DEFINE m == IF n < 0 THEN 0 - n ELSE n
<1>1. m \in Nat
  OBVIOUS
<1>2. PICK g \in Bezout(<<m, d>>) : g = Gcd[<<m, d>>]
  BY <1>1, GcdDivides
<1>3. PICK x \in Nat, y \in Nat : m = g * x /\ d = g * y
  BY DEF Bezout
<1>4. PICK u \in Int, v \in Int : g = u * m + v * d
  BY DEF Bezout
<1>5. g \in Nat \ {0} /\ y # 0
  BY <1>3 DEF Bezout
<1>6. Fraction(n, d) = IF n < 0 THEN <<0 - (m \div g), d \div g>> ELSE <<m \div g, d \div g>>
  BY <1>2 DEF Fraction
<1>7. m \div g = x /\ d \div g = y
  BY <1>3, <1>5, QuotientIs
<1>8. u * x + v * y = 1
  <2>1. g * (u * x + v * y) = g * 1
    <3>1. u * m = u * (g * x) /\ v * d = v * (g * y)
      BY <1>3
    <3>2. u * (g * x) = g * (u * x) /\ v * (g * y) = g * (v * y)
      BY <1>5
    <3> QED
      BY <1>4, <1>5, <3>1, <3>2
  <2> QED
    BY <1>5, <2>1, CancelLeft
<1>9. CASE n < 0
  <2>1. Fraction(n, d) = <<0 - x, y>>
    BY <1>6, <1>7, <1>9
  <2>2. n = g * (0 - x) /\ (0 - u) * (0 - x) + v * y = 1
    BY <1>3, <1>5, <1>8, <1>9
  <2>3. 0 - x \in Int /\ 0 - u \in Int /\ y \in Nat \ {0}
    BY <1>5
  <2>4. \E s, t \in Int : s * (0 - x) + t * y = 1
    BY <2>2, <2>3
  <2> QED
    BY <1>3, <1>5, <2>1, <2>2, <2>3, <2>4 DEF Parts, Coprimes
<1>10. CASE ~(n < 0)
  BY <1>3, <1>5, <1>6, <1>7, <1>8, <1>10 DEF Parts, Coprimes
<1> QED
  BY <1>9, <1>10

\* Two fractions of one number that share nothing are the same.
LEMMA Coprime ==
  ASSUME NEW x \in Int, NEW y \in Nat \ {0}, Coprimes(x, y),
         NEW z \in Int, NEW w \in Nat \ {0}, Is(<<x, y>>, z, w)
  PROVE  \E k \in Nat \ {0} : w = y * k
<1> PICK s \in Int, t \in Int : s * x + t * y = 1
  BY DEF Coprimes
<1> x * w = z * y
  BY DEF Is
<1>1. w = y * (s * z + t * w)
  <2>1. w = (s * x + t * y) * w
    OBVIOUS
  <2>2. (s * x + t * y) * w = s * (x * w) + (t * y) * w
    OBVIOUS
  <2>3. s * (x * w) = y * (s * z)
    <3>1. s * (x * w) = s * (z * y)
      OBVIOUS
    <3>2. s * (z * y) = y * (s * z)
      OBVIOUS
    <3> QED
      BY <3>1, <3>2
  <2>4. (t * y) * w = y * (t * w)
    OBVIOUS
  <2>5. y * (s * z) + y * (t * w) = y * (s * z + t * w)
    <3>1. s * z \in Int /\ t * w \in Int
      OBVIOUS
    <3> QED
      BY <3>1
  <2> QED
    BY <2>1, <2>2, <2>3, <2>4, <2>5
<1>2. PICK k \in Int : k = s * z + t * w
  OBVIOUS
<1>3. w = y * k
  BY <1>1, <1>2
<1>4. ~(k <= 0)
  BY <1>3
<1> QED
  BY <1>3, <1>4

LEMMA ProductOne ==
  ASSUME NEW y \in Nat \ {0}, NEW k \in Nat \ {0}, NEW l \in Nat \ {0}, NEW w, w = y * k, y = w * l
  PROVE  w = y
<1>1. y <= y * k /\ y * k \in Nat
  OBVIOUS
<1>2. w \in Nat /\ w <= w * l
  BY <1>1
<1> QED
  BY <1>1, <1>2

\* One number has one fraction in lowest terms.
LEMMA FractionUnique ==
  ASSUME NEW n \in Int, NEW d \in Nat \ {0}, NEW m \in Int, NEW e \in Nat \ {0}, n * e = m * d
  PROVE  Fraction(n, d) = Fraction(m, e)
<1>1. PICK g \in Nat \ {0}, x \in Int, y \in Nat \ {0} : Parts(n, d, g, x, y)
  BY FractionParts
<1>2. PICK h \in Nat \ {0}, z \in Int, w \in Nat \ {0} : Parts(m, e, h, z, w)
  BY FractionParts
<1>3. x * w = z * y
  <2>1. (g * h) * (x * w) = (g * h) * (z * y)
    <3>1. n * e = (g * x) * (h * w) /\ m * d = (h * z) * (g * y)
      BY <1>1, <1>2 DEF Parts
    <3>2. (g * x) * (h * w) = (g * h) * (x * w)
      OBVIOUS
    <3>3. (h * z) * (g * y) = (g * h) * (z * y)
      OBVIOUS
    <3> QED
      BY <3>1, <3>2, <3>3
  <2>2. g * h \in Nat \ {0} /\ x * w \in Int /\ z * y \in Int
    OBVIOUS
  <2> QED
    BY <2>1, <2>2, CancelLeft
<1>4. PICK k \in Nat \ {0} : w = y * k
  <2>1. Coprimes(x, y) /\ Is(<<x, y>>, z, w)
    BY <1>1, <1>3 DEF Parts, Is
  <2> QED
    BY <2>1, Coprime
<1>5. PICK l \in Nat \ {0} : y = w * l
  <2>1. Coprimes(z, w) /\ Is(<<z, w>>, x, y)
    BY <1>2, <1>3 DEF Parts, Is
  <2> QED
    BY <2>1, Coprime
<1>6. w = y
  BY <1>4, <1>5, ProductOne
<1>7. x = z
  BY <1>3, <1>6, CancelLeft
<1> QED
  BY <1>1, <1>2, <1>6, <1>7 DEF Parts

\* A fraction is the number that was asked for.
LEMMA FractionIs ==
  ASSUME NEW n \in Int, NEW d \in Nat \ {0}
  PROVE  IsFraction(Fraction(n, d)) /\ Is(Fraction(n, d), n, d)
<1>1. PICK g \in Nat \ {0}, x \in Int, y \in Nat \ {0} : Parts(n, d, g, x, y)
  BY FractionParts
<1>2. x * d = n * y
  <2>1. x * (g * y) = (g * x) * y
    OBVIOUS
  <2> QED
    BY <1>1, <2>1 DEF Parts
<1>3. Fraction(x, y) = Fraction(n, d)
  BY <1>2, FractionUnique
<1> QED
  BY <1>1, <1>2, <1>3 DEF Parts, IsFraction, Is, Quotients

LEMMA SameFraction ==
  ASSUME NEW x, IsFraction(x), NEW y, IsFraction(y), NEW n \in Int, NEW d \in Nat \ {0},
         Is(x, n, d), Is(y, n, d)
  PROVE  x = y
<1>1. x[1] \in Int /\ x[2] \in Nat \ {0} /\ x = Fraction(x[1], x[2])
  BY DEF IsFraction, Quotients
<1>2. y[1] \in Int /\ y[2] \in Nat \ {0} /\ y = Fraction(y[1], y[2])
  BY DEF IsFraction, Quotients
<1>3. Fraction(x[1], x[2]) = Fraction(n, d)
  BY <1>1, FractionUnique DEF Is
<1>4. Fraction(y[1], y[2]) = Fraction(n, d)
  BY <1>2, FractionUnique DEF Is
<1> QED
  BY <1>1, <1>2, <1>3, <1>4

\* Fractions over one denominator compare as their numerators do.
LEMMA Compared ==
  ASSUME NEW x \in Quotients, NEW y \in Quotients, NEW n \in Int, NEW m \in Int, NEW d \in Nat \ {0},
         Is(x, n, d), Is(y, m, d)
  PROVE  /\ AtMost(x, y) <=> n <= m
         /\ Below(x, y) <=> n < m
<1>1. PICK a \in Int, b \in Nat \ {0} : x = <<a, b>>
  BY DEF Quotients
<1>2. PICK r \in Int, s \in Nat \ {0} : y = <<r, s>>
  BY DEF Quotients
<1>3. a * d = n * b /\ r * d = m * s
  BY <1>1, <1>2 DEF Is
<1>4. d * (a * s) = (b * s) * n /\ d * (r * b) = (b * s) * m
  <2>1. d * (a * s) = (a * d) * s /\ (n * b) * s = (b * s) * n
    OBVIOUS
  <2>2. d * (r * b) = (r * d) * b /\ (m * s) * b = (b * s) * m
    OBVIOUS
  <2> QED
    BY <1>3, <2>1, <2>2
<1>5. PICK c \in Nat \ {0} : c = b * s
  OBVIOUS
<1>6. PICK i \in Int, j \in Int : i = a * s /\ j = r * b
  OBVIOUS
<1>7. d * i = c * n /\ d * j = c * m
  BY <1>4, <1>5, <1>6
<1>8. d * (i - j) = c * (n - m)
  BY <1>7
<1>9. PICK k \in Int, l \in Int : k = i - j /\ l = n - m
  OBVIOUS
<1>10. d * k = c * l
  BY <1>8, <1>9
<1>11. (k > 0 => d * k > 0) /\ (k < 0 => d * k < 0)
  OBVIOUS
<1>12. (l > 0 => c * l > 0) /\ (l < 0 => c * l < 0)
  OBVIOUS
<1>13. (k <= 0 <=> l <= 0) /\ (k < 0 <=> l < 0)
  <2>1. k = 0 => d * k = 0
    OBVIOUS
  <2>2. l = 0 => c * l = 0
    OBVIOUS
  <2> QED
    BY <1>10, <1>11, <1>12, <2>1, <2>2
<1>14. (i <= j <=> n <= m) /\ (i < j <=> n < m)
  BY <1>9, <1>13
<1> QED
  BY <1>1, <1>2, <1>6, <1>14 DEF AtMost, Below

LEMMA Rescaled ==
  ASSUME NEW x \in Quotients, NEW n \in Int, NEW e \in Nat \ {0}, Is(x, n, e),
         NEW m \in Int, NEW d \in Nat \ {0}, Is(<<n, e>>, m, d)
  PROVE  Is(x, m, d)
<1>1. PICK a \in Int, b \in Nat \ {0} : x = <<a, b>>
  BY DEF Quotients
<1>2. a * e = n * b /\ n * d = m * e
  BY <1>1 DEF Is
<1>3. e * (a * d) = e * (m * b)
  <2>1. e * (a * d) = (a * e) * d /\ (n * b) * d = (n * d) * b /\ (m * e) * b = e * (m * b)
    OBVIOUS
  <2> QED
    BY <1>2, <2>1
<1>4. a * d = m * b
  <2>1. a * d \in Int /\ m * b \in Int
    OBVIOUS
  <2> QED
    BY <1>3, <2>1, CancelLeft
<1> QED
  BY <1>1, <1>4 DEF Is

\* What a fraction made of a quotient is over another denominator.
LEMMA MadeOf ==
  ASSUME NEW n \in Int, NEW e \in Nat \ {0}, NEW m \in Int, NEW d \in Nat \ {0}, Is(<<n, e>>, m, d)
  PROVE  IsFraction(Fraction(n, e)) /\ Is(Fraction(n, e), m, d)
<1>1. IsFraction(Fraction(n, e)) /\ Is(Fraction(n, e), n, e)
  BY FractionIs
<1>2. Fraction(n, e) \in Quotients
  BY <1>1 DEF IsFraction, Quotients
<1> QED
  BY <1>1, <1>2, Rescaled

LEMMA PlusIs ==
  ASSUME NEW x \in Quotients, NEW y \in Quotients, NEW n \in Int, NEW m \in Int, NEW d \in Nat \ {0},
         Is(x, n, d), Is(y, m, d)
  PROVE  /\ IsFraction(Plus(x, y)) /\ Is(Plus(x, y), n + m, d)
         /\ IsFraction(Minus(x, y)) /\ Is(Minus(x, y), n - m, d)
<1>1. PICK a \in Int, b \in Nat \ {0} : x = <<a, b>>
  BY DEF Quotients
<1>2. PICK r \in Int, s \in Nat \ {0} : y = <<r, s>>
  BY DEF Quotients
<1>3. a * d = n * b /\ r * d = m * s
  BY <1>1, <1>2 DEF Is
<1>4. b * s \in Nat \ {0} /\ a * s \in Int /\ r * b \in Int
  OBVIOUS
<1>5. (a * s) * d = n * (b * s) /\ (r * b) * d = m * (b * s)
  <2>1. (a * s) * d = (a * d) * s /\ (n * b) * s = n * (b * s)
    OBVIOUS
  <2>2. (r * b) * d = (r * d) * b /\ (m * s) * b = m * (b * s)
    OBVIOUS
  <2> QED
    BY <1>3, <2>1, <2>2
<1>6. PICK i \in Int, j \in Int, e \in Nat \ {0} : i = a * s /\ j = r * b /\ e = b * s
  BY <1>4
<1>7. i * d = n * e /\ j * d = m * e
  BY <1>5, <1>6
<1>8. (i + j) * d = (n + m) * e /\ (i - j) * d = (n - m) * e
  BY <1>7
<1>9. Is(<<i + j, e>>, n + m, d) /\ Is(<<i - j, e>>, n - m, d)
  BY <1>8 DEF Is
<1>10. Plus(x, y) = Fraction(i + j, e) /\ Minus(x, y) = Fraction(i - j, e)
  BY <1>1, <1>2, <1>6 DEF Plus, Minus
<1>11. i + j \in Int /\ i - j \in Int /\ n + m \in Int /\ n - m \in Int
  OBVIOUS
<1> QED
  BY <1>9, <1>10, <1>11, MadeOf

\* A fraction times a whole number, and a fraction by one.
LEMMA TimesIs ==
  ASSUME NEW x \in Quotients, NEW n \in Int, NEW d \in Nat \ {0}, Is(x, n, d), NEW w \in Nat
  PROVE  /\ IsFraction(Times(x, <<w, 1>>)) /\ Is(Times(x, <<w, 1>>), n * w, d)
         /\ w # 0 => IsFraction(Over(x, <<w, 1>>)) /\ Is(Over(x, <<w, 1>>), n, d * w)
<1>1. PICK a \in Int, b \in Nat \ {0} : x = <<a, b>>
  BY DEF Quotients
<1>2. a * d = n * b
  BY <1>1 DEF Is
<1>3. (a * w) * d = (n * w) * b
  <2>1. (a * w) * d = (a * d) * w /\ (n * b) * w = (n * w) * b
    OBVIOUS
  <2> QED
    BY <1>2, <2>1
<1>4. Times(x, <<w, 1>>) = Fraction(a * w, b)
  BY <1>1 DEF Times
<1>5. Is(<<a * w, b>>, n * w, d) /\ a * w \in Int /\ n * w \in Int
  BY <1>3 DEF Is
<1>6. ASSUME w # 0 PROVE IsFraction(Over(x, <<w, 1>>)) /\ Is(Over(x, <<w, 1>>), n, d * w)
  <2>1. Over(x, <<w, 1>>) = Fraction(a, b * w)
    BY <1>1, <1>6 DEF Over
  <2>2. a * (d * w) = n * (b * w)
    <3>1. a * (d * w) = (a * d) * w /\ n * (b * w) = (n * b) * w
      OBVIOUS
    <3> QED
      BY <1>2, <3>1
  <2>3. Is(<<a, b * w>>, n, d * w)
    BY <2>2 DEF Is
  <2>4. d * w \in Nat \ {0} /\ b * w \in Nat \ {0}
    BY <1>6
  <2> QED
    BY <2>1, <2>3, <2>4, MadeOf
<1> QED
  BY <1>4, <1>5, <1>6, MadeOf

\* The quotient of two fractions over one denominator.
LEMMA OverIs ==
  ASSUME NEW x \in Quotients, NEW y \in Quotients, NEW n \in Int, NEW m \in Nat \ {0}, NEW d \in Nat \ {0},
         Is(x, n, d), Is(y, m, d)
  PROVE  IsFraction(Over(x, y)) /\ Is(Over(x, y), n, m)
<1>1. PICK a \in Int, b \in Nat \ {0} : x = <<a, b>>
  BY DEF Quotients
<1>2. PICK r \in Int, s \in Nat \ {0} : y = <<r, s>>
  BY DEF Quotients
<1>3. a * d = n * b /\ r * d = m * s
  BY <1>1, <1>2 DEF Is
<1>4. r \in Nat \ {0}
  <2>1. m * s > 0
    OBVIOUS
  <2>2. r <= 0 => r * d <= 0
    OBVIOUS
  <2>3. PICK k \in Int : k = m * s /\ k = r * d
    BY <1>3
  <2> QED
    BY <2>1, <2>2, <2>3
<1>5. (a * s) * m = n * (b * r)
  <2>1. d * ((a * s) * m) = (a * d) * (m * s)
    OBVIOUS
  <2>2. d * (n * (b * r)) = (n * b) * (r * d)
    OBVIOUS
  <2>3. d * ((a * s) * m) = d * (n * (b * r))
    BY <1>3, <2>1, <2>2
  <2>4. (a * s) * m \in Int /\ n * (b * r) \in Int
    OBVIOUS
  <2> QED
    BY <2>3, <2>4, CancelLeft
<1>6. Over(x, y) = Fraction(a * s, b * r)
  BY <1>1, <1>2, <1>4 DEF Over
<1>7. a * s \in Int /\ b * r \in Nat \ {0}
  BY <1>4
<1>8. Is(<<a * s, b * r>>, n, m)
  BY <1>5 DEF Is
<1> QED
  BY <1>6, <1>7, <1>8, MadeOf

LEMMA OverType ==
  ASSUME NEW x \in Quotients, NEW y \in Quotients, y[1] # 0
  PROVE  IsFraction(Over(x, y))
<1>1. PICK a \in Int, b \in Nat \ {0} : x = <<a, b>>
  BY DEF Quotients
<1>2. PICK r \in Int, s \in Nat \ {0} : y = <<r, s>>
  BY DEF Quotients
<1>3. r # 0
  BY <1>2
<1>4. CASE r > 0
  <2>1. Over(x, y) = Fraction(a * s, b * r)
    BY <1>1, <1>2, <1>4 DEF Over
  <2>2. a * s \in Int /\ b * r \in Nat \ {0}
    BY <1>4
  <2> QED
    BY <2>1, <2>2, FractionIs
<1>5. CASE ~(r > 0)
  <2>1. Over(x, y) = Fraction(0 - a * s, 0 - b * r)
    BY <1>1, <1>2, <1>5 DEF Over
  <2>2. 0 - a * s \in Int /\ 0 - b * r \in Nat \ {0}
    <3>1. b * r < 0 /\ b * r \in Int
      BY <1>3, <1>5
    <3> QED
      BY <3>1
  <2> QED
    BY <2>1, <2>2, FractionIs
<1> QED
  BY <1>4, <1>5

\* Finitely many fractions have a common denominator.
LEMMA CommonDenominator ==
  ASSUME NEW S, IsFiniteSet(S), \A x \in S : x \in Quotients
  PROVE  \E d \in Nat \ {0} : \A x \in S : \E n \in Int : Is(x, n, d)
<1> DEFINE Common(T) == \E d \in Nat \ {0} : \A x \in T : \E n \in Int : Is(x, n, d)
           bad == {T \in SUBSET S : ~Common(T)}
<1> SUFFICES ASSUME bad # {} PROVE FALSE
  OBVIOUS
<1>1. IsWellFoundedOn(StrictSubsetOrdering(S), SUBSET S)
  BY FS_StrictSubsetOrderingWellFounded, FS_FiniteSubsetsOfFinite
<1>2. PICK T \in bad : \A U \in bad : <<U, T>> \notin StrictSubsetOrdering(S)
  BY <1>1, WFMin
<1>3. T # {}
  <2>1. 1 \in Nat \ {0}
    OBVIOUS
  <2> QED
    BY <2>1
<1>4. PICK x \in T : TRUE
  BY <1>3
<1>5. Common(T \ {x})
  <2>1. <<T \ {x}, T>> \in StrictSubsetOrdering(S)
    BY <1>4 DEF StrictSubsetOrdering
  <2>2. T \ {x} \in SUBSET S
    OBVIOUS
  <2> HIDE DEF Common
  <2> QED
    BY <1>2, <2>1, <2>2
<1>6. PICK d \in Nat \ {0} : \A y \in T \ {x} : \E n \in Int : Is(y, n, d)
  BY <1>5
<1>7. PICK a \in Int, b \in Nat \ {0} : x = <<a, b>>
  BY DEF Quotients
<1>8. d * b \in Nat \ {0}
  OBVIOUS
<1>9. ASSUME NEW y \in T \ {x} PROVE \E n \in Int : Is(y, n, d * b)
  <2>1. PICK n \in Int : Is(y, n, d)
    BY <1>6
  <2>2. PICK r \in Int, s \in Nat \ {0} : y = <<r, s>>
    BY DEF Quotients
  <2>3. r * (d * b) = (n * b) * s
    <3>1. r * d = n * s
      BY <2>1, <2>2 DEF Is
    <3>2. r * (d * b) = (r * d) * b /\ (n * s) * b = (n * b) * s
      OBVIOUS
    <3> QED
      BY <3>1, <3>2
  <2>4. Is(y, n * b, d * b) /\ n * b \in Int
    BY <2>2, <2>3 DEF Is
  <2> QED
    BY <2>4
<1>10. Is(x, a * d, d * b) /\ a * d \in Int
  <2>1. a * (d * b) = (a * d) * b
    OBVIOUS
  <2> QED
    BY <1>7, <2>1 DEF Is
<1>11. \A y \in T : \E n \in Int : Is(y, n, d * b)
  BY <1>9, <1>10
<1>12. Common(T)
  BY <1>8, <1>11
<1> HIDE DEF Common
<1> QED
  BY <1>12

\* Fractions are ordered.
LEMMA Order ==
  ASSUME NEW x \in Quotients, NEW y \in Quotients, NEW z \in Quotients
  PROVE  /\ AtMost(x, x) /\ (AtMost(x, y) \/ AtMost(y, x))
         /\ AtMost(x, y) /\ AtMost(y, z) => AtMost(x, z)
         /\ Below(x, y) <=> ~AtMost(y, x)
         /\ IsFraction(x) /\ IsFraction(y) /\ AtMost(x, y) /\ AtMost(y, x) => x = y
<1>1. IsFiniteSet({x, y, z})
  <2>1. IsFiniteSet({x})
    BY FS_Singleton
  <2>2. IsFiniteSet({x} \cup {y})
    BY <2>1, FS_AddElement
  <2>3. IsFiniteSet(({x} \cup {y}) \cup {z})
    BY <2>2, FS_AddElement
  <2>4. {x, y, z} = ({x} \cup {y}) \cup {z}
    OBVIOUS
  <2> QED
    BY <2>3, <2>4
<1>2. PICK d \in Nat \ {0} : \A q \in {x, y, z} : \E n \in Int : Is(q, n, d)
  BY <1>1, CommonDenominator
<1>3. PICK n \in Int, m \in Int, l \in Int : Is(x, n, d) /\ Is(y, m, d) /\ Is(z, l, d)
  BY <1>2
<1>4. (AtMost(x, y) <=> n <= m) /\ (AtMost(y, x) <=> m <= n) /\ (Below(x, y) <=> n < m)
  BY <1>3, Compared
<1>5. (AtMost(y, z) <=> m <= l) /\ (AtMost(x, z) <=> n <= l) /\ (AtMost(x, x) <=> n <= n)
  BY <1>3, Compared
<1>6. IsFraction(x) /\ IsFraction(y) /\ n = m => x = y
  BY <1>3, SameFraction
<1> QED
  BY <1>4, <1>5, <1>6

LEMMA SubsetsAreWellFounded ==
  ASSUME NEW S, IsFiniteSet(S)
  PROVE  IsWellFoundedOn(StrictSubsetOrdering(S), SUBSET S)
  BY FS_StrictSubsetOrderingWellFounded, FS_FiniteSubsetsOfFinite

\* A finite set that a total order orders has a first element.
LEMMA First ==
  ASSUME NEW S, IsFiniteSet(S), S # {}, NEW R,
         \A x, y \in S : <<x, y>> \in R \/ <<y, x>> \in R,
         \A x, y, z \in S : <<x, y>> \in R /\ <<y, z>> \in R => <<x, z>> \in R
  PROVE  \E x \in S : \A y \in S : <<x, y>> \in R
<1> DEFINE HasFirst(T) == \E x \in T : \A y \in T : <<x, y>> \in R
           bad == {T \in SUBSET S : T # {} /\ ~HasFirst(T)}
<1> SUFFICES ASSUME bad # {} PROVE FALSE
  OBVIOUS
<1>1. IsWellFoundedOn(StrictSubsetOrdering(S), SUBSET S)
  BY SubsetsAreWellFounded
<1>2. PICK T \in bad : \A U \in bad : <<U, T>> \notin StrictSubsetOrdering(S)
  <2> HIDE DEF bad
  <2>1. bad \subseteq SUBSET S
    BY DEF bad
  <2> QED
    BY <1>1, <2>1, WFMin
<1>3. PICK x \in T : TRUE
  OBVIOUS
<1>4. CASE T = {x}
  <2>1. <<x, x>> \in R
    BY <1>3
  <2> QED
    BY <1>4, <2>1
<1>5. CASE T # {x}
  <2>1. HasFirst(T \ {x})
    <3>1. <<T \ {x}, T>> \in StrictSubsetOrdering(S)
      BY <1>3 DEF StrictSubsetOrdering
    <3>2. T \ {x} \in SUBSET S /\ T \ {x} # {}
      BY <1>3, <1>5
    <3> HIDE DEF HasFirst
    <3> QED
      BY <1>2, <3>1, <3>2
  <2>2. PICK m \in T \ {x} : \A y \in T \ {x} : <<m, y>> \in R
    BY <2>1
  <2>3. <<x, x>> \in R /\ (<<x, m>> \in R \/ <<m, x>> \in R)
    BY <1>3
  <2>4. HasFirst(T)
    <3>1. CASE <<m, x>> \in R
      BY <2>2, <3>1
    <3>2. CASE <<x, m>> \in R
      <4>1. \A y \in T : <<x, y>> \in R
        BY <1>3, <2>2, <2>3, <3>2
      <4> QED
        BY <1>3, <4>1
    <3> QED
      BY <2>3, <3>1, <3>2
  <2> HIDE DEF HasFirst
  <2> QED
    BY <2>4
<1> QED
  BY <1>4, <1>5

LEMMA Extremes ==
  ASSUME NEW S, IsFiniteSet(S), S # {}, \A x \in S : x \in Quotients
  PROVE  /\ Least(S) \in S /\ \A y \in S : AtMost(Least(S), y)
         /\ Greatest(S) \in S /\ \A y \in S : AtMost(y, Greatest(S))
<1>1. \E x \in S : \A y \in S : AtMost(x, y)
  <2> DEFINE R == {p \in S \X S : AtMost(p[1], p[2])}
  <2>1. \A x, y \in S : <<x, y>> \in R <=> AtMost(x, y)
    OBVIOUS
  <2> HIDE DEF R
  <2>2. \A x, y \in S : <<x, y>> \in R \/ <<y, x>> \in R
    BY <2>1, Order
  <2>3. \A x, y, z \in S : <<x, y>> \in R /\ <<y, z>> \in R => <<x, z>> \in R
    BY <2>1, Order
  <2>4. \E x \in S : \A y \in S : <<x, y>> \in R
    BY <2>2, <2>3, First
  <2> QED
    BY <2>1, <2>4
<1>2. \E x \in S : \A y \in S : AtMost(y, x)
  <2> DEFINE R == {p \in S \X S : AtMost(p[2], p[1])}
  <2>1. \A x, y \in S : <<x, y>> \in R <=> AtMost(y, x)
    OBVIOUS
  <2> HIDE DEF R
  <2>2. \A x, y \in S : <<x, y>> \in R \/ <<y, x>> \in R
    BY <2>1, Order
  <2>3. \A x, y, z \in S : <<x, y>> \in R /\ <<y, z>> \in R => <<x, z>> \in R
    BY <2>1, Order
  <2>4. \E x \in S : \A y \in S : <<x, y>> \in R
    BY <2>2, <2>3, First
  <2> QED
    BY <2>1, <2>4
<1>3. Least(S) \in S /\ \A y \in S : AtMost(Least(S), y)
  BY <1>1 DEF Least
<1>4. Greatest(S) \in S /\ \A y \in S : AtMost(y, Greatest(S))
  BY <1>2 DEF Greatest
<1> QED
  BY <1>3, <1>4

\* A whole number is a fraction.
LEMMA Whole ==
  ASSUME NEW w \in Int
  PROVE  IsFraction(<<w, 1>>) /\ Is(<<w, 1>>, w, 1)
<1>1. PICK g \in Nat \ {0}, x \in Int, y \in Nat \ {0} : Parts(w, 1, g, x, y)
  <2>1. 1 \in Nat \ {0}
    OBVIOUS
  <2> QED
    BY <2>1, FractionParts
<1>2. 1 = g * y /\ w = g * x /\ Fraction(w, 1) = <<x, y>>
  BY <1>1 DEF Parts
<1>3. g = 1 /\ y = 1
  <2>1. y <= g * y /\ g <= g * y
    OBVIOUS
  <2> QED
    BY <1>2, <2>1
<1>4. x = w
  BY <1>2, <1>3
<1> QED
  BY <1>2, <1>3, <1>4 DEF IsFraction, Is, Quotients

-----------------------------------------------------------------------------
(* What the leaderboard is made of *)

\* A metric was not measured, or is a fraction that is not negative.
Value(x) == x = None \/ (IsFraction(x) /\ x[1] >= 0)

LEMMA NoneIsNoFraction == ~IsFraction(None)
  BY LeaderboardAssumption DEF IsFraction, Quotients

LEMMA Constants ==
  /\ IsFraction(Zero) /\ Zero \in Quotients
  /\ IsFraction(One) /\ One \in Quotients
  /\ \A d \in Nat \ {0} : Is(Zero, 0, d) /\ Is(One, d, d)
<1>1. IsFraction(<<0, 1>>) /\ IsFraction(<<1, 1>>)
  BY Whole
<1> QED
  BY <1>1 DEF Zero, One, IsFraction, Quotients, Is

\* A fraction made of natural numbers is a value.
LEMMA ValueOf ==
  ASSUME NEW n \in Nat, NEW d \in Nat \ {0}
  PROVE  Value(Fraction(n, d))
<1>1. PICK x \in Int, y \in Nat \ {0} : Fraction(n, d) = <<x, y>> /\ Is(<<x, y>>, n, d) /\ IsFraction(<<x, y>>)
  <2>1. IsFraction(Fraction(n, d)) /\ Is(Fraction(n, d), n, d)
    BY FractionIs
  <2>2. PICK x \in Int, y \in Nat \ {0} : Fraction(n, d) = <<x, y>>
    <3>1. Fraction(n, d) \in Int \X (Nat \ {0})
      BY <2>1 DEF IsFraction
    <3> HIDE <2>1
    <3> QED
      BY <3>1
  <2>3. IsFraction(<<x, y>>) /\ Is(<<x, y>>, n, d)
    BY <2>1, <2>2
  <2> QED
    BY <2>2, <2>3
<1>2. x * d = n * y
  BY <1>1 DEF Is
<1>3. n * y >= 0 /\ (x < 0 => x * d < 0)
  OBVIOUS
<1>4. x >= 0
  BY <1>2, <1>3
<1> QED
  BY <1>1, <1>4 DEF Value

-----------------------------------------------------------------------------
(* The aggregates are values *)

LEMMA FiniteRows == ASSUME NEW S \in SUBSET Rows PROVE IsFiniteSet(S)
  BY LeaderboardAssumption, FS_Subset

LEMMA NumberIs ==
  ASSUME NEW bag \in [Rows -> Nat], NEW S \in SUBSET Rows
  PROVE  /\ Number(bag, S) \in Nat
         /\ \A r \in S : Number(bag, S) = bag[r] + Number(bag, S \ {r})
<1>1. IsFiniteSet(S) /\ \A r \in S : bag[r] \in Nat
  BY FiniteRows
<1> QED
  BY <1>1, SumType, SumSplit DEF Number

\* Some rows that occur are at least one row.
LEMMA NumberPositive ==
  ASSUME NEW bag \in [Rows -> Nat], NEW S \in SUBSET Rows, NEW r \in S, bag[r] > 0
  PROVE  Number(bag, S) \in Nat \ {0}
<1>1. Number(bag, S) = bag[r] + Number(bag, S \ {r}) /\ S \ {r} \in SUBSET Rows
  BY NumberIs
<1>2. Number(bag, S \ {r}) \in Nat /\ bag[r] \in Nat
  BY <1>1, NumberIs
<1> QED
  BY <1>1, <1>2

LEMMA MeanIsValue ==
  ASSUME NEW bag \in [Rows -> Nat], NEW S \in SUBSET Rows, NEW field,
         \A r \in S : bag[r] > 0 /\ r[field] \in Nat
  PROVE  Value(MeanOf(bag, S, field))
<1>1. CASE S = {}
  BY <1>1 DEF MeanOf, Value
<1>2. CASE S # {}
  <2>1. PICK r \in S : TRUE
    BY <1>2
  <2>2. Number(bag, S) \in Nat \ {0}
    BY <2>1, NumberPositive
  <2> DEFINE f == [q \in S |-> bag[q] * q[field]]
  <2>3. \A q \in S : f[q] \in Nat
    OBVIOUS
  <2> HIDE DEF f
  <2>4. SumFunctionOnSet(f, S) \in Nat
    BY <2>3, FiniteRows, SumType
  <2>5. MeanOf(bag, S, field) = Fraction(SumFunctionOnSet(f, S), Number(bag, S))
    BY <1>2 DEF MeanOf, f
  <2> QED
    BY <2>2, <2>4, <2>5, ValueOf
<1> QED
  BY <1>1, <1>2

LEMMA AccuracyIsValue ==
  ASSUME NEW bag \in [Rows -> Nat]
  PROVE  Value(Accuracy(bag))
<1> DEFINE graded == {r \in Completed(bag) : r.score # None}
           f == [r \in graded |-> bag[r] * r.weight]
           g == [r \in graded |-> bag[r] * r.weight * r.score]
           weight == SumFunctionOnSet(f, graded)
<1>1. graded \in SUBSET Rows
  BY DEF Completed
<1>2. \A r \in graded : r.weight \in Nat /\ r.score \in Nat /\ bag[r] \in Nat
  <2>1. \A r \in graded : r \in Rows /\ r.score # None
    BY DEF Completed
  <2> HIDE DEF graded
  <2> QED
    BY <2>1, LeaderboardAssumption
<1>3. Accuracy(bag) = IF weight = 0 THEN None ELSE Fraction(SumFunctionOnSet(g, graded), weight * Full)
  BY DEF Accuracy
<1> HIDE DEF graded
<1>4. \A r \in graded : f[r] \in Nat /\ g[r] \in Nat
  BY <1>2
<1> HIDE DEF f, g
<1>5. weight \in Nat /\ SumFunctionOnSet(g, graded) \in Nat
  BY <1>1, <1>4, FiniteRows, SumType
<1>6. weight # 0 => weight * Full \in Nat \ {0}
  <2>1. Full \in Nat \ {0}
    BY LeaderboardAssumption
  <2> HIDE DEF weight
  <2> QED
    BY <1>5, <2>1
<1> HIDE DEF weight
<1> QED
  BY <1>3, <1>5, <1>6, ValueOf DEF Value

LEMMA ReliabilityIsValue ==
  ASSUME NEW bag \in [Rows -> Nat]
  PROVE  Value(Reliability(bag))
<1>1. Attempted(bag) \in Nat /\ Number(bag, Completed(bag)) \in Nat
  BY NumberIs DEF Attempted, Completed
<1> QED
  BY <1>1, ValueOf DEF Reliability, Value

\* Of finitely many rows one is the slowest, and one the quickest.
LEMMA Slowest ==
  ASSUME NEW S \in SUBSET Rows, S # {}, \A r \in S : r.latency \in Nat
  PROVE  /\ \E q \in S : \A r \in S : r.latency <= q.latency
         /\ \E q \in S : \A r \in S : q.latency <= r.latency
<1>1. \E q \in S : \A r \in S : r.latency <= q.latency
  <2> DEFINE R == {p \in S \X S : p[2].latency <= p[1].latency}
  <2>1. \A x, y \in S : <<x, y>> \in R <=> y.latency <= x.latency
    OBVIOUS
  <2> HIDE DEF R
  <2>2. \A x, y \in S : <<x, y>> \in R \/ <<y, x>> \in R
    <3> TAKE x, y \in S
    <3>1. PICK a \in Nat, b \in Nat : a = x.latency /\ b = y.latency
      OBVIOUS
    <3> QED
      BY <2>1, <3>1
  <2>3. \A x, y, z \in S : <<x, y>> \in R /\ <<y, z>> \in R => <<x, z>> \in R
    <3> TAKE x, y, z \in S
    <3>1. PICK a \in Nat, b \in Nat, e \in Nat : a = x.latency /\ b = y.latency /\ e = z.latency
      OBVIOUS
    <3> QED
      BY <2>1, <3>1
  <2>4. \E x \in S : \A y \in S : <<x, y>> \in R
    BY <2>2, <2>3, FiniteRows, First
  <2> QED
    BY <2>1, <2>4
<1>2. \E q \in S : \A r \in S : q.latency <= r.latency
  <2> DEFINE R == {p \in S \X S : p[1].latency <= p[2].latency}
  <2>1. \A x, y \in S : <<x, y>> \in R <=> x.latency <= y.latency
    OBVIOUS
  <2> HIDE DEF R
  <2>2. \A x, y \in S : <<x, y>> \in R \/ <<y, x>> \in R
    <3> TAKE x, y \in S
    <3>1. PICK a \in Nat, b \in Nat : a = x.latency /\ b = y.latency
      OBVIOUS
    <3> QED
      BY <2>1, <3>1
  <2>3. \A x, y, z \in S : <<x, y>> \in R /\ <<y, z>> \in R => <<x, z>> \in R
    <3> TAKE x, y, z \in S
    <3>1. PICK a \in Nat, b \in Nat, e \in Nat : a = x.latency /\ b = y.latency /\ e = z.latency
      OBVIOUS
    <3> QED
      BY <2>1, <3>1
  <2>4. \E x \in S : \A y \in S : <<x, y>> \in R
    BY <2>2, <2>3, FiniteRows, First
  <2> QED
    BY <2>1, <2>4
<1> QED
  BY <1>1, <1>2

LEMMA TimedRows ==
  ASSUME NEW bag \in [Rows -> Nat]
  PROVE  /\ Timed(bag) \in SUBSET Rows
         /\ \A r \in Timed(bag) : r.latency \in Nat /\ bag[r] > 0
<1>1. \A r \in Timed(bag) : r \in Rows /\ r.latency # None /\ bag[r] > 0
  BY DEF Timed, Completed
<1> QED
  BY <1>1, LeaderboardAssumption

\* There is a k-th latency for every k below their number.
LEMMA OrderedType ==
  ASSUME NEW bag \in [Rows -> Nat], NEW k \in Nat, k < Number(bag, Timed(bag)), Timed(bag) # {}
  PROVE  Ordered(bag, k) \in Nat
<1> DEFINE late == {q \in Timed(bag) : Number(bag, {s \in Timed(bag) : s.latency <= q.latency}) > k}
<1>1. PICK q \in Timed(bag) : \A r \in Timed(bag) : r.latency <= q.latency
  BY TimedRows, Slowest
<1>2. {s \in Timed(bag) : s.latency <= q.latency} = Timed(bag)
  BY <1>1
<1>3. q \in late
  <2>1. Number(bag, Timed(bag)) \in Nat
    BY TimedRows, NumberIs
  <2> QED
    BY <1>2, <2>1
<1>4. late \in SUBSET Rows /\ late # {} /\ \A r \in late : r.latency \in Nat
  BY <1>3, TimedRows
<1>5. Ordered(bag, k) = Min({r.latency : r \in late})
  BY DEF Ordered
<1> HIDE DEF late
<1>6. PICK first \in late : \A r \in late : first.latency <= r.latency
  BY <1>4, Slowest
<1>7. \E x \in {r.latency : r \in late} : \A y \in {r.latency : r \in late} : x <= y
  BY <1>6
<1>8. Min({r.latency : r \in late}) \in {r.latency : r \in late}
  BY <1>7 DEF Min
<1> QED
  BY <1>4, <1>5, <1>8

LEMMA PercentileIsValue ==
  ASSUME NEW bag \in [Rows -> Nat]
  PROVE  Value(Percentile95(bag))
<1>1. CASE Timed(bag) = {}
  BY <1>1 DEF Percentile95, Value
<1>2. CASE Timed(bag) # {}
  <2>1. PICK n \in Nat \ {0} : n = Number(bag, Timed(bag))
    <3>1. PICK r \in Timed(bag) : TRUE
      BY <1>2
    <3>2. Number(bag, Timed(bag)) \in Nat \ {0}
      BY <3>1, TimedRows, NumberPositive
    <3> QED
      BY <3>2
  <2>2. PICK position \in Nat : position = (n - 1) * 95
    OBVIOUS
  <2>3. PICK lower \in Nat, upper \in Nat, part \in Nat :
          /\ lower = position \div 100 /\ upper = (position + 99) \div 100 /\ part = (position % 100)
          /\ lower < n /\ upper < n /\ part < 100
    BY <2>2
  <2>4. PICK low \in Nat, high \in Nat : low = Ordered(bag, lower) /\ high = Ordered(bag, upper)
    BY <1>2, <2>1, <2>3, OrderedType
  <2>5. Percentile95(bag) = Fraction(100 * low + (high - low) * part, 100)
    BY <1>2, <2>1, <2>2, <2>3, <2>4 DEF Percentile95
  <2>6. 100 * low + (high - low) * part \in Nat
    <3>1. (high - low) * part = high * part - low * part
      OBVIOUS
    <3>2. low * part <= low * 100 /\ high * part >= 0
      BY <2>3
    <3>3. high * part \in Int /\ low * part \in Int
      OBVIOUS
    <3> QED
      BY <3>1, <3>2, <3>3
  <2> QED
    BY <2>5, <2>6, ValueOf
<1> QED
  BY <1>1, <1>2

LEMMA AggregateType ==
  ASSUME NEW bag \in [Rows -> Nat], NEW name \in Metric
  PROVE  Value(Aggregate(bag)[name])
<1>1. Value(Cost(bag))
  <2>1. CASE \E r \in Completed(bag) : r.cost = None
    BY <2>1 DEF Cost, Value
  <2>2. CASE ~ \E r \in Completed(bag) : r.cost = None
    <3>1. Completed(bag) \in SUBSET Rows /\ \A r \in Completed(bag) : bag[r] > 0
      BY DEF Completed
    <3>2. \A r \in Completed(bag) : r["cost"] \in Nat
      BY <2>2, <3>1, LeaderboardAssumption
    <3>3. Value(MeanOf(bag, Completed(bag), "cost"))
      BY <3>1, <3>2, MeanIsValue
    <3> QED
      BY <2>2, <3>3 DEF Cost
  <2> QED
    BY <2>1, <2>2
<1>2. Value(MeanOf(bag, Timed(bag), "latency"))
  <2>1. Timed(bag) \in SUBSET Rows /\ \A r \in Timed(bag) : bag[r] > 0 /\ r["latency"] \in Nat
    BY TimedRows
  <2> QED
    BY <2>1, MeanIsValue
<1>3. name \in {"accuracy", "reliability", "cost", "latency", "latency_p95"}
  BY DEF Metric
<1> QED
  BY <1>1, <1>2, <1>3, AccuracyIsValue, ReliabilityIsValue, PercentileIsValue DEF Aggregate

-----------------------------------------------------------------------------
(* Normalisation *)

\* A share of 1.
Share(x) == IsFraction(x) /\ AtMost(Zero, x) /\ AtMost(x, One)

LEMMA FractionIsQuotient == ASSUME NEW x, IsFraction(x) PROVE x \in Quotients
  BY DEF IsFraction, Quotients

LEMMA ZeroBelowOne == AtMost(Zero, One) /\ ~AtMost(One, Zero)
  BY DEF AtMost, Zero, One

LEMMA ClampIs ==
  ASSUME NEW x, IsFraction(x)
  PROVE  Share(Clamp(x))
<1>1. x \in Quotients /\ Zero \in Quotients /\ One \in Quotients
  BY FractionIsQuotient, Constants
<1>2. Below(x, Zero) <=> ~AtMost(Zero, x)
  BY <1>1, Order
<1>3. Below(One, x) <=> ~AtMost(x, One)
  BY <1>1, Order
<1>4. AtMost(Zero, Zero) /\ AtMost(One, One)
  BY <1>1, Order
<1> QED
  BY <1>2, <1>3, <1>4, Constants, ZeroBelowOne DEF Clamp, Share

LEMMA ClampMonotone ==
  ASSUME NEW x, IsFraction(x), NEW y, IsFraction(y), AtMost(x, y)
  PROVE  AtMost(Clamp(x), Clamp(y))
<1>1. x \in Quotients /\ y \in Quotients /\ Zero \in Quotients /\ One \in Quotients
  BY FractionIsQuotient, Constants
<1>2. /\ Below(x, Zero) <=> ~AtMost(Zero, x)
      /\ Below(y, Zero) <=> ~AtMost(Zero, y)
      /\ Below(One, x) <=> ~AtMost(x, One)
      /\ Below(One, y) <=> ~AtMost(y, One)
  BY <1>1, Order
<1>3. AtMost(Zero, x) => AtMost(Zero, y)
  BY <1>1, Order
<1>4. AtMost(y, One) => AtMost(x, One)
  BY <1>1, Order
<1>5. AtMost(One, One) /\ Share(Clamp(y))
  BY <1>1, Order, ClampIs
<1>6. CASE Below(x, Zero)
  BY <1>5, <1>6 DEF Clamp, Share
<1>7. CASE ~Below(x, Zero) /\ Below(One, x)
  <2>1. Clamp(x) = One /\ Clamp(y) = One
    BY <1>2, <1>3, <1>4, <1>7 DEF Clamp
  <2> QED
    BY <1>5, <2>1
<1>8. CASE ~Below(x, Zero) /\ ~Below(One, x)
  <2>1. Clamp(x) = x /\ (Clamp(y) = One \/ Clamp(y) = y)
    BY <1>2, <1>3, <1>8 DEF Clamp
  <2> QED
    BY <1>2, <1>8, <2>1
<1> QED
  BY <1>6, <1>7, <1>8

\* Nothing below zero counts, and nothing above one.
LEMMA ClampEnds ==
  ASSUME NEW x, IsFraction(x)
  PROVE  /\ AtMost(x, Zero) => Clamp(x) = Zero
         /\ AtMost(One, x) => Clamp(x) = One
<1>1. x \in Quotients /\ Zero \in Quotients /\ One \in Quotients
  BY FractionIsQuotient, Constants
<1>2. Below(x, Zero) <=> ~AtMost(Zero, x)
  BY <1>1, Order
<1>3. Below(One, x) <=> ~AtMost(x, One)
  BY <1>1, Order
<1>4. AtMost(x, Zero) /\ AtMost(Zero, x) => x = Zero
  BY <1>1, Order, Constants
<1>5. AtMost(One, x) /\ AtMost(x, One) => x = One
  BY <1>1, Order, Constants
<1>6. AtMost(x, Zero) => AtMost(x, One)
  BY <1>1, Order, ZeroBelowOne
<1>7. AtMost(One, x) => AtMost(Zero, x)
  BY <1>1, Order, ZeroBelowOne
<1> QED
  BY <1>2, <1>3, <1>4, <1>5, <1>6, <1>7 DEF Clamp

\* Four fractions over one denominator.
LEMMA FourOverOne ==
  ASSUME NEW x, IsFraction(x), NEW y, IsFraction(y), NEW z, IsFraction(z), NEW w, IsFraction(w)
  PROVE  \E d \in Nat \ {0}, i, j, k, l \in Int : Is(x, i, d) /\ Is(y, j, d) /\ Is(z, k, d) /\ Is(w, l, d)
<1> DEFINE S == (({x} \cup {y}) \cup {z}) \cup {w}
<1>1. IsFiniteSet(S)
  <2>1. IsFiniteSet({x})
    BY FS_Singleton
  <2>2. IsFiniteSet({x} \cup {y})
    BY <2>1, FS_AddElement
  <2>3. IsFiniteSet(({x} \cup {y}) \cup {z})
    BY <2>2, FS_AddElement
  <2> QED
    BY <2>3, FS_AddElement
<1>2. \A q \in S : q \in Quotients
  BY FractionIsQuotient
<1>3. x \in S /\ y \in S /\ z \in S /\ w \in S
  OBVIOUS
<1> HIDE DEF S
<1>4. PICK d \in Nat \ {0} : \A q \in S : \E n \in Int : Is(q, n, d)
  BY <1>1, <1>2, CommonDenominator
<1> QED
  BY <1>3, <1>4

\* On a scale from low to high, what is more stands higher, from its lower end
\* and lower, from its upper one.
LEMMA OnScale ==
  ASSUME NEW x, IsFraction(x), NEW y, IsFraction(y), AtMost(x, y),
         NEW low, IsFraction(low), NEW high, IsFraction(high), ~AtMost(high, low)
  PROVE  /\ IsFraction(Over(Minus(x, low), Minus(high, low)))
         /\ IsFraction(Over(Minus(high, x), Minus(high, low)))
         /\ AtMost(Over(Minus(x, low), Minus(high, low)), Over(Minus(y, low), Minus(high, low)))
         /\ AtMost(Over(Minus(high, y), Minus(high, low)), Over(Minus(high, x), Minus(high, low)))
<1>1. PICK d \in Nat \ {0}, i \in Int, j \in Int, k \in Int, l \in Int :
         Is(x, i, d) /\ Is(y, j, d) /\ Is(low, k, d) /\ Is(high, l, d)
  BY FourOverOne
<1>2. x \in Quotients /\ y \in Quotients /\ low \in Quotients /\ high \in Quotients
  BY FractionIsQuotient
<1>3. i <= j
  BY <1>1, <1>2, Compared
<1>4. k < l
  <2>1. ~(l <= k)
    BY <1>1, <1>2, Compared
  <2> QED
    BY <2>1
<1>5. PICK m \in Nat \ {0} : m = l - k
  BY <1>4
<1>6. IsFraction(Minus(high, low)) /\ Is(Minus(high, low), m, d)
  BY <1>1, <1>2, <1>5, PlusIs
<1>7. PICK xl \in Int, yl \in Int, hx \in Int, hy \in Int :
         xl = i - k /\ yl = j - k /\ hx = l - i /\ hy = l - j /\ xl <= yl /\ hy <= hx
  BY <1>3
<1>8. /\ IsFraction(Minus(x, low)) /\ Is(Minus(x, low), xl, d)
      /\ IsFraction(Minus(y, low)) /\ Is(Minus(y, low), yl, d)
      /\ IsFraction(Minus(high, x)) /\ Is(Minus(high, x), hx, d)
      /\ IsFraction(Minus(high, y)) /\ Is(Minus(high, y), hy, d)
  BY <1>1, <1>2, <1>7, PlusIs
<1> DEFINE span == Minus(high, low)
<1>9. /\ span \in Quotients /\ Minus(x, low) \in Quotients /\ Minus(y, low) \in Quotients
      /\ Minus(high, x) \in Quotients /\ Minus(high, y) \in Quotients
  BY <1>6, <1>8, FractionIsQuotient
<1>10. /\ IsFraction(Over(Minus(x, low), span)) /\ Is(Over(Minus(x, low), span), xl, m)
       /\ IsFraction(Over(Minus(y, low), span)) /\ Is(Over(Minus(y, low), span), yl, m)
       /\ IsFraction(Over(Minus(high, x), span)) /\ Is(Over(Minus(high, x), span), hx, m)
       /\ IsFraction(Over(Minus(high, y), span)) /\ Is(Over(Minus(high, y), span), hy, m)
  BY <1>6, <1>8, <1>9, OverIs
<1>11. /\ Over(Minus(x, low), span) \in Quotients /\ Over(Minus(y, low), span) \in Quotients
       /\ Over(Minus(high, x), span) \in Quotients /\ Over(Minus(high, y), span) \in Quotients
  BY <1>10, FractionIsQuotient
<1> QED
  BY <1>7, <1>10, <1>11, Compared

\* As a part of a positive target, what is more is more.
LEMMA OnTarget ==
  ASSUME NEW x, IsFraction(x), NEW y, IsFraction(y), AtMost(x, y),
         NEW target, IsFraction(target), target[1] > 0
  PROVE  /\ AtMost(Over(x, target), Over(y, target))
         /\ AtMost(Minus(One, Over(y, target)), Minus(One, Over(x, target)))
<1>1. PICK d \in Nat \ {0}, i \in Int, j \in Int, k \in Int :
         Is(x, i, d) /\ Is(y, j, d) /\ Is(target, k, d)
  BY FourOverOne
<1>2. x \in Quotients /\ y \in Quotients /\ target \in Quotients
  BY FractionIsQuotient
<1>3. i <= j
  BY <1>1, <1>2, Compared
<1>4. k \in Nat \ {0}
  <2>1. PICK a \in Nat \ {0}, b \in Nat \ {0} : target = <<a, b>>
    BY <1>2 DEF Quotients
  <2>2. a * d = k * b
    BY <1>1, <2>1 DEF Is
  <2>3. a * d > 0 /\ (k <= 0 => k * b <= 0)
    OBVIOUS
  <2> QED
    BY <2>2, <2>3
<1>5. /\ IsFraction(Over(x, target)) /\ Is(Over(x, target), i, k)
      /\ IsFraction(Over(y, target)) /\ Is(Over(y, target), j, k)
  BY <1>1, <1>2, <1>4, OverIs
<1>6. Over(x, target) \in Quotients /\ Over(y, target) \in Quotients
  BY <1>5, FractionIsQuotient
<1>7. One \in Quotients /\ Is(One, k, k)
  BY <1>4, Constants
<1>8. PICK u \in Int, v \in Int : u = k - i /\ v = k - j /\ v <= u
  BY <1>3, <1>4
<1>9. /\ IsFraction(Minus(One, Over(x, target))) /\ Is(Minus(One, Over(x, target)), u, k)
      /\ IsFraction(Minus(One, Over(y, target))) /\ Is(Minus(One, Over(y, target)), v, k)
  BY <1>4, <1>5, <1>6, <1>7, <1>8, PlusIs
<1>10. Minus(One, Over(x, target)) \in Quotients /\ Minus(One, Over(y, target)) \in Quotients
  BY <1>9, FractionIsQuotient
<1> QED
  BY <1>3, <1>4, <1>5, <1>6, <1>8, <1>9, <1>10, Compared

\* As a part of a negative target, nothing is more than nothing.
LEMMA OffTarget ==
  ASSUME NEW x, IsFraction(x), x[1] >= 0, NEW target, IsFraction(target), target[1] < 0
  PROVE  Clamp(Over(x, target)) = Zero /\ Clamp(Minus(One, Over(x, target))) = One
<1>1. x \in Quotients /\ target \in Quotients
  BY FractionIsQuotient
<1>2. PICK a \in Nat, b \in Nat \ {0} : x = <<a, b>>
  BY <1>1 DEF Quotients
<1>3. PICK r \in Int, s \in Nat \ {0} : target = <<r, s>> /\ r < 0
  BY <1>1 DEF Quotients
<1>4. PICK n \in Int, d \in Nat \ {0}, m \in Int : n = 0 - a * s /\ d = 0 - b * r /\ n <= 0 /\ m = d - n /\ d <= m
  <2>1. a * s \in Nat /\ b * r \in Int /\ b * r < 0
    BY <1>3
  <2> QED
    BY <2>1
<1>5. Over(x, target) = Fraction(n, d)
  BY <1>2, <1>3, <1>4 DEF Over
<1>6. IsFraction(Over(x, target)) /\ Is(Over(x, target), n, d)
  BY <1>5, FractionIs
<1>7. Over(x, target) \in Quotients /\ Zero \in Quotients /\ One \in Quotients
  BY <1>6, FractionIsQuotient, Constants
<1>8. Is(Zero, 0, d) /\ Is(One, d, d)
  BY Constants
<1>9. AtMost(Over(x, target), Zero)
  BY <1>4, <1>6, <1>7, <1>8, Compared
<1>10. IsFraction(Minus(One, Over(x, target))) /\ Is(Minus(One, Over(x, target)), m, d)
  BY <1>4, <1>6, <1>7, <1>8, PlusIs
<1>11. Minus(One, Over(x, target)) \in Quotients
  BY <1>10, FractionIsQuotient
<1>12. AtMost(One, Minus(One, Over(x, target)))
  BY <1>4, <1>7, <1>8, <1>10, <1>11, Compared
<1> QED
  BY <1>6, <1>9, <1>10, <1>12, ClampEnds

\* The values of a metric among the models in the ranking.
IsField(S) == IsFiniteSet(S) /\ S # {} /\ \A x \in S : Value(x) /\ x # None

LEMMA FieldEnds ==
  ASSUME NEW S, IsField(S)
  PROVE  /\ Least(S) \in S /\ IsFraction(Least(S)) /\ \A x \in S : AtMost(Least(S), x)
         /\ Greatest(S) \in S /\ IsFraction(Greatest(S)) /\ \A x \in S : AtMost(x, Greatest(S))
         /\ AtMost(Greatest(S), Least(S)) => Least(S) = Greatest(S)
<1>1. \A x \in S : IsFraction(x) /\ x \in Quotients
  BY FractionIsQuotient DEF IsField, Value
<1>2. /\ Least(S) \in S /\ \A x \in S : AtMost(Least(S), x)
      /\ Greatest(S) \in S /\ \A x \in S : AtMost(x, Greatest(S))
  BY <1>1, Extremes DEF IsField
<1>3. AtMost(Greatest(S), Least(S)) => Least(S) = Greatest(S)
  BY <1>1, <1>2, Order
<1> QED
  BY <1>1, <1>2, <1>3

LEMMA TargetIs ==
  ASSUME NEW c \in Configs, NEW name \in Metric, Target(c, name) # Zero
  PROVE  IsFraction(Target(c, name)) /\ Target(c, name)[1] # 0
<1>1. IsFraction(Target(c, name))
  BY ConfigsAssumption, Constants DEF Target
<1>2. ASSUME Target(c, name)[1] = 0 PROVE FALSE
  <2>1. PICK b \in Nat \ {0} : Target(c, name) = <<0, b>>
    BY <1>1, <1>2, FractionIsQuotient DEF Quotients
  <2>2. Is(Target(c, name), 0, b)
    BY <2>1 DEF Is
  <2>3. Is(Zero, 0, b) /\ IsFraction(Zero)
    BY Constants
  <2>4. 0 \in Int
    OBVIOUS
  <2> QED
    BY <1>1, <2>2, <2>3, <2>4, SameFraction
<1> QED
  BY <1>1, <1>2

\* What was measured has a share of 1.
LEMMA NormalizeIs ==
  ASSUME NEW c \in Configs, NEW name \in Metric, NEW field, IsField(field), NEW value \in field
  PROVE  Share(Normalize(c, name, value, field))
<1>1. value # None /\ field # {} /\ IsFraction(value) /\ value[1] >= 0
  BY DEF IsField, Value
<1> DEFINE down == Direction(c, name) = "min"
           mode == NormalizeMode(c, name)
           low == Least(field)
           high == Greatest(field)
           target == Target(c, name)
<1>2. Share(One) /\ Share(Clamp(value))
  <2>1. AtMost(One, One)
    BY Constants, Order
  <2> QED
    BY <1>1, <2>1, ClampIs, Constants, ZeroBelowOne DEF Share
<1>3. CASE mode = "raw"
  BY <1>1, <1>2, <1>3 DEF Normalize
<1>4. CASE mode = "target"
  <2>1. CASE target = Zero
    BY <1>1, <1>2, <1>4, <2>1 DEF Normalize
  <2>2. CASE target # Zero
    <3>1. IsFraction(target) /\ target[1] # 0
      BY <2>2, TargetIs
    <3>2. IsFraction(Over(value, target))
      BY <1>1, <3>1, FractionIsQuotient, OverType
    <3>3. IsFraction(Minus(One, Over(value, target)))
      <4>1. PICK d \in Nat \ {0}, i \in Int, j \in Int : Is(One, i, d) /\ Is(Over(value, target), j, d)
        BY <3>2, Constants, FourOverOne
      <4> QED
        BY <3>2, <4>1, Constants, FractionIsQuotient, PlusIs
    <3>4. \/ Normalize(c, name, value, field) = Clamp(Over(value, target))
          \/ Normalize(c, name, value, field) = Clamp(Minus(One, Over(value, target)))
      BY <1>1, <1>4, <2>2 DEF Normalize
    <3> QED
      BY <3>2, <3>3, <3>4, ClampIs
  <2> QED
    BY <2>1, <2>2
<1>5. CASE mode # "raw" /\ mode # "target"
  <2>1. CASE low = high
    BY <1>1, <1>2, <1>5, <2>1 DEF Normalize
  <2>2. CASE low # high
    <3>1. IsFraction(low) /\ IsFraction(high) /\ ~AtMost(high, low)
      BY <2>2, FieldEnds
    <3>2. AtMost(value, value)
      BY <1>1, FractionIsQuotient, Order
    <3> HIDE DEF low, high
    <3>3. /\ IsFraction(Over(Minus(value, low), Minus(high, low)))
          /\ IsFraction(Over(Minus(high, value), Minus(high, low)))
      BY <1>1, <3>1, <3>2, OnScale
    <3>4. \/ Normalize(c, name, value, field) = Clamp(Over(Minus(value, low), Minus(high, low)))
          \/ Normalize(c, name, value, field) = Clamp(Over(Minus(high, value), Minus(high, low)))
      BY <1>1, <1>5, <2>2 DEF Normalize, low, high
    <3> QED
      BY <3>3, <3>4, ClampIs
  <2> QED
    BY <2>1, <2>2
<1> QED
  BY <1>3, <1>4, <1>5

\* Where the share is computed the right way round, what is no worse does not
\* have the lower one.
LEMMA NormalizeMonotone ==
  ASSUME config \in Configs, NEW name \in Metric, Sound(name), NEW field, IsField(field),
         NEW x \in field, NEW y \in field, NoWorse(name, x, y)
  PROVE  AtMost(Normalize(config, name, y, field), Normalize(config, name, x, field))
<1>1. /\ x # None /\ IsFraction(x) /\ x[1] >= 0
      /\ y # None /\ IsFraction(y) /\ y[1] >= 0
      /\ field # {}
  BY DEF IsField, Value
<1> DEFINE down == Direction(config, name) = "min"
           mode == NormalizeMode(config, name)
           low == Least(field)
           high == Greatest(field)
           target == Target(config, name)
<1>2. /\ down => AtMost(x, y)
      /\ ~down => AtMost(y, x)
  BY <1>1 DEF NoWorse
<1>3. AtMost(One, One) /\ AtMost(Zero, Zero)
  BY Constants, Order
<1>4. ~down => AtMost(Clamp(y), Clamp(x))
  BY <1>1, <1>2, ClampMonotone
<1>5. CASE mode = "raw"
  <2>1. ~down
    BY <1>5 DEF Sound
  <2> QED
    BY <1>1, <1>4, <1>5, <2>1 DEF Normalize
<1>6. CASE mode = "target"
  <2>1. CASE target = Zero
    <3>1. ~down
      BY <1>6, <2>1 DEF Sound
    <3> QED
      BY <1>1, <1>4, <1>6, <2>1, <3>1 DEF Normalize
  <2>2. CASE target # Zero
    <3>1. IsFraction(target) /\ target[1] # 0 /\ target[1] \in Int
      BY <2>2, TargetIs, FractionIsQuotient DEF Quotients
    <3>2. \A z \in field : Normalize(config, name, z, field) =
             IF down THEN Clamp(Minus(One, Over(z, target))) ELSE Clamp(Over(z, target))
      BY <1>6, <2>2 DEF Normalize, IsField
    <3> HIDE DEF target, down
    <3>3. CASE target[1] > 0
      <4>1. /\ down => AtMost(Minus(One, Over(y, target)), Minus(One, Over(x, target)))
            /\ ~down => AtMost(Over(y, target), Over(x, target))
        BY <1>1, <1>2, <3>1, <3>3, OnTarget
      <4>2. /\ IsFraction(Over(x, target)) /\ IsFraction(Over(y, target))
        BY <1>1, <3>1, FractionIsQuotient, OverType
      <4>3. IsFraction(Minus(One, Over(x, target))) /\ IsFraction(Minus(One, Over(y, target)))
        <5>1. PICK d \in Nat \ {0}, i \in Int, j \in Int, k \in Int :
                 Is(One, i, d) /\ Is(Over(x, target), j, d) /\ Is(Over(y, target), k, d)
          BY <4>2, Constants, FourOverOne
        <5> QED
          BY <4>2, <5>1, Constants, FractionIsQuotient, PlusIs
      <4>4. CASE down
        BY <3>2, <4>1, <4>3, <4>4, ClampMonotone
      <4>5. CASE ~down
        BY <3>2, <4>1, <4>2, <4>5, ClampMonotone
      <4> QED
        BY <4>4, <4>5
    <3>4. CASE target[1] < 0
      <4>1. /\ Clamp(Over(x, target)) = Zero /\ Clamp(Minus(One, Over(x, target))) = One
            /\ Clamp(Over(y, target)) = Zero /\ Clamp(Minus(One, Over(y, target))) = One
        BY <1>1, <3>1, <3>4, OffTarget
      <4> QED
        BY <1>3, <3>2, <4>1
    <3> QED
      BY <3>1, <3>3, <3>4
  <2> QED
    BY <2>1, <2>2
<1>7. CASE mode # "raw" /\ mode # "target"
  <2>1. CASE low = high
    BY <1>1, <1>3, <1>7, <2>1 DEF Normalize
  <2>2. CASE low # high
    <3>1. IsFraction(low) /\ IsFraction(high) /\ ~AtMost(high, low)
      BY <2>2, FieldEnds
    <3>2. \A z \in field : Normalize(config, name, z, field) =
             IF down THEN Clamp(Over(Minus(high, z), Minus(high, low)))
             ELSE Clamp(Over(Minus(z, low), Minus(high, low)))
      BY <1>7, <2>2 DEF Normalize, IsField
    <3> HIDE DEF low, high, down
    <3>3. CASE down
      <4>1. AtMost(Over(Minus(high, y), Minus(high, low)), Over(Minus(high, x), Minus(high, low)))
        BY <1>1, <1>2, <3>1, <3>3, OnScale
      <4>2. AtMost(x, x) /\ AtMost(y, y)
        BY <1>1, FractionIsQuotient, Order
      <4>3. /\ IsFraction(Over(Minus(high, y), Minus(high, low)))
            /\ IsFraction(Over(Minus(high, x), Minus(high, low)))
        BY <1>1, <3>1, <4>2, OnScale
      <4> QED
        BY <3>2, <3>3, <4>1, <4>3, ClampMonotone
    <3>4. CASE ~down
      <4>1. AtMost(Over(Minus(y, low), Minus(high, low)), Over(Minus(x, low), Minus(high, low)))
        BY <1>1, <1>2, <3>1, <3>4, OnScale
      <4>2. AtMost(x, x) /\ AtMost(y, y)
        BY <1>1, FractionIsQuotient, Order
      <4>3. /\ IsFraction(Over(Minus(y, low), Minus(high, low)))
            /\ IsFraction(Over(Minus(x, low), Minus(high, low)))
        BY <1>1, <3>1, <4>2, OnScale
      <4> QED
        BY <3>2, <3>4, <4>1, <4>3, ClampMonotone
    <3> QED
      BY <3>3, <3>4
  <2> QED
    BY <2>1, <2>2
<1> QED
  BY <1>5, <1>6, <1>7

-----------------------------------------------------------------------------
(* The composite, over the common denominator of the shares *)

Counted(used, n) == IF used THEN n ELSE 0

LEMMA Peel ==
  ASSUME NEW S, IsFiniteSet(S), NEW f, \A y \in S : f[y] \in Nat, NEW x
  PROVE  SumFunctionOnSet(f, S) = Counted(x \in S, f[x]) + SumFunctionOnSet(f, S \ {x})
<1>1. CASE x \in S
  BY <1>1, SumSplit DEF Counted
<1>2. CASE x \notin S
  <2>1. S \ {x} = S
    BY <1>2
  <2>2. SumFunctionOnSet(f, S) \in Nat
    BY SumType
  <2> QED
    BY <1>2, <2>1, <2>2 DEF Counted
<1> QED
  BY <1>1, <1>2

LEMMA FiniteMetrics == ASSUME NEW U \in SUBSET Metric PROVE IsFiniteSet(U)
<1>1. IsFiniteSet({"accuracy"})
  BY FS_Singleton
<1>2. IsFiniteSet({"accuracy"} \cup {"reliability"})
  BY <1>1, FS_AddElement
<1>3. IsFiniteSet(({"accuracy"} \cup {"reliability"}) \cup {"cost"})
  BY <1>2, FS_AddElement
<1>4. IsFiniteSet((({"accuracy"} \cup {"reliability"}) \cup {"cost"}) \cup {"latency"})
  BY <1>3, FS_AddElement
<1>5. IsFiniteSet(((({"accuracy"} \cup {"reliability"}) \cup {"cost"}) \cup {"latency"}) \cup {"latency_p95"})
  BY <1>4, FS_AddElement
<1>6. U \subseteq ((({"accuracy"} \cup {"reliability"}) \cup {"cost"}) \cup {"latency"}) \cup {"latency_p95"}
  BY DEF Metric
<1> QED
  BY <1>5, <1>6, FS_Subset

\* A sum over some of the metrics has five summands at most.
LEMMA SumOfFive ==
  ASSUME NEW f, \A name \in Metric : f[name] \in Nat, NEW U \in SUBSET Metric
  PROVE  SumFunctionOnSet(f, U) =
            Counted("accuracy" \in U, f["accuracy"]) + Counted("reliability" \in U, f["reliability"])
            + Counted("cost" \in U, f["cost"]) + Counted("latency" \in U, f["latency"])
            + Counted("latency_p95" \in U, f["latency_p95"])
<1> DEFINE U1 == U \ {"accuracy"}
           U2 == U1 \ {"reliability"}
           U3 == U2 \ {"cost"}
           U4 == U3 \ {"latency"}
           U5 == U4 \ {"latency_p95"}
<1>1. IsFiniteSet(U)
  BY FiniteMetrics
<1>2. /\ U1 \subseteq U /\ U2 \subseteq U /\ U3 \subseteq U /\ U4 \subseteq U
      /\ U5 = {}
  BY DEF Metric
<1>3. IsFiniteSet(U1) /\ IsFiniteSet(U2) /\ IsFiniteSet(U3) /\ IsFiniteSet(U4) /\ IsFiniteSet(U5)
  BY <1>1, <1>2, FS_Subset
<1>4. /\ "accuracy" \in U <=> "accuracy" \in U
      /\ "reliability" \in U1 <=> "reliability" \in U
      /\ "cost" \in U2 <=> "cost" \in U
      /\ "latency" \in U3 <=> "latency" \in U
      /\ "latency_p95" \in U4 <=> "latency_p95" \in U
  OBVIOUS
<1>5. SumFunctionOnSet(f, U) = Counted("accuracy" \in U, f["accuracy"]) + SumFunctionOnSet(f, U1)
  BY <1>1, Peel
<1>6. SumFunctionOnSet(f, U1) = Counted("reliability" \in U1, f["reliability"]) + SumFunctionOnSet(f, U2)
  <2>1. \A name \in U1 : f[name] \in Nat
    OBVIOUS
  <2> HIDE DEF U1
  <2> QED
    BY <1>3, <2>1, Peel
<1>7. SumFunctionOnSet(f, U2) = Counted("cost" \in U2, f["cost"]) + SumFunctionOnSet(f, U3)
  <2>1. \A name \in U2 : f[name] \in Nat
    OBVIOUS
  <2> HIDE DEF U2
  <2> QED
    BY <1>3, <2>1, Peel
<1>8. SumFunctionOnSet(f, U3) = Counted("latency" \in U3, f["latency"]) + SumFunctionOnSet(f, U4)
  <2>1. \A name \in U3 : f[name] \in Nat
    OBVIOUS
  <2> HIDE DEF U3
  <2> QED
    BY <1>3, <2>1, Peel
<1>9. SumFunctionOnSet(f, U4) = Counted("latency_p95" \in U4, f["latency_p95"]) + SumFunctionOnSet(f, U5)
  <2>1. \A name \in U4 : f[name] \in Nat
    OBVIOUS
  <2> HIDE DEF U4
  <2> QED
    BY <1>3, <2>1, Peel
<1>10. SumFunctionOnSet(f, U5) = 0
  <2> HIDE DEF U5
  <2>1. \A name \in U5 : f[name] = 0
    BY <1>2
  <2> QED
    BY <1>3, <2>1, SumZero
<1>11. /\ f["accuracy"] \in Nat /\ f["reliability"] \in Nat /\ f["cost"] \in Nat
       /\ f["latency"] \in Nat /\ f["latency_p95"] \in Nat
  BY DEF Metric
<1>12. /\ Counted("accuracy" \in U, f["accuracy"]) \in Nat
       /\ Counted("reliability" \in U, f["reliability"]) \in Nat
       /\ Counted("cost" \in U, f["cost"]) \in Nat
       /\ Counted("latency" \in U, f["latency"]) \in Nat
       /\ Counted("latency_p95" \in U, f["latency_p95"]) \in Nat
  BY <1>11 DEF Counted
<1> HIDE DEF U1, U2, U3, U4, U5
<1> QED
  BY <1>4, <1>5, <1>6, <1>7, <1>8, <1>9, <1>10, <1>12

\* The weighted sum, counted in d-ths.
Total(c, k, U) ==
    Counted("accuracy" \in U, k["accuracy"] * c.weights["accuracy"])
    + (Counted("reliability" \in U, k["reliability"] * c.weights["reliability"])
       + (Counted("cost" \in U, k["cost"] * c.weights["cost"])
          + (Counted("latency" \in U, k["latency"] * c.weights["latency"])
             + Counted("latency_p95" \in U, k["latency_p95"] * c.weights["latency_p95"]))))

\* k has the numerators of these shares over the denominator d.
OverDenominator(metrics, U, k, d) ==
    /\ k \in [Metric -> Int] /\ d \in Nat \ {0}
    /\ \A name \in U : metrics[name] \in Quotients /\ Is(metrics[name], k[name], d)

LEMMA PartIs ==
  ASSUME NEW c \in Configs, NEW metrics, NEW U \in SUBSET Metric, NEW k, NEW d,
         OverDenominator(metrics, U, k, d), NEW name \in Metric
  PROVE  LET part == Part(name \in U, Times(metrics[name], <<c.weights[name], 1>>))
             n == Counted(name \in U, k[name] * c.weights[name])
         IN part \in Quotients /\ n \in Int /\ Is(part, n, d)
<1>1. c.weights[name] \in Nat /\ k[name] \in Int /\ d \in Nat \ {0}
  BY ConfigsAssumption DEF OverDenominator
<1>2. CASE name \in U
  <2>1. metrics[name] \in Quotients /\ Is(metrics[name], k[name], d)
    BY <1>2 DEF OverDenominator
  <2> DEFINE part == Times(metrics[name], <<c.weights[name], 1>>)
  <2>2. IsFraction(part) /\ Is(part, k[name] * c.weights[name], d)
    BY <1>1, <2>1, TimesIs
  <2>3. part \in Quotients
    BY <2>2, FractionIsQuotient
  <2>4. k[name] * c.weights[name] \in Int
    BY <1>1
  <2> QED
    BY <1>2, <2>2, <2>3, <2>4 DEF Part, Counted
<1>3. CASE name \notin U
  <2>1. Zero \in Quotients /\ Is(Zero, 0, d) /\ 0 \in Int
    BY <1>1, Constants
  <2> QED
    BY <1>3, <2>1 DEF Part, Counted
<1> QED
  BY <1>2, <1>3

LEMMA WeightedSumIs ==
  ASSUME NEW c \in Configs, NEW metrics, NEW U \in SUBSET Metric, NEW k, NEW d,
         OverDenominator(metrics, U, k, d)
  PROVE  /\ Total(c, k, U) \in Int
         /\ IsFraction(WeightedSum(c, metrics, U)) /\ Is(WeightedSum(c, metrics, U), Total(c, k, U), d)
<1> DEFINE part(name) == Part(name \in U, Times(metrics[name], <<c.weights[name], 1>>))
           n(name) == Counted(name \in U, k[name] * c.weights[name])
<1>1. d \in Nat \ {0}
  BY DEF OverDenominator
<1>2. \A name \in Metric : part(name) \in Quotients /\ n(name) \in Int /\ Is(part(name), n(name), d)
  BY PartIs
<1>3. Total(c, k, U) = n("accuracy") + (n("reliability") + (n("cost") + (n("latency") + n("latency_p95"))))
  BY DEF Total
<1>4. WeightedSum(c, metrics, U) =
        Plus(part("accuracy"), Plus(part("reliability"),
          Plus(part("cost"), Plus(part("latency"), part("latency_p95")))))
  BY DEF WeightedSum
<1>5. /\ "accuracy" \in Metric /\ "reliability" \in Metric /\ "cost" \in Metric
      /\ "latency" \in Metric /\ "latency_p95" \in Metric
  BY DEF Metric
<1> HIDE DEF part, n
<1>6. PICK a \in Quotients, a1 \in Int : a = part("accuracy") /\ a1 = n("accuracy") /\ Is(a, a1, d)
  BY <1>2, <1>5
<1>7. PICK b \in Quotients, b1 \in Int : b = part("reliability") /\ b1 = n("reliability") /\ Is(b, b1, d)
  BY <1>2, <1>5
<1>8. PICK e \in Quotients, e1 \in Int : e = part("cost") /\ e1 = n("cost") /\ Is(e, e1, d)
  BY <1>2, <1>5
<1>9. PICK f \in Quotients, f1 \in Int : f = part("latency") /\ f1 = n("latency") /\ Is(f, f1, d)
  BY <1>2, <1>5
<1>10. PICK g \in Quotients, g1 \in Int : g = part("latency_p95") /\ g1 = n("latency_p95") /\ Is(g, g1, d)
  BY <1>2, <1>5
<1>11. PICK p \in Quotients, p1 \in Int : p = Plus(f, g) /\ p1 = f1 + g1 /\ Is(p, p1, d)
  <2>1. IsFraction(Plus(f, g)) /\ Is(Plus(f, g), f1 + g1, d) /\ f1 + g1 \in Int
    BY <1>1, <1>9, <1>10, PlusIs
  <2> QED
    BY <2>1, FractionIsQuotient
<1>12. PICK q \in Quotients, q1 \in Int : q = Plus(e, p) /\ q1 = e1 + p1 /\ Is(q, q1, d)
  <2>1. IsFraction(Plus(e, p)) /\ Is(Plus(e, p), e1 + p1, d) /\ e1 + p1 \in Int
    BY <1>1, <1>8, <1>11, PlusIs
  <2> QED
    BY <2>1, FractionIsQuotient
<1>13. PICK r \in Quotients, r1 \in Int : r = Plus(b, q) /\ r1 = b1 + q1 /\ Is(r, r1, d)
  <2>1. IsFraction(Plus(b, q)) /\ Is(Plus(b, q), b1 + q1, d) /\ b1 + q1 \in Int
    BY <1>1, <1>7, <1>12, PlusIs
  <2> QED
    BY <2>1, FractionIsQuotient
<1>14. IsFraction(Plus(a, r)) /\ Is(Plus(a, r), a1 + r1, d) /\ a1 + r1 \in Int
  BY <1>1, <1>6, <1>13, PlusIs
<1>15. WeightedSum(c, metrics, U) = Plus(a, r)
  BY <1>4, <1>6, <1>7, <1>8, <1>9, <1>10, <1>11, <1>12, <1>13
<1>16. Total(c, k, U) = a1 + r1
  BY <1>3, <1>6, <1>7, <1>8, <1>9, <1>10, <1>11, <1>12, <1>13
<1> QED
  BY <1>14, <1>15, <1>16

\* The same number over another denominator.
LEMMA Widened ==
  ASSUME NEW x \in Quotients, NEW n \in Int, NEW d \in Nat \ {0}, Is(x, n, d), NEW w \in Nat \ {0}
  PROVE  Is(x, n * w, d * w)
<1>1. PICK a \in Int, b \in Nat \ {0} : x = <<a, b>>
  BY DEF Quotients
<1>2. a * d = n * b
  BY <1>1 DEF Is
<1>3. a * (d * w) = (a * d) * w /\ (n * b) * w = (n * w) * b
  OBVIOUS
<1> QED
  BY <1>1, <1>2, <1>3 DEF Is

LEMMA CompositeIs ==
  ASSUME NEW c \in Configs, NEW metrics, NEW k, NEW d,
         Usable(c, metrics) # {}, OverDenominator(metrics, Usable(c, metrics), k, d)
  PROVE  LET W == SumFunctionOnSet(c.weights, Usable(c, metrics))
         IN /\ W \in Nat \ {0} /\ d * W \in Nat \ {0}
            /\ IsFraction(Composite(c, metrics))
            /\ Is(Composite(c, metrics), Total(c, k, Usable(c, metrics)), d * W)
<1> DEFINE U == Usable(c, metrics)
           W == SumFunctionOnSet(c.weights, U)
<1>1. U \in SUBSET Metric /\ U # {} /\ \A name \in U : c.weights[name] > 0
  BY DEF Usable
<1>2. \A name \in Metric : c.weights[name] \in Nat
  BY ConfigsAssumption
<1>3. Composite(c, metrics) = Over(WeightedSum(c, metrics, U), <<W, 1>>)
  BY DEF Composite
<1>4. d \in Nat \ {0} /\ OverDenominator(metrics, U, k, d)
  BY DEF OverDenominator
<1> HIDE DEF U
<1>5. W \in Nat \ {0}
  <2>1. W = Counted("accuracy" \in U, c.weights["accuracy"]) + Counted("reliability" \in U, c.weights["reliability"])
            + Counted("cost" \in U, c.weights["cost"]) + Counted("latency" \in U, c.weights["latency"])
            + Counted("latency_p95" \in U, c.weights["latency_p95"])
    BY <1>1, <1>2, SumOfFive
  <2>2. \A name \in Metric : /\ Counted(name \in U, c.weights[name]) \in Nat
                             /\ name \in U => Counted(name \in U, c.weights[name]) > 0
    BY <1>1, <1>2 DEF Counted
  <2>3. PICK name \in U : name \in Metric
    BY <1>1
  <2> QED
    <3>1. PICK i \in Nat, j \in Nat, l \in Nat, m \in Nat, n \in Nat :
             /\ i = Counted("accuracy" \in U, c.weights["accuracy"])
             /\ j = Counted("reliability" \in U, c.weights["reliability"])
             /\ l = Counted("cost" \in U, c.weights["cost"])
             /\ m = Counted("latency" \in U, c.weights["latency"])
             /\ n = Counted("latency_p95" \in U, c.weights["latency_p95"])
      BY <2>2 DEF Metric
    <3>2. Counted(name \in U, c.weights[name]) > 0
      BY <2>2, <2>3
    <3>3. i > 0 \/ j > 0 \/ l > 0 \/ m > 0 \/ n > 0
      BY <2>3, <3>1, <3>2 DEF Metric
    <3>4. W = i + j + l + m + n
      BY <2>1, <3>1
    <3> QED
      BY <3>3, <3>4
<1>6. d * W \in Nat \ {0}
  <2> HIDE DEF W
  <2> QED
    BY <1>4, <1>5
<1>7. /\ Total(c, k, U) \in Int
      /\ IsFraction(WeightedSum(c, metrics, U)) /\ Is(WeightedSum(c, metrics, U), Total(c, k, U), d)
  BY <1>1, <1>4, WeightedSumIs
<1>8. WeightedSum(c, metrics, U) \in Quotients
  BY <1>7, FractionIsQuotient
<1> HIDE DEF W
<1>9. IsFraction(Composite(c, metrics)) /\ Is(Composite(c, metrics), Total(c, k, U), d * W)
  <2>1. W \in Nat /\ W # 0
    BY <1>5
  <2> QED
    BY <1>3, <1>4, <1>7, <1>8, <2>1, TimesIs
<1> QED
  BY <1>5, <1>6, <1>9 DEF U, W

LEMMA TotalMonotone ==
  ASSUME NEW c \in Configs, NEW U \in SUBSET Metric, NEW k \in [Metric -> Int], NEW j \in [Metric -> Int],
         \A name \in U : k[name] <= j[name]
  PROVE  Total(c, k, U) <= Total(c, j, U)
<1> DEFINE of(f, name) == Counted(name \in U, f[name] * c.weights[name])
<1>1. ASSUME NEW name \in Metric
      PROVE  of(k, name) \in Int /\ of(j, name) \in Int /\ of(k, name) <= of(j, name)
  <2>1. PICK x \in Int, y \in Int, w \in Nat : x = k[name] /\ y = j[name] /\ w = c.weights[name]
    BY ConfigsAssumption
  <2>2. x <= y => x * w <= y * w
    OBVIOUS
  <2>3. x * w \in Int /\ y * w \in Int
    OBVIOUS
  <2> QED
    BY <2>1, <2>2, <2>3 DEF Counted
<1>2. /\ Total(c, k, U) = of(k, "accuracy") + (of(k, "reliability") + (of(k, "cost") + (of(k, "latency") + of(k, "latency_p95"))))
      /\ Total(c, j, U) = of(j, "accuracy") + (of(j, "reliability") + (of(j, "cost") + (of(j, "latency") + of(j, "latency_p95"))))
  BY DEF Total
<1> HIDE DEF of
<1> QED
  BY <1>1, <1>2 DEF Metric

LEMMA TotalOfOne ==
  ASSUME NEW c \in Configs, NEW U \in SUBSET Metric, NEW l \in Int
  PROVE  Total(c, [name \in Metric |-> l], U) = l * SumFunctionOnSet(c.weights, U)
<1> DEFINE of(name) == Counted(name \in U, c.weights[name])
<1>1. ASSUME NEW name \in Metric
      PROVE  of(name) \in Nat /\ Counted(name \in U, l * c.weights[name]) = l * of(name)
  <2>1. PICK w \in Nat : w = c.weights[name]
    BY ConfigsAssumption
  <2>2. l * 0 = 0
    OBVIOUS
  <2> QED
    BY <2>1, <2>2 DEF Counted
<1>2. \A name \in Metric : c.weights[name] \in Nat
  BY ConfigsAssumption
<1>3. SumFunctionOnSet(c.weights, U) = of("accuracy") + of("reliability") + of("cost") + of("latency") + of("latency_p95")
  BY <1>2, SumOfFive
<1>4. Total(c, [name \in Metric |-> l], U) =
        Counted("accuracy" \in U, l * c.weights["accuracy"])
        + (Counted("reliability" \in U, l * c.weights["reliability"])
           + (Counted("cost" \in U, l * c.weights["cost"])
              + (Counted("latency" \in U, l * c.weights["latency"])
                 + Counted("latency_p95" \in U, l * c.weights["latency_p95"]))))
  BY DEF Total, Metric
<1> HIDE DEF of
<1>5. PICK u \in Nat, v \in Nat, w \in Nat, x \in Nat, y \in Nat :
         u = of("accuracy") /\ v = of("reliability") /\ w = of("cost") /\ x = of("latency") /\ y = of("latency_p95")
  BY <1>1 DEF Metric
<1>6. Total(c, [name \in Metric |-> l], U) = l * u + (l * v + (l * w + (l * x + l * y)))
  BY <1>1, <1>4, <1>5 DEF Metric
<1>7. SumFunctionOnSet(c.weights, U) = u + v + w + x + y
  BY <1>3, <1>5
<1>8. l * (u + v + w + x + y) = l * u + (l * v + (l * w + (l * x + l * y)))
  OBVIOUS
<1> QED
  BY <1>6, <1>7, <1>8

LEMMA SharesOverOne ==
  ASSUME NEW U \in SUBSET Metric, NEW e, NEW f, \A name \in U : Share(e[name]) /\ Share(f[name])
  PROVE  \E k, j, d : OverDenominator(e, U, k, d) /\ OverDenominator(f, U, j, d)
<1> DEFINE E == [name \in U |-> e[name]]
           F == [name \in U |-> f[name]]
           S == {E[name] : name \in U} \cup {F[name] : name \in U}
<1>1. IsFiniteSet(S)
  <2>1. IsFiniteSet(U)
    BY FiniteMetrics
  <2>2. E = [name \in U |-> E[name]] /\ F = [name \in U |-> F[name]]
    OBVIOUS
  <2> HIDE DEF E, F
  <2>3. IsFiniteSet({E[name] : name \in U}) /\ IsFiniteSet({F[name] : name \in U})
    BY <2>1, <2>2, FiniteImage
  <2> QED
    BY <2>3, FS_Union
<1>2. \A x \in S : x \in Quotients
  BY FractionIsQuotient DEF Share
<1>3. \A name \in U : e[name] \in S /\ f[name] \in S
  OBVIOUS
<1> HIDE DEF S
<1>4. PICK d \in Nat \ {0} : \A x \in S : \E n \in Int : Is(x, n, d)
  BY <1>1, <1>2, CommonDenominator
<1> DEFINE k == [name \in Metric |-> IF name \in U THEN CHOOSE n \in Int : Is(e[name], n, d) ELSE 0]
           j == [name \in Metric |-> IF name \in U THEN CHOOSE n \in Int : Is(f[name], n, d) ELSE 0]
<1>5. \A name \in U : /\ k[name] \in Int /\ Is(e[name], k[name], d)
                      /\ j[name] \in Int /\ Is(f[name], j[name], d)
  BY <1>3, <1>4
<1>6. k \in [Metric -> Int] /\ j \in [Metric -> Int]
  <2>1. ASSUME NEW name \in Metric
        PROVE  /\ (IF name \in U THEN CHOOSE n \in Int : Is(e[name], n, d) ELSE 0) \in Int
               /\ (IF name \in U THEN CHOOSE n \in Int : Is(f[name], n, d) ELSE 0) \in Int
    BY <1>3, <1>4
  <2> QED
    BY <2>1
<1> HIDE DEF k, j
<1>7. OverDenominator(e, U, k, d) /\ OverDenominator(f, U, j, d)
  BY <1>2, <1>3, <1>5, <1>6 DEF OverDenominator
<1> QED
  BY <1>7

\* Shares that are all no less make a composite that is no less.
LEMMA CompositeMonotone ==
  ASSUME NEW c \in Configs, NEW e, NEW f, NEW U, U = Usable(c, e), U = Usable(c, f), U # {},
         \A name \in U : Share(e[name]) /\ Share(f[name]) /\ AtMost(f[name], e[name])
  PROVE  IsFraction(Composite(c, e)) /\ IsFraction(Composite(c, f)) /\ AtMost(Composite(c, f), Composite(c, e))
<1>1. U \in SUBSET Metric
  BY DEF Usable
<1>2. PICK k, j, d : OverDenominator(e, U, k, d) /\ OverDenominator(f, U, j, d)
  BY <1>1, SharesOverOne
<1>3. \A name \in U : j[name] <= k[name]
  <2> TAKE name \in U
  <2>1. /\ e[name] \in Quotients /\ Is(e[name], k[name], d) /\ f[name] \in Quotients /\ Is(f[name], j[name], d)
        /\ k[name] \in Int /\ j[name] \in Int /\ d \in Nat \ {0}
    BY <1>1, <1>2 DEF OverDenominator
  <2> QED
    BY <2>1, Compared
<1>4. k \in [Metric -> Int] /\ j \in [Metric -> Int]
  BY <1>2 DEF OverDenominator
<1>5. Total(c, j, U) <= Total(c, k, U)
  BY <1>1, <1>3, <1>4, TotalMonotone
<1>6. Total(c, j, U) \in Int /\ Total(c, k, U) \in Int
  BY <1>1, <1>2, WeightedSumIs
<1> DEFINE W == SumFunctionOnSet(c.weights, U)
<1>7. /\ d * W \in Nat \ {0}
      /\ IsFraction(Composite(c, e)) /\ Is(Composite(c, e), Total(c, k, U), d * W)
      /\ IsFraction(Composite(c, f)) /\ Is(Composite(c, f), Total(c, j, U), d * W)
  BY <1>2, CompositeIs
<1>8. Composite(c, e) \in Quotients /\ Composite(c, f) \in Quotients
  BY <1>7, FractionIsQuotient
<1> HIDE DEF W
<1> QED
  BY <1>5, <1>6, <1>7, <1>8, Compared

\* A composite is no less than the least of its shares, no more than the greatest.
LEMMA CompositeBetween ==
  ASSUME NEW c \in Configs, NEW e, NEW U, U = Usable(c, e),
         \A name \in U : Share(e[name]), NEW low \in U, NEW high \in U,
         \A name \in U : AtMost(e[low], e[name]) /\ AtMost(e[name], e[high])
  PROVE  AtMost(e[low], Composite(c, e)) /\ AtMost(Composite(c, e), e[high])
<1>1. U \in SUBSET Metric
  BY DEF Usable
<1>2. PICK k, d : OverDenominator(e, U, k, d)
  BY <1>1, SharesOverOne
<1>3. \A name \in U : /\ e[name] \in Quotients /\ Is(e[name], k[name], d)
                      /\ k[name] \in Int /\ d \in Nat \ {0}
  BY <1>1, <1>2 DEF OverDenominator
<1>4. \A name \in U : k[low] <= k[name] /\ k[name] <= k[high]
  <2> TAKE name \in U
  <2>1. /\ e[name] \in Quotients /\ Is(e[name], k[name], d) /\ k[name] \in Int
        /\ e[low] \in Quotients /\ Is(e[low], k[low], d) /\ k[low] \in Int
        /\ e[high] \in Quotients /\ Is(e[high], k[high], d) /\ k[high] \in Int /\ d \in Nat \ {0}
    BY <1>3
  <2> QED
    BY <2>1, Compared
<1> DEFINE W == SumFunctionOnSet(c.weights, U)
           all(l) == [name \in Metric |-> l]
<1>5. k \in [Metric -> Int] /\ k[low] \in Int /\ k[high] \in Int
  BY <1>2, <1>3 DEF OverDenominator
<1>6. all(k[low]) \in [Metric -> Int] /\ all(k[high]) \in [Metric -> Int]
  BY <1>5
<1>7. (\A name \in U : all(k[low])[name] <= k[name]) /\ (\A name \in U : k[name] <= all(k[high])[name])
  BY <1>1, <1>4
<1>8. Total(c, all(k[low]), U) = k[low] * W /\ Total(c, all(k[high]), U) = k[high] * W
  BY <1>1, <1>5, TotalOfOne
<1> HIDE DEF all
<1>9. Total(c, all(k[low]), U) <= Total(c, k, U) /\ Total(c, k, U) <= Total(c, all(k[high]), U)
  BY <1>1, <1>5, <1>6, <1>7, TotalMonotone
<1>10. Total(c, k, U) \in Int
  BY <1>1, <1>2, WeightedSumIs
<1>11. /\ W \in Nat \ {0} /\ d * W \in Nat \ {0}
       /\ IsFraction(Composite(c, e)) /\ Is(Composite(c, e), Total(c, k, U), d * W)
  BY <1>2, CompositeIs
<1> HIDE DEF W
<1>12. Is(e[low], k[low] * W, d * W) /\ Is(e[high], k[high] * W, d * W)
  BY <1>3, <1>11, Widened
<1>13. k[low] * W \in Int /\ k[high] * W \in Int
  BY <1>5, <1>11
<1>14. Composite(c, e) \in Quotients /\ e[low] \in Quotients /\ e[high] \in Quotients
  BY <1>3, <1>11, FractionIsQuotient
<1> QED
  BY <1>8, <1>9, <1>10, <1>11, <1>12, <1>13, <1>14, Compared

-----------------------------------------------------------------------------
(* The board *)

\* The board is that of these results.
BoardInv ==
    /\ config \in Configs
    /\ results \in [Models -> [Rows -> Nat]]
    /\ aggregates = [m \in Models |-> Aggregate(results[m])]
    /\ status = [m \in Models |-> Status(config, card[m], results[m], aggregates[m])]
    /\ board = BuildLeaderboard(config, aggregates, Ranked)

LEMMA BoardInit == Init => BoardInv
<1> SUFFICES ASSUME Init PROVE BoardInv
  OBVIOUS
<1>1. /\ config \in Configs
      /\ results = [m \in Models |-> [r \in Rows |-> 0]]
      /\ aggregates = [m \in Models |-> Aggregate([r \in Rows |-> 0])]
      /\ status = [m \in Models |-> "no_data"] /\ board = {}
  BY DEF Init
<1>2. results \in [Models -> [Rows -> Nat]]
  BY <1>1
<1>3. aggregates = [m \in Models |-> Aggregate(results[m])]
  BY <1>1
<1>4. Ranked = {}
  BY <1>1 DEF Ranked
<1>5. board = BuildLeaderboard(config, aggregates, Ranked)
  BY <1>1, <1>4 DEF BuildLeaderboard
<1>6. \A m \in Models : Status(config, card[m], results[m], aggregates[m]) = "no_data"
  BY <1>1 DEF Status, Completed
<1>7. status = [m \in Models |-> Status(config, card[m], results[m], aggregates[m])]
  BY <1>1, <1>6
<1> QED
  BY <1>1, <1>2, <1>3, <1>5, <1>7 DEF BoardInv

LEMMA RecordIs ==
  ASSUME BoardInv, NEW m \in Models, Record(m)
  PROVE  /\ config' = config /\ card' = card
         /\ \E r \in Rows : results' = [results EXCEPT ![m][r] = @ + 1]
         /\ aggregates' = [aggregates EXCEPT ![m] = Aggregate(results'[m])]
         /\ status' = [status EXCEPT ![m] = Status(config, card[m], results'[m], aggregates'[m])]
         /\ board' = BuildLeaderboard(config, aggregates', Ranked')
  BY DEF Record

LEMMA BoardStep == BoardInv /\ [Next]_vars => BoardInv'
<1> SUFFICES ASSUME BoardInv, [Next]_vars PROVE BoardInv'
  OBVIOUS
<1>1. CASE UNCHANGED vars
  BY <1>1 DEF vars, BoardInv, Ranked
<1>2. ASSUME NEW m \in Models, Record(m) PROVE BoardInv'
  <2>1. /\ config' = config /\ card' = card
        /\ aggregates' = [aggregates EXCEPT ![m] = Aggregate(results'[m])]
        /\ status' = [status EXCEPT ![m] = Status(config, card[m], results'[m], aggregates'[m])]
        /\ board' = BuildLeaderboard(config, aggregates', Ranked')
    BY <1>2, RecordIs
  <2>2. PICK r \in Rows : results' = [results EXCEPT ![m][r] = @ + 1]
    BY <1>2, RecordIs
  <2>3. results' \in [Models -> [Rows -> Nat]]
    BY <2>2 DEF BoardInv
  <2>4. \A n \in Models : n # m => results'[n] = results[n] /\ aggregates'[n] = aggregates[n]
    BY <2>1, <2>2 DEF BoardInv
  <2>5. aggregates' = [n \in Models |-> Aggregate(results'[n])]
    BY <2>1, <2>4 DEF BoardInv
  <2>6. status' = [n \in Models |-> Status(config', card'[n], results'[n], aggregates'[n])]
    BY <2>1, <2>4 DEF BoardInv
  <2> QED
    BY <2>1, <2>3, <2>5, <2>6 DEF BoardInv
<1> QED
  BY <1>1, <1>2 DEF Next

\* What build_leaderboard ranks by is always made of the rows there are: the
\* metrics of each model, its verdict at the gates, and the entries.
THEOREM BoardInvariance == Spec => []BoardInv
<1> QED
  BY BoardInit, BoardStep, PTL DEF Spec

\* The aggregates of the models that are ranked.
Aggregated(raws, ranked) ==
    /\ IsFiniteSet(ranked)
    /\ \A m \in ranked, name \in Metric : Value(raws[m][name])

LEMMA AggregatedIs ==
  ASSUME NEW res \in [Models -> [Rows -> Nat]], NEW raws,
         raws = [m \in Models |-> Aggregate(res[m])], NEW ranked \in SUBSET Models
  PROVE  Aggregated(raws, ranked)
<1>1. ASSUME NEW m \in ranked, NEW name \in Metric PROVE Value(raws[m][name])
  <2>1. res[m] \in [Rows -> Nat] /\ raws[m] = Aggregate(res[m])
    OBVIOUS
  <2> QED
    BY <2>1, AggregateType
<1>2. IsFiniteSet(ranked)
  BY LeaderboardAssumption, FS_Subset
<1> QED
  BY <1>1, <1>2 DEF Aggregated

\* The values of a metric among the ranked models are a field, if there are any.
LEMMA FieldIs ==
  ASSUME NEW raws, NEW ranked, Aggregated(raws, ranked),
         NEW m \in ranked, NEW name \in Metric, raws[m][name] # None
  PROVE  /\ IsField(MetricRange(raws, ranked, name))
         /\ raws[m][name] \in MetricRange(raws, ranked, name)
<1> DEFINE raw == [n \in ranked |-> raws[n][name]]
           S == {raw[n] : n \in ranked}
<1>1. MetricRange(raws, ranked, name) = S \ {None}
  BY DEF MetricRange
<1>2. IsFiniteSet(ranked) /\ \A n \in ranked : Value(raws[n][name])
  BY DEF Aggregated
<1>3. IsFiniteSet(S)
  <2>1. raw = [n \in ranked |-> raw[n]]
    OBVIOUS
  <2> HIDE DEF raw
  <2> QED
    BY <1>2, <2>1, FiniteImage
<1>4. IsFiniteSet(S \ {None})
  BY <1>3, FS_Subset
<1>5. raws[m][name] \in S \ {None} /\ \A x \in S \ {None} : Value(x) /\ x # None
  BY <1>2
<1> QED
  BY <1>1, <1>4, <1>5 DEF IsField

\* An entry has the shares of its model: one for each metric that was measured.
LEMMA EntryIs ==
  ASSUME NEW c \in Configs, NEW raws, NEW ranked, Aggregated(raws, ranked),
         NEW e \in BuildLeaderboard(c, raws, ranked)
  PROVE  /\ e.key \in ranked
         /\ e.composite = Composite(c, e.normalized)
         /\ e.breaker = raws[e.key][c.tie_breaker]
         /\ \A name \in Metric :
               /\ e.normalized[name] = Normalize(c, name, raws[e.key][name], MetricRange(raws, ranked, name))
               /\ raws[e.key][name] = None <=> e.normalized[name] = None
               /\ e.normalized[name] # None => Share(e.normalized[name])
<1>1. PICK m \in ranked : e = ModelScore(c, raws, ranked, m)
  BY DEF BuildLeaderboard
<1>2. /\ e.key = m /\ e.normalized = BuildMetricValues(c, raws, ranked, m)
      /\ e.composite = Composite(c, e.normalized)
      /\ e.breaker = raws[m][c.tie_breaker]
  BY <1>1 DEF ModelScore
<1>3. ASSUME NEW name \in Metric
      PROVE  /\ e.normalized[name] = Normalize(c, name, raws[m][name], MetricRange(raws, ranked, name))
             /\ raws[m][name] = None => e.normalized[name] = None
             /\ raws[m][name] # None => Share(e.normalized[name])
  <2>1. e.normalized[name] = Normalize(c, name, raws[m][name], MetricRange(raws, ranked, name))
    BY <1>2 DEF BuildMetricValues
  <2>2. CASE raws[m][name] = None
    BY <2>1, <2>2 DEF Normalize
  <2>3. CASE raws[m][name] # None
    BY <2>1, <2>3, FieldIs, NormalizeIs
  <2> QED
    BY <2>1, <2>2, <2>3
<1>4. \A x : Share(x) => x # None
  BY NoneIsNoFraction DEF Share
<1> QED
  BY <1>2, <1>3, <1>4

LEMMA UsableIs ==
  ASSUME NEW c \in Configs, NEW raws, NEW ranked, Aggregated(raws, ranked),
         NEW e \in BuildLeaderboard(c, raws, ranked)
  PROVE  /\ Usable(c, e.normalized) = {name \in Metric : c.weights[name] > 0 /\ raws[e.key][name] # None}
         /\ \A name \in Usable(c, e.normalized) :
               name \in Metric /\ Share(e.normalized[name]) /\ e.normalized[name] # None
<1>1. \A name \in Metric : /\ raws[e.key][name] = None <=> e.normalized[name] = None
                           /\ e.normalized[name] # None => Share(e.normalized[name])
  BY EntryIs
<1> QED
  BY <1>1 DEF Usable

LEMMA BoardIs ==
  ASSUME BoardInv
  PROVE  /\ config \in Configs /\ Aggregated(aggregates, Ranked)
         /\ board = BuildLeaderboard(config, aggregates, Ranked)
<1>1. Ranked \in SUBSET Models
  BY DEF Ranked
<1> QED
  BY <1>1, AggregatedIs DEF BoardInv

-----------------------------------------------------------------------------
(* The properties of the board *)

LEMMA OutsidersHold == BoardInv => OutsidersDoNotMatter
<1> SUFFICES ASSUME BoardInv PROVE OutsidersDoNotMatter
  OBVIOUS
<1> DEFINE own == [m \in Ranked |-> aggregates[m]]
<1>1. \A m \in Ranked : own[m] = aggregates[m]
  OBVIOUS
<1> HIDE DEF own
<1>2. \A name : MetricRange(own, Ranked, name) = MetricRange(aggregates, Ranked, name)
  BY <1>1 DEF MetricRange
<1>3. ASSUME NEW m \in Ranked
      PROVE  ModelScore(config, own, Ranked, m) = ModelScore(config, aggregates, Ranked, m)
  <2>1. BuildMetricValues(config, own, Ranked, m) = BuildMetricValues(config, aggregates, Ranked, m)
    BY <1>1, <1>2 DEF BuildMetricValues
  <2> QED
    BY <1>1, <2>1 DEF ModelScore
<1>4. BuildLeaderboard(config, own, Ranked) = BuildLeaderboard(config, aggregates, Ranked)
  BY <1>3 DEF BuildLeaderboard
<1> QED
  BY <1>4 DEF OutsidersDoNotMatter, own, BoardInv

LEMMA GapsHold == BoardInv => GapsAreNotPunished
<1> SUFFICES ASSUME BoardInv, NEW e \in board
             PROVE  LET shares == {e.normalized[name] : name \in Weighted} \ {None}
                    IN IF shares = {} THEN e.composite = None
                       ELSE AtMost(Least(shares), e.composite) /\ AtMost(e.composite, Greatest(shares))
  BY DEF GapsAreNotPunished
<1> DEFINE shares == {e.normalized[name] : name \in Weighted} \ {None}
           U == Usable(config, e.normalized)
           own == [name \in U |-> e.normalized[name]]
<1>1. \A name \in U : name \in Metric /\ Share(e.normalized[name]) /\ e.normalized[name] # None
  BY BoardIs, UsableIs
<1>2. shares = {e.normalized[name] : name \in U}
  <2>1. U = {name \in Weighted : e.normalized[name] # None}
    BY DEF Usable, Weighted
  <2> QED
    BY <2>1
<1>3. e.composite = Composite(config, e.normalized) /\ config \in Configs
  BY BoardIs, EntryIs
<1>4. U \in SUBSET Metric
  BY DEF Usable
<1>5. CASE U = {}
  <2>1. shares = {} /\ e.composite = None
    BY <1>2, <1>3, <1>5 DEF Composite
  <2> QED
    BY <2>1
<1>6. CASE U # {}
  <2>1. IsFiniteSet(shares)
    <3>1. IsFiniteSet(U) /\ own = [name \in U |-> own[name]]
      BY <1>4, FiniteMetrics
    <3>2. shares = {own[name] : name \in U}
      BY <1>2
    <3> HIDE DEF own, shares
    <3> QED
      BY <3>1, <3>2, FiniteImage
  <2>2. shares # {} /\ \A x \in shares : x \in Quotients
    BY <1>1, <1>2, <1>6, FractionIsQuotient DEF Share
  <2> HIDE DEF shares
  <2>3. /\ Least(shares) \in shares /\ \A x \in shares : AtMost(Least(shares), x)
        /\ Greatest(shares) \in shares /\ \A x \in shares : AtMost(x, Greatest(shares))
    BY <2>1, <2>2, Extremes
  <2>4. PICK low \in U : Least(shares) = e.normalized[low]
    BY <1>2, <2>3
  <2>5. PICK high \in U : Greatest(shares) = e.normalized[high]
    BY <1>2, <2>3
  <2>6. \A name \in U : /\ AtMost(e.normalized[low], e.normalized[name])
                        /\ AtMost(e.normalized[name], e.normalized[high])
    BY <1>2, <2>3, <2>4, <2>5
  <2>7. \A name \in U : Share(e.normalized[name])
    BY <1>1
  <2> HIDE DEF U
  <2>8. AtMost(e.normalized[low], e.composite) /\ AtMost(e.composite, e.normalized[high])
    BY <1>3, <2>6, <2>7, CompositeBetween DEF U
  <2>9. shares # {}
    BY <2>2
  <2> QED
    BY <2>4, <2>5, <2>8, <2>9 DEF shares
<1> QED
  BY <1>5, <1>6

\* An entry no worse in every metric that counts has no lower composite.
LEMMA NoLowerComposite ==
  ASSUME BoardInv, \A name \in Weighted : Sound(name), NEW e \in board, NEW f \in board,
         \A name \in Weighted : NoWorse(name, aggregates[e.key][name], aggregates[f.key][name])
  PROVE  \/ e.composite = None /\ f.composite = None
         \/ /\ IsFraction(e.composite) /\ IsFraction(f.composite)
            /\ e.composite # None /\ f.composite # None
            /\ AtMost(f.composite, e.composite)
<1> DEFINE U == Usable(config, e.normalized)
<1>1. config \in Configs /\ e.key \in Ranked /\ f.key \in Ranked
      /\ e.composite = Composite(config, e.normalized) /\ f.composite = Composite(config, f.normalized)
  BY BoardIs, EntryIs
<1>2. \A name \in Weighted : aggregates[e.key][name] = None <=> aggregates[f.key][name] = None
  BY DEF NoWorse
<1>3. U = Usable(config, f.normalized)
  <2>1. /\ U = {name \in Metric : config.weights[name] > 0 /\ aggregates[e.key][name] # None}
        /\ Usable(config, f.normalized) =
              {name \in Metric : config.weights[name] > 0 /\ aggregates[f.key][name] # None}
    BY BoardIs, UsableIs
  <2> HIDE DEF U
  <2> QED
    BY <1>2, <2>1 DEF Weighted
<1>4. \A name \in U : Share(e.normalized[name]) /\ Share(f.normalized[name])
  BY <1>3, BoardIs, UsableIs
<1>5. ASSUME NEW name \in U PROVE AtMost(f.normalized[name], e.normalized[name])
  <2>1. name \in Weighted /\ name \in Metric /\ aggregates[e.key][name] # None /\ aggregates[f.key][name] # None
    BY <1>2, BoardIs, UsableIs DEF Weighted
  <2> DEFINE field == MetricRange(aggregates, Ranked, name)
  <2>2. IsField(field) /\ aggregates[e.key][name] \in field /\ aggregates[f.key][name] \in field
    BY <1>1, <2>1, BoardIs, FieldIs
  <2>3. /\ e.normalized[name] = Normalize(config, name, aggregates[e.key][name], field)
        /\ f.normalized[name] = Normalize(config, name, aggregates[f.key][name], field)
    BY <2>1, BoardIs, EntryIs
  <2>4. Sound(name) /\ NoWorse(name, aggregates[e.key][name], aggregates[f.key][name])
    BY <2>1
  <2> HIDE DEF field
  <2> QED
    BY <1>1, <2>1, <2>2, <2>3, <2>4, NormalizeMonotone
<1>6. CASE U = {}
  BY <1>1, <1>3, <1>6 DEF Composite
<1>7. CASE U # {}
  <2> HIDE DEF U
  <2>1. U = Usable(config, e.normalized)
    BY DEF U
  <2>2. /\ IsFraction(e.composite) /\ IsFraction(f.composite)
        /\ AtMost(f.composite, e.composite)
    BY <1>1, <1>3, <1>4, <1>5, <1>7, <2>1, CompositeMonotone
  <2> QED
    BY <2>2, NoneIsNoFraction
<1> QED
  BY <1>6, <1>7

LEMMA BetterHolds == BoardInv => BetterIsNotBehind
<1> SUFFICES ASSUME BoardInv, \A name \in Weighted : Sound(name), NEW e \in board, NEW f \in board,
                    \A name \in Weighted :
                       NoWorse(name, aggregates[e.key][name], aggregates[f.key][name])
             PROVE  /\ AtMost(OrMinusOne(f.composite), OrMinusOne(e.composite))
                    /\ config.tie_breaker = "accuracy"
                         /\ Below(OrMinusOne(f.breaker), OrMinusOne(e.breaker))
                       => Ahead(e, f)
  BY DEF BetterIsNotBehind
<1>1. IsFraction(<<-1, 1>>)
  BY Whole
<1>2. CASE e.composite = None /\ f.composite = None
  <2>1. AtMost(<<-1, 1>>, <<-1, 1>>)
    BY <1>1, FractionIsQuotient, Order
  <2> QED
    BY <1>2, <2>1 DEF OrMinusOne, Ahead
<1>3. CASE /\ IsFraction(e.composite) /\ IsFraction(f.composite)
           /\ e.composite # None /\ f.composite # None
           /\ AtMost(f.composite, e.composite)
  <2>1. OrMinusOne(e.composite) = e.composite /\ OrMinusOne(f.composite) = f.composite
    BY <1>3 DEF OrMinusOne
  <2>2. e.composite \in Quotients /\ f.composite \in Quotients
    BY <1>3, FractionIsQuotient
  <2>3. Below(f.composite, e.composite) \/ AtMost(e.composite, f.composite)
    BY <2>2, Order
  <2>4. AtMost(e.composite, f.composite) => f.composite = e.composite
    BY <1>3, <2>2, Order
  <2> QED
    BY <1>3, <2>1, <2>3, <2>4 DEF Ahead
<1> QED
  BY <1>2, <1>3, NoLowerComposite

\* For every config and all results, a model without an answer, or behind a gate
\* of _check_constraints, does not change what build_leaderboard gives the others.
THEOREM OutsidersInvariance == Spec => []OutsidersDoNotMatter
<1> QED
  BY BoardInvariance, OutsidersHold, PTL

\* For every config and all results, _composite lies between the worst and the
\* best of the shares that could be measured: a metric that is missing is no zero.
THEOREM GapsInvariance == Spec => []GapsAreNotPunished
<1> QED
  BY BoardInvariance, GapsHold, PTL

\* For every config whose metrics are all scaled the right way round, and all
\* results, a model that is at least as good in every metric that counts has no
\* lower composite, and _rank puts it first if it wins the tie.
THEOREM BetterInvariance == Spec => []BetterIsNotBehind
<1> QED
  BY BoardInvariance, BetterHolds, PTL

-----------------------------------------------------------------------------
(* One more call that failed *)

\* bag with one more of a row that failed.
OneMoreFailed(bag, more, r) ==
    /\ bag \in [Rows -> Nat] /\ r \in Rows /\ ~r.ok
    /\ more = [bag EXCEPT ![r] = @ + 1]

LEMMA FailedCounts ==
  ASSUME NEW bag, NEW more, NEW r, OneMoreFailed(bag, more, r)
  PROVE  /\ more \in [Rows -> Nat]
         /\ Completed(more) = Completed(bag)
         /\ \A q \in Completed(bag) : more[q] = bag[q]
         /\ \A S \in SUBSET Completed(bag) : Number(more, S) = Number(bag, S)
         /\ Attempted(more) = Attempted(bag) + 1
<1>1. bag \in [Rows -> Nat] /\ r \in Rows /\ ~r.ok /\ more = [bag EXCEPT ![r] = @ + 1]
  BY DEF OneMoreFailed
<1>2. more \in [Rows -> Nat]
  BY <1>1
<1>3. \A q \in Rows : q.ok => more[q] = bag[q]
  BY <1>1
<1>4. Completed(more) = Completed(bag) /\ \A q \in Completed(bag) : more[q] = bag[q]
  BY <1>3 DEF Completed
<1>5. ASSUME NEW S \in SUBSET Completed(bag) PROVE Number(more, S) = Number(bag, S)
  <2>1. IsFiniteSet(S) /\ \A q \in S : more[q] \in Nat /\ more[q] = bag[q]
    <3>1. S \in SUBSET Rows
      BY DEF Completed
    <3> QED
      BY <1>2, <1>4, <3>1, FiniteRows
  <2> QED
    BY <2>1, SumSame DEF Number
<1>6. Attempted(more) = Attempted(bag) + 1
  <2>1. IsFiniteSet(Rows) /\ \A q \in Rows : bag[q] \in Nat /\ more[q] \in Nat
    BY <1>1, <1>2, LeaderboardAssumption
  <2>2. \A q \in Rows : q # r => bag[q] = more[q]
    BY <1>1
  <2>3. SumFunctionOnSet(more, Rows) + bag[r] = SumFunctionOnSet(bag, Rows) + more[r]
    <3>1. r \in Rows
      BY <1>1
    <3> QED
      BY <2>1, <2>2, <3>1, SumChange
  <2>4. SumFunctionOnSet(more, Rows) \in Nat /\ SumFunctionOnSet(bag, Rows) \in Nat
    BY <2>1, SumType
  <2>5. more[r] = bag[r] + 1 /\ bag[r] \in Nat
    BY <1>1
  <2> QED
    BY <2>3, <2>4, <2>5 DEF Attempted, Number
<1> QED
  BY <1>2, <1>4, <1>5, <1>6

LEMMA SameMean ==
  ASSUME NEW bag, NEW more, NEW r, OneMoreFailed(bag, more, r), NEW S \in SUBSET Completed(bag), NEW field
  PROVE  MeanOf(more, S, field) = MeanOf(bag, S, field)
<1>1. Number(more, S) = Number(bag, S) /\ \A q \in S : more[q] = bag[q]
  BY FailedCounts
<1>2. [q \in S |-> more[q] * q[field]] = [q \in S |-> bag[q] * q[field]]
  BY <1>1
<1> QED
  BY <1>1, <1>2 DEF MeanOf

\* It changes one metric.
LEMMA OtherMetrics ==
  ASSUME NEW bag, NEW more, NEW r, OneMoreFailed(bag, more, r),
         NEW name \in Metric, name # "reliability"
  PROVE  Aggregate(more)[name] = Aggregate(bag)[name]
<1>1. /\ Completed(more) = Completed(bag)
      /\ \A q \in Completed(bag) : more[q] = bag[q]
      /\ \A S \in SUBSET Completed(bag) : Number(more, S) = Number(bag, S)
  BY FailedCounts
<1>2. Timed(more) = Timed(bag) /\ Timed(bag) \in SUBSET Completed(bag)
  BY <1>1 DEF Timed
<1>3. Accuracy(more) = Accuracy(bag)
  <2> DEFINE graded == {q \in Completed(bag) : q.score # None}
  <2>1. /\ [q \in graded |-> more[q] * q.weight] = [q \in graded |-> bag[q] * q.weight]
        /\ [q \in graded |-> more[q] * q.weight * q.score] = [q \in graded |-> bag[q] * q.weight * q.score]
    BY <1>1
  <2>2. {q \in Completed(more) : q.score # None} = graded
    BY <1>1
  <2> HIDE DEF graded
  <2> QED
    BY <2>1, <2>2 DEF Accuracy, graded
<1>4. Cost(more) = Cost(bag)
  <2>1. MeanOf(more, Completed(bag), "cost") = MeanOf(bag, Completed(bag), "cost")
    BY SameMean
  <2> QED
    BY <1>1, <2>1 DEF Cost
<1>5. MeanOf(more, Timed(more), "latency") = MeanOf(bag, Timed(bag), "latency")
  BY <1>2, SameMean
<1>6. \A k : Ordered(more, k) = Ordered(bag, k)
  <2> TAKE k
  <2>1. \A q : {s \in Timed(bag) : s.latency <= q.latency} \in SUBSET Completed(bag)
    BY <1>2
  <2>2. \A q : Number(more, {s \in Timed(bag) : s.latency <= q.latency})
             = Number(bag, {s \in Timed(bag) : s.latency <= q.latency})
    BY <1>1, <2>1
  <2>3. {q \in Timed(bag) : Number(more, {s \in Timed(bag) : s.latency <= q.latency}) > k}
      = {q \in Timed(bag) : Number(bag, {s \in Timed(bag) : s.latency <= q.latency}) > k}
    BY <2>2
  <2> QED
    BY <1>2, <2>3 DEF Ordered
<1>7. Percentile95(more) = Percentile95(bag)
  <2>1. Number(more, Timed(bag)) = Number(bag, Timed(bag))
    BY <1>1, <1>2
  <2> QED
    BY <1>2, <1>6, <2>1 DEF Percentile95
<1> QED
  BY <1>3, <1>4, <1>5, <1>7 DEF Aggregate, Metric

\* That one does not rise.
LEMMA ReliabilityFalls ==
  ASSUME NEW bag, NEW more, NEW r, OneMoreFailed(bag, more, r), Completed(bag) # {}
  PROVE  /\ Reliability(bag) # None /\ Reliability(more) # None
         /\ AtMost(Reliability(more), Reliability(bag))
<1>1. bag \in [Rows -> Nat]
  BY DEF OneMoreFailed
<1>2. PICK a \in Nat \ {0} : a = Attempted(bag)
  <2>1. PICK q \in Rows : bag[q] > 0
    BY DEF Completed
  <2> QED
    BY <1>1, <2>1, NumberPositive DEF Attempted
<1>3. PICK n \in Nat : n = Number(bag, Completed(bag))
  BY <1>1, NumberIs DEF Completed
<1>4. Attempted(more) = a + 1 /\ a + 1 \in Nat \ {0} /\ Number(more, Completed(more)) = n
  BY <1>2, <1>3, FailedCounts
<1>5. Reliability(bag) = Fraction(n, a) /\ Reliability(more) = Fraction(n, a + 1)
  BY <1>2, <1>3, <1>4 DEF Reliability
<1>6. /\ IsFraction(Fraction(n, a)) /\ Is(Fraction(n, a), n, a)
      /\ IsFraction(Fraction(n, a + 1)) /\ Is(Fraction(n, a + 1), n, a + 1)
  BY <1>4, FractionIs
<1>7. Fraction(n, a) \in Quotients /\ Fraction(n, a + 1) \in Quotients
  BY <1>6, FractionIsQuotient
<1>8. Is(Fraction(n, a), n * (a + 1), a * (a + 1)) /\ Is(Fraction(n, a + 1), n * a, (a + 1) * a)
  BY <1>4, <1>6, <1>7, Widened
<1>9. PICK u \in Int, v \in Int, d \in Nat \ {0} : u = n * (a + 1) /\ v = n * a /\ d = a * (a + 1) /\ d = (a + 1) * a /\ v <= u
  <2>1. n * (a + 1) = n * a + n /\ n * a \in Nat /\ a * (a + 1) = (a + 1) * a /\ a * (a + 1) \in Nat \ {0}
    OBVIOUS
  <2> QED
    BY <2>1
<1>10. AtMost(Fraction(n, a + 1), Fraction(n, a))
  BY <1>7, <1>8, <1>9, Compared
<1> QED
  BY <1>5, <1>6, <1>10, NoneIsNoFraction

\* A scale that begins higher up makes less of everything on it.
LEMMA ShorterScale ==
  ASSUME NEW y, IsFraction(y), NEW low, IsFraction(low), NEW later, IsFraction(later),
         NEW high, IsFraction(high), AtMost(low, later), AtMost(y, high), ~AtMost(high, later)
  PROVE  AtMost(Over(Minus(y, later), Minus(high, later)), Over(Minus(y, low), Minus(high, low)))
<1>1. PICK d \in Nat \ {0}, i \in Int, j \in Int, k \in Int, l \in Int :
         Is(y, i, d) /\ Is(low, j, d) /\ Is(later, k, d) /\ Is(high, l, d)
  BY FourOverOne
<1>2. y \in Quotients /\ low \in Quotients /\ later \in Quotients /\ high \in Quotients
  BY FractionIsQuotient
<1>3. j <= k /\ i <= l /\ ~(l <= k)
  BY <1>1, <1>2, Compared
<1>4. PICK yl \in Int, yk \in Int, m \in Nat \ {0}, n \in Nat \ {0}, p \in Nat, q \in Nat :
         yl = i - j /\ yk = i - k /\ m = l - j /\ n = l - k /\ p = k - j /\ q = l - i
  <2>1. i - j \in Int /\ i - k \in Int /\ l - j \in Nat \ {0} /\ l - k \in Nat \ {0} /\ k - j \in Nat /\ l - i \in Nat
    BY <1>3
  <2> QED
    BY <2>1
<1>5. /\ IsFraction(Minus(y, low)) /\ Is(Minus(y, low), yl, d)
      /\ IsFraction(Minus(y, later)) /\ Is(Minus(y, later), yk, d)
      /\ IsFraction(Minus(high, low)) /\ Is(Minus(high, low), m, d)
      /\ IsFraction(Minus(high, later)) /\ Is(Minus(high, later), n, d)
  BY <1>1, <1>2, <1>4, PlusIs
<1>6. /\ Minus(y, low) \in Quotients /\ Minus(y, later) \in Quotients
      /\ Minus(high, low) \in Quotients /\ Minus(high, later) \in Quotients
  BY <1>5, FractionIsQuotient
<1> DEFINE was == Over(Minus(y, low), Minus(high, low))
           is == Over(Minus(y, later), Minus(high, later))
<1>7. IsFraction(was) /\ Is(was, yl, m) /\ IsFraction(is) /\ Is(is, yk, n)
  BY <1>5, <1>6, OverIs
<1> HIDE DEF was, is
<1>8. was \in Quotients /\ is \in Quotients
  BY <1>7, FractionIsQuotient
<1>9. Is(was, yl * n, m * n) /\ Is(is, yk * m, n * m)
  BY <1>7, <1>8, Widened
<1>10. yk * m <= yl * n
  <2>1. yl = yk + p /\ m = n + p /\ n = yk * 0 + n /\ yk + q = n
    BY <1>4
  <2>2. yk * m = yk * n + yk * p /\ yl * n = yk * n + p * n
    BY <2>1
  <2>3. p * n = p * yk + p * q
    BY <2>1
  <2>4. p * q >= 0 /\ p * yk = yk * p
    OBVIOUS
  <2>5. yk * n \in Int /\ yk * p \in Int /\ p * q \in Int
    OBVIOUS
  <2> QED
    BY <2>2, <2>3, <2>4, <2>5
<1>11. m * n \in Nat \ {0} /\ n * m = m * n /\ yk * m \in Int /\ yl * n \in Int
  OBVIOUS
<1>12. AtMost(is, was)
  BY <1>8, <1>9, <1>10, <1>11, Compared
<1> QED
  BY <1>12 DEF is, was

\* The share of a metric that is better the higher it is does not rise when its
\* value falls, though the scale may change with it.
LEMMA NormalizeFallen ==
  ASSUME config \in Configs, NEW name \in Metric, Direction(config, name) = "max",
         NEW F, IsField(F), NEW x \in F, NEW G, IsField(G), NEW y \in G, AtMost(y, x),
         \A z \in F : z # x => z \in G,
         \A z \in G : z # y => z \in F
  PROVE  AtMost(Normalize(config, name, y, G), Normalize(config, name, x, F))
<1>1. /\ x # None /\ IsFraction(x) /\ y # None /\ IsFraction(y) /\ F # {} /\ G # {}
  BY DEF IsField, Value
<1>2. x \in Quotients /\ y \in Quotients /\ One \in Quotients /\ Zero \in Quotients
  BY <1>1, FractionIsQuotient, Constants
<1>3. Share(Normalize(config, name, y, G)) /\ Share(Normalize(config, name, x, F))
  BY NormalizeIs
<1> DEFINE mode == NormalizeMode(config, name)
<1>4. CASE mode = "raw" \/ mode = "target"
  <2> DEFINE both == {x} \cup {y}
  <2>1. IsField(both) /\ x \in both /\ y \in both
    <3>1. IsFiniteSet({x})
      BY FS_Singleton
    <3>2. IsFiniteSet(both)
      BY <3>1, FS_AddElement
    <3> QED
      BY <3>2 DEF IsField
  <2>2. Sound(name) /\ NoWorse(name, x, y)
    BY <1>1 DEF Sound, NoWorse
  <2> HIDE DEF both
  <2>3. AtMost(Normalize(config, name, y, both), Normalize(config, name, x, both))
    BY <2>1, <2>2, NormalizeMonotone
  <2>4. /\ Normalize(config, name, y, both) = Normalize(config, name, y, G)
        /\ Normalize(config, name, x, both) = Normalize(config, name, x, F)
    BY <1>4 DEF Normalize
  <2> QED
    BY <2>3, <2>4
<1>5. CASE mode # "raw" /\ mode # "target"
  <2> DEFINE low == Least(F)
             high == Greatest(F)
             later == Least(G)
             top == Greatest(G)
  <2>1. /\ low \in F /\ IsFraction(low) /\ \A z \in F : AtMost(low, z)
        /\ high \in F /\ IsFraction(high) /\ \A z \in F : AtMost(z, high)
        /\ AtMost(high, low) => low = high
    BY FieldEnds
  <2>2. /\ later \in G /\ IsFraction(later) /\ \A z \in G : AtMost(later, z)
        /\ top \in G /\ IsFraction(top) /\ \A z \in G : AtMost(z, top)
        /\ AtMost(top, later) => later = top
    BY FieldEnds
  <2>3. /\ Normalize(config, name, x, F) =
              IF low = high THEN One ELSE Clamp(Over(Minus(x, low), Minus(high, low)))
        /\ Normalize(config, name, y, G) =
              IF later = top THEN One ELSE Clamp(Over(Minus(y, later), Minus(top, later)))
    BY <1>1, <1>5 DEF Normalize
  <2> HIDE DEF low, high, later, top
  <2>4. low \in Quotients /\ high \in Quotients /\ later \in Quotients /\ top \in Quotients
    BY <2>1, <2>2, FractionIsQuotient
  <2>5. CASE low = high
    BY <1>3, <2>3, <2>5 DEF Share
  <2>6. CASE low # high /\ x = high
    <3>1. PICK d \in Nat \ {0}, i \in Int, j \in Int : Is(x, i, d) /\ Is(low, j, d)
      BY <1>1, <2>1, FourOverOne
    <3>2. ~(i <= j)
      BY <1>2, <2>1, <2>4, <2>6, <3>1, Compared
    <3>3. PICK m \in Nat \ {0} : m = i - j
      BY <3>2
    <3>4. IsFraction(Minus(x, low)) /\ Is(Minus(x, low), m, d)
      BY <1>2, <2>4, <3>1, <3>3, PlusIs
    <3>5. IsFraction(Over(Minus(x, low), Minus(x, low))) /\ Is(Over(Minus(x, low), Minus(x, low)), m, m)
      BY <3>4, FractionIsQuotient, OverIs
    <3>6. Over(Minus(x, low), Minus(x, low)) = One
      BY <3>5, Constants, SameFraction
    <3>7. Clamp(One) = One
      BY <1>2, Constants, ClampEnds, Order
    <3>8. Normalize(config, name, x, F) = One
      BY <2>3, <2>6, <3>6, <3>7
    <3> QED
      BY <1>3, <3>8 DEF Share
  <2>7. CASE low # high /\ x # high
    <3>1. high \in G /\ AtMost(x, high)
      BY <2>1, <2>7
    <3>2. AtMost(y, high) /\ ~AtMost(high, y)
      <4>1. AtMost(y, high)
        BY <1>2, <2>4, <3>1, Order
      <4>2. AtMost(high, y) => AtMost(high, x)
        BY <1>2, <2>4, Order
      <4>3. AtMost(high, x) => x = high
        BY <1>1, <1>2, <2>1, <2>4, <3>1, Order
      <4> QED
        BY <2>7, <4>1, <4>2, <4>3
    <3>3. top = high
      <4>1. AtMost(high, top) /\ (top = y \/ AtMost(top, high))
        BY <2>1, <2>2, <3>1
      <4>2. AtMost(top, high)
        BY <3>2, <4>1
      <4> QED
        BY <2>1, <2>2, <2>4, <4>1, <4>2, Order
    <3>4. AtMost(later, y) /\ ~AtMost(high, later)
      <4>1. AtMost(later, y)
        BY <2>2
      <4>2. AtMost(high, later) => AtMost(high, y)
        BY <1>2, <2>4, <4>1, Order
      <4> QED
        BY <3>2, <4>1, <4>2
    <3>5. later # top
      BY <2>4, <3>3, <3>4, Order
    <3>6. Normalize(config, name, y, G) = Clamp(Over(Minus(y, later), Minus(high, later)))
      BY <2>3, <3>3, <3>5
    <3>7. Normalize(config, name, x, F) = Clamp(Over(Minus(x, low), Minus(high, low)))
      BY <2>3, <2>7
    <3>8. ~AtMost(high, low)
      BY <2>1, <2>7
    <3>9. CASE later = y
      <4>1. PICK d \in Nat \ {0}, i \in Int, j \in Int : Is(high, i, d) /\ Is(y, j, d)
        BY <1>1, <2>1, FourOverOne
      <4>2. ~(i <= j)
        BY <1>2, <2>4, <3>2, <4>1, Compared
      <4>3. PICK m \in Nat \ {0} : m = i - j
        BY <4>2
      <4>4. 0 = j - j /\ 0 \in Int
        OBVIOUS
      <4>5. /\ IsFraction(Minus(high, y)) /\ Is(Minus(high, y), m, d)
            /\ IsFraction(Minus(y, y)) /\ Is(Minus(y, y), j - j, d)
        BY <1>2, <2>4, <4>1, <4>3, PlusIs
      <4>6. Is(Minus(y, y), 0, d)
        BY <4>4, <4>5
      <4>7. IsFraction(Over(Minus(y, y), Minus(high, y))) /\ Is(Over(Minus(y, y), Minus(high, y)), 0, m)
        BY <4>4, <4>5, <4>6, FractionIsQuotient, OverIs
      <4>8. Over(Minus(y, y), Minus(high, y)) = Zero
        BY <4>4, <4>7, Constants, SameFraction
      <4>9. Clamp(Zero) = Zero
        BY <1>2, Constants, ClampEnds, Order
      <4> QED
        BY <1>3, <3>6, <3>9, <4>8, <4>9 DEF Share
    <3>10. CASE later # y
      <4>1. AtMost(low, later)
        BY <2>1, <2>2, <3>10
      <4>2. AtMost(Over(Minus(y, later), Minus(high, later)), Over(Minus(y, low), Minus(high, low)))
        BY <1>1, <2>1, <2>2, <3>2, <3>4, <4>1, ShorterScale
      <4>3. /\ AtMost(Over(Minus(y, low), Minus(high, low)), Over(Minus(x, low), Minus(high, low)))
            /\ IsFraction(Over(Minus(y, low), Minus(high, low)))
        BY <1>1, <2>1, <3>8, OnScale
      <4>4. AtMost(x, x) /\ AtMost(y, y)
        BY <1>2, Order
      <4>5. /\ IsFraction(Over(Minus(x, low), Minus(high, low)))
            /\ IsFraction(Over(Minus(y, later), Minus(high, later)))
        BY <1>1, <2>1, <2>2, <3>4, <3>8, <4>4, OnScale
      <4>6. AtMost(Over(Minus(y, later), Minus(high, later)), Over(Minus(x, low), Minus(high, low)))
        BY <4>2, <4>3, <4>5, FractionIsQuotient, Order
      <4> QED
        BY <3>6, <3>7, <4>5, <4>6, ClampMonotone
    <3> QED
      BY <3>9, <3>10
  <2> QED
    BY <2>5, <2>6, <2>7
<1> QED
  BY <1>4, <1>5

LEMMA FailureHolds ==
  ASSUME BoardInv, BoardInv', [Next]_vars,
         \A name \in Weighted : Sound(name), Direction(config, "reliability") = "max",
         NEW e \in board, NEW f \in board', e.key = f.key,
         Attempted(results'[e.key]) > Attempted(results[e.key]),
         \A r \in Rows : r.ok => results'[e.key][r] = results[e.key][r]
  PROVE  AtMost(OrMinusOne(f.composite), OrMinusOne(e.composite))
<1> DEFINE x == e.key
<1>1. /\ config \in Configs /\ Aggregated(aggregates, Ranked)
      /\ board = BuildLeaderboard(config, aggregates, Ranked)
  BY BoardIs
<1>2. x \in Ranked /\ x \in Models
  BY <1>1, EntryIs DEF Ranked
<1>3. results \in [Models -> [Rows -> Nat]] /\ results' \in [Models -> [Rows -> Nat]]
  BY DEF BoardInv
<1>4. Attempted(results[x]) \in Nat /\ Attempted(results'[x]) \in Nat
  <2>1. results[x] \in [Rows -> Nat] /\ results'[x] \in [Rows -> Nat]
    BY <1>2, <1>3
  <2> QED
    BY <2>1, NumberIs DEF Attempted
<1>5. results'[x] # results[x]
  BY <1>4
<1>6. Record(x)
  <2>1. PICK m \in Models : Record(m)
    BY <1>5 DEF Next, vars
  <2>2. CASE m # x
    <3>1. PICK r \in Rows : results' = [results EXCEPT ![m][r] = @ + 1]
      BY <2>1, RecordIs
    <3>2. results'[x] = results[x]
      BY <1>2, <1>3, <2>2, <3>1
    <3> QED
      BY <1>5, <3>2
  <2> QED
    BY <2>1, <2>2
<1>7. /\ config' = config
      /\ aggregates' = [aggregates EXCEPT ![x] = Aggregate(results'[x])]
      /\ status' = [status EXCEPT ![x] = Status(config, card[x], results'[x], aggregates'[x])]
      /\ board' = BuildLeaderboard(config, aggregates', Ranked')
  BY <1>2, <1>6, RecordIs
<1>8. PICK r \in Rows : results' = [results EXCEPT ![x][r] = @ + 1]
  BY <1>2, <1>6, RecordIs
<1>9. OneMoreFailed(results[x], results'[x], r)
  <2>1. results[x] \in [Rows -> Nat] /\ results'[x] = [results[x] EXCEPT ![r] = @ + 1]
    BY <1>2, <1>3, <1>8
  <2>2. results'[x][r] # results[x][r]
    <3>1. results[x][r] \in Nat /\ results'[x][r] = results[x][r] + 1
      BY <2>1
    <3> QED
      BY <3>1
  <2>3. ~r.ok
    BY <2>2
  <2> QED
    BY <2>1, <2>3 DEF OneMoreFailed
<1>10. aggregates[x] = Aggregate(results[x]) /\ aggregates'[x] = Aggregate(results'[x])
  BY <1>2, <1>7 DEF BoardInv
<1>11. \A m \in Models : m # x => aggregates'[m] = aggregates[m] /\ status'[m] = status[m]
  BY <1>7 DEF BoardInv
<1>12. \A name \in Metric : name # "reliability" => aggregates'[x][name] = aggregates[x][name]
  BY <1>9, <1>10, OtherMetrics
<1>13. Ranked' \in SUBSET Models /\ Aggregated(aggregates', Ranked')
  <2>1. Ranked' \in SUBSET Models
    BY DEF Ranked
  <2>2. aggregates' = [m \in Models |-> Aggregate(results'[m])]
    BY DEF BoardInv
  <2> QED
    BY <1>3, <2>1, <2>2, AggregatedIs
<1>14. f \in BuildLeaderboard(config, aggregates', Ranked')
  BY <1>7
<1>15. x \in Ranked'
  BY <1>1, <1>13, <1>14, EntryIs
<1>16. Ranked' = Ranked
  BY <1>2, <1>11, <1>15 DEF Ranked
<1>17. /\ Aggregated(aggregates', Ranked) /\ f \in BuildLeaderboard(config, aggregates', Ranked)
  BY <1>13, <1>14, <1>16
<1>18. /\ aggregates[x]["reliability"] # None /\ aggregates'[x]["reliability"] # None
       /\ AtMost(aggregates'[x]["reliability"], aggregates[x]["reliability"])
  <2>1. Completed(results[x]) # {}
    <3>1. Status(config, card[x], results[x], aggregates[x]) = "ranked"
      BY <1>2 DEF BoardInv, Ranked
    <3> QED
      BY <3>1 DEF Status
  <2>2. /\ aggregates[x]["reliability"] = Reliability(results[x])
        /\ aggregates'[x]["reliability"] = Reliability(results'[x])
    BY <1>10 DEF Aggregate
  <2> QED
    BY <1>9, <2>1, <2>2, ReliabilityFalls
<1>19. \A name \in Metric : aggregates'[x][name] = None <=> aggregates[x][name] = None
  BY <1>12, <1>18
<1> DEFINE U == Usable(config, e.normalized)
<1>20. /\ U = {name \in Metric : config.weights[name] > 0 /\ aggregates[x][name] # None}
       /\ \A name \in U : Share(e.normalized[name])
  BY <1>1, UsableIs
<1>21. /\ Usable(config, f.normalized) = {name \in Metric : config.weights[name] > 0 /\ aggregates'[x][name] # None}
       /\ \A name \in Usable(config, f.normalized) : Share(f.normalized[name])
  BY <1>1, <1>17, UsableIs
<1>22. U = Usable(config, f.normalized)
  BY <1>19, <1>20, <1>21
<1>23. ASSUME NEW name \in U PROVE AtMost(f.normalized[name], e.normalized[name])
  <2> DEFINE F == MetricRange(aggregates, Ranked, name)
             G == MetricRange(aggregates', Ranked, name)
  <2>1. name \in Metric /\ aggregates[x][name] # None /\ aggregates'[x][name] # None
    BY <1>19, <1>20
  <2>2. IsField(F) /\ aggregates[x][name] \in F
    BY <1>1, <1>2, <2>1, FieldIs
  <2>3. IsField(G) /\ aggregates'[x][name] \in G
    BY <1>2, <1>17, <2>1, FieldIs
  <2>4. e.normalized[name] = Normalize(config, name, aggregates[x][name], F)
    BY <1>1, <2>1, EntryIs
  <2>5. f.normalized[name] = Normalize(config, name, aggregates'[x][name], G)
    BY <1>1, <1>17, <2>1, EntryIs
  <2>6. CASE name # "reliability"
    <3>1. \A m \in Ranked : aggregates'[m][name] = aggregates[m][name]
      BY <1>11, <1>12, <2>1, <2>6 DEF Ranked
    <3>2. F = G
      BY <3>1 DEF MetricRange
    <3>3. f.normalized[name] = e.normalized[name]
      BY <1>2, <2>4, <2>5, <3>1, <3>2
    <3>4. e.normalized[name] \in Quotients
      BY <1>20, FractionIsQuotient DEF Share
    <3> QED
      BY <3>3, <3>4, Order
  <2>7. CASE name = "reliability"
    <3>1. \A z \in F : z # aggregates[x][name] => z \in G
      BY <1>11 DEF MetricRange, Ranked
    <3>2. \A z \in G : z # aggregates'[x][name] => z \in F
      BY <1>11 DEF MetricRange, Ranked
    <3>3. Direction(config, name) = "max" /\ AtMost(aggregates'[x][name], aggregates[x][name])
      BY <1>18, <2>7
    <3> HIDE DEF F, G
    <3> QED
      BY <1>1, <2>1, <2>2, <2>3, <2>4, <2>5, <3>1, <3>2, <3>3, NormalizeFallen
  <2> QED
    BY <2>6, <2>7
<1>24. e.composite = Composite(config, e.normalized) /\ f.composite = Composite(config, f.normalized)
  BY <1>1, <1>17, EntryIs
<1>25. CASE U = {}
  <2>1. e.composite = None /\ f.composite = None
    BY <1>22, <1>24, <1>25 DEF Composite
  <2>2. AtMost(<<-1, 1>>, <<-1, 1>>)
    BY Whole, FractionIsQuotient, Order
  <2> QED
    BY <2>1, <2>2 DEF OrMinusOne
<1>26. CASE U # {}
  <2>1. \A name \in U : Share(e.normalized[name]) /\ Share(f.normalized[name])
    BY <1>20, <1>21, <1>22
  <2>2. U = Usable(config, e.normalized)
    OBVIOUS
  <2> HIDE DEF U
  <2>3. /\ IsFraction(e.composite) /\ IsFraction(f.composite)
        /\ AtMost(f.composite, e.composite)
    BY <1>1, <1>22, <1>23, <1>24, <1>26, <2>1, <2>2, CompositeMonotone
  <2> QED
    BY <2>3, NoneIsNoFraction DEF OrMinusOne
<1> QED
  BY <1>25, <1>26

\* For every config whose metrics are all scaled the right way round, one call
\* more that failed never raises a model's own composite, though it may move the
\* lower end of the scale its reliability is put on.
THEOREM FailureInvariance == Spec => FailuresDoNotHelp
<1>1. BoardInv /\ BoardInv' /\ [Next]_vars =>
        [(\A name \in Weighted : Sound(name)) /\ Direction(config, "reliability") = "max" =>
         \A e \in board, f \in board' :
            /\ e.key = f.key
            /\ Attempted(results'[e.key]) > Attempted(results[e.key])
            /\ \A r \in Rows : r.ok => results'[e.key][r] = results[e.key][r]
            => AtMost(OrMinusOne(f.composite), OrMinusOne(e.composite))]_vars
  BY FailureHolds
<1> QED
  BY <1>1, BoardInvariance, PTL DEF Spec, FailuresDoNotHelp
=============================================================================
