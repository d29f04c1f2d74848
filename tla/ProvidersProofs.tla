---------------------------- MODULE ProvidersProofs ----------------------------
(***************************************************************************)
(* Proofs about the decisions, the prices and the model calls.             *)
(*                                                                         *)
(* The first half is arithmetic: fractions, however they are written,      *)
(* compare and combine as the rationals they stand for, folds over finite  *)
(* sets are defined and typed, and so are the operators of risk/ that use  *)
(* them.  On it rest the limits of an entry, the stops of a holding, the   *)
(* price of a purchase and what an outage may do to it.  Then come the     *)
(* ledger of the model calls, and how a rebalance settles.                 *)
(***************************************************************************)
EXTENDS MCProviders, FiniteSetTheorems, TLAPS

-----------------------------------------------------------------------------
(* Fractions.                                                              *)

\* The least-number principle, for a set of numbers.
LEMMA LeastNumber ==
  ASSUME NEW T \in SUBSET Nat, T # {}
  PROVE  \E m \in T : \A n \in T : m <= n
<1>1. \E m \in T : \A n \in T : <<n, m>> \notin OpToRel(<, Nat)
  BY NatLessThanWellFounded, WFMin
<1>2. PICK m \in T : \A n \in T : <<n, m>> \notin OpToRel(<, Nat)
  BY <1>1
<1>3. ASSUME NEW n \in T, n < m PROVE <<n, m>> \in OpToRel(<, Nat)
  BY <1>3 DEF OpToRel
<1>4. ASSUME NEW n \in T PROVE m <= n
  <2>1. n \in Nat /\ m \in Nat /\ ~(n < m)
    BY <1>2, <1>3
  <2>2. QED
    BY <2>1
<1>5. QED
  BY <1>4

\* The next pair of Euclid's algorithm.
Rest(pair) == <<pair[2], pair[1] % pair[2]>>
EuclidFrom(g, pair) == IF pair[2] = 0 THEN pair[1] ELSE g[Rest(pair)]
\* g does what Euclid's algorithm does on every pair whose second number is at most n.
EuclidUpto(g, n) == \A pair \in Nat \X Nat : pair[2] <= n => g[pair] = EuclidFrom(g, pair)

\* Quotient and remainder make the number again.
LEMMA Division ==
  ASSUME NEW x \in Nat, NEW y \in Nat \ {0}
  PROVE  x \div y \in Int /\ x = y * (x \div y) + (x % y)
  OBVIOUS

\* A step of Euclid leaves a smaller pair.
LEMMA RestIsSmaller ==
  ASSUME NEW pair \in Nat \X Nat, pair[2] # 0
  PROVE  Rest(pair) \in Nat \X Nat /\ Rest(pair)[2] < pair[2]
  BY DEF Rest

\* Euclid's recursion has one solution.
LEMMA EuclidSame ==
  ASSUME NEW n \in Nat, NEW g, NEW h, EuclidUpto(g, n), EuclidUpto(h, n),
         NEW pair \in Nat \X Nat, pair[2] <= n
  PROVE  g[pair] = h[pair]
<1> DEFINE Bad == {k \in Nat : \E p \in Nat \X Nat : p[2] = k /\ k <= n /\ g[p] # h[p]}
<1>1. SUFFICES ASSUME Bad # {} PROVE FALSE
  <2>1. pair[2] \in Nat
    OBVIOUS
  <2>2. QED
    BY <2>1
<1>2. PICK k \in Bad : \A m \in Bad : k <= m
  BY <1>1, LeastNumber
<1>3. PICK p \in Nat \X Nat : p[2] = k /\ k <= n /\ g[p] # h[p]
  BY <1>2
<1>4. g[p] = EuclidFrom(g, p) /\ h[p] = EuclidFrom(h, p)
  BY <1>3 DEF EuclidUpto
<1>5. p[2] # 0
  BY <1>3, <1>4 DEF EuclidFrom
<1>6. PICK q : q = Rest(p)
  OBVIOUS
<1>7. q \in Nat \X Nat /\ q[2] < p[2]
  BY <1>5, <1>6, RestIsSmaller
<1>8. g[q] # h[q]
  BY <1>3, <1>4, <1>5, <1>6 DEF EuclidFrom
<1>9. q[2] \in Nat /\ q[2] <= n /\ ~(k <= q[2])
  BY <1>3, <1>7
<1>10. q[2] \in Bad
  BY <1>7, <1>8, <1>9
<1>11. QED
  BY <1>2, <1>9, <1>10

\* Euclid's recursion has a solution up to any bound.
LEMMA EuclidExists ==
  ASSUME NEW n \in Nat
  PROVE  \E g : EuclidUpto(g, n)
<1> DEFINE Bad == {k \in Nat : ~ \E g : EuclidUpto(g, k)}
<1>1. \E g : EuclidUpto(g, 0)
  <2> DEFINE g == [pair \in Nat \X Nat |-> pair[1]]
  <2>1. ASSUME NEW pair \in Nat \X Nat, pair[2] <= 0 PROVE g[pair] = EuclidFrom(g, pair)
    <3>1. pair[2] = 0
      BY <2>1
    <3>2. QED
      BY <3>1 DEF EuclidFrom
  <2>2. QED
    BY <2>1 DEF EuclidUpto
<1>2. ASSUME NEW k \in Nat, NEW g, EuclidUpto(g, k)
      PROVE  \E h : EuclidUpto(h, k + 1)
  <2> DEFINE h == [pair \in Nat \X Nat |-> IF pair[2] <= k THEN g[pair] ELSE EuclidFrom(g, pair)]
  <2>1. ASSUME NEW pair \in Nat \X Nat, pair[2] <= k + 1
        PROVE  h[pair] = EuclidFrom(h, pair)
    <3>1. h[pair] = EuclidFrom(g, pair)
      BY <1>2 DEF EuclidUpto
    <3>2. CASE pair[2] = 0
      BY <3>1, <3>2 DEF EuclidFrom
    <3>3. CASE pair[2] # 0
      <4>1. PICK q : q = Rest(pair)
        OBVIOUS
      <4>2. q \in Nat \X Nat /\ q[2] < pair[2]
        BY <3>3, <4>1, RestIsSmaller
      <4>3. q[2] <= k
        BY <2>1, <4>2
      <4>4. h[q] = g[q]
        BY <4>2, <4>3
      <4>5. QED
        BY <3>1, <3>3, <4>1, <4>4 DEF EuclidFrom
    <3>4. QED
      BY <3>2, <3>3
  <2>2. EuclidUpto(h, k + 1)
    <3> HIDE DEF h
    <3>1. QED
      BY <2>1 DEF EuclidUpto
  <2>3. QED
    BY <2>2
<1>3. Bad = {}
  <2>1. SUFFICES ASSUME Bad # {} PROVE FALSE
    OBVIOUS
  <2>2. PICK m \in Bad : \A k \in Bad : m <= k
    BY <2>1, LeastNumber
  <2>3. m \in Nat /\ m # 0
    BY <1>1, <2>2
  <2>4. m - 1 \in Nat /\ m - 1 \notin Bad
    <3>1. m - 1 \in Nat /\ ~(m <= m - 1)
      BY <2>3
    <3>2. QED
      BY <2>2, <3>1
  <2>5. PICK g : EuclidUpto(g, m - 1)
    BY <2>4
  <2>6. \E h : EuclidUpto(h, (m - 1) + 1)
    BY <1>2, <2>4, <2>5
  <2>7. (m - 1) + 1 = m
    BY <2>3
  <2>8. QED
    BY <2>2, <2>6, <2>7
<1>4. QED
  BY <1>3

\* The divisor of Decimals is the solution for every pair.
LEMMA GcdRecurs == \A pair \in Nat \X Nat : gcd[pair] = EuclidFrom(gcd, pair)
<1> DEFINE G(n) == CHOOSE g : EuclidUpto(g, n)
           f == [pair \in Nat \X Nat |-> G(pair[2])[pair]]
<1>1. ASSUME NEW n \in Nat PROVE EuclidUpto(G(n), n)
  BY EuclidExists
<1> HIDE DEF G
<1>2. ASSUME NEW pair \in Nat \X Nat PROVE f[pair] = EuclidFrom(f, pair)
  <2>1. pair[2] \in Nat
    OBVIOUS
  <2>2. f[pair] = EuclidFrom(G(pair[2]), pair)
    BY <1>1, <2>1 DEF EuclidUpto
  <2>3. CASE pair[2] = 0
    BY <2>2, <2>3 DEF EuclidFrom
  <2>4. CASE pair[2] # 0
    <3>1. PICK q : q = Rest(pair)
      OBVIOUS
    <3>2. q \in Nat \X Nat /\ q[2] < pair[2] /\ q[2] \in Nat
      BY <2>4, <3>1, RestIsSmaller
    <3>3. EuclidUpto(G(pair[2]), q[2]) /\ EuclidUpto(G(q[2]), q[2])
      BY <1>1, <2>1, <3>2 DEF EuclidUpto
    <3>4. G(pair[2])[q] = G(q[2])[q]
      BY <3>2, <3>3, EuclidSame
    <3>5. f[q] = G(q[2])[q]
      BY <3>2
    <3>6. QED
      BY <2>2, <2>4, <3>1, <3>4, <3>5 DEF EuclidFrom
  <2>5. QED
    BY <2>3, <2>4
<1> HIDE DEF f
<1>3. f = [pair \in Nat \X Nat |->
             IF pair[2] = 0 THEN pair[1] ELSE f[<<pair[2], pair[1] % pair[2]>>]]
  <2>1. f = [pair \in Nat \X Nat |-> f[pair]]
    BY DEF f
  <2>2. QED
    BY <1>2, <2>1 DEF EuclidFrom, Rest
<1>4. gcd = [pair \in Nat \X Nat |->
             IF pair[2] = 0 THEN pair[1] ELSE gcd[<<pair[2], pair[1] % pair[2]>>]]
  BY <1>3, Zenon DEF gcd
<1>5. QED
  BY <1>4 DEF EuclidFrom, Rest

\* What Euclid's algorithm finds divides both numbers.
LEMMA GcdDivides ==
  ASSUME NEW pair \in Nat \X Nat, pair[1] # 0 \/ pair[2] # 0
  PROVE  /\ gcd[pair] \in Nat \ {0}
         /\ \E k \in Int : pair[1] = gcd[pair] * k
         /\ \E k \in Int : pair[2] = gcd[pair] * k
<1> DEFINE Good(p) == /\ gcd[p] \in Nat \ {0}
                      /\ \E k \in Int : p[1] = gcd[p] * k
                      /\ \E k \in Int : p[2] = gcd[p] * k
           Bad == {n \in Nat : \E p \in Nat \X Nat :
                       p[2] = n /\ (p[1] # 0 \/ p[2] # 0) /\ ~Good(p)}
<1>1. SUFFICES ASSUME Bad # {} PROVE FALSE
  <2>1. pair[2] \in Nat
    OBVIOUS
  <2>2. QED
    BY <2>1
<1>2. PICK n \in Bad : \A m \in Bad : n <= m
  BY <1>1, LeastNumber
<1>3. PICK p \in Nat \X Nat : p[2] = n /\ (p[1] # 0 \/ p[2] # 0) /\ ~Good(p)
  BY <1>2
<1>4. gcd[p] = EuclidFrom(gcd, p)
  BY GcdRecurs
<1>5. CASE p[2] = 0
  <2>1. gcd[p] = p[1] /\ p[1] \in Nat \ {0}
    BY <1>3, <1>4, <1>5 DEF EuclidFrom
  <2>2. p[1] = gcd[p] * 1 /\ p[2] = gcd[p] * 0
    BY <1>5, <2>1
  <2>3. QED
    BY <1>3, <2>1, <2>2
<1>6. CASE p[2] # 0
  <2>1. PICK q : q = Rest(p)
    OBVIOUS
  <2>2. q \in Nat \X Nat /\ q[2] < p[2] /\ q[2] \in Nat /\ q[1] = p[2] /\ q[2] = p[1] % p[2]
    BY <1>6, <2>1, RestIsSmaller DEF Rest
  <2>3. Good(q)
    <3>1. ~(n <= q[2])
      BY <1>3, <2>2
    <3>2. q[2] \notin Bad
      BY <1>2, <3>1
    <3>3. QED
      BY <1>6, <2>2, <3>2
  <2>4. gcd[p] = gcd[q]
    BY <1>4, <1>6, <2>1 DEF EuclidFrom
  <2>5. PICK g : g = gcd[q]
    OBVIOUS
  <2>6. g \in Nat \ {0} /\ (\E k \in Int : q[1] = g * k) /\ (\E k \in Int : q[2] = g * k)
    BY <2>3, <2>5
  <2>7. PICK a \in Int, b \in Int : p[2] = g * a /\ p[1] % p[2] = g * b
    BY <2>2, <2>6
  <2>8. PICK c : c = p[1] \div p[2]
    OBVIOUS
  <2>9. c \in Int /\ p[1] = p[2] * c + (p[1] % p[2])
    <3>1. p[1] \in Nat /\ p[2] \in Nat \ {0}
      BY <1>6
    <3>2. QED
      BY <2>8, <3>1, Division
  <2>10. p[1] = g * (a * c + b)
    <3>1. p[1] = (g * a) * c + g * b
      BY <2>7, <2>9
    <3>2. (g * a) * c + g * b = g * (a * c + b)
      BY <2>6, <2>7, <2>9
    <3>3. QED
      BY <3>1, <3>2
  <2>11. a * c + b \in Int
    BY <2>7, <2>9
  <2>12. Good(p)
    BY <2>4, <2>5, <2>6, <2>7, <2>10, <2>11
  <2>13. QED
    BY <1>3, <2>12
<1>7. QED
  BY <1>5, <1>6

\* What was multiplied can be divided away.
LEMMA Cancel ==
  ASSUME NEW g \in Nat \ {0}, NEW k \in Int
  PROVE  (g * k) \div g = k
  OBVIOUS

\* Lowest terms are the same fraction.
LEMMA LowestIs ==
  ASSUME NEW n \in Int, NEW d \in Nat \ {0}
  PROVE  /\ Lowest(n, d) \in Fraction
         /\ Lowest(n, d)[1] * d = n * Lowest(n, d)[2]
<1> DEFINE pair == <<d, n % d>>
<1>1. pair \in Nat \X Nat /\ pair[1] = d /\ pair[2] = n % d /\ n % d \in Nat
  OBVIOUS
<1>2. PICK g : g = gcd[pair]
  OBVIOUS
<1>3. /\ g \in Nat \ {0} /\ (\E k \in Int : d = g * k) /\ (\E k \in Int : n % d = g * k)
  <2> HIDE DEF pair
  <2>1. QED
    BY <1>1, <1>2, GcdDivides
<1>4. PICK a \in Int, b \in Int : d = g * a /\ n % d = g * b
  BY <1>3
<1>5. PICK c : c = n \div d
  OBVIOUS
<1>6. c \in Int /\ n = d * c + (n % d)
  BY <1>5
<1>7. PICK m \in Int : n = g * m
  <2>1. n = (g * a) * c + g * b
    BY <1>4, <1>6
  <2>2. (g * a) * c + g * b = g * (a * c + b) /\ a * c + b \in Int
    BY <1>3, <1>4, <1>6
  <2>3. QED
    BY <2>1, <2>2
<1>8. n \div g = m /\ d \div g = a
  BY <1>3, <1>4, <1>7, Cancel
<1>9. Lowest(n, d) = <<m, a>>
  BY <1>2, <1>8 DEF Lowest
<1>10. a > 0
  <2>1. g * a > 0 /\ g > 0
    BY <1>3, <1>4
  <2>2. QED
    BY <1>4, <2>1, <1>3
<1>11. m * d = n * a
  <2>1. m * (g * a) = (g * m) * a
    BY <1>3, <1>4, <1>7
  <2>2. QED
    BY <1>4, <1>7, <2>1
<1>12. QED
  BY <1>4, <1>7, <1>9, <1>10, <1>11 DEF Fraction

\* x is the fraction n / d.
Is(x, n, d) == x \in Fraction /\ n \in Int /\ d \in Nat \ {0} /\ x[1] * d = n * x[2]

\* A fraction is its two numbers.
LEMMA FractionParts ==
  ASSUME NEW x \in Fraction
  PROVE  /\ x[1] \in Int /\ x[2] \in Nat \ {0} /\ x = <<x[1], x[2]>>
         /\ Is(x, x[1], x[2])
  BY DEF Fraction, Is

\* A positive factor on both sides changes no comparison.
LEMMA Cancels ==
  \A k \in Nat \ {0} : \A x, y \in Int : (x <= y <=> x * k <= y * k) /\ (x = y <=> x * k = y * k)
  OBVIOUS

\* Cancels, for one inequality.
LEMMA CancelLeq ==
  ASSUME NEW x \in Int, NEW y \in Int, NEW k \in Nat \ {0}
  PROVE  x <= y <=> x * k <= y * k
  BY Cancels

\* Cancels, for one equation.
LEMMA CancelEq ==
  ASSUME NEW x \in Int, NEW y \in Int, NEW k \in Nat \ {0}
  PROVE  x = y <=> x * k = y * k
  BY Cancels

\* Four factors in another order.
LEMMA Swap ==
  ASSUME NEW a \in Int, NEW b \in Int, NEW c \in Int, NEW d \in Int
  PROVE  /\ (a * b) * (c * d) = (a * c) * (b * d)
         /\ (a * b) * (c * d) = (a * d) * (c * b)
  OBVIOUS

\* Denominators multiply to a denominator.
LEMMA ProductPositive ==
  ASSUME NEW a \in Nat \ {0}, NEW b \in Nat \ {0}
  PROVE  a * b \in Nat \ {0}
  OBVIOUS

\* Fractions compare by cross-multiplying any of their forms.
LEMMA LeqForms ==
  ASSUME NEW x, NEW n, NEW d, Is(x, n, d), NEW y, NEW m, NEW e, Is(y, m, e)
  PROVE  /\ Leq(x, y) <=> n * e <= m * d
         /\ Same(x, y) <=> n * e = m * d
<1> DEFINE a == x[1]
           b == x[2]
           s == y[1]
           t == y[2]
<1>1. /\ a \in Int /\ b \in Nat \ {0} /\ s \in Int /\ t \in Nat \ {0}
      /\ n \in Int /\ d \in Nat \ {0} /\ m \in Int /\ e \in Nat \ {0}
      /\ a * d = n * b /\ s * e = m * t
  BY FractionParts DEF Is
<1>2. /\ Leq(x, y) <=> a * t <= s * b
      /\ Same(x, y) <=> a * t = s * b
  BY DEF Leq, Same
<1> HIDE DEF a, b, s, t
<1>3. d * e \in Nat \ {0} /\ b * t \in Nat \ {0}
  BY <1>1, ProductPositive
<1>4. (a * t) * (d * e) = (n * e) * (b * t)
  <2>1. (a * t) * (d * e) = (a * d) * (t * e)
    BY <1>1, Swap
  <2>2. (n * b) * (t * e) = (n * e) * (t * b) /\ t * b = b * t
    BY <1>1, Swap
  <2>3. QED
    BY <1>1, <2>1, <2>2
<1>5. (s * b) * (d * e) = (m * d) * (b * t)
  <2>1. (s * b) * (d * e) = (s * e) * (d * b)
    BY <1>1, Swap
  <2>2. (m * t) * (d * b) = (m * d) * (t * b) /\ t * b = b * t
    BY <1>1, Swap
  <2>3. QED
    BY <1>1, <2>1, <2>2
<1>6. a * t \in Int /\ s * b \in Int /\ n * e \in Int /\ m * d \in Int
  BY <1>1
<1>7. PICK ta, sb, ne, md, de, bt :
          ta = a * t /\ sb = s * b /\ ne = n * e /\ md = m * d /\ de = d * e /\ bt = b * t
  OBVIOUS
<1>8. /\ ta \in Int /\ sb \in Int /\ ne \in Int /\ md \in Int
      /\ de \in Nat \ {0} /\ bt \in Nat \ {0}
      /\ ta * de = ne * bt /\ sb * de = md * bt
  BY <1>3, <1>4, <1>5, <1>6, <1>7
<1>9. /\ ta <= sb <=> ne <= md
      /\ ta = sb <=> ne = md
  <2>1. /\ ta <= sb <=> ta * de <= sb * de
        /\ ta = sb <=> ta * de = sb * de
    BY <1>8, Cancels
  <2>2. /\ ne <= md <=> ne * bt <= md * bt
        /\ ne = md <=> ne * bt = md * bt
    BY <1>8, Cancels
  <2>3. QED
    BY <1>8, <2>1, <2>2
<1>10. QED
  BY <1>2, <1>7, <1>9

\* Lowest terms have every form of the fraction.
LEMMA LowestForms ==
  ASSUME NEW n \in Int, NEW d \in Nat \ {0}, NEW m \in Int, NEW e \in Nat \ {0},
         n * e = m * d
  PROVE  Is(Lowest(n, d), m, e)
<1>1. PICK x : x = Lowest(n, d)
  OBVIOUS
<1>2. x \in Fraction /\ x[1] * d = n * x[2]
  BY <1>1, LowestIs
<1>3. x[1] \in Int /\ x[2] \in Int
  BY <1>2, FractionParts
<1>4. (x[1] * e) * d = (m * x[2]) * d
  <2>1. (x[1] * e) * d = (x[1] * d) * e
    BY <1>3
  <2>2. (n * x[2]) * e = (n * e) * x[2]
    BY <1>3
  <2>3. (m * d) * x[2] = (m * x[2]) * d
    BY <1>3
  <2>4. QED
    BY <1>2, <2>1, <2>2, <2>3
<1>5. x[1] * e = m * x[2]
  <2>1. x[1] * e \in Int /\ m * x[2] \in Int
    BY <1>3
  <2>2. QED
    BY <1>4, <2>1, CancelEq
<1>6. QED
  BY <1>1, <1>2, <1>5 DEF Is

\* A product, in any form of its factors.
LEMMA TimesForms ==
  ASSUME NEW a, NEW n, NEW d, Is(a, n, d), NEW b, NEW m, NEW e, Is(b, m, e)
  PROVE  Is(Times(a, b), n * m, d * e)
<1>1. /\ a[1] \in Int /\ a[2] \in Nat \ {0} /\ b[1] \in Int /\ b[2] \in Nat \ {0}
      /\ n \in Int /\ d \in Nat \ {0} /\ m \in Int /\ e \in Nat \ {0}
      /\ a[1] * d = n * a[2] /\ b[1] * e = m * b[2]
  BY FractionParts DEF Is
<1>2. (a[1] * b[1]) * (d * e) = (n * m) * (a[2] * b[2])
  <2>1. (a[1] * b[1]) * (d * e) = (a[1] * d) * (b[1] * e)
    BY <1>1, Swap
  <2>2. (n * a[2]) * (m * b[2]) = (n * m) * (a[2] * b[2])
    BY <1>1, Swap
  <2>3. QED
    BY <1>1, <2>1, <2>2
<1>3. a[2] * b[2] \in Nat \ {0} /\ d * e \in Nat \ {0} /\ a[1] * b[1] \in Int /\ n * m \in Int
  BY <1>1, ProductPositive
<1>4. QED
  BY <1>2, <1>3, LowestForms DEF Times

\* A quotient by a positive fraction, in any form.
LEMMA OverForms ==
  ASSUME NEW a, NEW n, NEW d, Is(a, n, d), NEW b, NEW m, NEW e, Is(b, m, e), m > 0
  PROVE  Is(Over(a, b), n * e, d * m)
<1>1. /\ a[1] \in Int /\ a[2] \in Nat \ {0} /\ b[1] \in Int /\ b[2] \in Nat \ {0}
      /\ n \in Int /\ d \in Nat \ {0} /\ m \in Nat \ {0} /\ e \in Nat \ {0}
      /\ a[1] * d = n * a[2] /\ b[1] * e = m * b[2]
  BY FractionParts DEF Is
<1>2. b[1] \in Nat \ {0}
  <2>1. m * b[2] \in Nat \ {0}
    BY <1>1, ProductPositive
  <2>2. QED
    BY <1>1, <2>1
<1>3. (a[1] * b[2]) * (d * m) = (n * e) * (a[2] * b[1])
  <2>1. (a[1] * b[2]) * (d * m) = (a[1] * d) * (b[2] * m)
    BY <1>1, Swap
  <2>2. (n * a[2]) * (b[1] * e) = (n * e) * (b[1] * a[2])
    BY <1>1, Swap
  <2>3. b[2] * m = m * b[2] /\ b[1] * a[2] = a[2] * b[1]
    BY <1>1
  <2>4. QED
    BY <1>1, <2>1, <2>2, <2>3
<1>4. a[2] * b[1] \in Nat \ {0} /\ d * m \in Nat \ {0} /\ a[1] * b[2] \in Int /\ n * e \in Int
  BY <1>1, <1>2, ProductPositive
<1>5. QED
  BY <1>3, <1>4, LowestForms DEF Over

\* A sum, in any form of its terms.
LEMMA PlusForms ==
  ASSUME NEW a, NEW n, NEW d, Is(a, n, d), NEW b, NEW m, NEW e, Is(b, m, e)
  PROVE  Is(Plus(a, b), n * e + m * d, d * e)
<1>1. /\ a[1] \in Int /\ a[2] \in Nat \ {0} /\ b[1] \in Int /\ b[2] \in Nat \ {0}
      /\ n \in Int /\ d \in Nat \ {0} /\ m \in Int /\ e \in Nat \ {0}
      /\ a[1] * d = n * a[2] /\ b[1] * e = m * b[2]
  BY FractionParts DEF Is
<1>2. (a[1] * b[2]) * (d * e) = (n * e) * (a[2] * b[2])
  <2>1. (a[1] * b[2]) * (d * e) = (a[1] * d) * (b[2] * e)
    BY <1>1, Swap
  <2>2. (n * a[2]) * (b[2] * e) = (n * e) * (b[2] * a[2]) /\ b[2] * a[2] = a[2] * b[2]
    BY <1>1, Swap
  <2>3. QED
    BY <1>1, <2>1, <2>2
<1>3. (b[1] * a[2]) * (d * e) = (m * d) * (a[2] * b[2])
  <2>1. (b[1] * a[2]) * (d * e) = (b[1] * e) * (d * a[2])
    BY <1>1, Swap
  <2>2. (m * b[2]) * (d * a[2]) = (m * d) * (b[2] * a[2]) /\ b[2] * a[2] = a[2] * b[2]
    BY <1>1, Swap
  <2>3. QED
    BY <1>1, <2>1, <2>2
<1>4. /\ a[2] * b[2] \in Nat \ {0} /\ d * e \in Nat \ {0}
      /\ a[1] * b[2] \in Int /\ b[1] * a[2] \in Int /\ n * e \in Int /\ m * d \in Int
  BY <1>1, ProductPositive
<1>5. (a[1] * b[2] + b[1] * a[2]) * (d * e) = (n * e + m * d) * (a[2] * b[2])
  <2>1. \A p, q, r, s, k, l \in Int :
            p * k = r * l /\ q * k = s * l => (p + q) * k = (r + s) * l
    OBVIOUS
  <2>2. d * e \in Int /\ a[2] * b[2] \in Int
    BY <1>4
  <2>3. QED
    BY <1>2, <1>3, <1>4, <2>1, <2>2
<1>6. a[1] * b[2] + b[1] * a[2] \in Int /\ n * e + m * d \in Int
  BY <1>4
<1>7. QED
  BY <1>4, <1>5, <1>6, LowestForms DEF Plus

\* A difference, in any form of its terms.
LEMMA MinusForms ==
  ASSUME NEW a, NEW n, NEW d, Is(a, n, d), NEW b, NEW m, NEW e, Is(b, m, e)
  PROVE  Is(Minus(a, b), n * e - m * d, d * e)
<1>1. PICK c : c = <<-b[1], b[2]>>
  OBVIOUS
<1>2. n \in Int /\ d \in Int /\ m \in Int /\ e \in Int /\ b[1] \in Int /\ b[2] \in Int
  BY FractionParts DEF Is
<1>3. Is(c, -m, e)
  <2>1. PICK x, w : x = b[1] /\ w = b[2]
    OBVIOUS
  <2>2. x \in Int /\ w \in Int /\ x * e = m * w
    BY <1>2, <2>1 DEF Is
  <2>3. (-x) * e = (-m) * w
    BY <1>2, <2>2
  <2>4. QED
    BY <1>1, <1>2, <2>1, <2>3, FractionParts DEF Is, Fraction
<1>4. Is(Plus(a, c), n * e + (-m) * d, d * e)
  BY <1>3, PlusForms
<1>5. n * e + (-m) * d = n * e - m * d
  BY <1>2
<1>6. QED
  BY <1>1, <1>4, <1>5 DEF Minus

-----------------------------------------------------------------------------

\* The arithmetic of amounts stays among the fractions.
LEMMA Closed ==
  ASSUME NEW a \in Fraction, NEW b \in Fraction
  PROVE  /\ Plus(a, b) \in Fraction /\ Minus(a, b) \in Fraction /\ Times(a, b) \in Fraction
         /\ Positive(b) => Over(a, b) \in Fraction
         /\ Smaller(a, b) \in Fraction /\ Larger(a, b) \in Fraction
<1>1. Is(a, a[1], a[2]) /\ Is(b, b[1], b[2])
  BY FractionParts
<1>2. Positive(b) => Over(a, b) \in Fraction
  BY <1>1, OverForms DEF Positive, Is
<1>3. QED
  BY <1>1, <1>2, PlusForms, MinusForms, TimesForms DEF Is, Smaller, Larger

\* Nothing, one, whole numbers and percentages are fractions.
LEMMA Constants ==
  /\ Zero \in Fraction /\ One \in Fraction
  /\ \A n \in Int : Whole(n) \in Fraction /\ Percent(n) \in Fraction
  BY DEF Zero, One, Whole, Percent, Fraction

\* Amounts are totally ordered.
LEMMA LeqTotal ==
  ASSUME NEW a \in Fraction, NEW b \in Fraction
  PROVE  /\ Leq(a, a)
         /\ Leq(a, b) \/ Leq(b, a)
         /\ Same(a, b) <=> Leq(a, b) /\ Leq(b, a)
         /\ Positive(a) <=> ~Leq(a, Zero)
         /\ Leq(Zero, a) <=> a[1] >= 0
  BY FractionParts DEF Leq, Same, Positive, Zero, Whole

\* The order of amounts is transitive.
LEMMA LeqTrans ==
  ASSUME NEW a \in Fraction, NEW b \in Fraction, NEW c \in Fraction, Leq(a, b), Leq(b, c)
  PROVE  Leq(a, c)
<1>1. /\ a[1] \in Int /\ a[2] \in Nat \ {0} /\ b[1] \in Int /\ b[2] \in Nat \ {0}
      /\ c[1] \in Int /\ c[2] \in Nat \ {0}
  BY FractionParts
<1>2. (a[1] * b[2]) * c[2] <= (b[1] * a[2]) * c[2]
  BY <1>1, CancelLeq DEF Leq
<1>3. (b[1] * c[2]) * a[2] <= (c[1] * b[2]) * a[2]
  BY <1>1, CancelLeq DEF Leq
<1>4. /\ (a[1] * b[2]) * c[2] = (a[1] * c[2]) * b[2]
      /\ (b[1] * a[2]) * c[2] = (b[1] * c[2]) * a[2]
      /\ (c[1] * b[2]) * a[2] = (c[1] * a[2]) * b[2]
  BY <1>1
<1>5. (a[1] * c[2]) * b[2] <= (c[1] * a[2]) * b[2]
  <2>1. \A x, y, z \in Int : x <= y /\ y <= z => x <= z
    OBVIOUS
  <2>2. /\ (a[1] * c[2]) * b[2] \in Int /\ (b[1] * c[2]) * a[2] \in Int
        /\ (c[1] * a[2]) * b[2] \in Int
    BY <1>1
  <2>3. QED
    BY <1>2, <1>3, <1>4, <2>1, <2>2
<1>6. a[1] * c[2] \in Int /\ c[1] * a[2] \in Int
  BY <1>1
<1>7. QED
  BY <1>1, <1>5, <1>6, CancelLeq DEF Leq

\* Taking away on one side is adding on the other.
LEMMA LeqMinus ==
  ASSUME NEW q \in Fraction, NEW a \in Fraction, NEW b \in Fraction
  PROVE  Leq(q, Minus(a, b)) <=> Leq(Plus(b, q), a)
<1>1. Is(q, q[1], q[2]) /\ Is(a, a[1], a[2]) /\ Is(b, b[1], b[2])
  BY FractionParts
<1>2. /\ Is(Minus(a, b), a[1] * b[2] - b[1] * a[2], a[2] * b[2])
      /\ Is(Plus(b, q), b[1] * q[2] + q[1] * b[2], b[2] * q[2])
  BY <1>1, MinusForms, PlusForms
<1>3. /\ Leq(q, Minus(a, b)) <=> q[1] * (a[2] * b[2]) <= (a[1] * b[2] - b[1] * a[2]) * q[2]
      /\ Leq(Plus(b, q), a) <=> (b[1] * q[2] + q[1] * b[2]) * a[2] <= a[1] * (b[2] * q[2])
  BY <1>1, <1>2, LeqForms
<1>4. \A q1, q2, a1, a2, b1, b2 \in Int :
          q1 * (a2 * b2) <= (a1 * b2 - b1 * a2) * q2
              <=> (b1 * q2 + q1 * b2) * a2 <= a1 * (b2 * q2)
  OBVIOUS
<1>5. /\ q[1] \in Int /\ q[2] \in Int /\ a[1] \in Int /\ a[2] \in Int /\ b[1] \in Int /\ b[2] \in Int
  BY FractionParts
<1>6. QED
  BY <1>3, <1>4, <1>5

\* Dividing on one side is multiplying on the other.
LEMMA LeqOver ==
  ASSUME NEW q \in Fraction, NEW a \in Fraction, NEW b \in Fraction, Positive(b)
  PROVE  /\ Leq(q, Over(a, b)) <=> Leq(Times(q, b), a)
         /\ Leq(Over(a, b), q) <=> Leq(a, Times(q, b))
<1>1. Is(q, q[1], q[2]) /\ Is(a, a[1], a[2]) /\ Is(b, b[1], b[2])
  BY FractionParts
<1>2. /\ Is(Over(a, b), a[1] * b[2], a[2] * b[1])
      /\ Is(Times(q, b), q[1] * b[1], q[2] * b[2])
  BY <1>1, OverForms, TimesForms DEF Positive
<1>3. /\ Leq(q, Over(a, b)) <=> q[1] * (a[2] * b[1]) <= (a[1] * b[2]) * q[2]
      /\ Leq(Over(a, b), q) <=> (a[1] * b[2]) * q[2] <= q[1] * (a[2] * b[1])
      /\ Leq(Times(q, b), a) <=> (q[1] * b[1]) * a[2] <= a[1] * (q[2] * b[2])
      /\ Leq(a, Times(q, b)) <=> a[1] * (q[2] * b[2]) <= (q[1] * b[1]) * a[2]
  BY <1>1, <1>2, LeqForms
<1>4. \A x, y, z \in Int : x * (y * z) = (x * z) * y /\ (x * y) * z = x * (z * y)
  OBVIOUS
<1>5. /\ q[1] \in Int /\ q[2] \in Int /\ a[1] \in Int /\ a[2] \in Int /\ b[1] \in Int /\ b[2] \in Int
  BY FractionParts
<1>6. /\ q[1] * (a[2] * b[1]) = (q[1] * b[1]) * a[2]
      /\ (a[1] * b[2]) * q[2] = a[1] * (q[2] * b[2])
  BY <1>4, <1>5
<1>7. QED
  BY <1>3, <1>6

\* Multiplying keeps the order, and a positive factor can be cancelled.
LEMMA TimesLeq ==
  ASSUME NEW a \in Fraction, NEW b \in Fraction, NEW c \in Fraction
  PROVE  /\ Leq(Zero, c) /\ Leq(a, b) => Leq(Times(a, c), Times(b, c)) /\ Leq(Times(c, a), Times(c, b))
         /\ Positive(c) /\ Leq(Times(a, c), Times(b, c)) => Leq(a, b)
<1>1. Is(a, a[1], a[2]) /\ Is(b, b[1], b[2]) /\ Is(c, c[1], c[2])
  BY FractionParts
<1>2. /\ Is(Times(a, c), a[1] * c[1], a[2] * c[2]) /\ Is(Times(b, c), b[1] * c[1], b[2] * c[2])
      /\ Is(Times(c, a), c[1] * a[1], c[2] * a[2]) /\ Is(Times(c, b), c[1] * b[1], c[2] * b[2])
  BY <1>1, TimesForms
<1>3. /\ Leq(Times(a, c), Times(b, c))
          <=> (a[1] * c[1]) * (b[2] * c[2]) <= (b[1] * c[1]) * (a[2] * c[2])
      /\ Leq(Times(c, a), Times(c, b))
          <=> (c[1] * a[1]) * (c[2] * b[2]) <= (c[1] * b[1]) * (c[2] * a[2])
  BY <1>2, LeqForms
<1>4. PICK ab, ba, cc : ab = a[1] * b[2] /\ ba = b[1] * a[2] /\ cc = c[1] * c[2]
  OBVIOUS
<1>5. /\ a[1] \in Int /\ a[2] \in Nat \ {0} /\ b[1] \in Int /\ b[2] \in Nat \ {0}
      /\ c[1] \in Int /\ c[2] \in Nat \ {0}
  BY FractionParts
<1>6. /\ (a[1] * c[1]) * (b[2] * c[2]) = ab * cc /\ (b[1] * c[1]) * (a[2] * c[2]) = ba * cc
      /\ (c[1] * a[1]) * (c[2] * b[2]) = ab * cc /\ (c[1] * b[1]) * (c[2] * a[2]) = ba * cc
  <2>1. \A x, y, z, w \in Int : /\ (x * y) * (z * w) = (x * z) * (y * w)
                                /\ (y * x) * (w * z) = (x * z) * (y * w)
    OBVIOUS
  <2>2. a[2] \in Int /\ b[2] \in Int /\ c[2] \in Int
    BY <1>5
  <2>3. QED
    BY <1>4, <1>5, <2>1, <2>2
<1>7. ab \in Int /\ ba \in Int /\ cc \in Int
  BY <1>4, <1>5
<1>8. Leq(a, b) <=> ab <= ba
  BY <1>4 DEF Leq
<1>9. ASSUME Positive(c) PROVE cc \in Nat \ {0}
  BY <1>4, <1>5, <1>9, ProductPositive DEF Positive
<1>10. ASSUME Leq(Zero, c) PROVE cc = 0 \/ cc \in Nat \ {0}
  <2>1. c[1] >= 0
    BY <1>10, LeqTotal
  <2>2. CASE c[1] = 0
    BY <1>4, <1>5, <2>2
  <2>3. CASE c[1] # 0
    BY <1>9, <1>5, <2>1, <2>3 DEF Positive
  <2>4. QED
    BY <2>2, <2>3
<1>11. ASSUME cc \in Nat \ {0} PROVE ab <= ba <=> ab * cc <= ba * cc
  BY <1>7, <1>11, Cancels
<1>12. ASSUME cc = 0 PROVE ab * cc <= ba * cc
  BY <1>7, <1>12
<1>13. QED
  BY <1>3, <1>6, <1>8, <1>9, <1>10, <1>11, <1>12

\* Multiplying by the inverse divides.
LEMMA LeqInverse ==
  ASSUME NEW x \in Fraction, NEW c \in Fraction, NEW r \in Fraction, Positive(r)
  PROVE  /\ <<r[2], r[1]>> \in Fraction
         /\ Leq(Times(x, <<r[2], r[1]>>), c) <=> Leq(x, Times(c, r))
<1>1. PICK v : v = <<r[2], r[1]>>
  OBVIOUS
<1>2. v \in Fraction /\ v[1] = r[2] /\ v[2] = r[1]
  BY <1>1, FractionParts DEF Positive, Fraction
<1>3. Is(x, x[1], x[2]) /\ Is(c, c[1], c[2]) /\ Is(r, r[1], r[2]) /\ Is(v, r[2], r[1])
  BY <1>2, FractionParts
<1>4. /\ Is(Times(x, v), x[1] * r[2], x[2] * r[1])
      /\ Is(Times(c, r), c[1] * r[1], c[2] * r[2])
  BY <1>3, TimesForms
<1>5. /\ Leq(Times(x, v), c) <=> (x[1] * r[2]) * c[2] <= c[1] * (x[2] * r[1])
      /\ Leq(x, Times(c, r)) <=> x[1] * (c[2] * r[2]) <= (c[1] * r[1]) * x[2]
  BY <1>3, <1>4, LeqForms
<1>6. \A p, q, s \in Int : (p * q) * s = p * (s * q) /\ p * (q * s) = (p * s) * q
  OBVIOUS
<1>7. /\ x[1] \in Int /\ x[2] \in Int /\ c[1] \in Int /\ c[2] \in Int /\ r[1] \in Int /\ r[2] \in Int
  BY FractionParts
<1>8. /\ (x[1] * r[2]) * c[2] = x[1] * (c[2] * r[2])
      /\ c[1] * (x[2] * r[1]) = (c[1] * r[1]) * x[2]
  BY <1>6, <1>7
<1>9. QED
  BY <1>1, <1>2, <1>5, <1>8

\* Multiplying by 1 / r divides by r, and dividing undoes multiplying.
LEMMA SameOver ==
  ASSUME NEW x \in Fraction, NEW r \in Fraction, Positive(r)
  PROVE  /\ Same(Times(x, Over(One, r)), Over(x, r))
         /\ Same(Times(Over(x, r), r), x) /\ Same(Over(Times(x, r), r), x)
         /\ Same(r, One) => Same(x, Over(x, r))
         /\ Over(One, r) \in Fraction /\ Positive(Over(One, r))
<1>1. Is(x, x[1], x[2]) /\ Is(r, r[1], r[2]) /\ Is(One, 1, 1)
  BY FractionParts, Constants DEF One, Whole
<1>2. /\ x[1] \in Int /\ x[2] \in Nat \ {0} /\ r[1] \in Nat \ {0} /\ r[2] \in Nat \ {0} /\ r[1] > 0
  BY FractionParts DEF Positive
<1>3. Is(Over(One, r), 1 * r[2], 1 * r[1]) /\ Is(Over(x, r), x[1] * r[2], x[2] * r[1])
      /\ Is(Times(x, r), x[1] * r[1], x[2] * r[2])
  BY <1>1, <1>2, OverForms, TimesForms
<1>4. /\ Is(Times(x, Over(One, r)), x[1] * (1 * r[2]), x[2] * (1 * r[1]))
      /\ Is(Times(Over(x, r), r), (x[1] * r[2]) * r[1], (x[2] * r[1]) * r[2])
      /\ Is(Over(Times(x, r), r), (x[1] * r[1]) * r[2], (x[2] * r[2]) * r[1])
  BY <1>1, <1>2, <1>3, OverForms, TimesForms
<1>5. 1 * r[2] = r[2] /\ 1 * r[1] = r[1]
  BY <1>2
<1>6. Same(Times(x, Over(One, r)), Over(x, r))
  BY <1>3, <1>4, <1>5, LeqForms
<1>7. Same(Times(Over(x, r), r), x) /\ Same(Over(Times(x, r), r), x)
  <2>1. \A p, q, s, t \in Int : ((p * q) * s) * t = p * ((t * s) * q)
    OBVIOUS
  <2>2. /\ ((x[1] * r[2]) * r[1]) * x[2] = x[1] * ((x[2] * r[1]) * r[2])
        /\ ((x[1] * r[1]) * r[2]) * x[2] = x[1] * ((x[2] * r[2]) * r[1])
    BY <1>2, <2>1
  <2>3. QED
    BY <1>1, <1>4, <2>2, LeqForms
<1>8. ASSUME Same(r, One) PROVE Same(x, Over(x, r))
  <2>1. r[1] = r[2]
    BY <1>2, <1>8 DEF Same, One, Whole
  <2>2. x[1] * (x[2] * r[1]) = (x[1] * r[2]) * x[2]
    BY <1>2, <2>1
  <2>3. QED
    BY <1>1, <1>3, <2>2, LeqForms
<1>9. Over(One, r) \in Fraction /\ Positive(Over(One, r))
  <2>1. PICK v : v = Over(One, r)
    OBVIOUS
  <2>2. v \in Fraction /\ v[1] * r[1] = r[2] * v[2]
    BY <1>3, <1>5, <2>1 DEF Is
  <2>3. v[1] \in Int /\ v[2] \in Nat \ {0}
    BY <2>2, FractionParts
  <2>4. r[2] * v[2] > 0
    BY <1>2, <2>3, ProductPositive
  <2>5. v[1] > 0
    BY <1>2, <2>2, <2>3, <2>4
  <2>6. QED
    BY <2>1, <2>2, <2>5 DEF Positive
<1>10. QED
  BY <1>6, <1>7, <1>8, <1>9

\* What is at least a positive amount is positive.
LEMMA PositiveLeq ==
  ASSUME NEW a \in Fraction, NEW b \in Fraction, Positive(a), Leq(a, b)
  PROVE  Positive(b) /\ Leq(Zero, a) /\ Leq(Zero, b)
<1>1. ~Leq(a, Zero) /\ Zero \in Fraction
  BY LeqTotal, Constants
<1>2. ~Leq(b, Zero)
  BY <1>1, LeqTrans
<1>3. QED
  BY <1>1, <1>2, LeqTotal

\* Headroom is what is left when something is.
LEMMA LeqLarger ==
  ASSUME NEW q \in Fraction, NEW x \in Fraction, Positive(q), Leq(q, Larger(Zero, x))
  PROVE  Leq(q, x)
  BY LeqTotal, Constants DEF Larger

\* The smaller of two is at most either.
LEMMA SmallerLeq ==
  ASSUME NEW a \in Fraction, NEW b \in Fraction
  PROVE  Leq(Smaller(a, b), a) /\ Leq(Smaller(a, b), b)
  BY LeqTotal DEF Smaller

\* A quantity rounded down to its step is a fraction, and no more than it was.
LEMMA RoundDownLeq ==
  ASSUME NEW a \in Fraction, NEW step \in Nat \ {0}
  PROVE  RoundDown(a, step) \in Fraction /\ Leq(RoundDown(a, step), a)
<1>1. PICK n, d : n = a[1] /\ d = a[2]
  OBVIOUS
<1>2. n \in Int /\ d \in Nat \ {0}
  BY <1>1, FractionParts
<1>3. PICK p, k : p = n * step /\ k = p \div d
  OBVIOUS
<1>4. p \in Int /\ k \in Int /\ k * d <= p
  BY <1>2, <1>3
<1>5. QED
  BY <1>1, <1>2, <1>3, <1>4 DEF RoundDown, Leq, Fraction

-----------------------------------------------------------------------------

\* A smallest member of a set of finite sets.
LEMMA SmallestSubset ==
  ASSUME NEW S, IsFiniteSet(S), NEW B \in SUBSET (SUBSET S), B # {}
  PROVE  \E s \in B : \A u \in B : u \subseteq s => u = s
<1>1. IsWellFoundedOn(StrictSubsetOrdering(S), SUBSET S)
  BY FS_StrictSubsetOrderingWellFounded, FS_FiniteSubsetsOfFinite
<1>2. PICK s \in B : \A u \in B : <<u, s>> \notin StrictSubsetOrdering(S)
  BY <1>1, WFMin
<1>3. QED
  BY <1>2 DEF StrictSubsetOrdering

\* The least of finitely many fractions.
LEMMA LeastIs ==
  ASSUME NEW S \in SUBSET Fraction, IsFiniteSet(S), S # {}
  PROVE  Least(S) \in S /\ \A x \in S : Leq(Least(S), x)
<1> DEFINE Good(s) == \E m \in s : \A x \in s : Leq(m, x)
           Bad == {s \in SUBSET S : s # {} /\ ~Good(s)}
<1>1. Bad = {}
  <2>1. SUFFICES ASSUME Bad # {} PROVE FALSE
    OBVIOUS
  <2>2. Bad \in SUBSET (SUBSET S)
    OBVIOUS
  <2>3. PICK s \in Bad : \A u \in Bad : u \subseteq s => u = s
    <3> HIDE DEF Bad
    <3>1. QED
      BY <2>1, <2>2, SmallestSubset
  <2>4. PICK x \in s : TRUE
    OBVIOUS
  <2>5. CASE s \ {x} = {}
    <3>1. s = {x} /\ x \in Fraction
      BY <2>4, <2>5
    <3>2. Leq(x, x)
      BY <3>1, LeqTotal
    <3>3. QED
      BY <2>3, <3>1, <3>2
  <2>6. CASE s \ {x} # {}
    <3>1. PICK m \in s \ {x} : \A y \in s \ {x} : Leq(m, y)
      <4>1. s \ {x} \notin Bad
        BY <2>3, <2>4
      <4>2. Good(s \ {x})
        BY <2>6, <4>1
      <4>3. QED
        BY <4>2
    <3>2. m \in Fraction /\ x \in Fraction
      BY <2>4, <3>1
    <3>3. CASE Leq(m, x)
      BY <2>3, <3>1, <3>3
    <3>4. CASE ~Leq(m, x)
      <4>1. Leq(x, m) /\ Leq(x, x)
        BY <3>2, <3>4, LeqTotal
      <4>2. ASSUME NEW y \in s PROVE Leq(x, y)
        <5>1. y \in Fraction
          OBVIOUS
        <5>2. CASE y = x
          BY <4>1, <5>2
        <5>3. CASE y # x
          BY <3>1, <3>2, <4>1, <5>1, <5>3, LeqTrans
        <5>4. QED
          BY <5>2, <5>3
      <4>3. QED
        BY <2>3, <2>4, <4>2
    <3>5. QED
      BY <3>3, <3>4
  <2>7. QED
    BY <2>5, <2>6
<1>2. Good(S)
  BY <1>1
<1>3. QED
  BY <1>2 DEF Least

-----------------------------------------------------------------------------
(* Recursions.                                                             *)

\* A step may be repeated from a start for ever.
Repeats(f, b, g, n) == f[0] = b /\ \A k \in Nat : k < n => f[k + 1] = g[f[k]]

\* A function can be iterated.
LEMMA Iterates ==
  ASSUME NEW X, NEW b \in X, NEW g \in [X -> X]
  PROVE  \E f \in [Nat -> X] : f[0] = b /\ \A k \in Nat : f[k + 1] = g[f[k]]
<1> DEFINE Bad == {n \in Nat : ~ \E f \in [Nat -> X] : Repeats(f, b, g, n)}
           G(n) == CHOOSE f \in [Nat -> X] : Repeats(f, b, g, n)
           F == [n \in Nat |-> G(n)[n]]
<1>1. \E f \in [Nat -> X] : Repeats(f, b, g, 0)
  <2>1. [n \in Nat |-> b] \in [Nat -> X] /\ Repeats([n \in Nat |-> b], b, g, 0)
    BY DEF Repeats
  <2>2. QED
    BY <2>1
<1>2. ASSUME NEW n \in Nat, NEW f \in [Nat -> X], Repeats(f, b, g, n)
      PROVE  \E h \in [Nat -> X] : Repeats(h, b, g, n + 1)
  <2> DEFINE h == [k \in Nat |-> IF k <= n THEN f[k] ELSE g[f[n]]]
  <2>1. h \in [Nat -> X]
    OBVIOUS
  <2>2. h[0] = b
    BY <1>2 DEF Repeats
  <2>3. ASSUME NEW k \in Nat, k < n + 1 PROVE h[k + 1] = g[h[k]]
    <3>1. k <= n /\ h[k] = f[k]
      BY <2>3
    <3>2. CASE k < n
      <4>1. h[k + 1] = f[k + 1] /\ f[k + 1] = g[f[k]]
        BY <1>2, <3>2 DEF Repeats
      <4>2. QED
        BY <3>1, <4>1
    <3>3. CASE k = n
      BY <3>1, <3>3
    <3>4. QED
      BY <3>1, <3>2, <3>3
  <2> HIDE DEF h
  <2>4. QED
    BY <2>1, <2>2, <2>3 DEF Repeats
<1>3. Bad = {}
  <2>1. SUFFICES ASSUME Bad # {} PROVE FALSE
    OBVIOUS
  <2>2. PICK m \in Bad : \A k \in Bad : m <= k
    BY <2>1, LeastNumber
  <2>3. m \in Nat /\ m # 0
    BY <1>1, <2>2
  <2>4. m - 1 \in Nat /\ m - 1 \notin Bad
    <3>1. m - 1 \in Nat /\ ~(m <= m - 1)
      BY <2>3
    <3>2. QED
      BY <2>2, <3>1
  <2>5. PICK f \in [Nat -> X] : Repeats(f, b, g, m - 1)
    BY <2>4
  <2>6. \E h \in [Nat -> X] : Repeats(h, b, g, (m - 1) + 1)
    BY <1>2, <2>4, <2>5
  <2>7. (m - 1) + 1 = m
    BY <2>3
  <2>8. QED
    BY <2>2, <2>6, <2>7
<1>4. ASSUME NEW n \in Nat PROVE G(n) \in [Nat -> X] /\ Repeats(G(n), b, g, n)
  BY <1>3
<1> HIDE DEF G
<1>5. ASSUME NEW n \in Nat, NEW m \in Nat, NEW k \in Nat, k <= n, k <= m
      PROVE  G(n)[k] = G(m)[k]
  <2> DEFINE Off == {j \in Nat : j <= n /\ j <= m /\ G(n)[j] # G(m)[j]}
  <2>1. SUFFICES ASSUME Off # {} PROVE FALSE
    BY <1>5
  <2>2. PICK j \in Off : \A l \in Off : j <= l
    BY <2>1, LeastNumber
  <2>3. j # 0
    BY <1>4, <2>2 DEF Repeats
  <2>4. PICK l \in Nat : l + 1 = j
    <3>1. j - 1 \in Nat /\ (j - 1) + 1 = j
      BY <2>3
    <3>2. QED
      BY <3>1
  <2>5. l < n /\ l < m /\ ~(j <= l)
    BY <2>2, <2>4
  <2>6. G(n)[l + 1] = g[G(n)[l]] /\ G(m)[l + 1] = g[G(m)[l]]
    BY <1>4, <2>5 DEF Repeats
  <2>7. G(n)[l] = G(m)[l]
    BY <2>2, <2>5
  <2>8. QED
    BY <2>2, <2>4, <2>6, <2>7
<1>6. F \in [Nat -> X]
  BY <1>4
<1>7. F[0] = b
  BY <1>4 DEF Repeats
<1>8. ASSUME NEW k \in Nat PROVE F[k + 1] = g[F[k]]
  <2>1. F[k + 1] = G(k + 1)[k + 1] /\ F[k] = G(k)[k]
    OBVIOUS
  <2>2. G(k + 1)[k + 1] = g[G(k + 1)[k]]
    BY <1>4 DEF Repeats
  <2>3. G(k + 1)[k] = G(k)[k]
    BY <1>5
  <2>4. QED
    BY <2>1, <2>2, <2>3
<1>9. QED
  <2> HIDE DEF F
  <2>1. QED
    BY <1>6, <1>7, <1>8

\* Every power of ten is a positive number.
LEMMA TenToType == \A n \in Nat : TenTo[n] \in Nat \ {0}
<1> DEFINE X == Nat \ {0}
           g == [m \in X |-> 10 * m]
<1>1. g \in [X -> X] /\ 1 \in X
  OBVIOUS
<1>2. PICK f \in [Nat -> X] : f[0] = 1 /\ \A k \in Nat : f[k + 1] = g[f[k]]
  <2>1. PICK Y, b, h : Y = X /\ b = 1 /\ h = g
    OBVIOUS
  <2>2. b \in Y /\ h \in [Y -> Y]
    BY <2>1
  <2>3. \E f \in [Nat -> Y] : f[0] = b /\ \A k \in Nat : f[k + 1] = h[f[k]]
    BY <2>2, Iterates
  <2>4. QED
    BY <2>1, <2>3
<1>3. ASSUME NEW n \in Nat PROVE f[n] = IF n = 0 THEN 1 ELSE 10 * f[n - 1]
  <2>1. CASE n # 0
    <3>1. n - 1 \in Nat /\ (n - 1) + 1 = n
      BY <2>1
    <3>2. f[n] = g[f[n - 1]] /\ f[n - 1] \in X
      BY <1>2, <3>1
    <3>3. QED
      BY <2>1, <3>2
  <2>2. QED
    BY <1>2, <2>1
<1>4. f = [n \in Nat |-> IF n = 0 THEN 1 ELSE 10 * f[n - 1]]
  BY <1>3
<1>5. TenTo = [n \in Nat |-> IF n = 0 THEN 1 ELSE 10 * TenTo[n - 1]]
  BY <1>4, Zenon DEF TenTo
<1>6. ASSUME NEW n \in Nat PROVE TenTo[n] = IF n = 0 THEN 1 ELSE 10 * TenTo[n - 1]
  BY <1>5
<1> DEFINE Bad == {n \in Nat : TenTo[n] \notin X}
<1>7. Bad = {}
  <2>1. SUFFICES ASSUME Bad # {} PROVE FALSE
    OBVIOUS
  <2>2. PICK m \in Bad : \A k \in Bad : m <= k
    BY <2>1, LeastNumber
  <2>3. m # 0
    BY <1>6, <2>2
  <2>4. m - 1 \in Nat /\ ~(m <= m - 1)
    BY <2>3
  <2>5. TenTo[m - 1] \in X
    BY <2>2, <2>4
  <2>6. TenTo[m] = 10 * TenTo[m - 1]
    BY <1>6, <2>3
  <2>7. QED
    BY <2>2, <2>5, <2>6
<1>8. QED
  BY <1>7

-----------------------------------------------------------------------------
(* Folds.                                                                  *)

\* What a fold computes step by step, for the values f over the subsets of S.
FoldsUp(it, S, f, op, base) ==
    it = [s \in SUBSET S |->
             IF s = {} THEN base
             ELSE LET x == CHOOSE x \in s : TRUE IN op[<<f[x], it[s \ {x}]>>]]

\* A fold over a finite set is defined.
LEMMA FoldExists ==
  ASSUME NEW S, IsFiniteSet(S), NEW f, NEW op, NEW base
  PROVE  \E it : FoldsUp(it, S, f, op, base)
<1> DEFINE Pick(s) == CHOOSE x \in s : TRUE
           Upto(n) == {s \in SUBSET S : Cardinality(s) <= n}
           Next1(g, s) == IF s = {} THEN base ELSE op[<<f[Pick(s)], g[s \ {Pick(s)}]>>]
           Solves(g, n) == \A s \in Upto(n) : g[s] = Next1(g, s)
           Bad == {n \in Nat : ~ \E g : Solves(g, n)}
<1>1. \A s \in SUBSET S : /\ IsFiniteSet(s) /\ Cardinality(s) \in Nat
                          /\ Cardinality(s) <= Cardinality(S)
  BY FS_Subset, FS_CardinalityType
<1>2. ASSUME NEW s \in SUBSET S, s # {}
      PROVE  /\ Pick(s) \in s /\ s \ {Pick(s)} \in SUBSET S
             /\ Cardinality(s \ {Pick(s)}) = Cardinality(s) - 1
  BY <1>1, <1>2, FS_RemoveElement
<1>3. ASSUME NEW s \in SUBSET S, Cardinality(s) = 0 PROVE s = {}
  BY <1>1, <1>3, FS_EmptySet
<1> HIDE DEF Pick
<1>4. \E g : Solves(g, 0)
  <2> DEFINE g == [s \in SUBSET S |-> base]
  <2>1. \A s \in Upto(0) : s = {}
    BY <1>1, <1>3
  <2>2. Solves(g, 0)
    BY <2>1
  <2>3. QED
    BY <2>2
<1>5. ASSUME NEW n \in Nat, NEW g, Solves(g, n)
      PROVE  \E h : Solves(h, n + 1)
  <2> DEFINE h == [s \in SUBSET S |-> IF s \in Upto(n) THEN g[s] ELSE Next1(g, s)]
  <2>1. ASSUME NEW s \in Upto(n + 1) PROVE h[s] = Next1(h, s)
    <3>1. h[s] = Next1(g, s)
      BY <1>5
    <3>2. CASE s # {}
      <4>1. s \ {Pick(s)} \in Upto(n)
        BY <1>1, <1>2, <3>2
      <4>2. h[s \ {Pick(s)}] = g[s \ {Pick(s)}]
        BY <4>1
      <4>3. QED
        BY <3>1, <3>2, <4>2
    <3>3. CASE s = {}
      BY <3>1, <3>3
    <3>4. QED
      BY <3>2, <3>3
  <2>2. Solves(h, n + 1)
    BY <2>1
  <2>3. QED
    BY <2>2
<1>6. Bad = {}
  <2>1. SUFFICES ASSUME Bad # {} PROVE FALSE
    OBVIOUS
  <2>2. PICK m \in Bad : \A n \in Bad : m <= n
    BY <2>1, LeastNumber
  <2> HIDE DEF Solves
  <2>3. m \in Nat /\ m # 0
    BY <1>4, <2>2
  <2>4. m - 1 \in Nat /\ m - 1 \notin Bad
    <3>1. m - 1 \in Nat /\ ~(m <= m - 1)
      BY <2>3
    <3>2. QED
      BY <2>2, <3>1
  <2>5. PICK g : Solves(g, m - 1)
    BY <2>4
  <2>6. \E h : Solves(h, (m - 1) + 1)
    BY <1>5, <2>4, <2>5
  <2>7. (m - 1) + 1 = m
    BY <2>3
  <2>8. QED
    BY <2>2, <2>6, <2>7
<1>7. Cardinality(S) \in Nat /\ Upto(Cardinality(S)) = SUBSET S
  BY <1>1, FS_CardinalityType
<1>8. PICK g : Solves(g, Cardinality(S))
  BY <1>6, <1>7
<1>9. [s \in SUBSET S |-> g[s]] = [s \in SUBSET S |-> Next1([t \in SUBSET S |-> g[t]], s)]
  <2>1. ASSUME NEW s \in SUBSET S
        PROVE  g[s] = Next1([t \in SUBSET S |-> g[t]], s)
    BY <1>2, <1>7, <1>8
  <2>2. QED
    BY <2>1
<1>10. FoldsUp([s \in SUBSET S |-> g[s]], S, f, op, base)
  BY <1>9 DEF FoldsUp, Pick
<1>11. QED
  BY <1>10

\* A fold stays in a set that holds its base and is closed under its operation.
LEMMA FoldTyped ==
  ASSUME NEW S, IsFiniteSet(S), NEW F, NEW f \in [S -> F], NEW op \in [F \X F -> F],
         NEW base \in F, NEW it, FoldsUp(it, S, f, op, base)
  PROVE  it \in [SUBSET S -> F]
<1> DEFINE Bad == {s \in SUBSET S : it[s] \notin F}
<1>1. Bad = {}
  <2>1. SUFFICES ASSUME Bad # {} PROVE FALSE
    OBVIOUS
  <2>2. Bad \in SUBSET (SUBSET S)
    OBVIOUS
  <2>3. PICK s \in Bad : \A u \in Bad : u \subseteq s => u = s
    <3> HIDE DEF Bad
    <3>1. QED
      BY <2>1, <2>2, SmallestSubset
  <2>4. it[s] = IF s = {} THEN base
                ELSE op[<<f[CHOOSE x \in s : TRUE], it[s \ {CHOOSE x \in s : TRUE}]>>]
    BY DEF FoldsUp
  <2>5. s # {}
    BY <2>3, <2>4
  <2>6. PICK x \in s : x = CHOOSE y \in s : TRUE
    BY <2>5
  <2>7. it[s \ {x}] \in F /\ f[x] \in F
    BY <2>3, <2>6
  <2>8. it[s] = op[<<f[x], it[s \ {x}]>>]
    BY <2>4, <2>5, <2>6
  <2>9. QED
    BY <2>3, <2>7, <2>8
<1>2. it = [s \in SUBSET S |-> it[s]]
  BY DEF FoldsUp
<1>3. QED
  BY <1>1, <1>2

NonNegative == {x \in Fraction : Leq(Zero, x)}

\* A total stays in a set that is closed under addition, and is one of its terms and the
\* rest.
LEMMA TotalTyped ==
  ASSUME NEW S, IsFiniteSet(S), NEW F \in SUBSET Fraction, Zero \in F,
         \A a, b \in F : Plus(a, b) \in F, NEW f \in [S -> F]
  PROVE  /\ TotalOf(f) \in F
         /\ S # {} => \E x \in S, r \in F : TotalOf(f) = Plus(f[x], r)
<1> DEFINE Pick(s) == CHOOSE x \in s : TRUE
           It == CHOOSE it : it = [s \in SUBSET S |->
                    IF s = {} THEN Zero
                    ELSE LET x == CHOOSE x \in s : TRUE IN Plus(f[x], it[s \ {x}])]
           op == [p \in F \X F |-> Plus(p[1], p[2])]
<1>1. TotalOf(f) = It[S]
  BY DEF TotalOf, FoldFunction, FoldFunctionOnSet, MapThenFoldSet
<1>2. op \in [F \X F -> F]
  OBVIOUS
<1>3. PICK it : FoldsUp(it, S, f, op, Zero)
  <2> HIDE DEF op
  <2>1. QED
    BY FoldExists
<1>4. it \in [SUBSET S -> F]
  <2> HIDE DEF op
  <2>1. QED
    BY <1>2, <1>3, FoldTyped
<1>5. \A s \in SUBSET S : s # {} => Pick(s) \in s
  OBVIOUS
<1>6. ASSUME NEW s \in SUBSET S
      PROVE  it[s] = IF s = {} THEN Zero ELSE Plus(f[Pick(s)], it[s \ {Pick(s)}])
  <2>1. it[s] = IF s = {} THEN Zero ELSE op[<<f[Pick(s)], it[s \ {Pick(s)}]>>]
    BY <1>3 DEF FoldsUp
  <2>2. CASE s = {}
    BY <2>1, <2>2
  <2>3. CASE s # {}
    <3> HIDE DEF Pick
    <3>1. f[Pick(s)] \in F /\ it[s \ {Pick(s)}] \in F
      BY <1>4, <1>5, <2>3
    <3>2. QED
      BY <2>1, <2>3, <3>1
  <2>4. QED
    BY <2>2, <2>3
<1>7. it = [s \in SUBSET S |->
              IF s = {} THEN Zero ELSE LET x == CHOOSE x \in s : TRUE IN Plus(f[x], it[s \ {x}])]
  <2>1. it = [s \in SUBSET S |-> it[s]]
    BY <1>4
  <2>2. QED
    BY <1>6, <2>1
<1>8. It = [s \in SUBSET S |->
              IF s = {} THEN Zero ELSE LET x == CHOOSE x \in s : TRUE IN Plus(f[x], It[s \ {x}])]
  BY <1>7, Zenon
<1> HIDE DEF It
<1>9. ASSUME NEW s \in SUBSET S
      PROVE  It[s] = IF s = {} THEN Zero ELSE Plus(f[Pick(s)], It[s \ {Pick(s)}])
  BY <1>8
<1> HIDE DEF Pick
<1> DEFINE Bad == {s \in SUBSET S : It[s] \notin F}
<1>10. Bad = {}
  <2>1. SUFFICES ASSUME Bad # {} PROVE FALSE
    OBVIOUS
  <2>2. Bad \in SUBSET (SUBSET S)
    OBVIOUS
  <2>3. PICK s \in Bad : \A u \in Bad : u \subseteq s => u = s
    <3> HIDE DEF Bad
    <3>1. QED
      BY <2>1, <2>2, SmallestSubset
  <2>4. s # {}
    BY <1>9, <2>3
  <2>5. Pick(s) \in s /\ s \ {Pick(s)} \in SUBSET S /\ s \ {Pick(s)} # s
    BY <1>5, <2>3, <2>4
  <2>6. It[s \ {Pick(s)}] \in F /\ f[Pick(s)] \in F
    BY <2>3, <2>5
  <2>7. QED
    BY <1>9, <2>3, <2>4, <2>6
<1>11. ASSUME S # {} PROVE \E x \in S, r \in F : TotalOf(f) = Plus(f[x], r)
  <2>1. Pick(S) \in S
    BY <1>5, <1>11
  <2>2. It[S \ {Pick(S)}] \in F
    BY <1>10
  <2>3. TotalOf(f) = Plus(f[Pick(S)], It[S \ {Pick(S)}])
    BY <1>1, <1>9, <1>11
  <2>4. QED
    BY <2>1, <2>2, <2>3
<1>12. QED
  BY <1>1, <1>10, <1>11

\* Adding what is not negative keeps the sign.
LEMMA PlusPositive ==
  ASSUME NEW a \in Fraction, NEW b \in Fraction, Leq(Zero, b)
  PROVE  /\ Leq(Zero, a) => Leq(Zero, Plus(a, b))
         /\ Positive(a) => Positive(Plus(a, b))
<1>1. Is(a, a[1], a[2]) /\ Is(b, b[1], b[2])
  BY FractionParts
<1>2. /\ a[1] \in Int /\ a[2] \in Nat \ {0} /\ b[1] \in Nat /\ b[2] \in Nat \ {0}
  BY FractionParts, LeqTotal
<1>3. PICK c : c = Plus(a, b)
  OBVIOUS
<1>4. PICK n, d : n = a[1] * b[2] + b[1] * a[2] /\ d = a[2] * b[2]
  OBVIOUS
<1>5. c \in Fraction /\ d \in Nat \ {0} /\ n \in Int /\ c[1] * d = n * c[2]
  <2>1. Is(Plus(a, b), a[1] * b[2] + b[1] * a[2], a[2] * b[2])
    BY <1>1, PlusForms
  <2>2. Is(c, n, d)
    BY <1>3, <1>4, <2>1
  <2>3. QED
    BY <2>2 DEF Is
<1>6. c[1] \in Int /\ c[2] \in Nat \ {0}
  BY <1>5, FractionParts
<1>7. b[1] * a[2] >= 0
  BY <1>2
<1>8. ASSUME Leq(Zero, a) PROVE Leq(Zero, c)
  <2>1. a[1] >= 0
    BY <1>8, LeqTotal
  <2>2. a[1] * b[2] >= 0
    BY <1>2, <2>1
  <2>3. n >= 0
    BY <1>2, <1>4, <1>7, <2>2
  <2>4. n * c[2] >= 0
    BY <1>5, <1>6, <2>3
  <2>5. c[1] >= 0
    BY <1>5, <1>6, <2>4
  <2>6. QED
    BY <1>5, <2>5, LeqTotal
<1>9. ASSUME Positive(a) PROVE Positive(c)
  <2>1. a[1] * b[2] > 0
    BY <1>2, <1>9, ProductPositive DEF Positive
  <2>2. n > 0
    BY <1>2, <1>4, <1>7, <2>1
  <2>3. n * c[2] > 0
    BY <1>5, <1>6, <2>2, ProductPositive
  <2>4. c[1] > 0
    BY <1>5, <1>6, <2>3
  <2>5. QED
    BY <2>4 DEF Positive
<1>10. QED
  BY <1>3, <1>8, <1>9

\* The total of amounts is an amount, and positive when all of them are.
LEMMA TotalType ==
  ASSUME NEW S, IsFiniteSet(S), NEW f \in [S -> Fraction]
  PROVE  /\ TotalOf(f) \in Fraction
         /\ S # {} /\ (\A x \in S : Positive(f[x])) => Positive(TotalOf(f))
<1>1. TotalOf(f) \in Fraction
  <2>1. \A a, b \in Fraction : Plus(a, b) \in Fraction
    BY Closed
  <2>2. Fraction \in SUBSET Fraction /\ Zero \in Fraction
    BY Constants
  <2>3. QED
    BY <2>1, <2>2, TotalTyped
<1>2. ASSUME S # {}, \A x \in S : Positive(f[x]) PROVE Positive(TotalOf(f))
  <2>1. NonNegative \in SUBSET Fraction /\ Zero \in NonNegative
    BY Constants, LeqTotal DEF NonNegative
  <2>2. \A a, b \in NonNegative : Plus(a, b) \in NonNegative
    BY Closed, PlusPositive DEF NonNegative
  <2>3. f \in [S -> NonNegative]
    <3>1. ASSUME NEW x \in S PROVE f[x] \in NonNegative
      BY <1>2, PositiveLeq, LeqTotal DEF NonNegative
    <3>2. QED
      BY <3>1
  <2>4. PICK x \in S, r \in NonNegative : TotalOf(f) = Plus(f[x], r)
    BY <1>2, <2>1, <2>2, <2>3, TotalTyped
  <2>5. QED
    BY <1>2, <2>4, PlusPositive DEF NonNegative
<1>3. QED
  BY <1>1, <1>2

\* The product of size factors is a fraction.
LEMMA FactorType ==
  ASSUME NEW S, IsFiniteSet(S), NEW f \in [S -> Fraction]
  PROVE  CombinedSizeFactor(f) \in Fraction
<1> DEFINE Pick(s) == CHOOSE x \in s : TRUE
           Step1(factor, acc) == Times(acc, Between(Zero, factor, One))
           It == CHOOSE it : it = [s \in SUBSET S |->
                    IF s = {} THEN One
                    ELSE LET x == CHOOSE x \in s : TRUE IN Step1(f[x], it[s \ {x}])]
           op == [p \in Fraction \X Fraction |-> Step1(p[1], p[2])]
<1>1. CombinedSizeFactor(f) = It[S]
  BY DEF CombinedSizeFactor, FoldFunction, FoldFunctionOnSet, MapThenFoldSet
<1>2. \A x, acc \in Fraction : Step1(x, acc) \in Fraction
  BY Closed, Constants DEF Between
<1> HIDE DEF Step1
<1>3. op \in [Fraction \X Fraction -> Fraction]
  BY <1>2
<1>4. PICK it : FoldsUp(it, S, f, op, One)
  <2> HIDE DEF op
  <2>1. QED
    BY FoldExists
<1>5. it \in [SUBSET S -> Fraction]
  <2> HIDE DEF op
  <2>1. QED
    BY <1>3, <1>4, FoldTyped, Constants
<1>6. \A s \in SUBSET S : s # {} => Pick(s) \in s
  OBVIOUS
<1>7. ASSUME NEW s \in SUBSET S
      PROVE  it[s] = IF s = {} THEN One ELSE Step1(f[Pick(s)], it[s \ {Pick(s)}])
  <2>1. it[s] = IF s = {} THEN One ELSE op[<<f[Pick(s)], it[s \ {Pick(s)}]>>]
    BY <1>4 DEF FoldsUp
  <2>2. CASE s = {}
    BY <2>1, <2>2
  <2>3. CASE s # {}
    <3> HIDE DEF Pick
    <3>1. f[Pick(s)] \in Fraction /\ it[s \ {Pick(s)}] \in Fraction
      BY <1>5, <1>6, <2>3
    <3>2. QED
      BY <2>1, <2>3, <3>1
  <2>4. QED
    BY <2>2, <2>3
<1>8. it = [s \in SUBSET S |->
              IF s = {} THEN One ELSE LET x == CHOOSE x \in s : TRUE IN Step1(f[x], it[s \ {x}])]
  <2>1. it = [s \in SUBSET S |-> it[s]]
    BY <1>5
  <2>2. QED
    BY <1>7, <2>1
<1>9. It = [s \in SUBSET S |->
              IF s = {} THEN One ELSE LET x == CHOOSE x \in s : TRUE IN Step1(f[x], It[s \ {x}])]
  BY <1>8, Zenon
<1> HIDE DEF It
<1>10. ASSUME NEW s \in SUBSET S
       PROVE  It[s] = IF s = {} THEN One ELSE Step1(f[Pick(s)], It[s \ {Pick(s)}])
  BY <1>9
<1> HIDE DEF Pick
<1> DEFINE Bad == {s \in SUBSET S : It[s] \notin Fraction}
<1>11. Bad = {}
  <2>1. SUFFICES ASSUME Bad # {} PROVE FALSE
    OBVIOUS
  <2>2. Bad \in SUBSET (SUBSET S)
    OBVIOUS
  <2>3. PICK s \in Bad : \A u \in Bad : u \subseteq s => u = s
    <3> HIDE DEF Bad
    <3>1. QED
      BY <2>1, <2>2, SmallestSubset
  <2>4. s # {}
    BY <1>10, <2>3, Constants
  <2>5. Pick(s) \in s /\ s \ {Pick(s)} \in SUBSET S /\ s \ {Pick(s)} # s
    BY <1>6, <2>3, <2>4
  <2>6. It[s \ {Pick(s)}] \in Fraction /\ f[Pick(s)] \in Fraction
    BY <2>3, <2>5
  <2>7. QED
    BY <1>2, <1>10, <2>3, <2>4, <2>6
<1>12. QED
  BY <1>1, <1>11

\* The parts of a positive fraction.
LEMMA PositiveParts ==
  ASSUME NEW r \in PositiveFraction
  PROVE  r \in Fraction /\ Positive(r) /\ r[1] \in Nat \ {0} /\ r[2] \in Nat \ {0}
  BY DEF PositiveFraction, Fraction, Positive

\* The parts of what the engine is asked.
LEMMA InputParts ==
  ASSUME NEW i \in RiskInputs
  PROVE  /\ i.confidence \in Fraction /\ i.config \in RiskConfigs
         /\ i.identity \in InstrumentIdentities /\ i.reserved \in ReservedExposures
         /\ i.account # None => i.account \in AccountStates
         /\ i.quote # None => i.quote \in QuoteSnapshots
         /\ i.fx # None => i.fx \in FxSnapshots
         /\ i.calibration # None => i.calibration \in [samples : Nat, hit_rate : Fraction]
         /\ i.reduce_fraction # None => i.reduce_fraction \in Fraction
         /\ i.other_holding_weights \in Seq(Fraction)
  BY DEF RiskInputs, Option

\* The parts of the limits.
LEMMA ConfigParts ==
  ASSUME NEW c \in RiskConfigs
  PROVE  /\ c.max_spread_bps \in Int /\ c.wide_spread_size_factor \in Fraction
         /\ c.max_notional_per_trade \in Fraction /\ c.max_trade_pct \in Fraction
         /\ c.max_position_pct \in Fraction /\ c.max_aggregate_pct \in Fraction
         /\ c.min_cash_reserve_pct \in Fraction /\ c.min_trade_notional \in Fraction
         /\ c.max_active_exposure_pct \in Fraction /\ c.target_positions \in Nat
         /\ c.conviction_full_confidence \in Fraction /\ c.conviction_min_weight \in Fraction
         /\ c.conviction_max_weight \in Fraction /\ c.min_research_confidence \in Fraction
         /\ c.min_confidence_factor \in Fraction /\ c.min_calibration_factor \in Fraction
         /\ c.default_precision \in Nat
  BY DEF RiskConfigs

\* The parts of an account.
LEMMA AccountParts ==
  ASSUME NEW a \in AccountStates
  PROVE  /\ a.cash \in Fraction /\ a.total \in Fraction /\ a.invested \in Fraction
         /\ a.position # None =>
               /\ a.position.quantity \in Fraction /\ a.position.available \in Fraction
               /\ a.position.value # None => a.position.value \in Fraction
  BY DEF AccountStates, PositionStates, Option

\* The parts of a quote.
LEMMA QuoteParts ==
  ASSUME NEW q \in QuoteSnapshots
  PROVE  /\ q.bid # None => q.bid \in Fraction
         /\ q.ask # None => q.ask \in Fraction
  BY DEF QuoteSnapshots, Option

\* What is held, and its value, are amounts.
LEMMA HeldParts ==
  ASSUME NEW i \in RiskInputs
  PROVE  Held(i) \in Fraction /\ HeldValue(i) \in Fraction
  BY InputParts, AccountParts, Constants DEF Held, HeldValue, Position

\* A rate that may be used is a positive number.
LEMMA RateParts ==
  ASSUME NEW i \in RiskInputs, FxRequired(i), FxUsable(i)
  PROVE  i.fx.rate \in Fraction /\ Positive(i.fx.rate)
<1>1. i.fx # None /\ ~i.fx.same /\ i.fx.blockers = {} /\ i.fx \in FxSnapshots
  BY InputParts DEF FxRequired, FxUsable
<1>2. i.fx.rate \in PositiveFraction
  BY <1>1 DEF FxSnapshots, Option
<1>3. QED
  BY <1>2, PositiveParts

\* Conversions into one currency and back.
LEMMA Convert ==
  ASSUME NEW i \in RiskInputs, FxRequired(i) => FxUsable(i), NEW x \in Fraction, NEW y \in Fraction
  PROVE  /\ ToInstrument(i, x) \in Fraction /\ ToAccount(i, x) \in Fraction
         /\ Same(ToInstrument(i, ToAccount(i, x)), x)
<1>1. CASE ~FxRequired(i)
  <2>1. ToInstrument(i, x) = x /\ ToAccount(i, x) = x
    BY <1>1 DEF ToInstrument, ToAccount
  <2>2. QED
    BY <2>1, LeqTotal
<1>2. CASE FxRequired(i)
  <2>1. i.fx.rate \in Fraction /\ Positive(i.fx.rate)
    BY <1>2, RateParts
  <2>2. PICK r : r = i.fx.rate
    OBVIOUS
  <2>3. r \in Fraction /\ Positive(r)
    BY <2>1, <2>2
  <2>4. Times(x, r) \in Fraction /\ Over(x, r) \in Fraction
    BY <2>3, Closed
  <2>5. Same(Times(Over(x, r), r), x) /\ Same(Over(Times(x, r), r), x)
    BY <2>3, SameOver
  <2>6. CASE i.fx.direct
    <3>1. /\ ToInstrument(i, x) = Times(x, r) /\ ToAccount(i, x) = Over(x, r)
          /\ ToInstrument(i, Over(x, r)) = Times(Over(x, r), r)
      BY <1>2, <2>2, <2>6 DEF ToInstrument, ToAccount
    <3>2. QED
      BY <2>4, <2>5, <3>1
  <2>7. CASE ~i.fx.direct
    <3>1. /\ ToInstrument(i, x) = Over(x, r) /\ ToAccount(i, x) = Times(x, r)
          /\ ToInstrument(i, Times(x, r)) = Over(Times(x, r), r)
      BY <1>2, <2>2, <2>7 DEF ToInstrument, ToAccount
    <3>2. QED
      BY <2>4, <2>5, <3>1
  <2>8. QED
    BY <2>6, <2>7
<1>3. QED
  BY <1>1, <1>2

-----------------------------------------------------------------------------
(* The book of a conviction.                                               *)

\* The weight of a conviction is an amount.
LEMMA ConvictionWeightType ==
  ASSUME NEW c, NEW confidence \in Fraction, c.conviction_full_confidence \in Fraction,
         c.min_research_confidence \in Fraction, c.conviction_min_weight \in Fraction,
         c.conviction_max_weight \in Fraction
  PROVE  ConvictionWeight(c, confidence) \in Fraction
<1> DEFINE span == Minus(c.conviction_full_confidence, c.min_research_confidence)
           above == Minus(confidence, c.min_research_confidence)
           progress == IF ~Positive(span) THEN One ELSE Between(Zero, Over(above, span), One)
           wide == Minus(c.conviction_max_weight, c.conviction_min_weight)
<1>1. span \in Fraction /\ above \in Fraction /\ wide \in Fraction
  BY Closed
<1>2. ConvictionWeight(c, confidence) = Plus(c.conviction_min_weight, Times(wide, progress))
  BY DEF ConvictionWeight
<1> HIDE DEF span, above, wide
<1>3. progress \in Fraction
  <2>1. CASE ~Positive(span)
    BY <2>1, Constants
  <2>2. CASE Positive(span)
    <3>1. Over(above, span) \in Fraction
      BY <1>1, <2>2, Closed
    <3>2. Larger(Zero, Over(above, span)) \in Fraction
      BY <3>1, Closed, Constants
    <3>3. QED
      BY <2>2, <3>2, Closed, Constants DEF Between
  <2>3. QED
    BY <2>1, <2>2
<1> HIDE DEF progress
<1>4. Times(wide, progress) \in Fraction
  BY <1>1, <1>3, Closed
<1>5. QED
  BY <1>2, <1>4, Closed

\* The weight of a confidence is a fraction.
LEMMA WeightType ==
  ASSUME NEW c \in RiskConfigs, NEW confidence \in Fraction
  PROVE  ConvictionWeight(c, confidence) \in Fraction
  BY ConfigParts, ConvictionWeightType

\* What the water-filling keeps from round to round.
Fills(S, weights) ==
    [open : SUBSET {n \in S : Positive(weights[n])}, left : Fraction, targets : [S -> Fraction]]

\* A round of the water-filling of the conviction book stays within its type.
LEMMA RoundType ==
  ASSUME NEW S, IsFiniteSet(S), NEW weights \in [S -> Fraction], NEW cap \in Fraction,
         NEW s \in Fills(S, weights)
  PROVE  FillRound(cap, weights, s) \in Fills(S, weights)
<1>1. /\ s.open \in SUBSET {n \in S : Positive(weights[n])} /\ s.left \in Fraction
      /\ s.targets \in [S -> Fraction] /\ DOMAIN weights = S /\ s.open \subseteq S
      /\ s = [open |-> s.open, left |-> s.left, targets |-> s.targets]
  BY DEF Fills
<1>2. CASE s.open = {} \/ ~Positive(s.left)
  BY <1>2 DEF FillRound
<1>3. CASE s.open # {} /\ Positive(s.left)
  <2> DEFINE own == [n \in s.open |-> weights[n]]
             sum == TotalOf(own)
             share == [n \in s.open |-> Over(Times(s.left, weights[n]), sum)]
             capped == {n \in s.open : Leq(cap, share[n])}
             even == [n \in S |-> IF n \in s.open THEN share[n] ELSE s.targets[n]]
             full == [n \in S |-> IF n \in capped THEN cap ELSE s.targets[n]]
             rest == Minus(s.left, Times(Whole(Cardinality(capped)), cap))
  <2>1. own \in [s.open -> Fraction] /\ (\A n \in s.open : Positive(own[n])) /\ IsFiniteSet(s.open)
    BY <1>1, FS_Subset
  <2>2. sum \in Fraction /\ Positive(sum)
    <3> HIDE DEF own
    <3>1. QED
      BY <1>3, <2>1, TotalType
  <2> HIDE DEF sum
  <2>3. ASSUME NEW n \in s.open PROVE Over(Times(s.left, weights[n]), sum) \in Fraction
    <3>1. weights[n] \in Fraction
      BY <1>1
    <3>2. Times(s.left, weights[n]) \in Fraction
      BY <1>1, <3>1, Closed
    <3>3. QED
      BY <2>2, <3>2, Closed
  <2>4. share \in [s.open -> Fraction]
    BY <2>3
  <2> HIDE DEF share
  <2>5. even \in [S -> Fraction] /\ full \in [S -> Fraction]
    BY <1>1, <2>4
  <2>6. IsFiniteSet(capped) /\ capped \subseteq s.open
    BY <2>1, FS_Subset
  <2>7. rest \in Fraction
    <3> HIDE DEF capped
    <3>1. Whole(Cardinality(capped)) \in Fraction
      BY <2>6, FS_CardinalityType, Constants
    <3>2. Times(Whole(Cardinality(capped)), cap) \in Fraction
      BY <3>1, Closed
    <3>3. QED
      BY <1>1, <3>2, Closed
  <2>8. FillRound(cap, weights, s) =
            IF capped = {} THEN [s EXCEPT !.open = {}, !.targets = even]
            ELSE [open |-> s.open \ capped, left |-> rest, targets |-> full]
    BY <1>1, <1>3 DEF FillRound, sum, share
  <2> HIDE DEF capped, even, full, rest, own
  <2>9. [s EXCEPT !.open = {}, !.targets = even] \in Fills(S, weights)
    BY <1>1, <2>5 DEF Fills
  <2>10. [open |-> s.open \ capped, left |-> rest, targets |-> full] \in Fills(S, weights)
    BY <1>1, <2>5, <2>7 DEF Fills
  <2>11. QED
    BY <2>8, <2>9, <2>10
<1>4. QED
  BY <1>2, <1>3

\* A start and a step within X, and what they run through.
Iterable(X, b, g) == b \in X /\ g \in [X -> X]
Iterated(X, b, g, f) == f \in [Nat -> X] /\ f[0] = b /\ \A k \in Nat : f[k + 1] = g[f[k]]

\* Iterates, for any domain.
LEMMA IteratesAll == \A X, b, g : Iterable(X, b, g) => \E f : Iterated(X, b, g, f)
  BY Iterates DEF Iterable, Iterated

\* The rounds of the water-filling of a book, from its weights.
Rounds(fill, S, total, weights, cap) ==
    /\ \A k \in 0..Cardinality(S) :
           /\ fill[k] \in Fills(S, weights)
           /\ k # 0 => fill[k] = FillRound(cap, weights, fill[k - 1])
    /\ fill[0] = [open |-> {n \in S : Positive(weights[n])}, left |-> total,
                  targets |-> [n \in S |-> Zero]]

\* The water-filling is its rounds.
LEMMA FillSteps ==
  ASSUME NEW S, IsFiniteSet(S), NEW weights \in [S -> Fraction], NEW total \in Fraction,
         NEW config, config.max_position_pct \in Fraction
  PROVE  \E fill : /\ Rounds(fill, S, total, weights, Share(total, config.max_position_pct))
                   /\ ConvictionTargets(total, weights, config) = fill[Cardinality(S)].targets
<1> DEFINE cap == Share(total, config.max_position_pct)
           rounds == Cardinality(S)
           b == [open |-> {n \in S : Positive(weights[n])}, left |-> total,
                 targets |-> [n \in S |-> Zero]]
           g == [s \in Fills(S, weights) |-> FillRound(cap, weights, s)]
           Fill == CHOOSE fill : fill = [k \in 0..rounds |->
                       IF k = 0 THEN b ELSE FillRound(cap, weights, fill[k - 1])]
<1>1. DOMAIN weights = S /\ cap \in Fraction /\ rounds \in Nat
  BY Closed, FS_CardinalityType DEF Share
<1>2. ConvictionTargets(total, weights, config) = Fill[rounds].targets
  BY <1>1 DEF ConvictionTargets
<1>3. b \in Fills(S, weights)
  BY Constants DEF Fills
<1> HIDE DEF cap, b, rounds
<1>4. g \in [Fills(S, weights) -> Fills(S, weights)]
  BY <1>1, RoundType
<1>5. PICK f \in [Nat -> Fills(S, weights)] : f[0] = b /\ \A k \in Nat : f[k + 1] = g[f[k]]
  <2>1. Iterable(Fills(S, weights), b, g)
    BY <1>3, <1>4 DEF Iterable
  <2>2. PICK f : Iterated(Fills(S, weights), b, g, f)
    BY <2>1, IteratesAll
  <2>3. QED
    BY <2>2 DEF Iterated
<1>6. PICK it : it = [k \in 0..rounds |-> f[k]]
  OBVIOUS
<1>7. ASSUME NEW k \in 0..rounds
      PROVE  /\ it[k] \in Fills(S, weights)
             /\ it[k] = IF k = 0 THEN b ELSE FillRound(cap, weights, it[k - 1])
  <2>1. it[k] = f[k] /\ k \in Nat
    BY <1>1, <1>6
  <2>2. CASE k # 0
    <3>1. k - 1 \in Nat /\ k - 1 \in 0..rounds /\ (k - 1) + 1 = k
      BY <1>1, <2>2
    <3>2. f[k] = g[f[k - 1]] /\ f[k - 1] \in Fills(S, weights)
      BY <1>5, <3>1
    <3>3. it[k - 1] = f[k - 1]
      BY <1>6, <3>1
    <3>4. QED
      BY <2>1, <2>2, <3>2, <3>3
  <2>3. QED
    BY <1>5, <2>1, <2>2
<1>8. it = [k \in 0..rounds |-> IF k = 0 THEN b ELSE FillRound(cap, weights, it[k - 1])]
  BY <1>6, <1>7
<1>9. Fill = [k \in 0..rounds |-> IF k = 0 THEN b ELSE FillRound(cap, weights, Fill[k - 1])]
  BY <1>8, Zenon
<1> HIDE DEF Fill
<1>10. ASSUME NEW k \in 0..rounds
       PROVE  Fill[k] = IF k = 0 THEN b ELSE FillRound(cap, weights, Fill[k - 1])
  BY <1>9
<1> DEFINE Bad == {k \in 0..rounds : Fill[k] \notin Fills(S, weights)}
<1>11. Bad = {}
  <2>1. SUFFICES ASSUME Bad # {} PROVE FALSE
    OBVIOUS
  <2>2. Bad \in SUBSET Nat
    BY <1>1
  <2>3. PICK m \in Bad : \A k \in Bad : m <= k
    <3> HIDE DEF Bad
    <3>1. QED
      BY <2>1, <2>2, LeastNumber
  <2>4. m # 0 /\ m \in Nat
    BY <1>3, <1>10, <2>2, <2>3
  <2>5. m - 1 \in 0..rounds /\ ~(m <= m - 1)
    BY <1>1, <2>3, <2>4
  <2>6. Fill[m - 1] \in Fills(S, weights)
    BY <2>3, <2>5
  <2>7. Fill[m] \in Fills(S, weights)
    BY <1>1, <1>10, <2>3, <2>4, <2>6, RoundType
  <2>8. QED
    BY <2>3, <2>7
<1>12. 0 \in 0..rounds /\ Cardinality(S) = rounds
  BY <1>1 DEF rounds
<1>13. Fill[0] = b
  BY <1>10, <1>12
<1>14. \A k \in 0..rounds : k # 0 => Fill[k] = FillRound(cap, weights, Fill[k - 1])
  BY <1>10
<1>15. Rounds(Fill, S, total, weights, cap)
  BY <1>11, <1>12, <1>13, <1>14 DEF Rounds, b
<1>16. QED
  BY <1>2, <1>12, <1>15 DEF cap

\* The targets of the conviction book are amounts.
LEMMA TargetsType ==
  ASSUME NEW S, IsFiniteSet(S), NEW weights \in [S -> Fraction], NEW total \in Fraction,
         NEW config, config.max_position_pct \in Fraction
  PROVE  ConvictionTargets(total, weights, config) \in [S -> Fraction]
<1>1. PICK fill : /\ Rounds(fill, S, total, weights, Share(total, config.max_position_pct))
                  /\ ConvictionTargets(total, weights, config) = fill[Cardinality(S)].targets
  BY FillSteps
<1>2. Cardinality(S) \in 0..Cardinality(S)
  BY FS_CardinalityType
<1>3. fill[Cardinality(S)] \in Fills(S, weights)
  BY <1>1, <1>2 DEF Rounds
<1>4. QED
  BY <1>1, <1>3 DEF Fills

-----------------------------------------------------------------------------
(* The ceilings of an entry.                                               *)

\* The conviction target of an entry is an amount.
LEMMA ConvictionType ==
  ASSUME NEW i \in RiskInputs, i.account # None
  PROVE  ConvictionTarget(i) \in Fraction
<1>1. /\ i.config \in RiskConfigs /\ i.confidence \in Fraction /\ i.account.total \in Fraction
      /\ i.config.target_positions \in Nat /\ i.config.max_position_pct \in Fraction
      /\ i.other_holding_weights \in Seq(Fraction)
  BY InputParts, ConfigParts, AccountParts
<1>2. PICK weight : weight = ConvictionWeight(i.config, i.confidence)
  OBVIOUS
<1>3. weight \in Fraction
  BY <1>1, <1>2, WeightType
<1>4. CASE i.config.target_positions = 0
  <2> DEFINE others == DOMAIN i.other_holding_weights
             weights == [n \in others \cup {0} |->
                            IF n = 0 THEN weight ELSE i.other_holding_weights[n]]
  <2>1. IsFiniteSet(others \cup {0})
    <3>1. Len(i.other_holding_weights) \in Nat /\ others = 1..Len(i.other_holding_weights)
      BY <1>1
    <3>2. PICK n : n = Len(i.other_holding_weights)
      OBVIOUS
    <3>3. n \in Int /\ IsFiniteSet(1..n)
      BY <3>1, <3>2, FS_Interval
    <3>4. IsFiniteSet(others)
      BY <3>1, <3>2, <3>3
    <3>5. QED
      BY <3>4, FS_AddElement
  <2>2. weights \in [others \cup {0} -> Fraction]
    <3>1. \A n \in others : i.other_holding_weights[n] \in Fraction
      BY <1>1
    <3>2. QED
      BY <1>3, <3>1
  <2>3. ConvictionTarget(i) = ConvictionTargets(i.account.total, weights, i.config)[0]
    BY <1>2, <1>4 DEF ConvictionTarget
  <2> HIDE DEF weights, others
  <2>4. ConvictionTargets(i.account.total, weights, i.config) \in [others \cup {0} -> Fraction]
    BY <1>1, <2>1, <2>2, TargetsType
  <2>5. QED
    BY <2>3, <2>4
<1>5. CASE i.config.target_positions # 0
  <2>1. PICK n : n = i.config.target_positions
    OBVIOUS
  <2>2. Whole(n) \in Fraction /\ Positive(Whole(n))
    BY <1>1, <1>5, <2>1, Constants DEF Whole, Positive
  <2>3. Over(i.account.total, Whole(n)) \in Fraction
    BY <1>1, <2>2, Closed
  <2>4. Times(Over(i.account.total, Whole(n)), weight) \in Fraction
    BY <1>3, <2>3, Closed
  <2>5. Share(i.account.total, i.config.max_position_pct) \in Fraction
    BY <1>1, Closed DEF Share
  <2>6. ConvictionTarget(i) = Smaller(Times(Over(i.account.total, Whole(n)), weight),
                                      Share(i.account.total, i.config.max_position_pct))
    BY <1>2, <1>5, <2>1 DEF ConvictionTarget
  <2>7. QED
    BY <2>4, <2>5, <2>6, Closed
<1>6. QED
  BY <1>4, <1>5

\* Headroom is never negative.
LEMMA HeadroomType ==
  ASSUME NEW a \in Fraction, NEW b \in Fraction
  PROVE  Headroom(a, b) \in Fraction /\ Leq(Zero, Headroom(a, b))
<1>1. Minus(a, b) \in Fraction /\ Zero \in Fraction
  BY Closed, Constants
<1>2. QED
  BY <1>1, LeqTotal, Closed DEF Headroom, Larger

\* Headroom for something is room for it beside what is used.
LEMMA HeadroomFits ==
  ASSUME NEW q \in Fraction, NEW a \in Fraction, NEW b \in Fraction,
         Positive(q), Leq(q, Headroom(a, b))
  PROVE  Leq(Plus(b, q), a)
<1>1. Minus(a, b) \in Fraction
  BY Closed
<1>2. Leq(q, Minus(a, b))
  BY <1>1, LeqLarger DEF Headroom
<1>3. QED
  BY <1>2, LeqMinus

\* The mid price lies at or below the ask.
LEMMA MidParts ==
  ASSUME NEW bid \in Fraction, NEW ask \in Fraction
  PROVE  /\ Mid(bid, ask) \in Fraction
         /\ Positive(bid) /\ Positive(ask) => Positive(Mid(bid, ask))
         /\ Leq(bid, ask) => Leq(Mid(bid, ask), ask)
<1>1. Is(bid, bid[1], bid[2]) /\ Is(ask, ask[1], ask[2]) /\ Is(Whole(2), 2, 1)
  BY FractionParts, Constants DEF Whole
<1>2. PICK b, d, a, e : b = bid[1] /\ d = bid[2] /\ a = ask[1] /\ e = ask[2]
  OBVIOUS
<1>3. b \in Int /\ d \in Nat \ {0} /\ a \in Int /\ e \in Nat \ {0}
  BY <1>2, FractionParts
<1>4. Is(Plus(bid, ask), b * e + a * d, d * e)
  BY <1>1, <1>2, PlusForms
<1>5. Is(Mid(bid, ask), (b * e + a * d) * 1, (d * e) * 2)
  BY <1>1, <1>4, OverForms DEF Mid
<1>6. PICK m : m = Mid(bid, ask)
  OBVIOUS
<1>7. m \in Fraction /\ m[1] * ((d * e) * 2) = (b * e + a * d) * m[2]
  <2>1. (b * e + a * d) * 1 = b * e + a * d
    BY <1>3
  <2>2. QED
    BY <1>5, <1>6, <2>1 DEF Is
<1>8. m[1] \in Int /\ m[2] \in Nat \ {0}
  BY <1>7, FractionParts
<1>9. ASSUME Positive(bid), Positive(ask) PROVE Positive(m)
  <2>1. b * e \in Nat \ {0} /\ a * d \in Nat \ {0}
    BY <1>2, <1>3, <1>9, ProductPositive DEF Positive
  <2>2. PICK s : s = b * e + a * d
    OBVIOUS
  <2>3. s \in Nat \ {0}
    BY <2>1, <2>2
  <2>4. s * m[2] > 0
    BY <1>8, <2>3, ProductPositive
  <2>5. PICK t : t = (d * e) * 2
    OBVIOUS
  <2>6. t \in Nat \ {0} /\ m[1] * t > 0
    BY <1>3, <1>7, <2>2, <2>4, <2>5, ProductPositive
  <2>7. m[1] > 0
    BY <1>8, <2>6
  <2>8. QED
    BY <2>7 DEF Positive
<1>10. ASSUME Leq(bid, ask) PROVE Leq(m, ask)
  <2>1. b * e <= a * d
    BY <1>2, <1>10 DEF Leq
  <2>2. (b * e + a * d) * 1 = b * e + a * d /\ b * e + a * d <= 2 * (a * d)
    BY <1>3, <2>1
  <2>3. PICK s, t : s = b * e + a * d /\ t = 2 * (a * d)
    OBVIOUS
  <2>4. s \in Int /\ t \in Int /\ s * e <= t * e
    BY <1>3, <2>2, <2>3, CancelLeq
  <2>5. t * e = a * ((d * e) * 2)
    BY <1>3, <2>3
  <2>6. ((b * e + a * d) * 1) * e <= a * ((d * e) * 2)
    BY <2>2, <2>3, <2>4, <2>5
  <2>7. QED
    BY <1>1, <1>2, <1>5, <1>6, <2>6, LeqForms
<1>11. QED
  BY <1>6, <1>7, <1>9, <1>10

\* Every ceiling of an entry is an amount.
LEMMA CapType ==
  ASSUME NEW i \in RiskInputs, NEW id \in CapIds(i)
  PROVE  CapLimit(i, id) \in Fraction
<1>1. i.account # None /\ i.action \in ExposureIncreasing
  BY DEF CapIds
<1>2. PICK total, c : total = i.account.total /\ c = i.config
  OBVIOUS
<1>3. /\ total \in Fraction /\ i.account.invested \in Fraction /\ i.account.cash \in Fraction
      /\ c.max_notional_per_trade \in Fraction /\ c.max_trade_pct \in Fraction
      /\ c.max_position_pct \in Fraction /\ c.max_aggregate_pct \in Fraction
      /\ c.min_cash_reserve_pct \in Fraction /\ c.max_active_exposure_pct \in Fraction
      /\ i.reserved.notional \in Fraction /\ HeldValue(i) \in Fraction /\ Held(i) \in Fraction
  BY <1>1, <1>2, InputParts, ConfigParts, AccountParts, HeldParts DEF ReservedExposures
<1>4. \A pct \in Fraction : Share(total, pct) \in Fraction
  BY <1>3, Closed DEF Share
<1>5. CASE id = "max_notional_per_trade"
  BY <1>2, <1>3, <1>5 DEF CapLimit
<1>6. CASE id = "conviction_target"
  <2>1. CapLimit(i, id) = Headroom(ConvictionTarget(i), HeldValue(i))
    BY <1>6 DEF CapLimit
  <2>2. QED
    BY <1>1, <1>3, <2>1, ConvictionType, HeadroomType
<1>7. CASE id = "max_trade_pct_of_portfolio"
  BY <1>2, <1>3, <1>4, <1>7 DEF CapLimit
<1>8. CASE id = "max_position_concentration"
  <2>1. CapLimit(i, id) = Headroom(Share(total, c.max_position_pct), HeldValue(i))
    BY <1>2, <1>8 DEF CapLimit
  <2>2. QED
    BY <1>3, <1>4, <2>1, HeadroomType
<1>9. CASE id = "max_aggregate_exposure"
  <2>1. CapLimit(i, id) = Headroom(Share(total, c.max_aggregate_pct), i.account.invested)
    BY <1>2, <1>9 DEF CapLimit
  <2>2. QED
    BY <1>3, <1>4, <2>1, HeadroomType
<1>10. CASE id = "active_proposal_exposure"
  <2>1. CapLimit(i, id) = Headroom(Share(total, c.max_active_exposure_pct), i.reserved.notional)
    BY <1>2, <1>10 DEF CapLimit
  <2>2. QED
    BY <1>3, <1>4, <2>1, HeadroomType
<1>11. CASE id = "min_cash_reserve"
  <2>1. CapLimit(i, id) = Headroom(Minus(i.account.cash, Share(total, c.min_cash_reserve_pct)),
                                   i.reserved.notional)
    BY <1>2, <1>11 DEF CapLimit
  <2>2. Minus(i.account.cash, Share(total, c.min_cash_reserve_pct)) \in Fraction
    BY <1>3, <1>4, Closed
  <2>3. QED
    BY <1>3, <2>1, <2>2, HeadroomType
<1>12. CASE id = "broker_max_open_quantity"
  <2>1. HasMaxOpen(i)
    BY <1>12 DEF CapIds
  <2>2. /\ i.identity.max_open \in Fraction /\ i.quote.bid \in Fraction /\ i.quote.ask \in Fraction
        /\ FxRequired(i) => FxUsable(i)
    BY <2>1, InputParts, QuoteParts DEF HasMaxOpen, InstrumentIdentities, Option
  <2>3. PICK room, mid : /\ room = Headroom(i.identity.max_open, Held(i))
                         /\ mid = Mid(i.quote.bid, i.quote.ask)
    OBVIOUS
  <2>4. room \in Fraction /\ mid \in Fraction
    BY <1>3, <2>2, <2>3, HeadroomType, MidParts
  <2>5. Times(room, mid) \in Fraction
    BY <2>4, Closed
  <2>6. CapLimit(i, id) = ToAccount(i, Times(room, mid))
    BY <1>12, <2>3 DEF CapLimit, MaxOpenNotional
  <2>7. QED
    BY <2>2, <2>5, <2>6, Convert
<1>13. QED
  BY <1>5, <1>6, <1>7, <1>8, <1>9, <1>10, <1>11, <1>12 DEF CapIds

\* There are finitely many ceilings.
LEMMA CapIdsFinite == ASSUME NEW i PROVE IsFiniteSet(CapIds(i))
<1> DEFINE Three == {"max_notional_per_trade", "max_position_concentration", "max_aggregate_exposure"}
           Five == (Three \cup {"active_proposal_exposure"}) \cup {"min_cash_reserve"}
           All == ((Five \cup {"conviction_target"}) \cup {"max_trade_pct_of_portfolio"})
                      \cup {"broker_max_open_quantity"}
<1>1. IsFiniteSet(Three)
  <2>1. Three = (({} \cup {"max_notional_per_trade"}) \cup {"max_position_concentration"})
                    \cup {"max_aggregate_exposure"}
    OBVIOUS
  <2>2. IsFiniteSet({} \cup {"max_notional_per_trade"})
    BY FS_EmptySet, FS_AddElement
  <2>3. IsFiniteSet(({} \cup {"max_notional_per_trade"}) \cup {"max_position_concentration"})
    BY <2>2, FS_AddElement
  <2>4. QED
    BY <2>1, <2>3, FS_AddElement
<1> HIDE DEF Three
<1>2. IsFiniteSet(Five)
  BY <1>1, FS_AddElement
<1> HIDE DEF Five
<1>3. IsFiniteSet(All)
  BY <1>2, FS_AddElement
<1>4. CapIds(i) \subseteq All
  BY DEF CapIds, All, Five, Three
<1>5. QED
  BY <1>3, <1>4, FS_Subset

Permitted(i) == SmallestCap(NotionalCaps(i), DOMAIN NotionalCaps(i))

\* The notional of an entry is one of its ceilings and under all of them.
LEMMA SmallestIs ==
  ASSUME NEW i \in RiskInputs, CapIds(i) # {}
  PROVE  /\ Permitted(i) \in Fraction
         /\ \E id \in CapIds(i) : Permitted(i) = CapLimit(i, id)
         /\ \A id \in CapIds(i) : Leq(Permitted(i), CapLimit(i, id))
<1> DEFINE caps == NotionalCaps(i)
           Set == {caps[id] : id \in CapIds(i)}
<1>1. DOMAIN caps = CapIds(i) /\ \A id \in CapIds(i) : caps[id] = CapLimit(i, id)
  BY DEF NotionalCaps
<1>2. \A id \in CapIds(i) : caps[id] \in Fraction
  BY <1>1, CapType
<1>3. Permitted(i) = Least(Set)
  BY <1>1 DEF SmallestCap, Permitted
<1> HIDE DEF caps
<1>4. Set \in SUBSET Fraction /\ Set # {}
  BY <1>2
<1>5. IsFiniteSet(Set)
  <2>1. PICK S : S = CapIds(i)
    OBVIOUS
  <2>2. IsFiniteSet(S)
    BY <2>1, CapIdsFinite
  <2>3. PICK h : h = [id \in S |-> caps[id]]
    OBVIOUS
  <2>4. Set = {h[id] : id \in S}
    BY <2>1, <2>3
  <2>5. h \in Surjection(S, Set)
    BY <2>3, <2>4 DEF Surjection
  <2>6. QED
    BY <2>2, <2>5, FS_Surjection
<1>6. Least(Set) \in Set /\ \A x \in Set : Leq(Least(Set), x)
  BY <1>4, <1>5, LeastIs
<1>7. QED
  BY <1>1, <1>3, <1>4, <1>6

\* Positive amounts multiply to a positive one.
LEMMA TimesPositive ==
  ASSUME NEW a \in Fraction, NEW b \in Fraction, Positive(a), Positive(b)
  PROVE  Positive(Times(a, b))
<1>1. Is(a, a[1], a[2]) /\ Is(b, b[1], b[2])
  BY FractionParts
<1>2. a[1] \in Nat \ {0} /\ a[2] \in Nat \ {0} /\ b[1] \in Nat \ {0} /\ b[2] \in Nat \ {0}
  BY FractionParts DEF Positive
<1>3. PICK c, n, d : c = Times(a, b) /\ n = a[1] * b[1] /\ d = a[2] * b[2]
  OBVIOUS
<1>4. n \in Nat \ {0} /\ d \in Nat \ {0}
  BY <1>2, <1>3, ProductPositive
<1>5. c \in Fraction /\ c[1] * d = n * c[2]
  <2>1. Is(Times(a, b), a[1] * b[1], a[2] * b[2])
    BY <1>1, TimesForms
  <2>2. Is(c, n, d)
    BY <1>3, <2>1
  <2>3. QED
    BY <2>2 DEF Is
<1>6. c[1] \in Int /\ c[2] \in Nat \ {0}
  BY <1>5, FractionParts
<1>7. n * c[2] > 0
  BY <1>4, <1>6, ProductPositive
<1>8. c[1] > 0
  BY <1>4, <1>5, <1>6, <1>7
<1>9. QED
  BY <1>3, <1>8 DEF Positive

-----------------------------------------------------------------------------
(* The size of an entry.                                                   *)

\* The combined size factor is a fraction.
LEMMA SizeFactorType ==
  ASSUME NEW i \in RiskInputs
  PROVE  CombinedSizeFactor(SizeFactors(i)) \in Fraction
<1>1. /\ i.config.wide_spread_size_factor \in Fraction
      /\ i.config.min_research_confidence \in Fraction
      /\ i.config.min_confidence_factor \in Fraction
      /\ i.config.min_calibration_factor \in Fraction /\ i.confidence \in Fraction
  BY InputParts, ConfigParts
<1>2. ConfidenceSizeFactor(i) \in Fraction
  <2>1. PICK floor, low : floor = i.config.min_research_confidence /\ low = i.config.min_confidence_factor
    OBVIOUS
  <2>2. PICK span, above, rise : /\ span = Minus(One, floor) /\ above = Minus(i.confidence, floor)
                                 /\ rise = Minus(One, low)
    OBVIOUS
  <2>3. /\ span \in Fraction /\ above \in Fraction /\ rise \in Fraction
        /\ floor \in Fraction /\ low \in Fraction
    BY <1>1, <2>1, <2>2, Closed, Constants
  <2>4. CASE ~Positive(span)
    BY <2>1, <2>2, <2>4, Constants DEF ConfidenceSizeFactor
  <2>5. CASE Positive(span)
    <3>1. Over(above, span) \in Fraction
      BY <2>3, <2>5, Closed
    <3>2. Times(rise, Over(above, span)) \in Fraction
      BY <2>3, <3>1, Closed
    <3>3. Plus(low, Times(rise, Over(above, span))) \in Fraction
      BY <2>3, <3>2, Closed
    <3>4. ConfidenceSizeFactor(i) = Between(low, Plus(low, Times(rise, Over(above, span))), One)
      BY <2>1, <2>2, <2>5 DEF ConfidenceSizeFactor
    <3>5. QED
      BY <2>3, <3>3, <3>4, Closed, Constants DEF Between
  <2>6. QED
    BY <2>4, <2>5
<1>3. ASSUME CalibrationApplies(i) PROVE CalibrationSizeFactor(i) \in Fraction
  <2>1. i.calibration.hit_rate \in Fraction
    BY <1>3, InputParts DEF CalibrationApplies
  <2>2. <<1, 2>> \in Fraction
    BY DEF Fraction
  <2>3. Plus(<<1, 2>>, i.calibration.hit_rate) \in Fraction
    BY <2>1, <2>2, Closed
  <2>4. QED
    BY <1>1, <2>3, Closed, Constants DEF CalibrationSizeFactor, Between
<1>4. PICK ids : ids = DOMAIN SizeFactors(i)
  OBVIOUS
<1>5. /\ ids \subseteq {"spread_ceiling", "confidence_size_modulation", "calibration_size_modulation"}
      /\ SizeFactors(i) \in [ids -> Fraction]
  <2>1. ids = {id \in {"spread_ceiling", "confidence_size_modulation", "calibration_size_modulation"} :
                   CASE id = "spread_ceiling" -> SpreadCeiling(i) = "REDUCE"
                     [] id = "confidence_size_modulation" -> ConfidenceApplies(i)
                     [] OTHER -> CalibrationApplies(i) /\ CalibrationMeasured(i)}
    BY <1>4 DEF SizeFactors
  <2>2. SizeFactors(i) = [id \in ids |->
            CASE id = "spread_ceiling" -> i.config.wide_spread_size_factor
              [] id = "confidence_size_modulation" -> ConfidenceSizeFactor(i)
              [] OTHER -> CalibrationSizeFactor(i)]
    BY <2>1 DEF SizeFactors
  <2>3. \A id \in ids : (CASE id = "spread_ceiling" -> i.config.wide_spread_size_factor
                           [] id = "confidence_size_modulation" -> ConfidenceSizeFactor(i)
                           [] OTHER -> CalibrationSizeFactor(i)) \in Fraction
    BY <1>1, <1>2, <1>3, <2>1
  <2>4. QED
    BY <2>1, <2>2, <2>3
<1>6. IsFiniteSet(ids)
  <2>1. IsFiniteSet({} \cup {"spread_ceiling"})
    BY FS_EmptySet, FS_AddElement
  <2>2. IsFiniteSet(({} \cup {"spread_ceiling"}) \cup {"confidence_size_modulation"})
    BY <2>1, FS_AddElement
  <2>3. IsFiniteSet((({} \cup {"spread_ceiling"}) \cup {"confidence_size_modulation"})
                        \cup {"calibration_size_modulation"})
    BY <2>2, FS_AddElement
  <2>4. ids \subseteq (({} \cup {"spread_ceiling"}) \cup {"confidence_size_modulation"})
                          \cup {"calibration_size_modulation"}
    BY <1>5
  <2>5. QED
    BY <2>3, <2>4, FS_Subset
<1>7. QED
  BY <1>5, <1>6, FactorType

\* Rounding gives nothing, or no more than there was.
LEMMA Rounded ==
  ASSUME NEW i \in RiskInputs, NEW raw \in Fraction
  PROVE  /\ RoundQuantity(raw, i) \in Fraction
         /\ Positive(RoundQuantity(raw, i)) => Leq(RoundQuantity(raw, i), raw)
<1>1. PICK precision : precision = IF i.identity.precision = None THEN i.config.default_precision
                                   ELSE i.identity.precision
  OBVIOUS
<1>2. precision \in Nat
  BY <1>1, InputParts, ConfigParts DEF InstrumentIdentities, Option
<1>3. PICK step : step = IF i.config.allow_fractional THEN TenTo[precision] ELSE 1
  OBVIOUS
<1>4. step \in Nat \ {0}
  BY <1>2, <1>3, TenToType
<1>5. RoundQuantity(raw, i) = IF ~Positive(raw) THEN Zero ELSE RoundDown(raw, step)
  BY <1>1, <1>3 DEF RoundQuantity
<1>6. Zero \in Fraction /\ ~Positive(Zero)
  BY Constants DEF Zero, Whole, Positive
<1>7. QED
  BY <1>4, <1>5, <1>6, RoundDownLeq

-----------------------------------------------------------------------------
(* What is known of an entry that no rule blocks.                          *)

\* A gate is a rule of every decision.
LEMMA GateIsRule ==
  ASSUME NEW i, NEW caps, NEW id \in DOMAIN GateResults(i)
  PROVE  id \in DOMAIN Rules(i, caps) /\ Rules(i, caps)[id] = GateResults(i)[id]
  BY DEF Rules, Merged

\* The rule of a ceiling is the one the ceilings gave.
LEMMA CapIsRule ==
  ASSUME NEW i, NEW id \in CapIds(i)
  PROVE  /\ id \in DOMAIN Rules(i, NotionalCaps(i))
         /\ Rules(i, NotionalCaps(i))[id] = CapRuleResults(NotionalCaps(i))[id]
<1>1. DOMAIN CapRuleResults(NotionalCaps(i)) = CapIds(i)
  BY DEF CapRuleResults, NotionalCaps
<1>2. id \notin DOMAIN GateResults(i)
  BY DEF CapIds, GateResults
<1>3. QED
  BY <1>1, <1>2 DEF Rules, Merged

\* An entry no rule blocks has an account, a book with two sides and room under every ceiling.
LEMMA Unblocked ==
  ASSUME NEW i \in RiskInputs, i.action = "BUY", Blocking(Rules(i, NotionalCaps(i))) = {}
  PROVE  /\ i.account # None /\ i.quote # None
         /\ i.quote.bid \in Fraction /\ i.quote.ask \in Fraction
         /\ Positive(i.quote.bid) /\ Positive(i.quote.ask) /\ Leq(i.quote.bid, i.quote.ask)
         /\ CapIds(i) # {} /\ \A id \in CapIds(i) : Positive(CapLimit(i, id))
<1>1. \A id \in DOMAIN GateResults(i) : GateResults(i)[id] # "BLOCK"
  BY GateIsRule DEF Blocking
<1>2. /\ GateResults(i)["account_state_available"] = AccountStateAvailable(i)
      /\ GateResults(i)["quote_available"] = QuoteAvailable(i)
      /\ GateResults(i)["spread_ceiling"] = SpreadCeiling(i)
      /\ {"account_state_available", "quote_available", "spread_ceiling"} \subseteq DOMAIN GateResults(i)
  BY DEF GateResults
<1>3. i.account # None /\ i.quote # None
  BY <1>1, <1>2 DEF AccountStateAvailable, QuoteAvailable, Gate
<1>4. QuoteSpread(i) \in {"OK", "EXCESSIVE"}
  BY <1>1, <1>2, <1>3 DEF SpreadCeiling
<1>5. /\ i.quote.bid # None /\ i.quote.ask # None /\ Positive(i.quote.bid) /\ Positive(i.quote.ask)
      /\ ~Less(i.quote.ask, i.quote.bid)
  BY <1>4 DEF QuoteSpread, AssessSpread
<1>6. i.quote.bid \in Fraction /\ i.quote.ask \in Fraction
  BY <1>3, <1>5, InputParts, QuoteParts
<1>7. "max_notional_per_trade" \in CapIds(i)
  BY <1>3 DEF CapIds, ExposureIncreasing
<1>8. ASSUME NEW id \in CapIds(i) PROVE Positive(CapLimit(i, id))
  <2>1. CapRuleResults(NotionalCaps(i))[id] # "BLOCK"
    BY CapIsRule DEF Blocking
  <2>2. QED
    BY <2>1 DEF CapRuleResults, NotionalCaps
<1>9. QED
  BY <1>3, <1>5, <1>6, <1>7, <1>8 DEF Less

\* What a quantity costs is within a ceiling exactly when its price is within what the
\* ceiling permits in the listing's currency.
LEMMA CostIs ==
  ASSUME NEW i \in RiskInputs, FxRequired(i) => FxUsable(i), NEW q \in Fraction, Positive(q),
         i.quote.ask \in Fraction, Positive(i.quote.ask)
  PROVE  /\ Cost(i, q) \in Fraction /\ Positive(Cost(i, q))
         /\ \A c \in Fraction : Leq(Cost(i, q), c) <=> Leq(Times(q, i.quote.ask), ToInstrument(i, c))
<1>1. PICK x : x = Times(q, i.quote.ask)
  OBVIOUS
<1>2. x \in Fraction /\ Positive(x)
  BY <1>1, Closed, TimesPositive
<1>3. CASE ~FxRequired(i)
  BY <1>1, <1>2, <1>3 DEF Cost, ToInstrument
<1>4. CASE FxRequired(i)
  <2>1. PICK r : r = i.fx.rate
    OBVIOUS
  <2>2. r \in Fraction /\ Positive(r)
    BY <1>4, <2>1, RateParts
  <2>3. CASE i.fx.direct
    <3>1. Cost(i, q) = Times(x, <<r[2], r[1]>>)
      BY <1>1, <1>4, <2>1, <2>3 DEF Cost
    <3>2. \A c \in Fraction : ToInstrument(i, c) = Times(c, r)
      BY <1>4, <2>1, <2>3 DEF ToInstrument
    <3>3. <<r[2], r[1]>> \in Fraction /\ Positive(<<r[2], r[1]>>)
      BY <2>2, FractionParts DEF Positive, Fraction
    <3>4. Cost(i, q) \in Fraction /\ Positive(Cost(i, q))
      BY <1>2, <3>1, <3>3, Closed, TimesPositive
    <3>5. QED
      BY <1>1, <1>2, <2>2, <3>1, <3>2, <3>4, LeqInverse
  <2>4. CASE ~i.fx.direct
    <3>1. Cost(i, q) = Times(x, r)
      BY <1>1, <1>4, <2>1, <2>4 DEF Cost
    <3>2. \A c \in Fraction : ToInstrument(i, c) = Over(c, r)
      BY <1>4, <2>1, <2>4 DEF ToInstrument
    <3>3. Cost(i, q) \in Fraction /\ Positive(Cost(i, q))
      BY <1>2, <2>2, <3>1, Closed, TimesPositive
    <3>4. \A c \in Fraction : Leq(Times(x, r), c) <=> Leq(x, Over(c, r))
      BY <1>2, <2>2, LeqOver
    <3>5. QED
      BY <1>1, <3>1, <3>2, <3>3, <3>4
  <2>5. QED
    BY <2>3, <2>4
<1>5. QED
  BY <1>3, <1>4

\* No more than the rounded envelope is within every limit.
LEMMA EntryFits ==
  ASSUME NEW i \in RiskInputs, i.action = "BUY", Blocking(Rules(i, NotionalCaps(i))) = {},
         FxRequired(i) => FxUsable(i), NEW q \in Fraction, Positive(q),
         Leq(q, RoundQuantity(Over(ToInstrument(i, Permitted(i)), i.quote.ask), i))
  PROVE  WithinLimits(i, q)
<1>1. PICK ask, permitted, cost, x : /\ ask = i.quote.ask /\ permitted = Permitted(i)
                                     /\ cost = Cost(i, q) /\ x = Times(q, ask)
  OBVIOUS
<1>2. /\ i.account # None /\ i.quote # None /\ i.quote.bid \in Fraction /\ ask \in Fraction
      /\ Positive(i.quote.bid) /\ Positive(ask) /\ Leq(i.quote.bid, ask) /\ CapIds(i) # {}
      /\ \A id \in CapIds(i) : Positive(CapLimit(i, id)) /\ CapLimit(i, id) \in Fraction
  BY <1>1, Unblocked, CapType
<1>3. permitted \in Fraction /\ \A id \in CapIds(i) : Leq(permitted, CapLimit(i, id))
  BY <1>1, <1>2, SmallestIs
<1>4. /\ cost \in Fraction /\ Positive(cost) /\ x \in Fraction
      /\ \A c \in Fraction : Leq(cost, c) <=> Leq(x, ToInstrument(i, c))
  BY <1>1, <1>2, CostIs, Closed
<1>5. Leq(cost, permitted)
  <2>1. PICK t : t = ToInstrument(i, permitted)
    OBVIOUS
  <2>2. t \in Fraction
    BY <1>3, <2>1, Convert
  <2>3. PICK r : r = RoundQuantity(Over(t, ask), i)
    OBVIOUS
  <2>4. Over(t, ask) \in Fraction
    BY <1>2, <2>2, Closed
  <2>5. r \in Fraction /\ Leq(q, r)
    BY <1>1, <2>1, <2>3, <2>4, Rounded
  <2>6. Positive(r)
    BY <2>5, PositiveLeq
  <2>7. Leq(r, Over(t, ask))
    BY <2>3, <2>4, <2>6, Rounded
  <2>8. Leq(q, Over(t, ask))
    BY <2>4, <2>5, <2>7, LeqTrans
  <2>9. Leq(x, t)
    BY <1>1, <1>2, <2>2, <2>8, LeqOver
  <2>10. QED
    BY <1>3, <1>4, <2>1, <2>9
<1>6. \A id \in CapIds(i) : Leq(cost, CapLimit(i, id))
  BY <1>2, <1>3, <1>4, <1>5, LeqTrans
<1>7. {"max_notional_per_trade", "max_position_concentration", "max_aggregate_exposure",
       "active_proposal_exposure", "min_cash_reserve"} \subseteq CapIds(i)
  BY <1>2 DEF CapIds, ExposureIncreasing
<1>8. PICK total, c : total = i.account.total /\ c = i.config
  OBVIOUS
<1>9. /\ total \in Fraction /\ i.account.invested \in Fraction /\ i.account.cash \in Fraction
      /\ c.max_position_pct \in Fraction /\ c.max_aggregate_pct \in Fraction
      /\ c.min_cash_reserve_pct \in Fraction /\ c.max_active_exposure_pct \in Fraction
      /\ i.reserved.notional \in Fraction /\ HeldValue(i) \in Fraction /\ Held(i) \in Fraction
  BY <1>2, <1>8, InputParts, ConfigParts, AccountParts, HeldParts DEF ReservedExposures
<1>10. /\ Times(total, c.max_position_pct) \in Fraction
       /\ Times(total, c.max_aggregate_pct) \in Fraction
       /\ Times(total, c.max_active_exposure_pct) \in Fraction
       /\ Times(total, c.min_cash_reserve_pct) \in Fraction
  BY <1>9, Closed
<1>11. Leq(cost, c.max_notional_per_trade)
  BY <1>6, <1>7, <1>8 DEF CapLimit
<1>12. Leq(Plus(HeldValue(i), cost), Times(total, c.max_position_pct))
  <2>1. Leq(cost, Headroom(Times(total, c.max_position_pct), HeldValue(i)))
    BY <1>6, <1>7, <1>8 DEF CapLimit, Share
  <2>2. QED
    BY <1>4, <1>9, <1>10, <2>1, HeadroomFits
<1>13. Leq(Plus(i.account.invested, cost), Times(total, c.max_aggregate_pct))
  <2>1. Leq(cost, Headroom(Times(total, c.max_aggregate_pct), i.account.invested))
    BY <1>6, <1>7, <1>8 DEF CapLimit, Share
  <2>2. QED
    BY <1>4, <1>9, <1>10, <2>1, HeadroomFits
<1>14. Leq(Plus(i.reserved.notional, cost), Times(total, c.max_active_exposure_pct))
  <2>1. Leq(cost, Headroom(Times(total, c.max_active_exposure_pct), i.reserved.notional))
    BY <1>6, <1>7, <1>8 DEF CapLimit, Share
  <2>2. QED
    BY <1>4, <1>9, <1>10, <2>1, HeadroomFits
<1>15. Leq(Plus(Times(total, c.min_cash_reserve_pct), Plus(i.reserved.notional, cost)), i.account.cash)
  <2>1. PICK kept : kept = Times(total, c.min_cash_reserve_pct)
    OBVIOUS
  <2>2. kept \in Fraction /\ Minus(i.account.cash, kept) \in Fraction
    BY <1>9, <1>10, <2>1, Closed
  <2>3. Leq(cost, Headroom(Minus(i.account.cash, kept), i.reserved.notional))
    BY <1>6, <1>7, <1>8, <2>1 DEF CapLimit, Share
  <2>4. Leq(Plus(i.reserved.notional, cost), Minus(i.account.cash, kept))
    BY <1>4, <1>9, <2>2, <2>3, HeadroomFits
  <2>5. Plus(i.reserved.notional, cost) \in Fraction
    BY <1>4, <1>9, Closed
  <2>6. QED
    BY <1>9, <2>1, <2>2, <2>4, <2>5, LeqMinus
<1>16. ASSUME i.identity.max_open # None
       PROVE  Leq(Plus(Held(i), q), i.identity.max_open)
  <2>1. PICK open, room, mid : /\ open = i.identity.max_open /\ room = Headroom(open, Held(i))
                               /\ mid = Mid(i.quote.bid, ask)
    OBVIOUS
  <2>2. open \in Fraction
    BY <1>16, <2>1, InputParts DEF InstrumentIdentities, Option
  <2>3. /\ room \in Fraction /\ Leq(Zero, room) /\ mid \in Fraction /\ Positive(mid) /\ Leq(mid, ask)
    BY <1>2, <1>9, <2>1, <2>2, HeadroomType, MidParts
  <2>4. HasMaxOpen(i)
    <3>1. i.quote.bid # None /\ i.quote.ask # None
      BY <1>1, <1>2, NoneAssumption
    <3>2. QED
      BY <1>1, <1>2, <1>16, <2>1, <2>3, <3>1 DEF HasMaxOpen
  <2>5. "broker_max_open_quantity" \in CapIds(i)
    BY <1>2, <2>4 DEF CapIds, ExposureIncreasing
  <2>6. PICK y : y = Times(room, mid)
    OBVIOUS
  <2>7. y \in Fraction
    BY <2>3, <2>6, Closed
  <2>8. Leq(cost, ToAccount(i, y))
    BY <1>1, <1>6, <2>1, <2>5, <2>6 DEF CapLimit, MaxOpenNotional
  <2>9. /\ ToAccount(i, y) \in Fraction /\ Same(ToInstrument(i, ToAccount(i, y)), y)
        /\ ToInstrument(i, ToAccount(i, y)) \in Fraction
    BY <2>7, Convert
  <2>10. Leq(x, ToInstrument(i, ToAccount(i, y)))
    BY <1>4, <2>8, <2>9
  <2>11. Leq(x, y)
    BY <1>4, <2>7, <2>9, <2>10, LeqTotal, LeqTrans
  <2>12. Leq(y, Times(room, ask)) /\ Times(room, ask) \in Fraction
    BY <1>2, <2>3, <2>6, TimesLeq, Closed
  <2>13. Leq(Times(q, ask), Times(room, ask))
    BY <1>1, <1>4, <2>7, <2>11, <2>12, LeqTrans
  <2>14. Leq(q, room)
    BY <1>2, <2>3, <2>13, TimesLeq
  <2>15. QED
    BY <1>9, <2>1, <2>2, <2>14, HeadroomFits
<1>17. QED
  BY <1>1, <1>8, <1>11, <1>12, <1>13, <1>14, <1>15, <1>16 DEF WithinLimits

SizeOf(i) == SizeTrade(i, Permitted(i), CombinedSizeFactor(SizeFactors(i)))

\* An action or an outcome is not the absent value.
LEMMA TextIsThere == "BUY" # None /\ "SELL" # None /\ "BLOCK" # None
  BY NoneAssumption DEF Words

\* The side an action takes.
LEMMA SideOf ==
  ASSUME NEW i \in RiskInputs
  PROVE  /\ Side(i.action) \in {"SELL", "BUY", None}
         /\ Side(i.action) = "BUY" <=> i.action = "BUY"
<1>1. i.action \in {"BUY", "SELL", "REDUCE", "HOLD", "NO_ACTION"}
  BY DEF RiskInputs
<1>2. /\ Side("BUY") = "BUY" /\ Side("SELL") = "SELL" /\ Side("REDUCE") = "SELL"
      /\ Side("HOLD") = None /\ Side("NO_ACTION") = None
  BY DEF Side, RiskReducing
<1>3. "BUY" # None
  BY TextIsThere
<1>4. QED
  BY <1>1, <1>2, <1>3

\* The parts of a size.
LEMMA SizedParts ==
  ASSUME NEW i, NEW m, NEW q, NEW ok
  PROVE  /\ Sized(i, m, q, ok).side = Side(i.action)
         /\ Sized(i, m, q, ok).max_quantity = m
         /\ Sized(i, m, q, ok).executable => Positive(q) /\ Sized(i, m, q, ok).quantity = q
<1>1. /\ Sized(i, m, q, ok).side = Side(i.action)
      /\ Sized(i, m, q, ok).max_quantity = m
      /\ Sized(i, m, q, ok).executable = (ok /\ Positive(q))
      /\ Sized(i, m, q, ok).quantity = IF ok /\ Positive(q) THEN q ELSE Zero
  BY Zenon DEF Sized
<1>2. QED
  BY <1>1, Zenon

\* A decision that is not blocked has the size of the trade.
LEMMA DecisionIs ==
  ASSUME NEW i
  PROVE  LET blocking == Blocking(Rules(i, NotionalCaps(i)))
         IN  /\ Decision(i).blocking = blocking
             /\ Decision(i).outcome = "BLOCK" <=> blocking # {}
             /\ Decision(i).sizing = IF blocking = {} THEN SizeOf(i) ELSE NoSize
<1>1. PICK rules : rules = Rules(i, NotionalCaps(i))
  OBVIOUS
<1>2. Decision(i) = Verdict(rules, SizeOf(i))
  BY <1>1 DEF Decision, DecisionUnder, SizeOf, Permitted
<1>3. /\ Verdict(rules, SizeOf(i)).blocking = Blocking(rules)
      /\ Verdict(rules, SizeOf(i)).outcome = "BLOCK" <=> Blocking(rules) # {}
      /\ Verdict(rules, SizeOf(i)).sizing = IF Blocking(rules) = {} THEN SizeOf(i) ELSE NoSize
  <2>1. CASE Blocking(rules) = {}
    BY <2>1 DEF Verdict
  <2>2. CASE Blocking(rules) # {}
    BY <2>2 DEF Verdict
  <2>3. QED
    BY <2>1, <2>2
<1>4. QED
  BY <1>1, <1>2, <1>3

\* The size of a purchase is nothing, or no more than the rounded envelope.
LEMMA SizeOfBuy ==
  ASSUME NEW i \in RiskInputs, i.action = "BUY", Blocking(Rules(i, NotionalCaps(i))) = {},
         NEW most, most = RoundQuantity(Over(ToInstrument(i, Permitted(i)), i.quote.ask), i)
  PROVE  LET s == SizeOf(i)
         IN  \/ s = [NoSize EXCEPT !.side = "BUY"]
             \/ /\ FxRequired(i) => FxUsable(i)
                /\ s.max_quantity = most /\ most \in Fraction
                /\ s.executable => /\ Positive(s.quantity) /\ s.quantity \in Fraction
                                   /\ Leq(s.quantity, most)
<1>1. PICK permitted, factor : /\ permitted = Permitted(i)
                               /\ factor = CombinedSizeFactor(SizeFactors(i))
  OBVIOUS
<1>2. Side(i.action) = "BUY" /\ "BUY" # None
  <2>1. "BUY" # None
    BY TextIsThere
  <2>2. QED
    BY <2>1, SideOf
<1>3. SizeOf(i) = SizeTrade(i, permitted, factor) /\ ReferencePrice(i) = i.quote.ask
  BY <1>1, <1>2 DEF SizeOf, ReferencePrice
<1>4. SizeOf(i) \in {[NoSize EXCEPT !.side = "BUY"], SizeBuy(i, permitted, factor)}
      /\ (~(FxRequired(i) => FxUsable(i)) => SizeOf(i) = [NoSize EXCEPT !.side = "BUY"])
  BY <1>2, <1>3 DEF SizeTrade
<1>5. CASE SizeOf(i) # [NoSize EXCEPT !.side = "BUY"]
  <2>1. (FxRequired(i) => FxUsable(i)) /\ SizeOf(i) = SizeBuy(i, permitted, factor)
    BY <1>4, <1>5
  <2>2. /\ i.quote.ask \in Fraction /\ Positive(i.quote.ask) /\ permitted \in Fraction
        /\ factor \in Fraction
    BY <1>1, Unblocked, SmallestIs, SizeFactorType
  <2>3. PICK t : t = ToInstrument(i, permitted)
    OBVIOUS
  <2>4. t \in Fraction
    BY <2>1, <2>2, <2>3, Convert
  <2>5. Over(t, i.quote.ask) \in Fraction /\ Over(Times(t, factor), i.quote.ask) \in Fraction
    BY <2>2, <2>4, Closed
  <2>6. PICK some : some = RoundQuantity(Over(Times(t, factor), i.quote.ask), i)
    OBVIOUS
  <2>7. most \in Fraction /\ some \in Fraction
    BY <1>1, <2>3, <2>5, <2>6, Rounded
  <2>8. PICK quantity : quantity = Smaller(some, most)
    OBVIOUS
  <2>9. quantity \in Fraction /\ Leq(quantity, most)
    BY <2>7, <2>8, Closed, SmallerLeq
  <2>10. \E ok : SizeOf(i) = Sized(i, most, quantity, ok)
    <3>1. SizeBuy(i, permitted, factor) # [NoSize EXCEPT !.side = "BUY"]
      BY <1>5, <2>1
    <3>2. SizeBuy(i, permitted, factor) =
              Sized(i, most, quantity,
                    Leq(i.config.min_trade_notional, ToAccount(i, Times(quantity, ReferencePrice(i)))))
      BY <1>1, <1>3, <2>3, <2>6, <2>8, <3>1 DEF SizeBuy
    <3>3. QED
      BY <2>1, <3>2
  <2>11. PICK ok : SizeOf(i) = Sized(i, most, quantity, ok)
    BY <2>10
  <2>12. /\ SizeOf(i).max_quantity = most
         /\ SizeOf(i).executable => Positive(quantity) /\ SizeOf(i).quantity = quantity
    BY <2>11, SizedParts
  <2>13. QED
    BY <2>1, <2>7, <2>9, <2>12
<1>6. QED
  BY <1>5

\* An entry that is allowed respects every limit at the size it was given.
LEMMA EntryWithin ==
  ASSUME NEW i \in RiskInputs, i.action = "BUY", Allowed(Decision(i))
  PROVE  WithinLimits(i, Decision(i).sizing.quantity)
<1>1. PICK most : most = RoundQuantity(Over(ToInstrument(i, Permitted(i)), i.quote.ask), i)
  OBVIOUS
<1>2. PICK s : s = SizeOf(i)
  OBVIOUS
<1>3. Blocking(Rules(i, NotionalCaps(i))) = {} /\ Decision(i).sizing = s /\ s.executable
  BY <1>2, DecisionIs DEF Allowed
<1>4. s # [NoSize EXCEPT !.side = "BUY"]
  BY <1>3 DEF NoSize
<1>5. /\ FxRequired(i) => FxUsable(i)
      /\ Positive(s.quantity) /\ s.quantity \in Fraction /\ Leq(s.quantity, most)
  BY <1>1, <1>2, <1>3, <1>4, SizeOfBuy
<1>6. PICK q : q = s.quantity
  OBVIOUS
<1>7. WithinLimits(i, q)
  BY <1>1, <1>3, <1>5, <1>6, EntryFits
<1>8. QED
  BY <1>3, <1>6, <1>7

\* What is still to be sent was revalidated by rules that blocked nothing.
LEMMA SendIs ==
  ASSUME NEW i, NEW p, SendVerdict(i, p) = "SEND"
  PROVE  LET j == ForProposal(i)
         IN  /\ Blocking(Rules(j, NotionalCaps(j))) = {}
             /\ Blocking(AuthorizationRules(i, p, Decision(j))) = {}
<1>1. Revalidation(i, p) = {}
  BY DEF SendVerdict, VerdictOf
<1>2. QED
  BY <1>1, DecisionIs DEF Revalidation

\* Only a BUY sizes a purchase.
LEMMA SideIs ==
  ASSUME NEW i \in RiskInputs, SizeOf(i).side = "BUY"
  PROVE  i.action = "BUY"
<1>1. PICK permitted, factor : SizeOf(i) = SizeTrade(i, permitted, factor)
  BY DEF SizeOf
<1>2. PICK side : side = Side(i.action)
  OBVIOUS
<1>3. \A m, q, ok : Sized(i, m, q, ok).side = side
  BY <1>2, SizedParts
<1>4. [NoSize EXCEPT !.side = side].side = side /\ NoSize.side = None
  BY DEF NoSize
<1>5. side = "BUY" => SizeBuy(i, permitted, factor).side = side
  BY <1>3, <1>4 DEF SizeBuy
<1>6. side = "SELL" => SizeSell(i).side = side
  BY <1>3, <1>4 DEF SizeSell
<1>7. side \in {"SELL", "BUY", None} /\ (side = "BUY" => i.action = "BUY") /\ "BUY" # None
  BY <1>2, SideOf, TextIsThere
<1>8. SizeTrade(i, permitted, factor).side = side
  BY <1>2, <1>4, <1>5, <1>6, <1>7 DEF SizeTrade
<1>9. QED
  BY <1>1, <1>7, <1>8

\* A purchase that is sent respects every limit at the quantity of its row.
LEMMA RecheckedWithin ==
  ASSUME NEW i \in RiskInputs, NEW p \in Rows, p.side = "BUY", SendVerdict(i, p) = "SEND"
  PROVE  WithinLimits(i, p.quantity)
<1>1. PICK j : j = ForProposal(i)
  OBVIOUS
<1>2. /\ Blocking(Rules(j, NotionalCaps(j))) = {}
      /\ Blocking(AuthorizationRules(i, p, Decision(j))) = {}
  BY <1>1, SendIs
<1>3. Decision(j).outcome # "BLOCK" /\ Decision(j).sizing = SizeOf(j)
  BY <1>2, DecisionIs
<1>4. EnvelopeStillCovers(p, Decision(j)) # "BLOCK"
  BY <1>2 DEF Blocking, AuthorizationRules
<1>5. SizeOf(j).side = "BUY" /\ Leq(p.quantity, SizeOf(j).max_quantity)
  BY <1>3, <1>4 DEF EnvelopeStillCovers, Gate
<1>6. j \in RiskInputs
  BY <1>1, Constants DEF ForProposal, RiskInputs, Option
<1>7. j.action = "BUY"
  BY <1>5, <1>6, SideIs
<1>8. j = i
  BY <1>1, <1>7 DEF ForProposal, RiskInputs
<1>9. PICK q, most : /\ q = p.quantity
                     /\ most = RoundQuantity(Over(ToInstrument(i, Permitted(i)), i.quote.ask), i)
  OBVIOUS
<1>10. q \in Fraction /\ Positive(q)
  BY <1>9, PositiveParts DEF Rows
<1>11. SizeOf(i) # [NoSize EXCEPT !.side = "BUY"]
  <2>1. SUFFICES ASSUME SizeOf(i) = [NoSize EXCEPT !.side = "BUY"] PROVE FALSE
    OBVIOUS
  <2>2. SizeOf(i).max_quantity = Zero
    BY <2>1 DEF NoSize
  <2>3. Leq(q, Zero)
    BY <1>5, <1>8, <1>9, <2>2
  <2>4. QED
    BY <1>10, <2>3, LeqTotal
<1>12. (FxRequired(i) => FxUsable(i)) /\ SizeOf(i).max_quantity = most
  BY <1>2, <1>7, <1>8, <1>9, <1>11, SizeOfBuy
<1>13. Leq(q, most)
  BY <1>5, <1>8, <1>9, <1>12
<1>14. WithinLimits(i, q)
  BY <1>2, <1>7, <1>8, <1>9, <1>10, <1>12, <1>13, EntryFits
<1>15. QED
  BY <1>9, <1>14

\* A loss of a share of the average is a price under the rest of it.
LEMMA StopLevel ==
  ASSUME NEW average \in Fraction, NEW pct \in Fraction
  PROVE  Same(Plus(average, Times(Minus(Zero, pct), average)), Times(average, Minus(One, pct)))
<1>1. PICK n, d, p, e : n = average[1] /\ d = average[2] /\ p = pct[1] /\ e = pct[2]
  OBVIOUS
<1>2. n \in Int /\ d \in Nat \ {0} /\ p \in Int /\ e \in Nat \ {0}
  BY <1>1, FractionParts
<1>3. Is(average, n, d) /\ Is(pct, p, e) /\ Is(Zero, 0, 1) /\ Is(One, 1, 1)
  BY <1>1, FractionParts, Constants DEF Zero, One, Whole
<1>4. 0 * e - p * 1 = -p /\ 1 * e - p * 1 = e - p /\ 1 * e = e
  BY <1>2
<1>5. Is(Minus(Zero, pct), -p, e) /\ Is(Minus(One, pct), e - p, e)
  <2>1. Is(Minus(Zero, pct), 0 * e - p * 1, 1 * e) /\ Is(Minus(One, pct), 1 * e - p * 1, 1 * e)
    BY <1>3, MinusForms
  <2>2. QED
    BY <1>4, <2>1
<1>6. Is(Times(Minus(Zero, pct), average), (-p) * n, e * d)
  BY <1>3, <1>5, TimesForms
<1>7. Is(Plus(average, Times(Minus(Zero, pct), average)), n * (e * d) + ((-p) * n) * d, d * (e * d))
  BY <1>3, <1>6, PlusForms
<1>8. Is(Times(average, Minus(One, pct)), n * (e - p), d * e)
  BY <1>3, <1>5, TimesForms
<1>9. (n * (e * d) + ((-p) * n) * d) * (d * e) = (n * (e - p)) * (d * (e * d))
  <2>1. n * (e * d) + ((-p) * n) * d = (n * (e - p)) * d
    BY <1>2
  <2>2. PICK x : x = n * (e - p)
    OBVIOUS
  <2>3. x \in Int
    BY <1>2, <2>2
  <2>4. (x * d) * (d * e) = x * (d * (e * d))
    BY <1>2, <2>3
  <2>5. QED
    BY <2>1, <2>2, <2>4
<1>10. QED
  BY <1>7, <1>8, <1>9, LeqForms

\* A loss beyond a percentage is a price below the level of that percentage.
LEMMA GainBelow ==
  ASSUME NEW current \in Fraction, NEW average \in Fraction, NEW pct \in Fraction, Positive(average)
  PROVE  /\ Times(average, Minus(One, pct)) \in Fraction
         /\ Less(Over(Minus(current, average), average), Minus(Zero, pct))
                <=> Less(current, Times(average, Minus(One, pct)))
<1>1. PICK loss, level, change, moved : /\ loss = Minus(Zero, pct) /\ moved = Times(loss, average)
                                        /\ change = Minus(current, average)
                                        /\ level = Times(average, Minus(One, pct))
  OBVIOUS
<1>2. loss \in Fraction /\ change \in Fraction /\ Minus(One, pct) \in Fraction
  BY <1>1, Closed, Constants
<1>3. moved \in Fraction /\ level \in Fraction
  BY <1>1, <1>2, Closed
<1>4. Plus(average, moved) \in Fraction
  BY <1>3, Closed
<1>5. Leq(loss, Over(change, average)) <=> Leq(moved, change)
  BY <1>1, <1>2, LeqOver
<1>6. Leq(moved, change) <=> Leq(Plus(average, moved), current)
  BY <1>1, <1>3, LeqMinus
<1>7. Same(Plus(average, moved), level)
  BY <1>1, StopLevel
<1>8. Leq(Plus(average, moved), current) <=> Leq(level, current)
  BY <1>3, <1>4, <1>7, LeqTotal, LeqTrans
<1>9. QED
  BY <1>1, <1>3, <1>5, <1>6, <1>8 DEF Less

\* The fractions of Exits are these.
LEMMA SameFractions ==
  /\ E!Zero = Zero /\ E!One = One
  /\ \A a, b : /\ E!Minus(a, b) = Minus(a, b) /\ E!Times(a, b) = Times(a, b)
               /\ E!Over(a, b) = Over(a, b)
               /\ E!Less(a, b) <=> Less(a, b)
               /\ E!Positive(a) <=> Positive(a)
  /\ E!Fraction = Fraction
<1>1. E!gcd = gcd
  BY DEF E!gcd, gcd
<1>2. \A n, d : E!Lowest(n, d) = Lowest(n, d)
  BY <1>1 DEF E!Lowest, Lowest
<1>3. \A a, b : E!Plus(a, b) = Plus(a, b)
  BY <1>2 DEF E!Plus, Plus
<1>4. \A a, b : E!Minus(a, b) = Minus(a, b)
  BY <1>3 DEF E!Minus, Minus
<1>5. \A a, b : E!Times(a, b) = Times(a, b) /\ E!Over(a, b) = Over(a, b)
  BY <1>2 DEF E!Times, Times, E!Over, Over
<1>6. \A a, b : E!Less(a, b) <=> Less(a, b)
  BY DEF E!Less, Less, E!Leq, Leq
<1>7. \A a : E!Positive(a) <=> Positive(a)
  BY DEF E!Positive, Positive
<1>8. E!Zero = Zero /\ E!One = One
  BY DEF E!Zero, Zero, E!One, One, E!Whole, Whole
<1>9. E!Fraction = Fraction
  BY DEF E!Fraction, Fraction
<1>10. QED
  BY <1>4, <1>5, <1>6, <1>7, <1>8, <1>9

\* The hard stop fires exactly below its floor.
LEMMA HardStopIs ==
  ASSUME NEW o \in E!Observations, NEW config \in E!ExitConfigs, E!Usable(o)
  PROVE  E!HardStop(o, config) <=> E!Below(o.current, E!ExitFloors(o, config)["hard_stop"])
<1>1. PICK current, average, pct : /\ current = o.current /\ average = o.average
                                   /\ pct = config.exit_hard_stop_pct
  OBVIOUS
<1>2. current \in Fraction /\ average \in Fraction /\ pct \in Fraction /\ Positive(average)
  BY <1>1, SameFractions DEF E!Observations, E!ExitConfigs, E!Usable
<1>3. E!HardStop(o, config) <=> Less(Over(Minus(current, average), average), Minus(Zero, pct))
  <2>1. E!HardStop(o, config)
            <=> E!Less(E!Over(E!Minus(current, average), average), E!Minus(E!Zero, pct))
    BY <1>1 DEF E!HardStop, E!Gain
  <2>2. /\ E!Minus(current, average) = Minus(current, average)
        /\ E!Minus(E!Zero, pct) = Minus(Zero, pct)
    BY SameFractions
  <2>3. E!Over(Minus(current, average), average) = Over(Minus(current, average), average)
    BY SameFractions
  <2>4. PICK gain, loss : /\ gain = Over(Minus(current, average), average)
                          /\ loss = Minus(Zero, pct)
    OBVIOUS
  <2>5. E!Less(gain, loss) <=> Less(gain, loss)
    BY SameFractions
  <2>6. QED
    BY <2>1, <2>2, <2>3, <2>4, <2>5
<1>4. E!ExitFloors(o, config)["hard_stop"] = E!Times(o.average, E!Minus(E!One, config.exit_hard_stop_pct))
  BY DEF E!ExitFloors
<1>5. PICK level : level = Times(average, Minus(One, pct))
  OBVIOUS
<1>6. E!ExitFloors(o, config)["hard_stop"] = level /\ level \in Fraction
  BY <1>1, <1>2, <1>4, <1>5, SameFractions, GainBelow
<1>7. level # None
  BY <1>6, NoneAssumption
<1>8. E!Less(current, level) <=> Less(current, level)
  BY SameFractions
<1>9. E!Below(o.current, E!ExitFloors(o, config)["hard_stop"]) <=> Less(current, level)
  BY <1>1, <1>6, <1>7, <1>8 DEF E!Below
<1>10. E!HardStop(o, config) <=> Less(current, level)
  BY <1>2, <1>3, <1>5, GainBelow
<1>11. QED
  BY <1>9, <1>10

\* The first of the rules that fire.
LEMMA FirstFires ==
  ASSUME NEW S \in SUBSET (1..6), S # {}
  PROVE  E!Min(S) \in S /\ \A n \in S : E!Min(S) <= n
<1>1. \E m \in S : \A n \in S : m <= n
  <2>1. S \in SUBSET Nat
    OBVIOUS
  <2>2. QED
    BY <2>1, LeastNumber
<1>2. QED
  BY <1>1 DEF E!Min

\* A price stop fires exactly when a floor is breached, and it is a breached one.
LEMMA StopsMatch ==
  ASSUME NEW o \in E!Observations, NEW config \in E!ExitConfigs, E!Usable(o)
  PROVE  LET levels == E!ExitFloors(o, config)
             breached == {rule \in PriceStops : E!Below(o.current, levels[rule])}
             fired == E!EvaluateExit(o, config)
         IN  /\ fired \in PriceStops <=> breached # {}
             /\ fired \in PriceStops =>
                    /\ fired \in breached
                    /\ "hard_stop" \in breached => fired = "hard_stop"
<1> DEFINE levels == E!ExitFloors(o, config)
           breached == {rule \in PriceStops : E!Below(o.current, levels[rule])}
           fired == E!EvaluateExit(o, config)
           queue == E!ExitPrecedence
           firing == {n \in DOMAIN queue : E!ExitCondition(queue[n], o, config)}
<1>1. /\ DOMAIN queue = 1..6 /\ queue[1] = "hard_stop" /\ queue[2] = "volatility_stop"
      /\ queue[3] = "trailing_stop" /\ queue[4] = "thesis_superseded"
      /\ queue[5] = "roi_target" /\ queue[6] = "horizon_elapsed"
  BY DEF E!ExitPrecedence
<1>2. \A n \in 1..6 : queue[n] \in PriceStops <=> n <= 3
  BY <1>1 DEF PriceStops
<1>3. \A n \in 1..3 : E!ExitCondition(queue[n], o, config) <=> E!Below(o.current, levels[queue[n]])
  <2>1. E!ExitCondition("hard_stop", o, config) <=> E!HardStop(o, config)
    BY DEF E!ExitCondition
  <2>2. E!ExitCondition("volatility_stop", o, config)
            <=> E!Below(o.current, E!VolatilityFloor(o, config))
    BY DEF E!ExitCondition
  <2>3. E!ExitCondition("trailing_stop", o, config)
            <=> E!Below(o.current, E!TrailingFloor(o, config))
    BY DEF E!ExitCondition
  <2>4. /\ levels["volatility_stop"] = E!VolatilityFloor(o, config)
        /\ levels["trailing_stop"] = E!TrailingFloor(o, config)
    BY DEF E!ExitFloors
  <2>5. E!HardStop(o, config) <=> E!Below(o.current, levels["hard_stop"])
    BY HardStopIs
  <2>6. ASSUME NEW n \in 1..3
        PROVE  E!ExitCondition(queue[n], o, config) <=> E!Below(o.current, levels[queue[n]])
    <3>1. n = 1 \/ n = 2 \/ n = 3
      OBVIOUS
    <3>2. QED
      BY <1>1, <2>1, <2>2, <2>3, <2>4, <2>5, <3>1
  <2>7. QED
    BY <2>6
<1>4. \A n \in 1..3 : n \in firing <=> queue[n] \in breached
  BY <1>1, <1>2, <1>3
<1>5. \A rule \in breached : \E n \in 1..3 : rule = queue[n]
  BY <1>1 DEF PriceStops
<1>6. CASE firing = {}
  <2>1. fired = None
    BY <1>6 DEF E!EvaluateExit
  <2>2. breached = {}
    BY <1>4, <1>5, <1>6
  <2>3. None \notin PriceStops
    BY <1>1, CasesAssumption DEF PriceStops
  <2>4. QED
    BY <2>1, <2>2, <2>3
<1>7. CASE firing # {}
  <2>1. PICK m : m = E!Min(firing)
    OBVIOUS
  <2>2. fired = queue[m]
    BY <1>7, <2>1 DEF E!EvaluateExit
  <2>3. m \in firing /\ m \in 1..6 /\ \A n \in firing : m <= n
    BY <1>1, <1>7, <2>1, FirstFires
  <2>4. fired \in PriceStops <=> m <= 3
    BY <1>2, <2>2, <2>3
  <2>5. breached # {} => m <= 3
    BY <1>4, <1>5, <2>3
  <2>6. m <= 3 => fired \in breached
    BY <1>4, <2>2, <2>3
  <2>7. "hard_stop" \in breached /\ m <= 3 => fired = "hard_stop"
    BY <1>1, <1>4, <2>2, <2>3
  <2>8. QED
    BY <2>4, <2>5, <2>6, <2>7
<1>8. QED
  BY <1>6, <1>7

-----------------------------------------------------------------------------
(* What a behaviour asks stays what it asked.                              *)

CaseInv == case \in Cases \cup {None}

\* The case on the table is one of the run's, for as long as it runs.
THEOREM CaseInvariant == Explored => []CaseInv
<1>1. Start => CaseInv
  BY DEF Start, CaseInv
<1>2. CaseInv /\ [Step]_<<part, case, vars, calling, remembering>> => CaseInv'
  BY DEF CaseInv, Step
<1>3. QED
  BY <1>1, <1>2, PTL DEF Explored

\* DecisionsWithinLimits: whatever the account, the limits, the book, the rates and the
\* signal, an entry that the engine admits (risk/engine.py evaluate), and one admitted again at
\* authorization or at the preflight (risk/revalidation.py), respects every limit of the account.
THEOREM WithinEveryLimit == Explored => []DecisionsWithinLimits
<1>1. CaseInv => DecisionsWithinLimits
  <2>1. SUFFICES ASSUME CaseInv, Asks("trade") PROVE DecisionsWithinLimits
    BY DEF DecisionsWithinLimits, EntryWithinLimits, RecheckedWithinLimits
  <2>2. PICK i, p : i = case.i /\ p = case.p
    OBVIOUS
  <2>3. i \in RiskInputs /\ p \in Rows
    BY <2>1, <2>2, CasesAssumption DEF CaseInv, Asks, TypedTrade
  <2>4. i.action = "BUY" /\ Allowed(Decision(i)) => WithinLimits(i, Decision(i).sizing.quantity)
    BY <2>3, EntryWithin
  <2>5. p.side = "BUY" /\ SendVerdict(i, p) = "SEND" => WithinLimits(i, p.quantity)
    BY <2>3, RecheckedWithin
  <2>6. QED
    BY <2>2, <2>4, <2>5 DEF DecisionsWithinLimits, EntryWithinLimits, RecheckedWithinLimits
<1>2. QED
  BY <1>1, CaseInvariant, PTL

\* StopsMatchFloors: for every observation and every setting of the stops, risk/exits.py
\* evaluate_exit fires a price stop exactly when the price is below one of the floors that
\* exit_floors shows, and names a breached one.
THEOREM StopsFire == Explored => []StopsMatchFloors
<1>1. CaseInv => StopsMatchFloors
  <2>1. SUFFICES ASSUME CaseInv, Asks("holding"), E!Usable(case.o) PROVE StopsMatchFloors
    BY DEF StopsMatchFloors
  <2>2. PICK o, config : o = case.o /\ config = case.config
    OBVIOUS
  <2>3. o \in E!Observations /\ config \in E!ExitConfigs
    BY <2>1, <2>2, CasesAssumption DEF CaseInv, Asks
  <2>4. QED
    BY <2>1, <2>2, <2>3, StopsMatch DEF StopsMatchFloors
<1>2. QED
  BY <1>1, CaseInvariant, PTL

-----------------------------------------------------------------------------
(* An order is sent on this moment's quote and rate.                       *)

\* What the last look hands to the rules, and what the rules see of it.
LEMMA InputsAre ==
  ASSUME NEW c, NEW rates, NEW i, i = Inputs(c, rates), NEW j, j = ForProposal(i)
  PROVE  /\ i.quote = Fetched(c) /\ i.fx = Resolve(rates)
         /\ j.quote = i.quote /\ j.fx = i.fx /\ j.config = Trade.config
         /\ j.account = Trade.account /\ j.identity = Trade.identity
<1>1. PICK m : m = Merged([quote |-> None, fx |-> None], Trade)
  OBVIOUS
<1>2. m \in RiskInputs /\ DOMAIN m = {"quote", "fx"} \cup DOMAIN Trade
  BY <1>1, PricingAssumption DEF Merged
<1>3. {"config", "account", "identity"} \subseteq DOMAIN Trade
  BY <1>2 DEF RiskInputs
<1>4. DOMAIN i = {"quote", "fx"} \cup DOMAIN Trade
  BY DEF Inputs, Merged
<1>5. /\ i.quote = Fetched(c) /\ i.fx = Resolve(rates) /\ i.config = m.config
      /\ i.account = m.account /\ i.identity = m.identity
      /\ m.config = Trade.config /\ m.account = Trade.account /\ m.identity = Trade.identity
  BY <1>1, <1>3 DEF Inputs, Merged
<1>6. /\ j.quote = i.quote /\ j.fx = i.fx /\ j.config = i.config
      /\ j.account = i.account /\ j.identity = i.identity
  BY <1>3, <1>4 DEF ForProposal
<1>7. QED
  BY <1>5, <1>6

\* No gate blocks what nothing blocks.
LEMMA GatesOpen ==
  ASSUME NEW i, Blocking(Rules(i, NotionalCaps(i))) = {}
  PROVE  /\ QuoteAvailable(i) # "BLOCK" /\ QuoteFreshness(i) # "BLOCK" /\ SpreadCeiling(i) # "BLOCK"
         /\ AccountStateAvailable(i) # "BLOCK" /\ AccountStateFreshness(i) # "BLOCK"
         /\ CurrencyAlignment(i) # "BLOCK" /\ FxAvailable(i) # "BLOCK" /\ FxFreshness(i) # "BLOCK"
<1>1. \A id \in DOMAIN GateResults(i) : GateResults(i)[id] # "BLOCK"
  BY GateIsRule DEF Blocking
<1>2. QED
  BY <1>1 DEF GateResults

\* A source measures the market's rate, one way or the other.
LEMMA LatestIs ==
  ASSUME source \in Sources, NEW rates \in Answers(source), NEW r, r = Latest(rates), r # None
  PROVE  r.rate = IF r.direct THEN Rate ELSE Over(One, Rate)
<1>1. \A pair, grade, age : LET m == Measured(pair, grade, age)
                            IN  m.rate = IF m.direct THEN Rate ELSE Over(One, Rate)
  BY DEF Measured
<1>2. source.provider \in {"none", "alpaca", "frankfurter"}
  BY DEF Sources
<1>3. rates # None
  BY DEF Latest
<1>4. source.provider # "none"
  BY <1>3 DEF Answers
<1>5. r = AlpacaLatest(rates) \/ r = FrankfurterLatest(rates)
  BY <1>2, <1>3, <1>4 DEF Latest
<1>6. QED
  BY <1>1, <1>5 DEF AlpacaLatest, FrankfurterLatest

\* Two sides, in time, at the rate of the market.
LEMMA SentWell ==
  ASSUME source \in Sources, book \in LatestBooks,
         NEW c, NEW rates \in Answers(source), NEW i, i = Inputs(c, rates),
         SendVerdict(i, Order) = "SEND"
  PROVE  /\ TwoSided(book) /\ book.age <= Trade.config.max_quote_age
         /\ Same(Sent(i).cost, Over(Times(Order.quantity, book.ask), Rate))
<1>1. PICK j : j = ForProposal(i)
  OBVIOUS
<1>2. Blocking(Rules(j, NotionalCaps(j))) = {}
  BY <1>1, SendIs
<1>3. /\ i.quote = Fetched(c) /\ i.fx = Resolve(rates)
      /\ j.quote = i.quote /\ j.fx = i.fx /\ j.config = Trade.config
      /\ j.account = Trade.account /\ j.identity = Trade.identity
  BY <1>1, InputsAre
<1>4. j.quote # None
  BY <1>2, GatesOpen DEF QuoteAvailable, Gate
<1>5. j.quote.bid = book.bid /\ j.quote.ask = book.ask /\ j.quote.age = book.age
  BY <1>3, <1>4 DEF Fetched
<1>6. book.age <= Trade.config.max_quote_age
  BY <1>2, <1>3, <1>4, <1>5, GatesOpen DEF QuoteFreshness, Gate
<1>7. TwoSided(book)
  <2>1. QuoteSpread(j) \in {"OK", "EXCESSIVE"}
    BY <1>2, <1>4, GatesOpen DEF SpreadCeiling
  <2>2. QED
    BY <1>5, <2>1 DEF QuoteSpread, AssessSpread, TwoSided
<1>8. PICK x : x = Times(Order.quantity, book.ask)
  OBVIOUS
<1>9. x \in Fraction /\ Rate \in Fraction /\ Positive(Rate)
  BY <1>8, PricingAssumption, PositiveParts, Closed DEF Rows
<1>10. Sent(i).cost = ToAccount(i, x)
  BY <1>3, <1>5, <1>8 DEF Sent
<1>11. CASE Trade.account.currency = Trade.identity.currency
  <2>1. ~FxRequired(i)
    BY <1>3, <1>11 DEF Resolve, FxRequired
  <2>2. Same(Rate, One)
    BY <1>11, PricingAssumption
  <2>3. QED
    BY <1>6, <1>7, <1>8, <1>9, <1>10, <2>1, <2>2, SameOver DEF ToAccount
<1>12. CASE Trade.account.currency # Trade.identity.currency
  <2>1. CurrenciesKnown(j) /\ CrossCurrency(j)
    <3>1. CurrenciesKnown(j)
      BY <1>2, GatesOpen DEF CurrencyAlignment
    <3>2. AccountCurrency(j) = Trade.account.currency
      BY <1>3, PricingAssumption DEF AccountCurrency
    <3>3. QED
      BY <1>3, <1>12, <3>1, <3>2 DEF CrossCurrency
  <2>2. j.fx # None /\ "structural" \notin j.fx.blockers
    BY <1>2, <2>1, GatesOpen DEF FxAvailable, Gate
  <2>3. PICK r : r = IF source.provider = "none" THEN None ELSE Latest(rates)
    OBVIOUS
  <2>4. i.fx = Snapshot(r)
    BY <1>3, <1>12, <2>3 DEF Resolve
  <2>5. r # None /\ r = Latest(rates)
    BY <1>3, <2>2, <2>3, <2>4 DEF Snapshot, FxBlockers
  <2>6. i.fx.rate = r.rate /\ i.fx.direct = r.direct /\ ~i.fx.same
    BY <2>4, <2>5 DEF Snapshot
  <2>7. FxRequired(i)
    BY <1>3, <2>2, <2>6 DEF FxRequired
  <2>8. r.rate = IF r.direct THEN Rate ELSE Over(One, Rate)
    BY <2>5, LatestIs
  <2>9. ToAccount(i, x) = IF r.direct THEN Over(x, Rate) ELSE Times(x, Over(One, Rate))
    BY <2>6, <2>7, <2>8 DEF ToAccount
  <2>10. PICK y : y = Over(x, Rate)
    OBVIOUS
  <2>11. Same(y, y)
    BY <1>9, <2>10, Closed, LeqTotal
  <2>12. Same(ToAccount(i, x), Over(x, Rate))
    BY <1>9, <2>9, <2>10, <2>11, SameOver
  <2>13. QED
    BY <1>6, <1>7, <1>8, <1>10, <2>12
<1>13. QED
  BY <1>11, <1>12

\* Where the book and the source come from, and what was sent was sent on.
PricedInv == source \in Sources /\ book \in LatestBooks /\ PricedByThisMoment

\* A purchase that was sent was priced on the book of its own moment, whatever the feed and
\* the rate service answered before (marketdata/, fx/, the preflight of execution).
THEOREM PricingInvariant == Explored => []PricedInv
<1>1. Start => PricedInv
  BY DEF Start, Init, PricedInv, PricedByThisMoment
<1>2. ASSUME PricedInv, Next PROVE PricedInv'
  <2>1. CASE Clock \/ Provider \/ Check
    BY <1>2, <2>1 DEF Clock, Provider, Check, provider, market, PricedInv, PricedByThisMoment, TrueCost
  <2>2. CASE Preflight
    <3>1. UNCHANGED <<source, book>>
      BY <2>2 DEF Preflight, provider
    <3>2. PICK rates \in Answers(source) :
              LET i == Inputs(capability', rates)
              IN  Judge(i, Revalidation(i, Order), VerdictOf(i, Order, Revalidation(i, Order)))
      BY <2>2 DEF Preflight
    <3>3. PICK i : i = Inputs(capability', rates)
      OBVIOUS
    <3>4. Judge(i, Revalidation(i, Order), SendVerdict(i, Order))
      BY <3>2, <3>3 DEF SendVerdict
    <3>5. SendVerdict(i, Order) \in {"SEND", "DEFER", "RETIRE"}
      BY DEF SendVerdict, VerdictOf
    <3>6. CASE SendVerdict(i, Order) = "SEND"
      <4>1. basis' = Sent(i)
        BY <3>4, <3>6 DEF Judge
      <4>2. Sent(i).book = book
        BY DEF Sent
      <4>3. /\ TwoSided(book) /\ book.age <= Trade.config.max_quote_age
            /\ Same(Sent(i).cost, Over(Times(Order.quantity, book.ask), Rate))
        BY <1>2, <3>3, <3>6, SentWell DEF PricedInv
      <4>4. QED
        BY <1>2, <3>1, <4>1, <4>2, <4>3 DEF PricedInv, PricedByThisMoment, TrueCost
    <3>7. CASE SendVerdict(i, Order) # "SEND"
      <4>1. order' # "SENT"
        BY <3>4, <3>5, <3>7 DEF Judge
      <4>2. QED
        BY <1>2, <3>1, <4>1 DEF PricedInv, PricedByThisMoment
    <3>8. QED
      BY <3>6, <3>7
  <2>3. QED
    BY <1>2, <2>1, <2>2 DEF Next
<1>3. PricedInv /\ UNCHANGED vars => PricedInv'
  BY DEF vars, PricedInv, PricedByThisMoment, TrueCost
<1>4. PricedInv /\ [Step]_<<part, case, vars, calling, remembering>> => PricedInv'
  BY <1>2, <1>3 DEF Step
<1>5. QED
  BY <1>1, <1>4, PTL DEF Explored

\* PricedByThisMoment, for every feed, book, rate and outage.
THEOREM PricedNow == Explored => []PricedByThisMoment
<1>1. PricedInv => PricedByThisMoment
  BY DEF PricedInv
<1>2. QED
  BY <1>1, PricingInvariant, PTL

-----------------------------------------------------------------------------
(* A late input blocks by itself.                                          *)

\* Two inputs that differ only in when the quote and the account were read.
Retimed(i, k) ==
    /\ k.action = i.action /\ k.confidence = i.confidence /\ k.config = i.config
    /\ k.identity = i.identity /\ k.reserved = i.reserved /\ k.fx = i.fx
    /\ k.calibration = i.calibration /\ k.reduce_fraction = i.reduce_fraction
    /\ k.other_holding_weights = i.other_holding_weights
    /\ i.quote # None /\ k.quote # None
    /\ k.quote.bid = i.quote.bid /\ k.quote.ask = i.quote.ask
    /\ k.quote.currency = i.quote.currency /\ k.quote.session = i.quote.session
    /\ k.quote.blocked = i.quote.blocked
    /\ i.account # None /\ k.account # None
    /\ k.account.currency = i.account.currency /\ k.account.cash = i.account.cash
    /\ k.account.total = i.account.total /\ k.account.invested = i.account.invested
    /\ k.account.position = i.account.position

\* What is held does not depend on the ages of the observations.
LEMMA RetimedHeld ==
  ASSUME NEW i, NEW k, Retimed(i, k)
  PROVE  /\ Position(k) = Position(i) /\ Held(k) = Held(i) /\ HeldValue(k) = HeldValue(i)
         /\ Available(k) = Available(i)
         /\ FxRequired(k) <=> FxRequired(i)
         /\ FxUsable(k) <=> FxUsable(i)
         /\ HasMaxOpen(k) <=> HasMaxOpen(i)
         /\ QuoteSpread(k) = QuoteSpread(i) /\ AccountCurrency(k) = AccountCurrency(i)
<1>1. Position(k) = Position(i)
  BY DEF Retimed, Position
<1>2. Held(k) = Held(i) /\ HeldValue(k) = HeldValue(i) /\ Available(k) = Available(i)
  BY <1>1 DEF Held, HeldValue, Available
<1>3. FxRequired(k) <=> FxRequired(i)
  BY DEF Retimed, FxRequired
<1>4. FxUsable(k) <=> FxUsable(i)
  BY DEF Retimed, FxUsable
<1>5. HasMaxOpen(k) <=> HasMaxOpen(i)
  BY <1>3, <1>4 DEF Retimed, HasMaxOpen
<1>6. QuoteSpread(k) = QuoteSpread(i) /\ AccountCurrency(k) = AccountCurrency(i)
  BY DEF Retimed, QuoteSpread, AccountCurrency
<1>7. QED
  BY <1>1, <1>2, <1>3, <1>4, <1>5, <1>6

\* The conviction target of what it depends on.
TargetOf(config, confidence, total, weights) ==
    LET weight == ConvictionWeight(config, confidence)
        others == DOMAIN weights
    IN  IF config.target_positions = 0
        THEN ConvictionTargets(total,
                 [n \in others \cup {0} |-> IF n = 0 THEN weight ELSE weights[n]], config)[0]
        ELSE Smaller(Times(Over(total, Whole(config.target_positions)), weight),
                     Share(total, config.max_position_pct))

\* The ceilings do not depend on the ages of the observations.
LEMMA RetimedCaps ==
  ASSUME NEW i, NEW k, Retimed(i, k)
  PROVE  NotionalCaps(k) = NotionalCaps(i)
<1>1. ConvictionTarget(k) = ConvictionTarget(i)
  <2>1. \A x : ConvictionTarget(x) =
            TargetOf(x.config, x.confidence, x.account.total, x.other_holding_weights)
    BY DEF ConvictionTarget, TargetOf
  <2>2. QED
    BY <2>1 DEF Retimed
<1>2. MaxOpenNotional(k) = MaxOpenNotional(i)
  <2>1. PICK room, mid : room = Headroom(i.identity.max_open, Held(i)) /\ mid = Mid(i.quote.bid, i.quote.ask)
    OBVIOUS
  <2>2. MaxOpenNotional(i) = ToAccount(i, Times(room, mid))
    BY <2>1 DEF MaxOpenNotional
  <2>3. MaxOpenNotional(k) = ToAccount(k, Times(room, mid))
    BY <2>1, RetimedHeld DEF MaxOpenNotional, Retimed
  <2>4. \A x : ToAccount(k, x) = ToAccount(i, x)
    BY RetimedHeld DEF ToAccount, Retimed
  <2>5. QED
    BY <2>2, <2>3, <2>4
<1>3. CapIds(k) = CapIds(i)
  BY RetimedHeld DEF CapIds, Retimed
<1>4. ASSUME NEW id \in CapIds(i) PROVE CapLimit(k, id) = CapLimit(i, id)
  <2>1. /\ k.config = i.config /\ k.account.total = i.account.total /\ k.account.cash = i.account.cash
        /\ k.account.invested = i.account.invested /\ k.reserved = i.reserved
        /\ HeldValue(k) = HeldValue(i)
    BY RetimedHeld DEF Retimed
  <2>2. QED
    BY <1>1, <1>2, <2>1 DEF CapLimit
<1>5. QED
  BY <1>3, <1>4 DEF NotionalCaps

\* Only the two freshness gates look at the ages of quote and account.
LEMMA RetimedGates ==
  ASSUME NEW i, NEW k, Retimed(i, k),
         NEW id \in DOMAIN GateResults(i) \ {"quote_freshness", "account_state_freshness"}
  PROVE  GateResults(k)[id] = GateResults(i)[id]
<1>1. /\ ActionIsExecutable(k.action) = ActionIsExecutable(i.action)
      /\ InstrumentIdentity(k) = InstrumentIdentity(i)
      /\ InstrumentTypeSupported(k) = InstrumentTypeSupported(i)
      /\ AccountStateAvailable(k) = AccountStateAvailable(i)
      /\ QuoteAvailable(k) = QuoteAvailable(i)
  BY DEF Retimed, ActionIsExecutable, InstrumentIdentity, InstrumentTypeSupported,
         AccountStateAvailable, QuoteAvailable, Gate
<1>2. /\ PriceSourceExecutionGrade(k) = PriceSourceExecutionGrade(i)
      /\ QuoteTwoSided(k) = QuoteTwoSided(i) /\ SpreadCeiling(k) = SpreadCeiling(i)
      /\ MarketSession(k) = MarketSession(i)
  BY RetimedHeld DEF Retimed, PriceSourceExecutionGrade, QuoteTwoSided, SpreadCeiling,
         MarketSession, Gate
<1>3. CurrenciesKnown(k) <=> CurrenciesKnown(i)
  BY RetimedHeld DEF Retimed, CurrenciesKnown
<1>4. CrossCurrency(k) <=> CrossCurrency(i)
  BY RetimedHeld DEF Retimed, CrossCurrency
<1>5. /\ CurrencyAlignment(k) = CurrencyAlignment(i) /\ FxAvailable(k) = FxAvailable(i)
      /\ FxFreshness(k) = FxFreshness(i)
  BY <1>3, <1>4 DEF Retimed, CurrencyAlignment, FxAvailable, FxFreshness, Gate
<1>6. /\ CurrentPosition(k) = CurrentPosition(i)
      /\ DuplicateOrConflicting(k) = DuplicateOrConflicting(i)
      /\ MaxActiveProposals(k) = MaxActiveProposals(i)
      /\ ReservationAccounting(k) = ReservationAccounting(i)
      /\ ResearchConfidenceFloor(k) = ResearchConfidenceFloor(i)
  BY RetimedHeld DEF Retimed, CurrentPosition, DuplicateOrConflicting, MaxActiveProposals,
         ReservationAccounting, ResearchConfidenceFloor, Gate
<1>7. QED
  BY <1>1, <1>2, <1>5, <1>6 DEF GateResults

\* Only the two freshness rules differ when quote and account are older.
LEMMA RetimedRules ==
  ASSUME NEW i, NEW k, Retimed(i, k)
  PROVE  /\ DOMAIN Rules(k, NotionalCaps(k)) = DOMAIN Rules(i, NotionalCaps(i))
         /\ \A id \in DOMAIN Rules(i, NotionalCaps(i)) \ {"quote_freshness", "account_state_freshness"} :
                Rules(k, NotionalCaps(k))[id] = Rules(i, NotionalCaps(i))[id]
<1>1. PICK caps : caps = NotionalCaps(i) /\ caps = NotionalCaps(k)
  BY RetimedCaps
<1>2. TargetFillRule(k, caps) = TargetFillRule(i, caps)
  BY DEF Retimed, TargetFillRule
<1>3. /\ ConfidenceApplies(k) <=> ConfidenceApplies(i)
      /\ CalibrationApplies(k) <=> CalibrationApplies(i)
      /\ CalibrationMeasured(k) <=> CalibrationMeasured(i)
      /\ ConfidenceSizeFactor(k) = ConfidenceSizeFactor(i)
      /\ CalibrationSizeFactor(k) = CalibrationSizeFactor(i)
  BY DEF Retimed, ConfidenceApplies, CalibrationApplies, CalibrationMeasured,
         ConfidenceSizeFactor, CalibrationSizeFactor
<1>4. OptionalResults(k, caps) = OptionalResults(i, caps)
  BY <1>2, <1>3 DEF OptionalResults
<1>5. PICK others : /\ others = Merged(CapRuleResults(caps), OptionalResults(i, caps))
                    /\ others = Merged(CapRuleResults(caps), OptionalResults(k, caps))
  BY <1>4
<1>6. /\ Rules(i, caps) = Merged(GateResults(i), others)
      /\ Rules(k, caps) = Merged(GateResults(k), others)
  BY <1>5 DEF Rules
<1>7. DOMAIN GateResults(k) = DOMAIN GateResults(i)
  BY DEF GateResults
<1>8. QED
  BY <1>1, <1>6, <1>7, RetimedGates DEF Merged

\* A row is judged on the same input, its trim aside.
LEMMA ForProposalIs ==
  ASSUME NEW x \in RiskInputs
  PROVE  LET y == ForProposal(x)
         IN  /\ y.action = x.action /\ y.confidence = x.confidence /\ y.config = x.config
             /\ y.identity = x.identity /\ y.account = x.account /\ y.quote = x.quote
             /\ y.reserved = x.reserved /\ y.fx = x.fx /\ y.calibration = x.calibration
             /\ y.other_holding_weights = x.other_holding_weights
             /\ y.reduce_fraction = IF x.action = "REDUCE" THEN One ELSE x.reduce_fraction
  BY DEF ForProposal, RiskInputs

\* What a row is judged on besides its size does not depend on when.
LEMMA RetimedRow ==
  ASSUME NEW i, NEW k, Retimed(i, k), NEW p, NEW d, NEW e, e.outcome = "BLOCK",
         Blocking(AuthorizationRules(i, p, d)) = {}
  PROVE  Blocking(AuthorizationRules(k, p, e)) = {}
<1>1. /\ ProposalTtl(p) # "BLOCK" /\ PriceDrift(i, p) # "BLOCK" /\ FxRateDrift(i, p) # "BLOCK"
      /\ PolicyVersionUnchanged(i, p) # "BLOCK"
  BY DEF Blocking, AuthorizationRules
<1>2. PriceDrift(k, p) = PriceDrift(i, p)
  BY DEF Retimed, PriceDrift
<1>3. FxRateDrift(k, p) = FxRateDrift(i, p)
  BY RetimedHeld DEF Retimed, FxRateDrift
<1>4. PolicyVersionUnchanged(k, p) = PolicyVersionUnchanged(i, p)
  BY DEF Retimed, PolicyVersionUnchanged
<1>5. EnvelopeStillCovers(p, e) # "BLOCK"
  BY DEF EnvelopeStillCovers, Skipped
<1>6. QED
  BY <1>1, <1>2, <1>3, <1>4, <1>5 DEF Blocking, AuthorizationRules

\* An input that comes too late is the only thing that blocks.
LEMMA LateDefers ==
  ASSUME NEW i \in RiskInputs, NEW k \in RiskInputs, Retimed(i, k), NEW p,
         SendVerdict(i, p) = "SEND",
         NEW id \in {"quote_freshness", "account_state_freshness"},
         GateResults(k)[id] = "BLOCK",
         \A other \in {"quote_freshness", "account_state_freshness"} \ {id} :
             GateResults(k)[other] # "BLOCK"
  PROVE  SendVerdict(k, p) = "DEFER"
<1>1. PICK j, l : j = ForProposal(i) /\ l = ForProposal(k)
  OBVIOUS
<1>2. Retimed(j, l)
  BY <1>1, ForProposalIs DEF Retimed
<1>3. Blocking(Rules(j, NotionalCaps(j))) = {} /\ Blocking(AuthorizationRules(i, p, Decision(j))) = {}
  BY <1>1, SendIs
<1>4. /\ GateResults(l)["quote_freshness"] = GateResults(k)["quote_freshness"]
      /\ GateResults(l)["account_state_freshness"] = GateResults(k)["account_state_freshness"]
  BY <1>1, ForProposalIs DEF GateResults, QuoteFreshness, AccountStateFreshness
<1>5. Blocking(Rules(l, NotionalCaps(l))) = {id}
  <2>1. \A other \in {"quote_freshness", "account_state_freshness"} :
            /\ other \in DOMAIN Rules(l, NotionalCaps(l))
            /\ Rules(l, NotionalCaps(l))[other] = GateResults(l)[other]
    <3>1. {"quote_freshness", "account_state_freshness"} \subseteq DOMAIN GateResults(l)
      BY DEF GateResults
    <3>2. QED
      BY <3>1, GateIsRule
  <2>2. \A other \in DOMAIN Rules(l, NotionalCaps(l)) \ {"quote_freshness", "account_state_freshness"} :
            Rules(l, NotionalCaps(l))[other] # "BLOCK"
    BY <1>2, <1>3, RetimedRules DEF Blocking
  <2>3. PICK rules : rules = Rules(l, NotionalCaps(l))
    OBVIOUS
  <2>4. \A other \in DOMAIN rules : rules[other] = "BLOCK" <=> other = id
    BY <1>4, <2>1, <2>2, <2>3
  <2>5. id \in DOMAIN rules
    BY <2>1, <2>3
  <2>6. QED
    BY <2>3, <2>4, <2>5 DEF Blocking
<1>6. Decision(l).blocking = {id} /\ Decision(l).outcome = "BLOCK"
  BY <1>5, DecisionIs
<1>7. Blocking(AuthorizationRules(k, p, Decision(l))) = {}
  BY <1>3, <1>6, RetimedRow
<1>8. Revalidation(k, p) = {id}
  BY <1>1, <1>6, <1>7 DEF Revalidation
<1>9. QED
  BY <1>8 DEF SendVerdict, VerdictOf, IsTransient, StaleInputRuleIds

\* An input that does not come at all defers whatever else blocks.
LEMMA MissingDefers ==
  ASSUME NEW k \in RiskInputs, NEW p, NEW id \in MissingInputRuleIds,
         GateResults(ForProposal(k))[id] = "BLOCK"
  PROVE  SendVerdict(k, p) = "DEFER"
<1>1. PICK l : l = ForProposal(k)
  OBVIOUS
<1>2. id \in DOMAIN GateResults(l)
  BY DEF GateResults, MissingInputRuleIds
<1>3. id \in Blocking(Rules(l, NotionalCaps(l)))
  BY <1>1, <1>2, GateIsRule DEF Blocking
<1>4. id \in Revalidation(k, p)
  BY <1>1, <1>3, DecisionIs DEF Revalidation
<1>5. QED
  BY <1>4 DEF SendVerdict, VerdictOf, IsTransient

\* An input cannot go missing or late when there was none.
LEMMA SendHas ==
  ASSUME NEW i \in RiskInputs, NEW p, SendVerdict(i, p) = "SEND"
  PROVE  /\ i.quote \in QuoteSnapshots /\ i.account \in AccountStates
         /\ QuoteFreshness(i) # "BLOCK" /\ AccountStateFreshness(i) # "BLOCK"
         /\ CurrenciesKnown(i)
<1>1. PICK j : j = ForProposal(i)
  OBVIOUS
<1>2. Blocking(Rules(j, NotionalCaps(j))) = {}
  BY <1>1, SendIs
<1>3. j.quote = i.quote /\ j.account = i.account /\ j.config = i.config /\ j.identity = i.identity
  BY <1>1, ForProposalIs
<1>4. i.quote # None /\ i.account # None
  BY <1>2, <1>3, GatesOpen DEF QuoteAvailable, AccountStateAvailable, Gate
<1>5. QuoteFreshness(i) # "BLOCK" /\ AccountStateFreshness(i) # "BLOCK"
  BY <1>2, <1>3, GatesOpen DEF QuoteFreshness, AccountStateFreshness
<1>6. CurrenciesKnown(j)
  BY <1>2, GatesOpen DEF CurrencyAlignment
<1>7. CurrenciesKnown(i)
  BY <1>3, <1>6 DEF CurrenciesKnown, AccountCurrency
<1>8. QED
  BY <1>4, <1>5, <1>7, InputParts

\* A purchase that would be sent is deferred when one of its inputs is late or missing.
LEMMA OutageDefers ==
  ASSUME NEW i \in RiskInputs, NEW p, SendVerdict(i, p) = "SEND",
         FxRequired(i) /\ CurrenciesKnown(i) => CrossCurrency(i)
  PROVE  /\ SendVerdict(NoQuote(i), p) = "DEFER" /\ SendVerdict(LateQuote(i), p) = "DEFER"
         /\ SendVerdict(NoAccount(i), p) = "DEFER" /\ SendVerdict(LateAccount(i), p) = "DEFER"
         /\ FxRequired(i) => SendVerdict(NoRate(i), p) = "DEFER"
<1>1. /\ i.quote \in QuoteSnapshots /\ i.account \in AccountStates
      /\ QuoteFreshness(i) # "BLOCK" /\ AccountStateFreshness(i) # "BLOCK"
      /\ CurrenciesKnown(i) /\ i.quote # None /\ i.account # None
      /\ i.config.max_quote_age \in Int /\ i.config.max_account_state_age \in Int
  <2>1. i.config \in RiskConfigs
    BY InputParts
  <2>2. QED
    BY <2>1, SendHas, AbsenceAssumption DEF RiskConfigs
<1>2. SendVerdict(NoQuote(i), p) = "DEFER"
  <2>1. PICK k : k = NoQuote(i)
    OBVIOUS
  <2>2. k \in RiskInputs /\ k.quote = None
    BY <2>1 DEF NoQuote, RiskInputs, Option
  <2>3. ForProposal(k).quote = None
    BY <2>2, ForProposalIs
  <2>4. GateResults(ForProposal(k))["quote_available"] = "BLOCK"
    BY <2>3 DEF GateResults, QuoteAvailable, Gate
  <2>5. QED
    BY <2>1, <2>2, <2>4, MissingDefers DEF MissingInputRuleIds
<1>3. SendVerdict(NoAccount(i), p) = "DEFER"
  <2>1. PICK k : k = NoAccount(i)
    OBVIOUS
  <2>2. k \in RiskInputs /\ k.account = None
    BY <2>1 DEF NoAccount, RiskInputs, Option
  <2>3. ForProposal(k).account = None
    BY <2>2, ForProposalIs
  <2>4. GateResults(ForProposal(k))["account_state_available"] = "BLOCK"
    BY <2>3 DEF GateResults, AccountStateAvailable, Gate
  <2>5. QED
    BY <2>1, <2>2, <2>4, MissingDefers DEF MissingInputRuleIds
<1>4. ASSUME FxRequired(i) PROVE SendVerdict(NoRate(i), p) = "DEFER"
  <2>1. PICK k : k = NoRate(i)
    OBVIOUS
  <2>2. i.fx \in FxSnapshots /\ i.fx # None /\ ~i.fx.same
    BY <1>4, InputParts DEF FxRequired
  <2>3. PICK fx : fx = [i.fx EXCEPT !.rate = None, !.blockers = {"structural"}]
    OBVIOUS
  <2>4. fx \in FxSnapshots /\ fx.blockers = {"structural"}
    BY <2>2, <2>3 DEF FxSnapshots, Option
  <2>5. k = [i EXCEPT !.fx = fx]
    BY <2>1, <2>3 DEF NoRate, RiskInputs
  <2>6. /\ k \in RiskInputs /\ k.fx = fx /\ k.account = i.account /\ k.identity = i.identity
    BY <2>4, <2>5 DEF RiskInputs, Option
  <2>7. PICK l : l = ForProposal(k)
    OBVIOUS
  <2>8. l.fx = fx /\ l.account = i.account /\ l.identity = i.identity
    BY <2>6, <2>7, ForProposalIs
  <2>9. CurrenciesKnown(l)
    BY <1>1, <2>8 DEF CurrenciesKnown, AccountCurrency
  <2>10. CrossCurrency(l)
    BY <1>1, <1>4, <2>8 DEF CrossCurrency, AccountCurrency
  <2>11. FxAvailable(l) = "BLOCK"
    BY <2>4, <2>8, <2>9, <2>10 DEF FxAvailable, Gate
  <2>12. GateResults(l)["fx_available"] = "BLOCK"
    BY <2>11 DEF GateResults
  <2>13. QED
    BY <2>1, <2>6, <2>7, <2>12, MissingDefers DEF MissingInputRuleIds
<1>5. SendVerdict(LateQuote(i), p) = "DEFER"
  <2>1. PICK k, late : k = LateQuote(i) /\ late = i.config.max_quote_age + 1
    OBVIOUS
  <2>2. PICK quote : quote = [i.quote EXCEPT !.age = late]
    OBVIOUS
  <2>3. /\ quote \in QuoteSnapshots /\ quote.age = late /\ quote.bid = i.quote.bid
        /\ quote.ask = i.quote.ask /\ quote.currency = i.quote.currency
        /\ quote.session = i.quote.session /\ quote.blocked = i.quote.blocked
    BY <1>1, <2>1, <2>2 DEF QuoteSnapshots
  <2>4. quote # None
    BY <2>3, AbsenceAssumption
  <2>5. k = [i EXCEPT !.quote = quote]
    BY <2>1, <2>2 DEF LateQuote, RiskInputs
  <2>6. /\ k \in RiskInputs /\ k.quote = quote /\ k.config = i.config /\ k.account = i.account
        /\ Retimed(i, k)
    BY <1>1, <2>3, <2>4, <2>5 DEF RiskInputs, Option, Retimed
  <2>7. QuoteFreshness(k) = "BLOCK"
    BY <1>1, <2>1, <2>3, <2>4, <2>6 DEF QuoteFreshness, Gate
  <2>8. AccountStateFreshness(k) # "BLOCK"
    BY <1>1, <2>6 DEF AccountStateFreshness
  <2>9. GateResults(k)["quote_freshness"] = "BLOCK" /\ GateResults(k)["account_state_freshness"] # "BLOCK"
    BY <2>7, <2>8 DEF GateResults
  <2>10. QED
    BY <2>1, <2>6, <2>9, LateDefers
<1>6. SendVerdict(LateAccount(i), p) = "DEFER"
  <2>1. PICK k, late : k = LateAccount(i) /\ late = i.config.max_account_state_age + 1
    OBVIOUS
  <2>2. PICK account : account = [i.account EXCEPT !.age = late]
    OBVIOUS
  <2>3. /\ account \in AccountStates /\ account.age = late /\ account.currency = i.account.currency
        /\ account.cash = i.account.cash /\ account.total = i.account.total
        /\ account.invested = i.account.invested /\ account.position = i.account.position
    BY <1>1, <2>1, <2>2 DEF AccountStates
  <2>4. account # None
    BY <2>3, AbsenceAssumption
  <2>5. k = [i EXCEPT !.account = account]
    BY <2>1, <2>2 DEF LateAccount, RiskInputs
  <2>6. /\ k \in RiskInputs /\ k.account = account /\ k.config = i.config /\ k.quote = i.quote
        /\ Retimed(i, k)
    BY <1>1, <2>3, <2>4, <2>5 DEF RiskInputs, Option, Retimed
  <2>7. AccountStateFreshness(k) = "BLOCK"
    BY <1>1, <2>1, <2>3, <2>4, <2>6 DEF AccountStateFreshness, Gate
  <2>8. QuoteFreshness(k) # "BLOCK"
    BY <1>1, <2>6 DEF QuoteFreshness
  <2>9. GateResults(k)["quote_freshness"] # "BLOCK" /\ GateResults(k)["account_state_freshness"] = "BLOCK"
    BY <2>7, <2>8 DEF GateResults
  <2>10. QED
    BY <2>1, <2>6, <2>9, LateDefers
<1>7. QED
  BY <1>2, <1>3, <1>4, <1>5, <1>6

\* OutageSparesProposal: an outage of the quote, the account or the rate defers a
\* proposal that would be sent otherwise and never retires it (risk/revalidation.py).
THEOREM OutageKeeps == Explored => []OutageSparesProposal
<1>1. CaseInv => OutageSparesProposal
  <2>1. SUFFICES ASSUME CaseInv, Asks("trade"), SendVerdict(case.i, case.p) = "SEND"
                 PROVE  OutageSparesProposal
    BY DEF OutageSparesProposal
  <2>2. PICK i, p : i = case.i /\ p = case.p
    OBVIOUS
  <2>3. TypedTrade(case)
    BY <2>1, CasesAssumption DEF CaseInv, Asks
  <2>4. i \in RiskInputs /\ (FxRequired(i) /\ CurrenciesKnown(i) => CrossCurrency(i))
    BY <2>2, <2>3 DEF TypedTrade
  <2>5. SendVerdict(i, p) = "SEND"
    BY <2>1, <2>2
  <2>6. /\ SendVerdict(NoQuote(i), p) = "DEFER" /\ SendVerdict(LateQuote(i), p) = "DEFER"
        /\ SendVerdict(NoAccount(i), p) = "DEFER" /\ SendVerdict(LateAccount(i), p) = "DEFER"
        /\ FxRequired(i) => SendVerdict(NoRate(i), p) = "DEFER"
    BY <2>4, <2>5, OutageDefers
  <2>7. QED
    BY <2>2, <2>6 DEF OutageSparesProposal
<1>2. QED
  BY <1>1, CaseInvariant, PTL

-----------------------------------------------------------------------------
(* Sums.                                                                   *)

\* it adds up f over every subset of S.
Sums(it, S, f) ==
    it = [s \in SUBSET S |-> IF s = {} THEN 0
                             ELSE LET x == CHOOSE x \in s : TRUE IN it[s \ {x}] + f[x]]

\* A sum takes one member at a time.
LEMMA SumsStep ==
  ASSUME NEW S, NEW f, NEW it, Sums(it, S, f), NEW s \in SUBSET S, s # {}
  PROVE  \E x \in s : x = (CHOOSE y \in s : TRUE) /\ it[s] = it[s \ {x}] + f[x]
<1>1. PICK x \in s : x = CHOOSE y \in s : TRUE
  OBVIOUS
<1>2. it[s] = it[s \ {x}] + f[x]
  BY <1>1 DEF Sums
<1>3. QED
  BY <1>1, <1>2

\* A finite sum is defined.
LEMMA SumsExist ==
  ASSUME NEW S, IsFiniteSet(S), NEW f \in [S -> Nat]
  PROVE  \E it : Sums(it, S, f)
<1> DEFINE op == [p \in Nat \X Nat |-> p[2] + p[1]]
           Pick(s) == CHOOSE x \in s : TRUE
<1>1. op \in [Nat \X Nat -> Nat]
  OBVIOUS
<1>2. PICK it : FoldsUp(it, S, f, op, 0)
  <2> HIDE DEF op
  <2>1. QED
    BY FoldExists
<1>3. it \in [SUBSET S -> Nat]
  <2> HIDE DEF op
  <2>1. QED
    BY <1>1, <1>2, FoldTyped
<1>4. ASSUME NEW s \in SUBSET S
      PROVE  it[s] = IF s = {} THEN 0 ELSE it[s \ {Pick(s)}] + f[Pick(s)]
  <2>1. it[s] = IF s = {} THEN 0 ELSE op[<<f[Pick(s)], it[s \ {Pick(s)}]>>]
    BY <1>2 DEF FoldsUp
  <2>2. CASE s # {}
    <3>1. Pick(s) \in s
      BY <2>2
    <3> HIDE DEF Pick
    <3>2. f[Pick(s)] \in Nat /\ it[s \ {Pick(s)}] \in Nat
      BY <1>3, <3>1
    <3>3. QED
      BY <2>1, <2>2, <3>2
  <2>3. QED
    BY <2>1, <2>2
<1>5. Sums(it, S, f)
  <2>1. it = [s \in SUBSET S |-> it[s]]
    BY <1>3
  <2>2. QED
    BY <1>4, <2>1 DEF Sums
<1>6. QED
  BY <1>5

\* A sum depends on the values over the subset only.
LEMMA SumsOnce ==
  ASSUME NEW S, NEW T, IsFiniteSet(S), S \subseteq T, NEW f, NEW g, \A x \in S : f[x] = g[x],
         NEW it, Sums(it, S, f), NEW jt, Sums(jt, T, g)
  PROVE  \A s \in SUBSET S : it[s] = jt[s]
<1> DEFINE Bad == {s \in SUBSET S : it[s] # jt[s]}
<1>1. Bad = {}
  <2>1. SUFFICES ASSUME Bad # {} PROVE FALSE
    OBVIOUS
  <2>2. Bad \in SUBSET (SUBSET S)
    OBVIOUS
  <2>3. PICK s \in Bad : \A u \in Bad : u \subseteq s => u = s
    <3> HIDE DEF Bad
    <3>1. QED
      BY <2>1, <2>2, SmallestSubset
  <2>4. s # {}
    BY <2>3 DEF Sums
  <2>5. PICK x \in s : x = (CHOOSE y \in s : TRUE) /\ it[s] = it[s \ {x}] + f[x]
    BY <2>3, <2>4, SumsStep
  <2>6. s \in SUBSET T
    BY <2>3
  <2>7. jt[s] = jt[s \ {x}] + g[x]
    <3>1. PICK y \in s : y = (CHOOSE z \in s : TRUE) /\ jt[s] = jt[s \ {y}] + g[y]
      BY <2>4, <2>6, SumsStep
    <3>2. QED
      BY <2>5, <3>1
  <2>8. s \ {x} \notin Bad /\ s \ {x} \in SUBSET S
    BY <2>3
  <2>9. it[s \ {x}] = jt[s \ {x}]
    BY <2>8
  <2>10. QED
    BY <2>3, <2>5, <2>7, <2>9
<1>2. QED
  BY <1>1

\* A sum of numbers is a number.
LEMMA SumsType ==
  ASSUME NEW S, IsFiniteSet(S), NEW f \in [S -> Nat], NEW it, Sums(it, S, f)
  PROVE  it[{}] = 0 /\ \A s \in SUBSET S : it[s] \in Nat
<1> DEFINE Bad == {s \in SUBSET S : it[s] \notin Nat}
<1>1. Bad = {}
  <2>1. SUFFICES ASSUME Bad # {} PROVE FALSE
    OBVIOUS
  <2>2. Bad \in SUBSET (SUBSET S)
    OBVIOUS
  <2>3. PICK s \in Bad : \A u \in Bad : u \subseteq s => u = s
    <3> HIDE DEF Bad
    <3>1. QED
      BY <2>1, <2>2, SmallestSubset
  <2>4. s # {}
    BY <2>3 DEF Sums
  <2>5. PICK x \in s : it[s] = it[s \ {x}] + f[x]
    BY <2>3, <2>4, SumsStep
  <2>6. it[s \ {x}] \in Nat /\ f[x] \in Nat
    BY <2>3
  <2>7. QED
    BY <2>3, <2>5, <2>6
<1>2. it[{}] = 0
  BY DEF Sums
<1>3. QED
  BY <1>1, <1>2

\* Any member may be added last.
LEMMA SumsAny ==
  ASSUME NEW S, IsFiniteSet(S), NEW f \in [S -> Nat], NEW it, Sums(it, S, f),
         NEW s \in SUBSET S, NEW x \in s
  PROVE  it[s] = it[s \ {x}] + f[x]
<1> DEFINE Bad == {t \in SUBSET S : \E y \in t : it[t] # it[t \ {y}] + f[y]}
<1>1. Bad = {}
  <2>1. SUFFICES ASSUME Bad # {} PROVE FALSE
    OBVIOUS
  <2>2. Bad \in SUBSET (SUBSET S)
    OBVIOUS
  <2>3. PICK t \in Bad : \A u \in Bad : u \subseteq t => u = t
    <3> HIDE DEF Bad
    <3>1. QED
      BY <2>1, <2>2, SmallestSubset
  <2>4. PICK y \in t : it[t] # it[t \ {y}] + f[y]
    BY <2>3
  <2>5. PICK c \in t : it[t] = it[t \ {c}] + f[c]
    BY <2>3, <2>4, SumsStep
  <2>6. c # y
    BY <2>4, <2>5
  <2>7. t \ {c} \in SUBSET S /\ t \ {c} \notin Bad /\ t \ {y} \in SUBSET S /\ t \ {y} \notin Bad
    BY <2>3, <2>4, <2>5
  <2>8. it[t \ {c}] = it[(t \ {c}) \ {y}] + f[y] /\ it[t \ {y}] = it[(t \ {y}) \ {c}] + f[c]
    BY <2>4, <2>5, <2>6, <2>7
  <2>9. (t \ {c}) \ {y} = (t \ {y}) \ {c}
    OBVIOUS
  <2>10. it[(t \ {c}) \ {y}] \in Nat /\ f[y] \in Nat /\ f[c] \in Nat
    BY <2>3, <2>4, <2>5, <2>7, SumsType
  <2>11. PICK rest, p, q : rest = it[(t \ {c}) \ {y}] /\ p = f[y] /\ q = f[c]
    OBVIOUS
  <2>12. it[t] = (rest + p) + q /\ it[t \ {y}] = rest + q
    BY <2>5, <2>8, <2>9, <2>11
  <2>13. rest \in Nat /\ p \in Nat /\ q \in Nat
    BY <2>10, <2>11
  <2>14. it[t] # it[t \ {y}] + p
    BY <2>4, <2>11
  <2>15. QED
    BY <2>12, <2>13, <2>14
<1>2. QED
  BY <1>1

\* One more member adds its value.
LEMMA SumsAdd ==
  ASSUME NEW S, IsFiniteSet(S), NEW x, x \notin S, NEW T, T = S \cup {x}, NEW f \in [S -> Nat],
         NEW g \in [T -> Nat], \A y \in S : f[y] = g[y],
         NEW it, Sums(it, S, f), NEW jt, Sums(jt, T, g)
  PROVE  jt[T] = it[S] + g[x]
<1>1. IsFiniteSet(T) /\ x \in T
  BY FS_AddElement
<1>2. jt[T] = jt[T \ {x}] + g[x]
  BY <1>1, SumsAny
<1>3. T \ {x} = S /\ S \subseteq T
  OBVIOUS
<1>4. \A s \in SUBSET S : it[s] = jt[s]
  BY <1>3, SumsOnce
<1>5. S \in SUBSET S
  OBVIOUS
<1>6. QED
  BY <1>2, <1>3, <1>4, <1>5

-----------------------------------------------------------------------------
(* What calls cost.                                                        *)

SpentOf(rs) == C!FoldSet(LAMBDA r, s : s + C!OrZero(r.tokens), 0, {r \in rs : r.tokens # None})
KnownOf(st, rs) == {i \in DOMAIN st : \E r \in rs : r.of = i /\ r.tokens # None}
BilledOf(st, known) == C!FoldSet(LAMBDA i, s : s + st[i].billed, 0, known)

\* The fold over the rows is a sum.
LEMMA SpentIs ==
  ASSUME NEW rs, NEW S, S = {r \in rs : r.tokens # None}, IsFiniteSet(S),
         NEW f \in [S -> Nat], \A r \in S : f[r] = C!OrZero(r.tokens), NEW it, Sums(it, S, f)
  PROVE  SpentOf(rs) = it[S]
<1> DEFINE Adds(jt) == jt = [s \in SUBSET S |-> IF s = {} THEN 0
                               ELSE LET x == CHOOSE x \in s : TRUE
                                    IN  jt[s \ {x}] + C!OrZero(x.tokens)]
           It == CHOOSE jt : Adds(jt)
<1>1. SpentOf(rs) = It[S]
  BY DEF SpentOf, C!FoldSet, C!MapThenFoldSet
<1>2. \A jt : Adds(jt) <=> Sums(jt, S, f)
  <2>1. ASSUME NEW jt
        PROVE  [s \in SUBSET S |-> IF s = {} THEN 0
                                   ELSE LET x == CHOOSE x \in s : TRUE
                                        IN  jt[s \ {x}] + C!OrZero(x.tokens)]
               = [s \in SUBSET S |-> IF s = {} THEN 0
                                     ELSE LET x == CHOOSE x \in s : TRUE IN jt[s \ {x}] + f[x]]
    <3>1. ASSUME NEW s \in SUBSET S, s # {}
          PROVE  C!OrZero((CHOOSE x \in s : TRUE).tokens) = f[CHOOSE x \in s : TRUE]
      <4>1. (CHOOSE x \in s : TRUE) \in S
        BY <3>1
      <4>2. QED
        BY <4>1
    <3>2. QED
      BY <3>1
  <2>2. QED
    BY <2>1 DEF Sums
<1>3. Sums(It, S, f)
  <2> HIDE DEF Adds
  <2>1. QED
    BY <1>2
<1>4. It[S] = it[S]
  <2> HIDE DEF It
  <2>1. S \in SUBSET S
    OBVIOUS
  <2>2. QED
    BY <1>3, <2>1, SumsOnce
<1>5. QED
  BY <1>1, <1>4

\* The fold over the attempts is a sum.
LEMMA BilledIs ==
  ASSUME NEW st, NEW S, IsFiniteSet(S), NEW f \in [S -> Nat],
         \A i \in S : f[i] = st[i].billed, NEW it, Sums(it, S, f)
  PROVE  BilledOf(st, S) = it[S]
<1> DEFINE Adds(jt) == jt = [s \in SUBSET S |-> IF s = {} THEN 0
                               ELSE LET x == CHOOSE x \in s : TRUE
                                    IN  jt[s \ {x}] + st[x].billed]
           It == CHOOSE jt : Adds(jt)
<1>1. BilledOf(st, S) = It[S]
  BY DEF BilledOf, C!FoldSet, C!MapThenFoldSet
<1>2. \A jt : Adds(jt) <=> Sums(jt, S, f)
  <2>1. ASSUME NEW jt
        PROVE  [s \in SUBSET S |-> IF s = {} THEN 0
                                   ELSE LET x == CHOOSE x \in s : TRUE
                                        IN  jt[s \ {x}] + st[x].billed]
               = [s \in SUBSET S |-> IF s = {} THEN 0
                                     ELSE LET x == CHOOSE x \in s : TRUE IN jt[s \ {x}] + f[x]]
    <3>1. ASSUME NEW s \in SUBSET S, s # {}
          PROVE  st[CHOOSE x \in s : TRUE].billed = f[CHOOSE x \in s : TRUE]
      <4>1. (CHOOSE x \in s : TRUE) \in S
        BY <3>1
      <4>2. QED
        BY <4>1
    <3>2. QED
      BY <3>1
  <2>2. ASSUME NEW jt PROVE Adds(jt) <=> Sums(jt, S, f)
    <3>1. Sums(jt, S, f) <=>
            jt = [s \in SUBSET S |-> IF s = {} THEN 0
                                     ELSE LET x == CHOOSE x \in s : TRUE IN jt[s \ {x}] + f[x]]
      BY DEF Sums
    <3>2. QED
      BY <2>1, <3>1, Zenon
  <2>3. QED
    BY <2>2
<1>3. Sums(It, S, f)
  <2> HIDE DEF Adds
  <2>1. QED
    BY <1>2
<1>4. It[S] = it[S]
  <2> HIDE DEF It
  <2>1. S \in SUBSET S
    OBVIOUS
  <2>2. QED
    BY <1>3, <2>1, SumsOnce
<1>5. QED
  BY <1>1, <1>4

\* The absent value is not a count of tokens.
LEMMA NoneIsNoNumber == None \notin Nat
  BY NoneAssumption

\* One more row adds what it knows of.
LEMMA SpentMore ==
  ASSUME NEW rs \in SUBSET C!Records, IsFiniteSet(rs)
  PROVE  /\ SpentOf(rs) \in Nat
         /\ rs = {} => SpentOf(rs) = 0
         /\ \A row \in C!Records : row \notin rs =>
                SpentOf(rs \cup {row}) = SpentOf(rs) + C!OrZero(row.tokens)
<1> DEFINE S == {r \in rs : r.tokens # None}
           f == [r \in S |-> C!OrZero(r.tokens)]
<1>1. \A r \in C!Records : r.tokens # None => r.tokens \in Nat /\ C!OrZero(r.tokens) \in Nat
  BY DEF C!Records, C!OrZero
<1>2. IsFiniteSet(S) /\ f \in [S -> Nat]
  BY <1>1, FS_Subset
<1>3. PICK it : Sums(it, S, f)
  <2> HIDE DEF S, f
  <2>1. QED
    BY <1>2, SumsExist
<1>4. SpentOf(rs) = it[S] /\ it[{}] = 0 /\ it[S] \in Nat
  <2>1. \A r \in S : f[r] = C!OrZero(r.tokens)
    OBVIOUS
  <2>2. S = {r \in rs : r.tokens # None}
    OBVIOUS
  <2> HIDE DEF S, f
  <2>3. QED
    BY <1>2, <1>3, <2>1, <2>2, SpentIs, SumsType
<1>5. ASSUME NEW row \in C!Records, row \notin rs
      PROVE  SpentOf(rs \cup {row}) = SpentOf(rs) + C!OrZero(row.tokens)
  <2>1. CASE row.tokens = None
    <3>1. {r \in rs \cup {row} : r.tokens # None} = S
      BY <2>1
    <3>2. SpentOf(rs \cup {row}) = SpentOf(rs)
      BY <3>1 DEF SpentOf
    <3>3. QED
      BY <1>4, <2>1, <3>2 DEF C!OrZero
  <2>2. CASE row.tokens # None
    <3> DEFINE T == S \cup {row}
               g == [r \in T |-> C!OrZero(r.tokens)]
    <3>1. T = {r \in rs \cup {row} : r.tokens # None} /\ row \notin S
      BY <1>5, <2>2
    <3>2. IsFiniteSet(T) /\ g \in [T -> Nat] /\ \A r \in S : f[r] = g[r]
      BY <1>1, <1>2, <1>5, <2>2, FS_AddElement
    <3>3. (\A r \in T : g[r] = C!OrZero(r.tokens)) /\ g[row] = C!OrZero(row.tokens) /\ T = S \cup {row}
      OBVIOUS
    <3> HIDE DEF S, f, T, g
    <3>4. PICK jt : Sums(jt, T, g)
      BY <3>2, SumsExist
    <3>5. SpentOf(rs \cup {row}) = jt[T]
      BY <3>1, <3>2, <3>3, <3>4, SpentIs
    <3>6. jt[T] = it[S] + g[row]
      BY <1>2, <1>3, <3>1, <3>2, <3>3, <3>4, SumsAdd
    <3>7. QED
      BY <1>4, <3>3, <3>5, <3>6
  <2>3. QED
    BY <2>1, <2>2
<1>6. rs = {} => S = {}
  OBVIOUS
<1>7. QED
  <2> HIDE DEF S, f
  <2>1. QED
    BY <1>4, <1>5, <1>6

\* One more known attempt adds what it was billed.
LEMMA BilledMore ==
  ASSUME NEW st, NEW K, IsFiniteSet(K), \A i \in K : st[i].billed \in Nat
  PROVE  /\ BilledOf(st, K) \in Nat
         /\ K = {} => BilledOf(st, K) = 0
         /\ \A ut : (\A i \in K : ut[i] = st[i]) => BilledOf(ut, K) = BilledOf(st, K)
         /\ \A k : k \notin K /\ st[k].billed \in Nat =>
                BilledOf(st, K \cup {k}) = BilledOf(st, K) + st[k].billed
<1> DEFINE f == [i \in K |-> st[i].billed]
<1>1. f \in [K -> Nat] /\ \A i \in K : f[i] = st[i].billed
  OBVIOUS
<1> HIDE DEF f
<1>2. PICK it : Sums(it, K, f)
  BY <1>1, SumsExist
<1>3. BilledOf(st, K) = it[K] /\ it[{}] = 0 /\ it[K] \in Nat
  BY <1>1, <1>2, BilledIs, SumsType
<1>4. ASSUME NEW ut, \A i \in K : ut[i] = st[i] PROVE BilledOf(ut, K) = BilledOf(st, K)
  <2>1. \A i \in K : f[i] = ut[i].billed
    BY <1>1, <1>4
  <2>2. BilledOf(ut, K) = it[K]
    BY <1>1, <1>2, <2>1, BilledIs
  <2>3. QED
    BY <1>3, <2>2
<1>5. ASSUME NEW k, k \notin K, st[k].billed \in Nat
      PROVE  BilledOf(st, K \cup {k}) = BilledOf(st, K) + st[k].billed
  <2> DEFINE T == K \cup {k}
             g == [i \in T |-> st[i].billed]
  <2>1. /\ g \in [T -> Nat] /\ g[k] = st[k].billed /\ T = K \cup {k}
        /\ \A i \in T : g[i] = st[i].billed
    BY <1>5
  <2> HIDE DEF T, g
  <2>2. IsFiniteSet(T) /\ \A i \in K : f[i] = g[i]
    BY <1>1, <2>1, FS_AddElement
  <2>3. PICK jt : Sums(jt, T, g)
    BY <2>1, <2>2, SumsExist
  <2>4. BilledOf(st, T) = jt[T]
    BY <2>1, <2>2, <2>3, BilledIs
  <2>5. jt[T] = it[K] + g[k]
    BY <1>1, <1>2, <1>5, <2>1, <2>2, <2>3, SumsAdd
  <2>6. QED
    BY <1>3, <2>1, <2>4, <2>5
<1>6. QED
  BY <1>3, <1>4, <1>5

\* A finite set of numbers has a greatest one.
LEMMA GreatestOf ==
  ASSUME NEW S, IsFiniteSet(S)
  PROVE  S \subseteq Nat /\ S # {} => C!Max(S) \in S /\ \A n \in S : n <= C!Max(S)
<1> DEFINE Bad == {s \in SUBSET S : s # {} /\ ~\E m \in s : \A n \in s : m >= n}
<1>1. SUFFICES ASSUME S \subseteq Nat /\ S # {}
               PROVE  C!Max(S) \in S /\ \A n \in S : n <= C!Max(S)
  OBVIOUS
<1>2. Bad = {}
  <2>1. SUFFICES ASSUME Bad # {} PROVE FALSE
    OBVIOUS
  <2>2. Bad \in SUBSET (SUBSET S)
    OBVIOUS
  <2>3. PICK s \in Bad : \A u \in Bad : u \subseteq s => u = s
    <3> HIDE DEF Bad
    <3>1. QED
      BY <2>1, <2>2, SmallestSubset
  <2>4. PICK x \in s : TRUE
    BY <2>3
  <2>5. s \ {x} \notin Bad /\ s \ {x} \in SUBSET S
    BY <2>3
  <2>6. s \ {x} # {} => \E m \in s \ {x} : \A n \in s \ {x} : m >= n
    BY <2>5
  <2>7. x \in Nat /\ \A n \in s : n \in Nat
    BY <1>1, <2>3
  <2>8. CASE s \ {x} = {}
    BY <2>3, <2>7, <2>8
  <2>9. CASE s \ {x} # {}
    <3>1. PICK m \in s \ {x} : \A n \in s \ {x} : m >= n
      BY <2>6, <2>9
    <3>2. CASE m >= x
      BY <2>3, <3>1, <3>2
    <3>3. CASE x >= m
      <4>1. \A n \in s : x >= n
        BY <2>7, <3>1, <3>3
      <4>2. QED
        BY <2>3, <2>4, <4>1
    <3>4. QED
      BY <2>7, <3>2, <3>3
  <2>10. QED
    BY <2>8, <2>9
<1>3. \E m \in S : \A n \in S : m >= n
  <2>1. S \notin Bad /\ S \in SUBSET S
    BY <1>2
  <2>2. QED
    BY <1>1, <2>1
<1>4. C!Max(S) \in S /\ \A n \in S : C!Max(S) >= n
  BY <1>3 DEF C!Max
<1>5. QED
  BY <1>1, <1>4

MostPrompt == C!Max({u.prompt : u \in Usages})

\* No prompt is longer than the longest.
LEMMA PromptAtMost == MostPrompt \in Nat /\ MostPrompt > 0 /\ \A u \in Usages : u.prompt <= MostPrompt
<1> DEFINE S == {u.prompt : u \in Usages}
           f == [u \in Usages |-> u.prompt]
<1>1. S \in SUBSET Nat /\ IsFiniteSet(S)
  <2>1. f \in [Usages -> Nat] /\ S = {f[u] : u \in Usages} /\ S \in SUBSET Nat /\ IsFiniteSet(Usages)
    BY CallsAssumption
  <2>2. f \in Surjection(Usages, S)
    BY <2>1 DEF Surjection
  <2>3. QED
    BY <2>1, <2>2, FS_Surjection
<1>2. PICK u \in Usages : u.prompt > 0
  BY CallsAssumption
<1>3. \A v \in Usages : v.prompt \in S
  OBVIOUS
<1>4. MostPrompt = C!Max(S)
  BY DEF MostPrompt
<1> HIDE DEF S
<1>5. C!Max(S) \in S /\ \A n \in S : n <= C!Max(S)
  BY <1>1, <1>2, <1>3, GreatestOf
<1>6. PICK m : m = C!Max(S)
  OBVIOUS
<1>7. m \in S /\ m \in Nat /\ m = MostPrompt /\ \A n \in S : n <= m
  BY <1>1, <1>4, <1>5, <1>6
<1>8. ASSUME NEW v \in Usages PROVE v.prompt \in Nat /\ v.prompt <= MostPrompt
  BY <1>1, <1>3, <1>7
<1>9. MostPrompt > 0
  <2>1. u.prompt \in Nat /\ u.prompt <= MostPrompt /\ MostPrompt \in Nat
    BY <1>2, <1>7, <1>8
  <2>2. QED
    BY <1>2, <2>1
<1>10. QED
  BY <1>7, <1>8, <1>9

\* A usage that adds up is charged what the endpoint billed, in every dialect.
LEMMA ChargedIsBilled ==
  ASSUME NEW p, p.cache \in {"deepseek_split", "openai_details", "none"},
         p.style \in {"chat", "responses"}, NEW u \in Usages, C!AddsUp(p, u)
  PROVE  C!Charged(p, u) = u.prompt
<1>1. u.prompt \in Nat /\ u.hit \in Nat \cup {None} /\ u.miss \in Nat \cup {None}
  BY CallsAssumption
<1>2. C!OrZero(u.hit) \in Nat
  BY <1>1 DEF C!OrZero
<1>3. C!Least(u.prompt, C!OrZero(u.hit)) \in Nat /\ C!Least(u.prompt, C!OrZero(u.hit)) <= u.prompt
  BY <1>1, <1>2 DEF C!Least
<1>4. PICK split : split = C!Split(p, u)
  OBVIOUS
<1>5. split.hit \in Nat /\ split.miss \in Nat
  <2>1. PICK hit : hit = C!Least(u.prompt, C!OrZero(u.hit))
    OBVIOUS
  <2>2. hit \in Nat /\ u.prompt - hit \in Nat
    BY <1>1, <1>3, <2>1
  <2>3. CASE p.cache = "deepseek_split"
    BY <1>1, <1>4, <2>1, <2>2, <2>3 DEF C!Split
  <2>4. CASE p.cache = "openai_details"
    BY <1>1, <1>4, <2>1, <2>2, <2>4 DEF C!Split
  <2>5. CASE p.cache = "none"
    BY <1>1, <1>4, <2>1, <2>2, <2>5 DEF C!Split
  <2>6. QED
    BY <2>3, <2>4, <2>5
<1>6. split.hit + split.miss > 0 => split.hit + split.miss = u.prompt
  BY <1>4 DEF C!AddsUp
<1>7. C!Charged(p, u) = split.hit + (IF split.hit + split.miss > 0 THEN split.miss ELSE u.prompt)
  BY <1>4 DEF C!Charged, C!Uncached
<1>8. QED
  BY <1>1, <1>5, <1>6, <1>7

\* What is in a sequence is what the sequence is of.
LEMMA MemberOf == ASSUME NEW known, NEW list \in Seq(known), NEW i \in DOMAIN list PROVE list[i] \in known
  OBVIOUS

-----------------------------------------------------------------------------
(* The ledger.                                                             *)

\* The attempts, and the rows that know of some of them.
LedgerInv ==
    /\ sent \in Seq([kind : {"classify", "research"}, billed : Nat])
    /\ rows \in SUBSET C!Records /\ IsFiniteSet(rows)
    /\ \A r \in rows : r.of \in 1 .. Len(sent)
    /\ SpentOf(rows) = BilledOf(sent, KnownOf(sent, rows))
    /\ SpentOf(rows) < Cap + MostPrompt

\* The last attempt of the running call has an answer and no row yet.
Ending == call # None /\ call.phase \in {"answered", "unrecorded"}

EndingInv == Ending =>
    /\ sent # <<>> /\ call.usage \in Usages
    /\ call.answer \in C!Billed => sent[Len(sent)].billed = call.usage.prompt
    /\ call.request.kind = "classify" => sent[Len(sent)].kind = "classify" /\ C!AddsUp(C!P, call.usage)
    /\ \A r \in rows : r.of # Len(sent)

CallsInv ==
    /\ LedgerInv /\ EndingInv
    /\ call \in C!Calls \cup {None}
    /\ call # None /\ call.phase # "check" => SpentOf(rows) < Cap
    /\ \A i \in DOMAIN sent : sent[i].kind = "research" =>
          C!HasRow(i) \/ i \in lost \/ (Ending /\ i = Len(sent))

\* A row of the last attempt that knows nothing, or what was billed, keeps the ledger.
LEMMA RowKeepsLedger ==
  ASSUME CallsInv, Ending, NEW tokens,
         tokens = None \/ (call.answer \in C!Billed /\ tokens = call.usage.prompt),
         rows' = rows \cup {C!Row(tokens)}, sent' = sent
  PROVE  LedgerInv'
<1> DEFINE k == Len(sent)
           K == KnownOf(sent, rows)
<1>1. /\ k \in Nat /\ k \in DOMAIN sent /\ DOMAIN sent = 1 .. k /\ sent[k].billed \in Nat
      /\ \A i \in DOMAIN sent : sent[i].billed \in Nat
  <2>1. /\ sent \in Seq([kind : {"classify", "research"}, billed : Nat]) /\ sent # <<>>
    BY DEF CallsInv, LedgerInv, EndingInv
  <2>2. k \in Nat /\ k \in DOMAIN sent /\ DOMAIN sent = 1 .. k
    BY <2>1
  <2>3. ASSUME NEW i \in DOMAIN sent PROVE sent[i].billed \in Nat
    <3>1. sent[i] \in [kind : {"classify", "research"}, billed : Nat]
      BY <2>1, <2>3, MemberOf
    <3>2. QED
      BY <3>1
  <2>4. \A i \in DOMAIN sent : sent[i].billed \in Nat
    BY <2>3
  <2>5. QED
    BY <2>2, <2>4
<1>2. C!Row(tokens) = [of |-> k, tokens |-> tokens]
  BY DEF C!Row
<1>3. tokens # None => tokens = sent[k].billed /\ tokens <= MostPrompt
  BY PromptAtMost DEF CallsInv, EndingInv
<1>4. C!Row(tokens) \in C!Records /\ C!Row(tokens) \notin rows
  BY <1>1, <1>2, <1>3 DEF C!Records, CallsInv, EndingInv
<1>5. SpentOf(rows) \in Nat /\ SpentOf(rows \cup {C!Row(tokens)}) = SpentOf(rows) + C!OrZero(tokens)
  BY <1>2, <1>4, SpentMore DEF CallsInv, LedgerInv
<1>6. SpentOf(rows) < Cap
  BY DEF CallsInv, Ending
<1>7. IsFiniteSet(K) /\ (\A i \in K : sent[i].billed \in Nat) /\ k \notin K
  <2>1. IsFiniteSet(1 .. k)
    BY <1>1, FS_Interval
  <2>2. K \in SUBSET (1 .. k)
    BY <1>1 DEF KnownOf
  <2>3. k \notin K
    BY DEF KnownOf, CallsInv, EndingInv
  <2>4. QED
    BY <1>1, <2>1, <2>2, <2>3, FS_Subset
<1>8. KnownOf(sent, rows \cup {C!Row(tokens)}) = IF tokens = None THEN K ELSE K \cup {k}
  BY <1>1, <1>2 DEF KnownOf
<1>9. BilledOf(sent, K \cup {k}) = BilledOf(sent, K) + sent[k].billed
  <2> HIDE DEF k, K
  <2>1. QED
    BY <1>1, <1>7, BilledMore
<1>10. SpentOf(rows') = BilledOf(sent', KnownOf(sent', rows'))
  <2>1. SpentOf(rows) = BilledOf(sent, K)
    BY DEF CallsInv, LedgerInv
  <2>2. CASE tokens = None
    BY <1>5, <1>8, <2>1, <2>2 DEF C!OrZero
  <2>3. CASE tokens # None
    BY <1>3, <1>5, <1>8, <1>9, <2>1, <2>3 DEF C!OrZero
  <2>4. QED
    BY <2>2, <2>3
<1>11. SpentOf(rows') < Cap + MostPrompt
  <2>1. MostPrompt \in Nat /\ Cap \in Nat
    BY PromptAtMost, CallsAssumption
  <2>2. C!OrZero(tokens) \in Nat /\ C!OrZero(tokens) <= MostPrompt
    BY <1>1, <1>3, <2>1 DEF C!OrZero
  <2>3. QED
    BY <1>5, <1>6, <2>1, <2>2
<1>12. rows' \in SUBSET C!Records /\ IsFiniteSet(rows') /\ \A r \in rows' : r.of \in 1 .. Len(sent')
  BY <1>1, <1>2, <1>4, FS_AddElement DEF CallsInv, LedgerInv
<1>13. QED
  BY <1>10, <1>11, <1>12 DEF CallsInv, LedgerInv

\* The next attempt of a call, at its endpoint or at the fallback.
LEMMA AgainIs ==
  ASSUME call \in C!Calls, NEW limit, NEW phase \in {"check", "send"}
  PROVE  C!Again(limit, phase) # None =>
             C!Again(limit, phase) \in C!Calls /\ C!Again(limit, phase).phase = phase
<1>1. PICK c \in C!Calls : c = call
  OBVIOUS
<1>2. [c EXCEPT !.phase = phase, !.attempt = @ + 1] \in C!Calls
  <2>1. PICK n \in Nat : n = c.attempt + 1
    BY <1>1 DEF C!Calls
  <2>2. [c EXCEPT !.phase = phase, !.attempt = n] \in C!Calls
    BY <1>1 DEF C!Calls
  <2>3. QED
    BY <2>1, <2>2
<1>3. [c EXCEPT !.phase = phase, !.tier = "fallback", !.attempt = 1] \in C!Calls
  BY <1>1 DEF C!Calls, C!Tiers
<1>4. /\ [c EXCEPT !.phase = phase, !.attempt = @ + 1].phase = phase
      /\ [c EXCEPT !.phase = phase, !.tier = "fallback", !.attempt = 1].phase = phase
  BY <1>1 DEF C!Calls
<1>5. QED
  BY <1>1, <1>2, <1>3, <1>4 DEF C!Again

\* Writing the row of the last attempt and going on to the next one, or to none.
LEMMA RowKeeps ==
  ASSUME CallsInv, Ending, NEW tokens,
         tokens = None \/ (call.answer \in C!Billed /\ tokens = call.usage.prompt),
         rows' = rows \cup {C!Row(tokens)}, sent' = sent, lost' = lost,
         call' = None \/ (call' \in C!Calls /\ call'.phase = "check")
  PROVE  CallsInv'
<1>1. LedgerInv'
  BY RowKeepsLedger
<1>2. ~Ending' /\ (call' # None => call'.phase = "check") /\ call' \in C!Calls \cup {None}
  BY DEF Ending
<1>3. \A i \in DOMAIN sent' : sent'[i].kind = "research" =>
          C!HasRow(i)' \/ i \in lost' \/ (Ending' /\ i = Len(sent'))
  <2>1. ASSUME NEW i \in DOMAIN sent, sent[i].kind = "research"
        PROVE  (\E r \in rows' : r.of = i) \/ i \in lost
    <3>1. CASE i = Len(sent)
      <4>1. C!Row(tokens) \in rows' /\ C!Row(tokens).of = i
        BY <3>1 DEF C!Row
      <4>2. QED
        BY <4>1
    <3>2. CASE i # Len(sent)
      <4>1. C!HasRow(i) \/ i \in lost
        BY <2>1, <3>2 DEF CallsInv
      <4>2. QED
        BY <4>1 DEF C!HasRow
    <3>3. QED
      BY <3>1, <3>2
  <2>2. QED
    BY <2>1 DEF C!HasRow
<1>4. QED
  BY <1>1, <1>2, <1>3 DEF CallsInv, EndingInv

\* A step that neither sends nor writes, and leaves no attempt of a role behind.
LEMMA QuietKeeps ==
  ASSUME CallsInv, rows' = rows, sent' = sent, lost \subseteq lost',
         call' \in C!Calls \cup {None}, ~Ending',
         call' # None /\ call'.phase # "check" => SpentOf(rows) < Cap,
         Ending => call.request.kind = "classify" \/ Len(sent) \in lost'
  PROVE  CallsInv'
<1>1. LedgerInv'
  BY DEF CallsInv, LedgerInv
<1>2. ASSUME NEW i \in DOMAIN sent, sent[i].kind = "research"
      PROVE  C!HasRow(i) \/ i \in lost'
  BY <1>2 DEF CallsInv, EndingInv
<1>3. QED
  BY <1>1, <1>2 DEF CallsInv, EndingInv, C!HasRow

\* What the budget asks for is the sum over the rows.
LEMMA SpentIsSpent == C!Spent = SpentOf(rows)
  BY DEF C!Spent, SpentOf

\* A call that begins keeps the ledger.
LEMMA BeginKeeps == ASSUME CallsInv, NEW r \in Requests, C!Begin(r) PROVE CallsInv'
<1>1. /\ call = None /\ rows' = rows /\ sent' = sent /\ lost' = lost
      /\ call' = [request |-> r, tier |-> "primary", attempt |-> 1, phase |-> "check",
                  answer |-> None, usage |-> None]
  BY DEF C!Begin
<1>2. call' \in C!Calls /\ call'.phase = "check"
  BY <1>1 DEF C!Calls, C!Tiers
<1>3. ~Ending' /\ ~Ending
  BY <1>1, <1>2 DEF Ending
<1>4. QED
  BY <1>1, <1>2, <1>3, QuietKeeps

\* The budget check keeps the ledger, and lets only a call below the cap go on.
LEMMA CheckKeeps == ASSUME CallsInv, C!Check PROVE CallsInv'
<1>1. PICK c \in C!Calls : c = call /\ c.phase = "check"
  BY DEF CallsInv, C!Check
<1>2. /\ rows' = rows /\ sent' = sent /\ lost' = lost /\ ~Ending
      /\ (call' = None) \/ (call' = [c EXCEPT !.phase = "send"] /\ SpentOf(rows) < Cap)
  BY <1>1, SpentIsSpent DEF C!Check, Ending
<1>3. [c EXCEPT !.phase = "send"] \in C!Calls /\ [c EXCEPT !.phase = "send"].phase = "send"
  BY <1>1 DEF C!Calls
<1>4. call' \in C!Calls \cup {None} /\ ~Ending' /\ (call' # None => SpentOf(rows) < Cap)
  BY <1>2, <1>3 DEF Ending
<1>5. QED
  BY <1>2, <1>4, QuietKeeps

\* An attempt keeps the ledger: no row knows of it yet.
LEMMA SendKeeps == ASSUME CallsInv, C!Send PROVE CallsInv'
<1> DEFINE k == Len(sent)
           K == KnownOf(sent, rows)
<1>1. PICK c \in C!Calls : c = call /\ c.phase = "send"
  BY DEF CallsInv, C!Send
<1>2. PICK a \in C!Answers, u \in Usages, paid \in BOOLEAN :
        /\ c.request.kind = "classify" => C!AddsUp(C!P, u)
        /\ a \in C!Billed => paid
        /\ call' = [c EXCEPT !.phase = "answered", !.answer = a, !.usage = u]
        /\ sent' = Append(sent, [kind |-> c.request.kind, billed |-> IF paid THEN u.prompt ELSE 0])
  BY <1>1 DEF C!Send
<1>3. rows' = rows /\ lost' = lost
  BY DEF C!Send
<1>4. PICK e : e = [kind |-> c.request.kind, billed |-> IF paid THEN u.prompt ELSE 0]
  OBVIOUS
<1>5. e \in [kind : {"classify", "research"}, billed : Nat]
  <2>1. c.request.kind \in {"classify", "research"} /\ u.prompt \in Nat
    BY <1>1, CallsAssumption DEF C!Calls
  <2>2. QED
    BY <1>4, <2>1
<1>6. sent \in Seq([kind : {"classify", "research"}, billed : Nat])
  BY DEF CallsInv, LedgerInv
<1>7. /\ sent' = Append(sent, e) /\ k \in Nat /\ Len(sent') = k + 1 /\ DOMAIN sent = 1 .. k
      /\ DOMAIN sent' = 1 .. k + 1 /\ sent'[k + 1] = e
      /\ \A i \in 1 .. k : sent'[i] = sent[i]
  BY <1>2, <1>4, <1>6
<1>8. sent' \in Seq([kind : {"classify", "research"}, billed : Nat])
  BY <1>5, <1>6, <1>7
<1>9. \A r \in rows : r.of \in 1 .. k
  BY DEF CallsInv, LedgerInv
<1>10. KnownOf(sent', rows') = K
  BY <1>3, <1>7, <1>9 DEF KnownOf
<1>11. BilledOf(sent', K) = BilledOf(sent, K)
  <2>1. K \in SUBSET (1 .. k) /\ IsFiniteSet(1 .. k)
    BY <1>7, FS_Interval DEF KnownOf
  <2>2. IsFiniteSet(K)
    BY <2>1, FS_Subset
  <2>3. ASSUME NEW i \in K PROVE sent[i].billed \in Nat /\ sent'[i] = sent[i]
    <3>1. i \in DOMAIN sent
      BY <1>7, <2>1
    <3>2. sent[i] \in [kind : {"classify", "research"}, billed : Nat]
      BY <1>6, <3>1, MemberOf
    <3>3. QED
      BY <1>7, <3>1, <3>2
  <2> HIDE DEF K, k
  <2>4. QED
    BY <2>2, <2>3, BilledMore
<1>12. LedgerInv'
  <2>1. SpentOf(rows') = BilledOf(sent', KnownOf(sent', rows'))
    BY <1>3, <1>10, <1>11 DEF CallsInv, LedgerInv
  <2>2. \A r \in rows' : r.of \in 1 .. Len(sent')
    BY <1>3, <1>7, <1>9
  <2>3. QED
    BY <1>3, <1>8, <2>1, <2>2 DEF CallsInv, LedgerInv
<1>13. /\ call' \in C!Calls /\ call' # None /\ call'.phase = "answered" /\ call'.usage = u
       /\ call'.answer = a /\ call'.request = c.request /\ call'.tier = c.tier
  <2>1. a \in {"good", "invalid", "unusable", "capacity", "garbled", "limited", "down",
               "refused", "transport"}
    BY DEF C!Answers, C!Billed, C!Read, C!Unbilled
  <2>2. call' \in C!Calls
    BY <1>1, <1>2, <2>1 DEF C!Calls
  <2>3. None \notin C!Calls
    BY CallsAssumption
  <2>4. QED
    BY <1>1, <1>2, <2>2, <2>3 DEF C!Calls
<1>14. EndingInv'
  <2>1. /\ sent' # <<>> /\ call'.usage \in Usages
        /\ \A r \in rows' : r.of # Len(sent')
    BY <1>3, <1>7, <1>9, <1>13
  <2>2. call'.answer \in C!Billed => sent'[Len(sent')].billed = call'.usage.prompt
    BY <1>2, <1>4, <1>7, <1>13
  <2>3. call'.request.kind = "classify" => sent'[Len(sent')].kind = "classify"
    BY <1>4, <1>7, <1>13
  <2>4. call'.request.kind = "classify" => C!AddsUp(C!P', call'.usage)
    BY <1>1, <1>2, <1>13 DEF C!P
  <2>5. QED
    BY <2>1, <2>2, <2>3, <2>4 DEF EndingInv
<1>15. SpentOf(rows') < Cap
  <2>1. call # None
    BY DEF C!Send
  <2>2. QED
    BY <1>1, <1>3, <2>1 DEF CallsInv
<1>16. \A i \in DOMAIN sent' : sent'[i].kind = "research" =>
          C!HasRow(i)' \/ i \in lost' \/ (Ending' /\ i = Len(sent'))
  <2>1. Ending' /\ ~Ending
    BY <1>1, <1>13 DEF Ending
  <2>2. ASSUME NEW i \in DOMAIN sent', sent'[i].kind = "research", i # Len(sent')
        PROVE  C!HasRow(i) \/ i \in lost
    <3>1. i \in DOMAIN sent /\ sent[i].kind = "research"
      BY <1>7, <2>2
    <3>2. QED
      BY <2>1, <3>1 DEF CallsInv
  <2>3. QED
    BY <1>3, <2>1, <2>2 DEF C!HasRow
<1>17. QED
  BY <1>12, <1>13, <1>14, <1>15, <1>16 DEF CallsInv

\* An endpoint speaks one of the known dialects.
LEMMA DialectIs ==
  ASSUME call \in C!Calls
  PROVE  /\ C!P.cache \in {"deepseek_split", "openai_details", "none"}
         /\ C!P.style \in {"chat", "responses"}
<1>1. PICK tier \in C!Tiers : tier = call.tier
  BY DEF C!Calls
<1>2. Profile[tier] \in [cache : {"deepseek_split", "openai_details", "none"},
                         style : {"chat", "responses"}, structured : STRING,
                         keyword : BOOLEAN, capacity : BOOLEAN]
  BY CallsAssumption
<1>3. C!P = Profile[tier]
  BY <1>1 DEF C!P
<1>4. QED
  BY <1>2, <1>3

\* What a classification leaves: nothing, a row without a usage, or what it was charged.
LEMMA ClassifyKeeps ==
  ASSUME CallsInv,
         C!ClassifyUnserved \/ C!ClassifyFailed \/ C!ClassifyGood \/ C!ClassifyCancelled
  PROVE  CallsInv'
<1>1. PICK c \in C!Calls : c = call /\ c.phase = "answered" /\ c.request.kind = "classify"
  BY DEF CallsInv, C!ClassifyUnserved, C!ClassifyFailed, C!ClassifyGood, C!ClassifyCancelled,
         C!Answered
<1>2. Ending /\ sent' = sent /\ lost' = lost
  BY <1>1, CallsAssumption DEF Ending, C!ClassifyUnserved, C!ClassifyFailed, C!ClassifyGood,
         C!ClassifyCancelled
<1>3. CASE C!ClassifyUnserved
  <2>1. call' = C!Again(Attempts, "send")
    BY <1>3 DEF C!ClassifyUnserved
  <2>2. CASE call' = None
    <3>1. rows' = rows \cup {C!Row(None)}
      BY <1>3, <2>2 DEF C!ClassifyUnserved, C!Write
    <3>2. QED
      BY <1>2, <2>2, <3>1, RowKeeps
  <2>3. CASE call' # None
    <3>1. rows' = rows
      BY <1>3, <2>3 DEF C!ClassifyUnserved
    <3>2. call' \in C!Calls /\ call'.phase = "send"
      BY <1>1, <2>1, <2>3, AgainIs
    <3>3. ~Ending' /\ SpentOf(rows) < Cap
      BY <1>1, <1>2, <3>2 DEF Ending, CallsInv
    <3>4. QED
      BY <1>1, <1>2, <3>1, <3>2, <3>3, QuietKeeps
  <2>4. QED
    BY <2>2, <2>3
<1>4. CASE C!ClassifyFailed
  <2>1. call' = None /\ rows' = rows \cup {C!Row(None)}
    BY <1>4 DEF C!ClassifyFailed, C!Done, C!Write
  <2>2. QED
    BY <1>2, <2>1, RowKeeps
<1>5. CASE C!ClassifyGood
  <2>1. call' = None /\ rows' = rows \cup {C!Row(C!Charged(C!P, call.usage))} /\ call.answer = "good"
    BY <1>5 DEF C!ClassifyGood, C!Done, C!Write
  <2>2. call.usage \in Usages /\ C!AddsUp(C!P, call.usage)
    BY <1>1, <1>2 DEF CallsInv, EndingInv
  <2>3. C!Charged(C!P, call.usage) = call.usage.prompt
    BY <1>1, <2>2, DialectIs, ChargedIsBilled
  <2>4. call.answer \in C!Billed
    BY <2>1 DEF C!Billed, C!Read
  <2>5. QED
    BY <1>2, <2>1, <2>3, <2>4, RowKeeps
<1>6. CASE C!ClassifyCancelled
  <2>1. call' = None /\ rows' = rows
    BY <1>6 DEF C!ClassifyCancelled, C!Done
  <2>2. ~Ending'
    BY <2>1 DEF Ending
  <2>3. QED
    BY <1>1, <1>2, <2>1, <2>2, QuietKeeps
<1>7. QED
  BY <1>3, <1>4, <1>5, <1>6

\* What an attempt of a role leaves: a row with what was understood of its cost, or a lost one.
LEMMA RoleKeeps ==
  ASSUME CallsInv, C!RoleAnswered \/ C!RoleFailed \/ C!RoleLost \/ C!RoleCancelled
  PROVE  CallsInv'
<1>1. PICK c \in C!Calls : c = call /\ c.phase \in {"answered", "unrecorded"}
  BY DEF CallsInv, C!RoleAnswered, C!RoleFailed, C!RoleLost, C!RoleCancelled, C!Answered, C!Failing
<1>2. Ending /\ sent' = sent
  BY <1>1, CallsAssumption DEF Ending, C!RoleAnswered, C!RoleFailed, C!RoleLost, C!RoleCancelled
<1>3. C!Cost = None \/ (call.answer \in C!Billed /\ C!Cost = call.usage.prompt)
  <2>1. SUFFICES ASSUME C!Understood PROVE call.answer \in C!Billed /\ C!Cost = call.usage.prompt
    BY DEF C!Cost
  <2>2. call.answer \in C!Billed /\ C!AddsUp(C!P, call.usage)
    BY <2>1 DEF C!Understood, C!Billed
  <2>3. call.usage \in Usages
    BY <1>2 DEF CallsInv, EndingInv
  <2>4. C!Charged(C!P, call.usage) = call.usage.prompt
    BY <1>1, <2>2, <2>3, DialectIs, ChargedIsBilled
  <2>5. QED
    BY <2>1, <2>2, <2>4 DEF C!Cost
<1>4. CASE C!RoleAnswered
  <2>1. call' = None /\ rows' = rows \cup {C!Row(C!Cost)} /\ lost' = lost
    BY <1>4 DEF C!RoleAnswered, C!Done, C!Write
  <2>2. QED
    BY <1>2, <1>3, <2>1, RowKeeps
<1>5. CASE C!RoleFailed
  <2>1. rows' = rows \cup {C!Row(C!Cost)} /\ lost' = lost
    BY <1>5 DEF C!RoleFailed, C!Write
  <2>2. call' = None \/ (\E limit : call' = C!Again(limit, "check"))
    BY <1>5 DEF C!RoleFailed
  <2>3. call' = None \/ (call' \in C!Calls /\ call'.phase = "check")
    BY <1>1, <2>2, AgainIs
  <2>4. QED
    BY <1>2, <1>3, <2>1, <2>3, RowKeeps
<1>6. CASE C!RoleLost
  <2>1. call' = None /\ rows' = rows /\ lost' = lost \cup {Len(sent)}
    BY <1>6 DEF C!RoleLost, C!Done
  <2>2. ~Ending' /\ lost \subseteq lost' /\ Len(sent) \in lost'
    BY <2>1 DEF Ending
  <2>3. QED
    BY <1>2, <2>1, <2>2, QuietKeeps
<1>7. CASE C!RoleCancelled
  <2>1. call' = None /\ rows' = rows \cup {C!Row(None)} /\ lost' = lost
    BY <1>7 DEF C!RoleCancelled, C!Done, C!Write
  <2>2. QED
    BY <1>2, <2>1, RowKeeps
<1>8. QED
  BY <1>4, <1>5, <1>6, <1>7

\* An answer that could not be recorded at first is still the last attempt's.
LEMMA UnrecordedKeeps == ASSUME CallsInv, C!RoleUnrecorded PROVE CallsInv'
<1>1. PICK c \in C!Calls : c = call /\ c.phase = "answered"
  BY DEF CallsInv, C!RoleUnrecorded, C!Answered
<1>2. /\ rows' = rows /\ sent' = sent /\ lost' = lost /\ call # None
      /\ call' = [c EXCEPT !.phase = "unrecorded"]
  BY <1>1 DEF C!RoleUnrecorded, C!Answered
<1>3. /\ call' \in C!Calls /\ call'.phase = "unrecorded" /\ call'.usage = c.usage
      /\ call'.answer = c.answer /\ call'.request = c.request /\ call'.tier = c.tier
  BY <1>1, <1>2 DEF C!Calls
<1>4. call' # None
  BY <1>3, CallsAssumption
<1>5. Ending /\ Ending'
  BY <1>1, <1>2, <1>3, <1>4 DEF Ending
<1>6. LedgerInv'
  BY <1>2 DEF CallsInv, LedgerInv
<1>7. EndingInv'
  BY <1>1, <1>2, <1>3, <1>5 DEF CallsInv, EndingInv, C!P
<1>8. QED
  BY <1>1, <1>2, <1>3, <1>5, <1>6, <1>7 DEF CallsInv, C!HasRow

\* The ledger of model calls: what the rows know of is what the endpoints billed for it, and
\* every attempt of a research role has a row, is lost, or is the one being answered
\* (intelligence/research_transport.py, record_call).
THEOREM CallsInvariant == Explored => []CallsInv
<1>1. Start => CallsInv
  <2>1. SUFFICES ASSUME C!Init PROVE CallsInv
    BY DEF Start
  <2>2. /\ rows \in SUBSET C!Records /\ rows = {} /\ IsFiniteSet(rows)
        /\ sent = <<>> /\ Len(sent) = 0 /\ DOMAIN sent = {} /\ call = None
    BY <2>1, FS_EmptySet DEF C!Init
  <2>3. sent \in Seq([kind : {"classify", "research"}, billed : Nat])
    BY <2>2
  <2>4. SpentOf(rows) = 0
    BY <2>2, SpentMore
  <2>5. KnownOf(sent, rows) = {}
    BY <2>2 DEF KnownOf
  <2>6. BilledOf(sent, {}) = 0
    BY FS_EmptySet, BilledMore
  <2>7. 0 < Cap + MostPrompt
    BY PromptAtMost, CallsAssumption
  <2>8. LedgerInv
    BY <2>2, <2>3, <2>4, <2>5, <2>6, <2>7 DEF LedgerInv
  <2>9. QED
    BY <2>2, <2>8 DEF CallsInv, EndingInv, Ending
<1>2. CallsInv /\ UNCHANGED calling => CallsInv'
  BY DEF calling, CallsInv, LedgerInv, EndingInv, Ending, C!HasRow, C!P
<1>3. CallsInv /\ C!Next => CallsInv'
  BY BeginKeeps, CheckKeeps, SendKeeps, ClassifyKeeps, RoleKeeps, UnrecordedKeeps DEF C!Next
<1>4. CallsInv /\ [Step]_<<part, case, vars, calling, remembering>> => CallsInv'
  BY <1>2, <1>3 DEF Step
<1>5. QED
  BY <1>1, <1>4, PTL DEF Explored

\* CallsAreAccounted: for every dialect, usage, cap and number of attempts, every attempt of
\* a role is a row however it ended, and what the rows know of stops at the cap but for one
\* attempt (research_transport.py complete, check_budget).
THEOREM CallsKept == Explored => []CallsAreAccounted
<1>1. ASSUME CallsInv PROVE C!AttemptsRecorded
  BY <1>1 DEF CallsInv, Ending, C!AttemptsRecorded, C!Over, LedgerInv
<1>2. ASSUME CallsInv PROVE C!SpendStopsAtCap
  <2>1. BilledOf(sent, KnownOf(sent, rows)) < Cap + MostPrompt
    BY <1>2 DEF CallsInv, LedgerInv
  <2>2. QED
    BY <2>1 DEF C!SpendStopsAtCap, BilledOf, KnownOf, MostPrompt
<1>3. CallsInv => CallsAreAccounted
  BY <1>1, <1>2 DEF CallsAreAccounted
<1>4. QED
  BY <1>3, CallsInvariant, PTL

-----------------------------------------------------------------------------
(* Sums of numbers.                                                        *)

\* sum adds up the numbers f over the subsets of S.
Adds(sum, S, f) ==
    /\ sum \in [SUBSET S -> Int] /\ sum[{}] = 0
    /\ \A s \in SUBSET S : \A x \in s : sum[s] = f[x] + sum[s \ {x}]

\* There is such a sum, whatever the order the numbers are taken in.
LEMMA SumExists ==
  ASSUME NEW S, IsFiniteSet(S), NEW f \in [S -> Int]
  PROVE  \E sum : Adds(sum, S, f)
<1> DEFINE Pick(s) == CHOOSE x \in s : TRUE
           op == [p \in Int \X Int |-> p[1] + p[2]]
<1>1. op \in [Int \X Int -> Int]
  OBVIOUS
<1>2. PICK it : FoldsUp(it, S, f, op, 0)
  <2> HIDE DEF op
  <2>1. QED
    BY FoldExists
<1>3. it \in [SUBSET S -> Int]
  <2>1. PICK F, add, base : F = Int /\ add = op /\ base = 0
    OBVIOUS
  <2>2. f \in [S -> F] /\ add \in [F \X F -> F] /\ base \in F /\ FoldsUp(it, S, f, add, base)
    BY <1>1, <1>2, <2>1
  <2>3. it \in [SUBSET S -> F]
    BY <2>2, FoldTyped
  <2>4. QED
    BY <2>1, <2>3
<1>4. \A s \in SUBSET S : s # {} => Pick(s) \in s
  OBVIOUS
<1>5. it[{}] = 0
  BY <1>2 DEF FoldsUp
<1>6. ASSUME NEW s \in SUBSET S, s # {}
      PROVE  it[s] = f[Pick(s)] + it[s \ {Pick(s)}]
  <2>1. it[s] = op[<<f[Pick(s)], it[s \ {Pick(s)}]>>]
    BY <1>2, <1>6 DEF FoldsUp
  <2> HIDE DEF Pick
  <2>2. f[Pick(s)] \in Int /\ it[s \ {Pick(s)}] \in Int
    BY <1>3, <1>4, <1>6
  <2>3. QED
    BY <2>1, <2>2
<1> HIDE DEF Pick
<1> DEFINE Bad == {s \in SUBSET S : \E x \in s : it[s] # f[x] + it[s \ {x}]}
<1>7. Bad = {}
  <2>1. SUFFICES ASSUME Bad # {} PROVE FALSE
    OBVIOUS
  <2>2. Bad \in SUBSET (SUBSET S)
    OBVIOUS
  <2>3. PICK s \in Bad : \A u \in Bad : u \subseteq s => u = s
    <3> HIDE DEF Bad
    <3>1. QED
      BY <2>1, <2>2, SmallestSubset
  <2>4. PICK x \in s : it[s] # f[x] + it[s \ {x}]
    OBVIOUS
  <2>5. PICK p \in s : p = Pick(s)
    BY <1>4, <2>3
  <2>6. it[s] = f[p] + it[s \ {p}]
    BY <1>6, <2>3, <2>5
  <2>7. x # p
    BY <2>4, <2>6
  <2>8. /\ s \ {x} \in SUBSET S /\ s \ {x} \notin Bad /\ p \in s \ {x}
        /\ s \ {p} \in SUBSET S /\ s \ {p} \notin Bad /\ x \in s \ {p}
    BY <2>3, <2>4, <2>5, <2>7
  <2>9. it[s \ {x}] = f[p] + it[(s \ {x}) \ {p}] /\ it[s \ {p}] = f[x] + it[(s \ {p}) \ {x}]
    BY <2>8
  <2>10. PICK r \in SUBSET S : r = (s \ {x}) \ {p} /\ r = (s \ {p}) \ {x}
    BY <2>8
  <2>11. f[p] \in Int /\ f[x] \in Int /\ it[r] \in Int
    BY <1>3, <2>4, <2>5, <2>8
  <2>12. it[s] = f[p] + (f[x] + it[r]) /\ it[s \ {x}] = f[p] + it[r]
    BY <2>6, <2>9, <2>10
  <2>13. QED
    BY <2>4, <2>11, <2>12
<1>8. \A s \in SUBSET S : \A x \in s : it[s] = f[x] + it[s \ {x}]
  BY <1>7
<1>9. Adds(it, S, f)
  BY <1>3, <1>5, <1>8 DEF Adds
<1>10. QED
  BY <1>9

\* More in each place is more in sum, and strictly more if one is.
LEMMA SumMonotone ==
  ASSUME NEW S, IsFiniteSet(S), NEW f \in [S -> Int], NEW g \in [S -> Int],
         NEW sum, NEW total, Adds(sum, S, f), Adds(total, S, g),
         NEW T \in SUBSET S, \A x \in T : f[x] <= g[x]
  PROVE  sum[T] <= total[T] /\ ((\E x \in T : f[x] < g[x]) => sum[T] < total[T])
<1> DEFINE Good(s) == sum[s] <= total[s]
           Bad == {s \in SUBSET S : s \subseteq T /\ ~Good(s)}
<1>1. Bad = {}
  <2>1. SUFFICES ASSUME Bad # {} PROVE FALSE
    OBVIOUS
  <2>2. Bad \in SUBSET (SUBSET S)
    OBVIOUS
  <2>3. PICK s \in Bad : \A u \in Bad : u \subseteq s => u = s
    <3> HIDE DEF Bad
    <3>1. QED
      BY <2>1, <2>2, SmallestSubset
  <2>4. sum[{}] <= total[{}]
    <3>1. sum[{}] = 0 /\ total[{}] = 0
      BY DEF Adds
    <3>2. QED
      BY <3>1
  <2>5. PICK x \in s : TRUE
    BY <2>3, <2>4
  <2>6. PICK r \in SUBSET S : r = s \ {x}
    BY <2>3
  <2>7. sum[r] <= total[r]
    BY <2>3, <2>5, <2>6
  <2>8. sum[s] = f[x] + sum[r] /\ total[s] = g[x] + total[r]
    BY <2>3, <2>5, <2>6 DEF Adds
  <2>9. f[x] <= g[x] /\ f[x] \in Int /\ g[x] \in Int
    BY <2>3, <2>5
  <2>10. sum[r] \in Int /\ total[r] \in Int
    BY <2>6 DEF Adds
  <2>11. QED
    BY <2>3, <2>7, <2>8, <2>9, <2>10
<1>2. ASSUME NEW x \in T, f[x] < g[x] PROVE sum[T] < total[T]
  <2>1. PICK r \in SUBSET S : r = T \ {x}
    OBVIOUS
  <2>2. sum[r] <= total[r]
    BY <1>1, <2>1
  <2>3. sum[T] = f[x] + sum[r] /\ total[T] = g[x] + total[r]
    BY <2>1 DEF Adds
  <2>4. sum[r] \in Int /\ total[r] \in Int /\ f[x] \in Int /\ g[x] \in Int
    BY <2>1 DEF Adds
  <2>5. QED
    BY <1>2, <2>2, <2>3, <2>4
<1>3. QED
  BY <1>1, <1>2

\* What is added up alike is the same sum.
LEMMA SumSame ==
  ASSUME NEW S, IsFiniteSet(S), NEW f \in [S -> Int], NEW g \in [S -> Int],
         NEW sum, NEW total, Adds(sum, S, f), Adds(total, S, g),
         NEW T \in SUBSET S, \A x \in T : f[x] = g[x]
  PROVE  sum[T] = total[T]
<1>1. \A x \in T : f[x] <= g[x] /\ g[x] <= f[x]
  OBVIOUS
<1>2. sum[T] <= total[T] /\ total[T] <= sum[T]
  BY <1>1, SumMonotone
<1>3. sum[T] \in Int /\ total[T] \in Int
  BY DEF Adds
<1>4. QED
  BY <1>2, <1>3

\* A sum over a set is the sums over two parts of it.
LEMMA SumSplits ==
  ASSUME NEW S, IsFiniteSet(S), NEW f \in [S -> Int], NEW sum, Adds(sum, S, f),
         NEW T \in SUBSET S, NEW A \in SUBSET T
  PROVE  sum[T] = sum[A] + sum[T \ A]
<1> DEFINE parts == [s \in SUBSET S |-> sum[s \cap A] + sum[s \ A]]
<1>1. ASSUME NEW s \in SUBSET S PROVE sum[s \cap A] \in Int /\ sum[s \ A] \in Int
  BY DEF Adds
<1>8. parts = [s \in SUBSET S |-> parts[s]] /\ \A s \in SUBSET S : parts[s] = sum[s \cap A] + sum[s \ A]
  OBVIOUS
<1> HIDE DEF parts
<1>2. parts \in [SUBSET S -> Int] /\ parts[{}] = 0
  <2>1. PICK e \in SUBSET S : e = {}
    OBVIOUS
  <2>2. e \cap A = e /\ e \ A = e /\ sum[e] = 0
    BY <2>1 DEF Adds
  <2>3. parts[e] = sum[e \cap A] + sum[e \ A]
    BY <1>8
  <2>4. parts[e] = 0
    <3>1. sum[e \cap A] = 0 /\ sum[e \ A] = 0
      BY <2>2
    <3>2. QED
      BY <2>3, <3>1
  <2>5. ASSUME NEW s \in SUBSET S PROVE parts[s] \in Int
    <3>1. PICK u \in Int, v \in Int : parts[s] = u + v
      BY <1>1, <1>8
    <3>2. QED
      BY <3>1
  <2>6. QED
    BY <1>8, <2>1, <2>4, <2>5
<1>3. ASSUME NEW s \in SUBSET S, NEW x \in s PROVE parts[s] = f[x] + parts[s \ {x}]
  <2>1. s \ {x} \in SUBSET S /\ f[x] \in Int
    OBVIOUS
  <2>2. parts[s] = sum[s \cap A] + sum[s \ A]
        /\ parts[s \ {x}] = sum[(s \ {x}) \cap A] + sum[(s \ {x}) \ A]
    BY <1>8, <2>1
  <2>3. CASE x \in A
    <3>1. (s \ {x}) \cap A = (s \cap A) \ {x} /\ (s \ {x}) \ A = s \ A
      BY <2>3
    <3>2. PICK u, v : u = sum[(s \cap A) \ {x}] /\ v = sum[s \ A]
      OBVIOUS
    <3>3. sum[s \cap A] = f[x] + u /\ u \in Int /\ v \in Int
      BY <1>1, <2>3, <3>2 DEF Adds
    <3>4. parts[s] = (f[x] + u) + v /\ parts[s \ {x}] = u + v
      BY <2>2, <3>1, <3>2, <3>3
    <3>5. QED
      BY <2>1, <3>3, <3>4
  <2>4. CASE x \notin A
    <3>1. (s \ {x}) \cap A = s \cap A /\ (s \ {x}) \ A = (s \ A) \ {x}
      BY <2>4
    <3>2. PICK u, v : u = sum[(s \ A) \ {x}] /\ v = sum[s \cap A]
      OBVIOUS
    <3>3. sum[s \ A] = f[x] + u /\ u \in Int /\ v \in Int
      BY <1>1, <2>4, <3>2 DEF Adds
    <3>4. parts[s] = v + (f[x] + u) /\ parts[s \ {x}] = v + u
      BY <2>2, <3>1, <3>2, <3>3
    <3>5. QED
      BY <2>1, <3>3, <3>4
  <2>5. QED
    BY <2>3, <2>4
<1>4. Adds(parts, S, f)
  BY <1>2, <1>3 DEF Adds
<1>5. parts[T] = sum[A] + sum[T \ A]
  <2>1. T \cap A = A
    OBVIOUS
  <2>2. QED
    BY <1>8, <2>1
<1>6. sum[T] = parts[T]
  BY <1>4, SumSame
<1>7. QED
  BY <1>5, <1>6

\* So many times the numbers are so many times the sum.
LEMMA SumScaled ==
  ASSUME NEW S, IsFiniteSet(S), NEW f \in [S -> Int], NEW g \in [S -> Int],
         NEW sum, NEW total, Adds(sum, S, f), Adds(total, S, g), NEW k \in Int,
         NEW T \in SUBSET S, \A x \in T : g[x] = k * f[x]
  PROVE  total[T] = k * sum[T]
<1> DEFINE often == [s \in SUBSET S |-> k * sum[s]]
           many == [x \in S |-> k * f[x]]
<1>1. /\ \A s \in SUBSET S : sum[s] \in Int
      /\ \A x \in S : f[x] \in Int
  BY DEF Adds
<1>2. many \in [S -> Int]
  BY <1>1
<1>3. often \in [SUBSET S -> Int] /\ \A s \in SUBSET S : often[s] = k * sum[s]
  BY <1>1
<1>4. \A x \in S : many[x] = k * f[x]
  OBVIOUS
<1> HIDE DEF often, many
<1>5. often[{}] = 0
  <2>1. PICK e \in SUBSET S : e = {}
    OBVIOUS
  <2>2. sum[e] = 0 /\ often[e] = k * sum[e]
    BY <1>3, <2>1 DEF Adds
  <2>3. QED
    BY <2>1, <2>2
<1>6. ASSUME NEW s \in SUBSET S, NEW x \in s PROVE often[s] = many[x] + often[s \ {x}]
  <2>1. PICK r \in SUBSET S : r = s \ {x}
    OBVIOUS
  <2>2. sum[s] = f[x] + sum[r]
    BY <2>1 DEF Adds
  <2>3. PICK a \in Int, b \in Int : a = f[x] /\ b = sum[r]
    BY <1>1
  <2>4. k * (a + b) = k * a + k * b
    OBVIOUS
  <2>5. often[s] = k * (a + b) /\ many[x] = k * a /\ often[r] = k * b
    BY <1>3, <1>4, <2>2, <2>3
  <2>6. QED
    BY <2>1, <2>4, <2>5
<1>7. Adds(often, S, many)
  BY <1>3, <1>5, <1>6 DEF Adds
<1>8. total[T] = often[T]
  BY <1>2, <1>4, <1>7, SumSame
<1>9. QED
  BY <1>3, <1>8

\* A number in every place adds up to so many times that number.
LEMMA SumConstant ==
  ASSUME NEW S, IsFiniteSet(S), NEW f \in [S -> Int], NEW sum, Adds(sum, S, f), NEW c \in Int,
         NEW T \in SUBSET S, \A x \in T : f[x] = c
  PROVE  Cardinality(T) \in Nat /\ sum[T] = c * Cardinality(T)
<1> DEFINE count == [s \in SUBSET S |-> Cardinality(s)]
           ones == [x \in S |-> 1]
<1>1. \A s \in SUBSET S : IsFiniteSet(s) /\ Cardinality(s) \in Nat
  BY FS_Subset, FS_CardinalityType
<1>2. ones \in [S -> Int] /\ \A x \in S : ones[x] = 1
  OBVIOUS
<1>3. count \in [SUBSET S -> Int] /\ \A s \in SUBSET S : count[s] = Cardinality(s)
  BY <1>1
<1> HIDE DEF count, ones
<1>4. count[{}] = 0
  BY <1>3, FS_EmptySet
<1>5. ASSUME NEW s \in SUBSET S, NEW x \in s PROVE count[s] = ones[x] + count[s \ {x}]
  <2>1. Cardinality(s \ {x}) = Cardinality(s) - 1
    BY <1>1, FS_RemoveElement
  <2>2. Cardinality(s) \in Nat /\ s \ {x} \in SUBSET S
    BY <1>1
  <2>3. QED
    BY <1>2, <1>3, <2>1, <2>2
<1>6. Adds(count, S, ones)
  BY <1>3, <1>4, <1>5 DEF Adds
<1>7. \A x \in T : f[x] = c * ones[x]
  BY <1>2
<1>8. sum[T] = c * count[T]
  BY <1>2, <1>6, <1>7, SumScaled
<1>9. QED
  BY <1>1, <1>3, <1>8

\* A common factor is dropped.
LEMMA Reduced ==
  ASSUME NEW x, NEW n \in Int, NEW d \in Nat \ {0}, NEW k \in Nat \ {0}, Is(x, n * k, d * k)
  PROVE  Is(x, n, d)
<1>1. PICK a, b : a = x[1] /\ b = x[2]
  OBVIOUS
<1>2. x \in Fraction /\ a \in Int /\ b \in Nat \ {0} /\ a * (d * k) = (n * k) * b
  BY <1>1, FractionParts DEF Is
<1>3. (a * d) * k = (n * b) * k
  <2>1. a * (d * k) = (a * d) * k /\ (n * k) * b = (n * b) * k
    BY <1>2
  <2>2. QED
    BY <1>2, <2>1
<1>4. a * d \in Int /\ n * b \in Int
  BY <1>2
<1>5. a * d = n * b
  BY <1>3, <1>4, CancelEq
<1>6. QED
  BY <1>1, <1>2, <1>5 DEF Is

\* A common factor is added.
LEMMA Widened ==
  ASSUME NEW x, NEW n \in Int, NEW d \in Nat \ {0}, NEW k \in Nat \ {0}, Is(x, n, d)
  PROVE  Is(x, n * k, d * k) /\ n * k \in Int /\ d * k \in Nat \ {0}
<1>1. PICK a, b : a = x[1] /\ b = x[2]
  OBVIOUS
<1>2. x \in Fraction /\ a \in Int /\ b \in Nat \ {0} /\ a * d = n * b
  BY <1>1, FractionParts DEF Is
<1>3. a * (d * k) = (a * d) * k /\ (n * k) * b = (n * b) * k
  BY <1>2
<1>4. n * k \in Int /\ d * k \in Nat \ {0}
  BY ProductPositive
<1>5. QED
  BY <1>1, <1>2, <1>3, <1>4 DEF Is

\* Fractions of one denominator add up, subtract and compare as their numerators.
LEMMA CommonForms ==
  ASSUME NEW a, NEW b, NEW n, NEW m, NEW d, Is(a, n, d), Is(b, m, d)
  PROVE  /\ Is(Plus(a, b), n + m, d) /\ Is(Minus(a, b), n - m, d)
         /\ Leq(a, b) <=> n <= m
         /\ Same(a, b) <=> n = m
<1>1. n \in Int /\ m \in Int /\ d \in Nat \ {0}
  BY DEF Is
<1>2. Is(Plus(a, b), n * d + m * d, d * d) /\ Is(Minus(a, b), n * d - m * d, d * d)
  BY PlusForms, MinusForms
<1>3. n * d + m * d = (n + m) * d /\ n * d - m * d = (n - m) * d /\ n + m \in Int /\ n - m \in Int
  BY <1>1
<1>4. Is(Plus(a, b), (n + m) * d, d * d) /\ Is(Minus(a, b), (n - m) * d, d * d)
  BY <1>2, <1>3
<1>5. Is(Plus(a, b), n + m, d) /\ Is(Minus(a, b), n - m, d)
  BY <1>1, <1>3, <1>4, Reduced
<1>6. (Leq(a, b) <=> n * d <= m * d) /\ (Same(a, b) <=> n * d = m * d)
  BY LeqForms
<1>7. QED
  BY <1>1, <1>5, <1>6, CancelLeq, CancelEq

\* Finitely many fractions have a common denominator.
LEMMA CommonDenominator ==
  ASSUME NEW X \in SUBSET Fraction, IsFiniteSet(X)
  PROVE  \E d \in Nat \ {0} : \E num \in [X -> Int] : \A x \in X : Is(x, num[x], d)
<1> DEFINE Good(s, d) == \A x \in s : \E n \in Int : Is(x, n, d)
           Bad == {s \in SUBSET X : ~ \E d \in Nat \ {0} : Good(s, d)}
<1>1. Bad = {}
  <2>1. SUFFICES ASSUME Bad # {} PROVE FALSE
    OBVIOUS
  <2>2. Bad \in SUBSET (SUBSET X)
    OBVIOUS
  <2>3. PICK s \in Bad : \A u \in Bad : u \subseteq s => u = s
    <3> HIDE DEF Bad
    <3>1. QED
      BY <2>1, <2>2, SmallestSubset
  <2>4. Good({}, 1)
    OBVIOUS
  <2>5. PICK x \in s : TRUE
    BY <2>3, <2>4
  <2>6. PICK d \in Nat \ {0} : Good(s \ {x}, d)
    <3>1. s \ {x} \in SUBSET X /\ s \ {x} \subseteq s /\ s \ {x} # s
      BY <2>3, <2>5
    <3>2. s \ {x} \notin Bad
      BY <2>3, <3>1
    <3>3. QED
      BY <3>1, <3>2
  <2>7. x \in Fraction /\ x[1] \in Int /\ x[2] \in Nat \ {0} /\ Is(x, x[1], x[2])
    BY <2>3, <2>5, FractionParts
  <2>8. PICK a, b : a = x[1] /\ b = x[2]
    OBVIOUS
  <2>9. a \in Int /\ b \in Nat \ {0} /\ Is(x, a, b) /\ d * b \in Nat \ {0}
    BY <2>7, <2>8, ProductPositive
  <2>10. PICK e \in Nat \ {0} : e = b * d /\ e = d * b
    BY <2>9
  <2>11. Is(x, a * d, e) /\ a * d \in Int
    BY <2>9, <2>10, Widened
  <2>12. ASSUME NEW y \in s PROVE \E n \in Int : Is(y, n, e)
    <3>1. CASE y = x
      BY <2>11, <3>1
    <3>2. CASE y # x
      <4>1. PICK n \in Int : Is(y, n, d)
        BY <2>6, <3>2
      <4>2. Is(y, n * b, d * b) /\ n * b \in Int
        BY <2>9, <4>1, Widened
      <4>3. QED
        BY <2>10, <4>2
    <3>3. QED
      BY <3>1, <3>2
  <2>13. QED
    BY <2>3, <2>10, <2>12
<1>2. PICK d \in Nat \ {0} : Good(X, d)
  BY <1>1
<1>3. [x \in X |-> CHOOSE n \in Int : Is(x, n, d)] \in [X -> Int]
  BY <1>2
<1>4. \A x \in X : Is(x, [y \in X |-> CHOOSE n \in Int : Is(y, n, d)][x], d)
  BY <1>2
<1>5. QED
  BY <1>3, <1>4

\* What a total computes step by step, for the amounts f over the subsets of S.
Totals(it, S, f) ==
    /\ it \in [SUBSET S -> Fraction] /\ it[{}] = Zero
    /\ \A s \in SUBSET S : s # {} => \E x \in s : it[s] = Plus(f[x], it[s \ {x}])

\* Every total is computed so.
LEMMA TotalSteps ==
  ASSUME NEW S, IsFiniteSet(S), NEW f \in [S -> Fraction]
  PROVE  \E it : Totals(it, S, f) /\ TotalOf(f) = it[S]
<1> DEFINE Pick(s) == CHOOSE x \in s : TRUE
           It == CHOOSE it : it = [s \in SUBSET S |->
                    IF s = {} THEN Zero
                    ELSE LET x == CHOOSE x \in s : TRUE IN Plus(f[x], it[s \ {x}])]
           op == [p \in Fraction \X Fraction |-> Plus(p[1], p[2])]
<1>1. TotalOf(f) = It[S]
  BY DEF TotalOf, FoldFunction, FoldFunctionOnSet, MapThenFoldSet
<1>2. op \in [Fraction \X Fraction -> Fraction] /\ Zero \in Fraction
  <2>1. \A p \in Fraction \X Fraction : Plus(p[1], p[2]) \in Fraction
    BY Closed
  <2>2. QED
    BY <2>1, Constants
<1>3. PICK it : FoldsUp(it, S, f, op, Zero)
  <2> HIDE DEF op
  <2>1. QED
    BY FoldExists
<1>4. it \in [SUBSET S -> Fraction]
  <2>1. PICK F, add, base : F = Fraction /\ add = op /\ base = Zero
    OBVIOUS
  <2>2. f \in [S -> F] /\ add \in [F \X F -> F] /\ base \in F /\ FoldsUp(it, S, f, add, base)
    BY <1>2, <1>3, <2>1
  <2>3. it \in [SUBSET S -> F]
    BY <2>2, FoldTyped
  <2>4. QED
    BY <2>1, <2>3
<1>5. \A s \in SUBSET S : s # {} => Pick(s) \in s
  OBVIOUS
<1>6. ASSUME NEW s \in SUBSET S
      PROVE  it[s] = IF s = {} THEN Zero ELSE Plus(f[Pick(s)], it[s \ {Pick(s)}])
  <2>1. it[s] = IF s = {} THEN Zero ELSE op[<<f[Pick(s)], it[s \ {Pick(s)}]>>]
    BY <1>3 DEF FoldsUp
  <2>2. CASE s = {}
    BY <2>1, <2>2
  <2>3. CASE s # {}
    <3> HIDE DEF Pick
    <3>1. f[Pick(s)] \in Fraction /\ it[s \ {Pick(s)}] \in Fraction
      BY <1>4, <1>5, <2>3
    <3>2. QED
      BY <2>1, <2>3, <3>1
  <2>4. QED
    BY <2>2, <2>3
<1>7. it = [s \in SUBSET S |->
              IF s = {} THEN Zero ELSE LET x == CHOOSE x \in s : TRUE IN Plus(f[x], it[s \ {x}])]
  <2>1. it = [s \in SUBSET S |-> it[s]]
    BY <1>4
  <2>2. QED
    BY <1>6, <2>1
<1>8. It = [s \in SUBSET S |->
              IF s = {} THEN Zero ELSE LET x == CHOOSE x \in s : TRUE IN Plus(f[x], It[s \ {x}])]
  BY <1>7, Zenon
<1> HIDE DEF It
<1>9. ASSUME NEW s \in SUBSET S
      PROVE  It[s] = IF s = {} THEN Zero ELSE Plus(f[Pick(s)], It[s \ {Pick(s)}])
  BY <1>8
<1> HIDE DEF Pick
<1> DEFINE Bad == {s \in SUBSET S : It[s] \notin Fraction}
<1>10. Bad = {}
  <2>1. SUFFICES ASSUME Bad # {} PROVE FALSE
    OBVIOUS
  <2>2. Bad \in SUBSET (SUBSET S)
    OBVIOUS
  <2>3. PICK s \in Bad : \A u \in Bad : u \subseteq s => u = s
    <3> HIDE DEF Bad
    <3>1. QED
      BY <2>1, <2>2, SmallestSubset
  <2>4. s # {}
    BY <1>2, <1>9, <2>3
  <2>5. PICK x \in s : x = Pick(s)
    BY <1>5, <2>3, <2>4
  <2>6. It[s \ {x}] \in Fraction /\ f[x] \in Fraction
    BY <2>3, <2>5
  <2>7. It[s] = Plus(f[x], It[s \ {x}])
    BY <1>9, <2>3, <2>4, <2>5
  <2>8. QED
    BY <2>3, <2>6, <2>7, Closed
<1>11. It \in [SUBSET S -> Fraction]
  <2>1. It = [s \in SUBSET S |-> It[s]]
    BY <1>8, Zenon
  <2>2. QED
    BY <1>10, <2>1
<1>12. It[{}] = Zero
  BY <1>9
<1>13. ASSUME NEW s \in SUBSET S, s # {} PROVE \E x \in s : It[s] = Plus(f[x], It[s \ {x}])
  BY <1>5, <1>9, <1>13
<1>14. Totals(It, S, f)
  BY <1>11, <1>12, <1>13 DEF Totals
<1>15. QED
  BY <1>1, <1>14

\* A total of fractions of one denominator is the sum of their numerators over it.
LEMMA TotalForm ==
  ASSUME NEW S, IsFiniteSet(S), NEW f \in [S -> Int], NEW sum, Adds(sum, S, f),
         NEW T \in SUBSET S, NEW d \in Nat \ {0}, NEW g \in [T -> Fraction],
         \A x \in T : Is(g[x], f[x], d)
  PROVE  Is(TotalOf(g), sum[T], d)
<1>1. IsFiniteSet(T)
  BY FS_Subset
<1>2. PICK it : Totals(it, T, g) /\ TotalOf(g) = it[T]
  BY <1>1, TotalSteps
<1> DEFINE Bad == {s \in SUBSET T : ~Is(it[s], sum[s], d)}
<1>3. Bad = {}
  <2>1. SUFFICES ASSUME Bad # {} PROVE FALSE
    OBVIOUS
  <2>2. Bad \in SUBSET (SUBSET T)
    OBVIOUS
  <2>3. PICK s \in Bad : \A u \in Bad : u \subseteq s => u = s
    <3> HIDE DEF Bad
    <3>1. QED
      BY <1>1, <2>1, <2>2, SmallestSubset
  <2>4. Is(it[{}], sum[{}], d)
    <3>1. sum[{}] = 0 /\ Zero[1] = 0 /\ Zero \in Fraction
      BY Constants DEF Adds, Zero, Whole
    <3>2. 0 * d = 0 * Zero[2]
      BY <3>1, FractionParts
    <3>3. QED
      BY <1>2, <3>1, <3>2 DEF Is, Totals
  <2>5. s # {}
    BY <2>3, <2>4
  <2>6. PICK x \in s : it[s] = Plus(g[x], it[s \ {x}])
    BY <1>2, <2>3, <2>5 DEF Totals
  <2>7. PICK r \in SUBSET T : r = s \ {x}
    BY <2>3
  <2>8. r \notin Bad
    BY <2>3, <2>6, <2>7
  <2>9. Is(it[r], sum[r], d) /\ Is(g[x], f[x], d)
    BY <2>3, <2>6, <2>8
  <2>10. Is(Plus(g[x], it[r]), f[x] + sum[r], d)
    BY <2>9, CommonForms
  <2>11. sum[s] = f[x] + sum[r]
    BY <2>3, <2>6, <2>7 DEF Adds
  <2>12. Is(it[s], sum[s], d)
    BY <2>6, <2>7, <2>10, <2>11
  <2>13. QED
    BY <2>3, <2>12
<1>4. QED
  BY <1>2, <1>3

-----------------------------------------------------------------------------
(* The level of a conviction-weighted book.                                *)

\* The open holdings among N, whose weights w add up to sum, share L: what the others,
\* held at their cap B, leave of the total T.  L / sum[O] is the level: no open holding
\* reaches the cap at it, every other one does.
Level(N, w, sum, B, T, O, L) ==
    /\ O \in SUBSET N /\ O # {} /\ L \in Nat \ {0} /\ L = T - B * Cardinality(N \ O)
    /\ \A n \in O : L * w[n] < B * sum[O]
    /\ \A n \in N \ O : B * sum[O] <= L * w[n]

\* Positive numbers have a positive sum.
LEMMA SumPositive ==
  ASSUME NEW S, IsFiniteSet(S), NEW f \in [S -> Int], NEW sum, Adds(sum, S, f),
         NEW T \in SUBSET S, T # {}, \A x \in T : f[x] > 0
  PROVE  sum[T] \in Nat \ {0}
<1> DEFINE zeros == [x \in S |-> 0]
<1>1. zeros \in [S -> Int] /\ \A x \in S : zeros[x] = 0
  OBVIOUS
<1> HIDE DEF zeros
<1>2. PICK none : Adds(none, S, zeros)
  BY <1>1, SumExists
<1>3. none[T] = 0 * Cardinality(T) /\ Cardinality(T) \in Nat
  BY <1>1, <1>2, SumConstant
<1>4. \A x \in T : f[x] \in Int /\ zeros[x] = 0 /\ f[x] > 0
  BY <1>1
<1>5. \A x \in T : zeros[x] <= f[x] /\ zeros[x] < f[x]
  BY <1>4
<1>6. \E x \in T : zeros[x] < f[x]
  BY <1>5
<1>7. none[T] < sum[T]
  BY <1>1, <1>2, <1>5, <1>6, SumMonotone
<1>8. sum[T] \in Int /\ none[T] = 0
  BY <1>3 DEF Adds
<1>9. QED
  BY <1>7, <1>8

\* A set is counted in two parts.
LEMMA CountSplits ==
  ASSUME NEW T, IsFiniteSet(T), NEW A \in SUBSET T
  PROVE  /\ Cardinality(T) \in Nat /\ Cardinality(A) \in Nat /\ Cardinality(T \ A) \in Nat
         /\ Cardinality(T) = Cardinality(A) + Cardinality(T \ A)
<1>1. IsFiniteSet(A) /\ IsFiniteSet(T \ A)
  BY FS_Subset
<1>2. A \cap (T \ A) = {} /\ A \cup (T \ A) = T
  OBVIOUS
<1>3. Cardinality(A \cup (T \ A)) = Cardinality(A) + Cardinality(T \ A) - Cardinality(A \cap (T \ A))
  BY <1>1, FS_Union
<1>4. Cardinality({}) = 0
  BY FS_EmptySet
<1>5. Cardinality(T) \in Nat /\ Cardinality(A) \in Nat /\ Cardinality(T \ A) \in Nat
  BY <1>1, FS_CardinalityType
<1>6. Cardinality(T) = Cardinality(A) + Cardinality(T \ A) - 0
  BY <1>2, <1>3, <1>4
<1>7. QED
  BY <1>5, <1>6

\* What is below the cap everywhere is below so many caps.
LEMMA LevelBelow ==
  ASSUME NEW S, IsFiniteSet(S), NEW w \in [S -> Int], NEW sum, Adds(sum, S, w),
         NEW N \in SUBSET S, \A n \in N : w[n] > 0, NEW B \in Nat, NEW T \in Int,
         NEW O, NEW L, Level(N, w, sum, B, T, O, L)
  PROVE  T < B * Cardinality(N)
<1> DEFINE least == [n \in S |-> L * w[n]]
           most == [n \in S |-> B * sum[O]]
<1>1. O \in SUBSET S /\ O # {} /\ L \in Nat \ {0} /\ O \in SUBSET N
  BY DEF Level
<1>2. sum[O] \in Nat \ {0}
  BY <1>1, SumPositive
<1>3. PICK k \in Nat \ {0} : k = sum[O]
  BY <1>2
<1>4. least \in [S -> Int] /\ most \in [S -> Int]
  BY <1>1, <1>2
<1>5. \A n \in S : least[n] = L * w[n] /\ most[n] = B * k
  BY <1>3
<1>6. \A n \in O : least[n] < most[n] /\ least[n] \in Int /\ most[n] \in Int
  <2>1. \A n \in O : L * w[n] < B * sum[O]
    BY DEF Level
  <2> HIDE DEF least, most
  <2>2. QED
    BY <1>1, <1>3, <1>4, <1>5, <2>1
<1> HIDE DEF least, most
<1>7. PICK low : Adds(low, S, least)
  BY <1>4, SumExists
<1>8. PICK high : Adds(high, S, most)
  BY <1>4, SumExists
<1>9. low[O] = L * k
  BY <1>1, <1>3, <1>4, <1>5, <1>7, SumScaled
<1>10. B * k \in Int
  BY <1>3
<1>11. high[O] = (B * k) * Cardinality(O) /\ Cardinality(O) \in Nat
  BY <1>1, <1>4, <1>5, <1>8, <1>10, SumConstant
<1>12. low[O] < high[O]
  <2>1. \A n \in O : least[n] <= most[n]
    BY <1>6
  <2>2. \E n \in O : least[n] < most[n]
    BY <1>1, <1>6
  <2>3. QED
    BY <1>1, <1>4, <1>7, <1>8, <2>1, <2>2, SumMonotone
<1>13. PICK c : c = Cardinality(O)
  OBVIOUS
<1>14. L < B * c
  <2>1. L * k < (B * c) * k
    <3>1. (B * k) * c = (B * c) * k
      BY <1>3, <1>11, <1>13
    <3>2. QED
      BY <1>9, <1>11, <1>12, <1>13, <3>1
  <2>2. ~((B * c) * k <= L * k)
    BY <1>1, <1>3, <1>11, <1>13, <2>1
  <2>3. ~(B * c <= L)
    BY <1>1, <1>3, <1>11, <1>13, <2>2, CancelLeq
  <2>4. QED
    BY <1>1, <1>11, <1>13, <2>3
<1>15. IsFiniteSet(N)
  BY FS_Subset
<1>16. PICK r : r = Cardinality(N \ O)
  OBVIOUS
<1>17. r \in Nat /\ c \in Nat /\ Cardinality(N) = c + r
  BY <1>1, <1>13, <1>15, <1>16, CountSplits
<1>18. L = T - B * r
  BY <1>16 DEF Level
<1>19. B * (c + r) = B * c + B * r
  BY <1>17
<1>20. B * c \in Int /\ B * r \in Int
  BY <1>17
<1>21. QED
  BY <1>1, <1>14, <1>17, <1>18, <1>19, <1>20

\* With fewer holdings to share the same total the level is no lower.
LEMMA LevelRises ==
  ASSUME NEW S, IsFiniteSet(S), NEW w \in [S -> Int], NEW sum, Adds(sum, S, w),
         NEW N \in SUBSET S, \A n \in N : w[n] > 0, NEW R \in SUBSET N,
         NEW B \in Nat, NEW T \in Int,
         NEW O, NEW L, Level(N, w, sum, B, T, O, L),
         NEW P, NEW K, Level(R, w, sum, B, T, P, K)
  PROVE  L * sum[P] <= K * sum[O]
<1>1. /\ O \in SUBSET N /\ O # {} /\ L \in Nat \ {0}
      /\ P \in SUBSET R /\ P # {} /\ K \in Nat \ {0}
  BY DEF Level
<1>2. PICK s, p : s = sum[O] /\ p = sum[P]
  OBVIOUS
<1>3. s \in Nat \ {0} /\ p \in Nat \ {0}
  BY <1>1, <1>2, SumPositive
<1>4. SUFFICES ASSUME K * s < L * p PROVE FALSE
  <2>1. L * p \in Int /\ K * s \in Int
    BY <1>1, <1>3
  <2>2. L * p <= K * s \/ K * s < L * p
    BY <2>1
  <2>3. QED
    BY <1>2, <2>2
<1>5. PICK c, x, y : c = B * (s * p) /\ x = L * p /\ y = K * s
  OBVIOUS
<1>6. c \in Nat /\ x \in Nat \ {0} /\ y \in Nat \ {0} /\ y < x
  BY <1>1, <1>3, <1>4, <1>5, ProductPositive
<1> DEFINE a == [n \in S |-> IF n \in O THEN x * w[n] ELSE c]
           b == [n \in S |-> IF n \in P THEN y * w[n] ELSE IF n \in R THEN c ELSE 0]
<1>7. \A n \in N : w[n] \in Nat \ {0}
  OBVIOUS
<1>8. a \in [S -> Int] /\ b \in [S -> Int]
  BY <1>6
<1>9. /\ \A n \in O : a[n] = x * w[n]
      /\ \A n \in N \ O : a[n] = c
      /\ \A n \in P : b[n] = y * w[n]
      /\ \A n \in R \ P : b[n] = c
      /\ \A n \in N \ R : b[n] = 0
  BY <1>1
<1> HIDE DEF a, b
<1>10. ASSUME NEW n \in N, n \in P PROVE b[n] < a[n]
  <2>1. PICK v \in Nat \ {0} : v = w[n]
    BY <1>7
  <2>2. b[n] = y * v
    BY <1>9, <1>10, <2>1
  <2>3. CASE n \in O
    <3>1. a[n] = x * v
      BY <1>9, <2>1, <2>3
    <3>2. y * v < x * v
      BY <1>6
    <3>3. QED
      BY <2>2, <3>1, <3>2
  <2>4. CASE n \notin O
    <3>1. a[n] = c
      BY <1>9, <2>4
    <3>2. K * v < B * p
      BY <1>2, <1>10, <2>1 DEF Level
    <3>3. (K * v) * s < (B * p) * s
      <4>1. K * v \in Int /\ B * p \in Int
        BY <1>1, <1>3
      <4>2. ~(B * p <= K * v)
        BY <3>2, <4>1
      <4>3. ~((B * p) * s <= (K * v) * s)
        BY <1>3, <4>1, <4>2, CancelLeq
      <4>4. (K * v) * s \in Int /\ (B * p) * s \in Int
        BY <1>3, <4>1
      <4>5. QED
        BY <4>3, <4>4
    <3>4. (K * v) * s = y * v /\ (B * p) * s = c
      BY <1>1, <1>3, <1>5
    <3>5. QED
      BY <2>2, <3>1, <3>3, <3>4
  <2>5. QED
    BY <2>3, <2>4
<1>11. ASSUME NEW n \in N, n \notin P PROVE b[n] <= a[n]
  <2>1. PICK v \in Nat \ {0} : v = w[n]
    BY <1>7
  <2>2. CASE n \in R
    <3>1. b[n] = c
      BY <1>9, <1>11, <2>2
    <3>2. CASE n \in O
      <4>1. a[n] = x * v
        BY <1>9, <2>1, <3>2
      <4>2. B * p <= K * v
        BY <1>2, <1>11, <2>1, <2>2 DEF Level
      <4>3. (B * p) * s <= (K * v) * s
        <5>1. K * v \in Int /\ B * p \in Int
          BY <1>1, <1>3
        <5>2. QED
          BY <1>3, <4>2, <5>1, CancelLeq
      <4>4. (K * v) * s = y * v /\ (B * p) * s = c
        BY <1>1, <1>3, <1>5
      <4>5. y * v < x * v
        BY <1>6
      <4>6. y * v \in Int /\ x * v \in Int
        BY <1>6
      <4>7. QED
        BY <1>6, <3>1, <4>1, <4>3, <4>4, <4>5, <4>6
    <3>3. CASE n \notin O
      BY <1>6, <1>9, <3>1, <3>3
    <3>4. QED
      BY <3>2, <3>3
  <2>3. CASE n \notin R
    <3>1. b[n] = 0
      BY <1>9, <2>3
    <3>2. x * v > 0
      BY <1>6, ProductPositive
    <3>3. a[n] = x * v \/ a[n] = c
      BY <1>9, <2>1
    <3>4. QED
      BY <1>6, <3>1, <3>2, <3>3
  <2>4. QED
    BY <2>2, <2>3
<1>12. PICK total : Adds(total, S, a)
  BY <1>8, SumExists
<1>13. PICK given : Adds(given, S, b)
  BY <1>8, SumExists
<1>14. /\ O \in SUBSET S /\ N \ O \in SUBSET S /\ P \in SUBSET S /\ R \ P \in SUBSET S
       /\ N \ R \in SUBSET S /\ R \in SUBSET S
  BY <1>1
<1>15. given[N] < total[N]
  <2>1. \A n \in N : b[n] <= a[n]
    <3>1. \A n \in N : a[n] \in Int /\ b[n] \in Int
      BY <1>8
    <3>2. QED
      BY <1>10, <1>11, <3>1
  <2>2. \E n \in N : b[n] < a[n]
    BY <1>1, <1>10
  <2>3. QED
    BY <1>8, <1>12, <1>13, <2>1, <2>2, SumMonotone
<1>16. PICK r, q : r = Cardinality(N \ O) /\ q = Cardinality(R \ P)
  OBVIOUS
<1>17. r \in Nat /\ q \in Nat /\ L = T - B * r /\ K = T - B * q
  <2>1. IsFiniteSet(N \ O) /\ IsFiniteSet(R \ P)
    BY <1>14, FS_Subset
  <2>2. r \in Nat /\ q \in Nat
    BY <1>16, <2>1, FS_CardinalityType
  <2>3. QED
    BY <1>16, <2>2 DEF Level
<1>18. total[N] = T * (s * p)
  <2>1. total[N] = total[O] + total[N \ O]
    BY <1>1, <1>8, <1>12, SumSplits
  <2>2. total[O] = x * s
    <3>1. x \in Int /\ \A n \in O : a[n] = x * w[n]
      BY <1>6, <1>9
    <3>2. total[O] = x * sum[O]
      BY <1>8, <1>12, <1>14, <3>1, SumScaled
    <3>3. QED
      BY <1>2, <3>2
  <2>3. total[N \ O] = c * r
    BY <1>6, <1>8, <1>9, <1>12, <1>14, <1>16, SumConstant
  <2>4. x * s = L * (s * p)
    BY <1>1, <1>3, <1>5
  <2>5. c * r = (B * r) * (s * p)
    BY <1>3, <1>5, <1>17
  <2>6. L * (s * p) + (B * r) * (s * p) = (L + B * r) * (s * p)
    BY <1>1, <1>3, <1>17
  <2>7. L + B * r = T
    BY <1>17
  <2>8. QED
    BY <2>1, <2>2, <2>3, <2>4, <2>5, <2>6, <2>7
<1>19. given[N] = T * (s * p)
  <2>1. given[N] = given[R] + given[N \ R]
    BY <1>1, <1>8, <1>13, <1>14, SumSplits
  <2>11. given[R] = given[P] + given[R \ P]
    BY <1>1, <1>8, <1>13, <1>14, SumSplits
  <2>2. given[P] = y * p
    <3>1. \A n \in P : b[n] = y * w[n]
      BY <1>9
    <3>2. y \in Int /\ P \in SUBSET S
      BY <1>6, <1>14
    <3>3. given[P] = y * sum[P]
      BY <1>8, <1>13, <3>1, <3>2, SumScaled
    <3>4. QED
      BY <1>2, <3>3
  <2>3. given[R \ P] = c * q
    BY <1>6, <1>8, <1>9, <1>13, <1>14, <1>16, SumConstant
  <2>4. given[N \ R] = 0
    <3>1. given[N \ R] = 0 * Cardinality(N \ R) /\ Cardinality(N \ R) \in Nat
      BY <1>8, <1>9, <1>13, <1>14, SumConstant
    <3>2. QED
      BY <3>1
  <2>5. y * p = K * (s * p)
    BY <1>1, <1>3, <1>5
  <2>6. c * q = (B * q) * (s * p)
    BY <1>3, <1>5, <1>17
  <2>7. K * (s * p) + (B * q) * (s * p) = (K + B * q) * (s * p)
    BY <1>1, <1>3, <1>17
  <2>8. K + B * q = T
    BY <1>17
  <2>9. (y * p + c * q) + 0 = T * (s * p)
    <3>1. y * p + c * q = T * (s * p)
      BY <2>5, <2>6, <2>7, <2>8
    <3>2. T * (s * p) \in Int
      BY <1>3
    <3>3. QED
      BY <3>1, <3>2
  <2>10. QED
    BY <2>1, <2>11, <2>2, <2>3, <2>4, <2>9
<1>20. T * (s * p) \in Int
  BY <1>3
<1>21. QED
  BY <1>15, <1>18, <1>19, <1>20

\* The holdings K reach the cap at the level that gives L to the holdings O.
Reach(w, sum, B, O, L, K) == \A n \in K : B * sum[O] <= L * w[n]

\* The level that gives L to the open holdings O among N, and those of them, K, that reach
\* the cap at it.
Closing(S, w, sum, N, B, O, L, K) ==
    /\ IsFiniteSet(S) /\ w \in [S -> Int] /\ Adds(sum, S, w)
    /\ N \in SUBSET S /\ (\A n \in N : w[n] > 0) /\ B \in Nat
    /\ O \in SUBSET N /\ L \in Nat \ {0} /\ Reach(w, sum, B, O, L, N \ O)
    /\ K \in SUBSET O /\ Reach(w, sum, B, O, L, K)

\* The holdings K that reach the cap leave, and what is left of L stays at least at the
\* level of those still open.
LEMMA CappedLeave ==
  ASSUME NEW S, NEW w, NEW sum, NEW N, NEW B, NEW O, NEW L, NEW K,
         Closing(S, w, sum, N, B, O, L, K),
         NEW k, k = Cardinality(K)
  PROVE  /\ k \in Nat /\ L - B * k \in Nat
         /\ O \ K # {} => /\ L - B * k > 0
                          /\ Reach(w, sum, B, O \ K, L - B * k, N \ (O \ K))
<1>a. /\ IsFiniteSet(S) /\ w \in [S -> Int] /\ Adds(sum, S, w)
      /\ N \in SUBSET S /\ (\A n \in N : w[n] > 0) /\ B \in Nat
      /\ O \in SUBSET N /\ L \in Nat \ {0} /\ Reach(w, sum, B, O, L, N \ O)
      /\ K \in SUBSET O /\ Reach(w, sum, B, O, L, K)
  BY DEF Closing
<1>0. /\ \A n \in N \ O : B * sum[O] <= L * w[n]
      /\ \A n \in K : B * sum[O] <= L * w[n]
  BY <1>a DEF Reach
<1>1. /\ O \in SUBSET S /\ K \in SUBSET S /\ O \ K \in SUBSET S
      /\ \A n \in N : w[n] \in Nat \ {0}
  BY <1>a
<1>2. k \in Nat
  BY <1>a, <1>1, FS_Subset, FS_CardinalityType
<1>3. CASE O = {}
  <2>1. K = {} /\ k = 0
    BY <1>a, <1>3, FS_EmptySet
  <2>2. QED
    BY <1>a, <1>3, <2>1 DEF Reach
<1>4. CASE O # {}
  <2>1. PICK s, t, r : s = sum[O] /\ t = sum[K] /\ r = sum[O \ K]
    OBVIOUS
  <2>2. s \in Nat \ {0}
    BY <1>a, <1>1, <1>4, <2>1, SumPositive
  <2>3. s = t + r
    BY <1>a, <1>1, <2>1, SumSplits
  <2>4. t \in Int /\ r \in Int
    BY <1>a, <1>1, <2>1 DEF Adds
  <2>5. O \ K # {} => r \in Nat \ {0}
    <3>1. ASSUME O \ K # {} PROVE r \in Nat \ {0}
      <4>1. \A n \in O \ K : w[n] > 0
        BY <1>a
      <4>2. QED
        BY <1>a, <1>1, <2>1, <3>1, <4>1, SumPositive
    <3>2. QED
      BY <1>a, <3>1
  <2>6. O \ K = {} => r = 0
    BY <1>a, <2>1 DEF Adds
  <2>7. (B * s) * k <= L * t
    <3> DEFINE low == [n \in S |-> B * s]
               high == [n \in S |-> L * w[n]]
    <3>1. low \in [S -> Int] /\ high \in [S -> Int]
      BY <1>a, <2>2
    <3>2. \A n \in S : low[n] = B * s /\ high[n] = L * w[n]
      OBVIOUS
    <3> HIDE DEF low, high
    <3>3. PICK a : Adds(a, S, low)
      BY <1>a, <3>1, SumExists
    <3>4. PICK b : Adds(b, S, high)
      BY <1>a, <3>1, SumExists
    <3>5. B * s \in Int /\ \A n \in K : low[n] = B * s
      BY <1>a, <1>1, <2>2, <3>2
    <3>6. a[K] = (B * s) * k
      BY <1>a, <1>1, <3>1, <3>3, <3>5, SumConstant
    <3>7. b[K] = L * sum[K]
      <4>1. L \in Int /\ \A n \in K : high[n] = L * w[n]
        BY <1>a, <1>1, <3>2
      <4>2. QED
        BY <1>a, <1>1, <3>1, <3>4, <4>1, SumScaled
    <3>8. \A n \in K : low[n] <= high[n]
      BY <1>a, <1>0, <1>1, <2>1, <3>2
    <3>9. a[K] <= b[K]
      BY <1>a, <1>1, <3>1, <3>3, <3>4, <3>8, SumMonotone
    <3>10. QED
      BY <1>a, <2>1, <3>6, <3>7, <3>9
  <2>8. PICK rest : rest = L - B * k
    OBVIOUS
  <2>9. rest \in Int /\ B * k \in Nat
    BY <1>a, <1>2, <2>8
  <2>10. L * r <= rest * s
    <3>1. rest * s = L * s - (B * k) * s
      BY <1>a, <2>2, <2>8, <2>9
    <3>2. L * s = L * t + L * r
      BY <1>a, <2>2, <2>3, <2>4
    <3>3. (B * k) * s = (B * s) * k
      BY <1>a, <1>2, <2>2
    <3>4. L * t \in Int /\ L * r \in Int /\ (B * s) * k \in Int
      BY <1>a, <1>2, <2>2, <2>4
    <3>5. QED
      BY <1>a, <2>7, <3>1, <3>2, <3>3, <3>4
  <2>11. rest \in Nat /\ (O \ K # {} => rest > 0)
    <3>1. CASE O \ K = {}
      <4>1. 0 <= rest * s
        BY <1>a, <2>6, <2>10, <3>1
      <4>2. 0 * s <= rest * s
        BY <1>a, <2>2, <4>1
      <4>3. 0 <= rest
        BY <1>a, <2>2, <2>9, <4>2, CancelLeq
      <4>4. QED
        BY <1>a, <2>9, <3>1, <4>3
    <3>2. CASE O \ K # {}
      <4>1. L * r \in Nat \ {0}
        BY <1>a, <2>5, <3>2, ProductPositive
      <4>2. ~(rest * s <= 0 * s)
        BY <1>a, <2>2, <2>9, <2>10, <4>1
      <4>3. ~(rest <= 0)
        BY <1>a, <2>2, <2>9, <4>2, CancelLeq
      <4>4. QED
        BY <1>a, <2>9, <4>3
    <3>3. QED
      BY <1>a, <3>1, <3>2
  <2>12. ASSUME O \ K # {}, NEW n \in N \ (O \ K) PROVE B * r <= rest * w[n]
    <3>1. PICK v \in Nat \ {0} : v = w[n]
      BY <1>a, <1>1, <2>12
    <3>2. B * s <= L * v
      <4>1. n \in N \ O \/ n \in K
        BY <1>a, <2>12
      <4>2. QED
        BY <1>a, <1>0, <2>1, <3>1, <4>1
    <3>3. r \in Nat \ {0}
      BY <1>a, <2>5, <2>12
    <3>4. (B * s) * r <= (L * v) * r
      BY <1>a, <2>2, <3>2, <3>3, CancelLeq
    <3>5. (L * r) * v <= (rest * s) * v
      <4>1. L * r \in Int /\ rest * s \in Int
        BY <1>a, <2>2, <2>4, <2>9
      <4>2. QED
        BY <1>a, <2>10, <4>1, CancelLeq
    <3>6. (B * r) * s <= (rest * v) * s
      <4>1. (B * s) * r = (B * r) * s /\ (L * v) * r = (L * r) * v
        BY <1>a, <2>2, <3>3
      <4>2. (rest * s) * v = (rest * v) * s
        BY <1>a, <2>2, <2>9
      <4>3. (B * r) * s \in Int /\ (L * r) * v \in Int /\ (rest * v) * s \in Int
        BY <1>a, <2>2, <2>9, <3>3
      <4>4. QED
        BY <1>a, <3>4, <3>5, <4>1, <4>2, <4>3
    <3>7. B * r \in Int /\ rest * v \in Int
      BY <1>a, <2>4, <2>9
    <3>8. QED
      BY <1>a, <2>2, <3>1, <3>6, <3>7, CancelLeq
  <2>13. QED
    BY <1>a, <1>2, <2>1, <2>8, <2>11, <2>12 DEF Reach
<1>5. QED
  BY <1>a, <1>3, <1>4

-----------------------------------------------------------------------------
(* What the water-filling comes to.                                        *)

\* The weights of the holdings D, as numerators w over d, with their sums.
Weighed(S, w, sum, D, weights, d) ==
    /\ IsFiniteSet(S) /\ w \in [S -> Int] /\ Adds(sum, S, w)
    /\ D \in SUBSET S /\ d \in Nat \ {0}
    /\ weights \in [D -> Fraction] /\ \A n \in D : Is(weights[n], w[n], d)

\* The holdings among D that have a weight.
Backed(N, D, w) == N = {n \in D : w[n] > 0}

\* The targets of the holdings N at a level of theirs.
Evened(N, w, sum, d, T, B, cap, targets) ==
    \E O, L : /\ Level(N, w, sum, B, T, O, L)
              /\ \A n \in O : Is(targets[n], L * w[n], d * sum[O])
              /\ \A n \in N \ O : targets[n] = cap

\* Between two rounds: what left the open holdings took the cap, and the level of those
\* still open does not bring it under the cap again; or the round that gave shares was had.
Filling(N, w, sum, d, T, B, D, cap, s) ==
    /\ s.open \in SUBSET N
    /\ \A n \in D \ N : s.targets[n] = Zero
    /\ \/ \E L \in Nat :
              /\ Is(s.left, L, d) /\ L = T - B * Cardinality(N \ s.open)
              /\ \A n \in N \ s.open : s.targets[n] = cap
              /\ s.open # {} => L > 0 /\ Reach(w, sum, B, s.open, L, N \ s.open)
       \/ s.open = {} /\ Evened(N, w, sum, d, T, B, cap, s.targets)

\* The sign of a fraction is that of any of its numerators.
LEMMA PositiveForm ==
  ASSUME NEW x, NEW n, NEW d, Is(x, n, d)
  PROVE  Positive(x) <=> n > 0
<1>1. /\ x \in Fraction /\ x[1] \in Int /\ x[2] \in Nat \ {0} /\ n \in Int /\ d \in Nat \ {0}
      /\ x[1] * d = n * x[2]
  BY FractionParts DEF Is
<1>2. \A a, b \in Int : \A k, l \in Nat \ {0} : a * k = b * l => (a > 0 <=> b > 0)
  <2>1. ASSUME NEW a \in Int, NEW b \in Int, NEW k \in Nat \ {0}, NEW l \in Nat \ {0}, a * k = b * l
        PROVE  a > 0 <=> b > 0
    <3>1. a <= 0 <=> a * k <= 0 * k
      BY CancelLeq
    <3>2. b <= 0 <=> b * l <= 0 * l
      BY CancelLeq
    <3>3. 0 * k = 0 /\ 0 * l = 0
      OBVIOUS
    <3>4. QED
      BY <2>1, <3>1, <3>2, <3>3
  <2>2. QED
    BY <2>1
<1>3. x[1] > 0 <=> n > 0
  BY <1>1, <1>2
<1>4. QED
  BY <1>3 DEF Positive

\* A round of the water-filling gives shares, or closes a holding that reaches the cap.
LEMMA RoundPours ==
  ASSUME NEW S, NEW w, NEW sum, NEW D, NEW weights, NEW d, Weighed(S, w, sum, D, weights, d),
         NEW T \in Int, NEW B \in Nat, NEW cap, Is(cap, B, d),
         NEW N, Backed(N, D, w),
         NEW s \in Fills(D, weights), Filling(N, w, sum, d, T, B, D, cap, s), s.open # {}
  PROVE  /\ Filling(N, w, sum, d, T, B, D, cap, FillRound(cap, weights, s))
         /\ FillRound(cap, weights, s).open \in SUBSET s.open
         /\ FillRound(cap, weights, s).open # s.open
<1>1. /\ IsFiniteSet(S) /\ w \in [S -> Int] /\ Adds(sum, S, w) /\ D \in SUBSET S
      /\ d \in Nat \ {0} /\ weights \in [D -> Fraction] /\ \A n \in D : Is(weights[n], w[n], d)
      /\ DOMAIN weights = D
  BY DEF Weighed
<1>2. /\ N \in SUBSET D /\ N \in SUBSET S /\ \A n \in N : w[n] > 0
      /\ \A n \in N : w[n] \in Nat \ {0}
  BY <1>1 DEF Backed
<1>3. PICK O : O = s.open
  OBVIOUS
<1>4. /\ O \in SUBSET N /\ O # {} /\ O \in SUBSET S /\ O \in SUBSET D
      /\ \A n \in D \ N : s.targets[n] = Zero
      /\ s = [open |-> s.open, left |-> s.left, targets |-> s.targets] /\ DOMAIN s.targets = D
  BY <1>2, <1>3 DEF Filling, Fills
<1>5. PICK L \in Nat : /\ Is(s.left, L, d) /\ L = T - B * Cardinality(N \ O)
                       /\ \A n \in N \ O : s.targets[n] = cap
                       /\ L > 0 /\ Reach(w, sum, B, O, L, N \ O)
  BY <1>3, <1>4 DEF Filling
<1>6. Positive(s.left)
  BY <1>5, PositiveForm
<1> DEFINE own == [n \in s.open |-> weights[n]]
           all == TotalOf(own)
           share == [n \in s.open |-> Over(Times(s.left, weights[n]), all)]
           capped == {n \in s.open : Leq(cap, share[n])}
           even == [n \in D |-> IF n \in s.open THEN share[n] ELSE s.targets[n]]
           full == [n \in D |-> IF n \in capped THEN cap ELSE s.targets[n]]
           rest == Minus(s.left, Times(Whole(Cardinality(capped)), cap))
<1>7. FillRound(cap, weights, s) =
          IF capped = {} THEN [s EXCEPT !.open = {}, !.targets = even]
          ELSE [open |-> s.open \ capped, left |-> rest, targets |-> full]
  BY <1>1, <1>3, <1>4, <1>6 DEF FillRound
<1>8. own \in [O -> Fraction] /\ \A n \in O : Is(own[n], w[n], d)
  BY <1>1, <1>3, <1>4
<1> HIDE DEF own
<1>9. PICK q : q = sum[O]
  OBVIOUS
<1>10. q \in Nat \ {0}
  BY <1>1, <1>2, <1>4, <1>9, SumPositive
<1>11. Is(all, q, d)
  <2> HIDE DEF all
  <2>1. PICK g : g = own
    OBVIOUS
  <2>2. g \in [O -> Fraction] /\ \A n \in O : Is(g[n], w[n], d)
    BY <1>8, <2>1
  <2>3. Is(TotalOf(g), sum[O], d)
    BY <1>1, <1>4, <2>2, TotalForm
  <2>4. QED
    BY <1>9, <2>1, <2>3 DEF all
<1>12. \A n \in O : share[n] = Over(Times(s.left, weights[n]), all)
  BY <1>3
<1> HIDE DEF all, share
<1>13. ASSUME NEW n \in O
       PROVE  /\ Is(share[n], L * w[n], d * q)
              /\ Leq(cap, share[n]) <=> B * q <= L * w[n]
  <2>1. PICK v \in Nat \ {0} : v = w[n]
    BY <1>2, <1>4
  <2>2. Is(weights[n], v, d)
    BY <1>1, <1>4, <2>1
  <2>3. Is(Times(s.left, weights[n]), L * v, d * d)
    BY <1>5, <2>2, TimesForms
  <2>4. Is(share[n], (L * v) * d, (d * d) * q)
    BY <1>10, <1>11, <1>12, <2>3, OverForms
  <2>5. (d * d) * q = (d * q) * d /\ d * q \in Nat \ {0} /\ L * v \in Int
    BY <1>1, <1>10, ProductPositive
  <2>6. Is(share[n], L * v, d * q)
    BY <1>1, <2>4, <2>5, Reduced
  <2>7. Leq(cap, share[n]) <=> B * (d * q) <= (L * v) * d
    BY <2>6, LeqForms
  <2>8. B * (d * q) = (B * q) * d /\ B * q \in Int
    BY <1>1, <1>10
  <2>9. B * q <= L * v <=> (B * q) * d <= (L * v) * d
    BY <1>1, <2>5, <2>8, CancelLeq
  <2>10. QED
    BY <2>1, <2>6, <2>7, <2>8, <2>9
<1>14. /\ capped \in SUBSET O
       /\ \A n \in capped : B * q <= L * w[n]
       /\ \A n \in O \ capped : ~(B * q <= L * w[n])
  BY <1>3, <1>13
<1>15. /\ \A n \in O : even[n] = share[n]
       /\ \A n \in D \ O : even[n] = s.targets[n]
       /\ \A n \in capped : full[n] = cap
       /\ \A n \in D \ capped : full[n] = s.targets[n]
  BY <1>3, <1>4, <1>14
<1> HIDE DEF capped, even, full, rest
<1>16. CASE capped = {}
  <2>1. PICK after : after = [s EXCEPT !.open = {}, !.targets = even]
    OBVIOUS
  <2>2. FillRound(cap, weights, s) = after /\ after.open = {} /\ after.targets = even
    BY <1>4, <1>7, <1>16, <2>1
  <2>3. \A n \in O : L * w[n] < B * sum[O]
    <3>1. ASSUME NEW n \in O PROVE L * w[n] < B * q
      <4>1. w[n] \in Nat \ {0}
        BY <1>2, <1>4
      <4>2. L * w[n] \in Int /\ B * q \in Int
        BY <1>10, <4>1
      <4>3. QED
        BY <1>14, <1>16, <4>2
    <3>2. QED
      BY <1>9, <3>1
  <2>4. Level(N, w, sum, B, T, O, L)
    <3>1. \A n \in N \ O : B * sum[O] <= L * w[n]
      BY <1>5 DEF Reach
    <3>2. O \in SUBSET N /\ O # {} /\ L \in Nat \ {0} /\ L = T - B * Cardinality(N \ O)
      BY <1>4, <1>5
    <3>3. QED
      BY <2>3, <3>1, <3>2 DEF Level
  <2>5. Evened(N, w, sum, d, T, B, cap, even)
    <3>1. \A n \in O : Is(even[n], L * w[n], d * sum[O])
      BY <1>9, <1>13, <1>15
    <3>2. \A n \in N \ O : even[n] = cap
      BY <1>2, <1>5, <1>15
    <3>3. QED
      BY <2>4, <3>1, <3>2 DEF Evened
  <2>6. \A n \in D \ N : even[n] = Zero
    BY <1>4, <1>15
  <2>7. QED
    BY <1>3, <1>4, <2>2, <2>5, <2>6 DEF Filling
<1>17. CASE capped # {}
  <2>1. PICK after : after = [open |-> O \ capped, left |-> rest, targets |-> full]
    OBVIOUS
  <2>2. /\ FillRound(cap, weights, s) = after
        /\ after.open = O \ capped /\ after.left = rest /\ after.targets = full
    BY <1>3, <1>7, <1>17, <2>1
  <2>3. PICK K, k : K = capped /\ k = Cardinality(K)
    OBVIOUS
  <2>4. /\ k \in Nat /\ L - B * k \in Nat
        /\ O \ K # {} => /\ L - B * k > 0
                         /\ Reach(w, sum, B, O \ K, L - B * k, N \ (O \ K))
    <3>1. K \in SUBSET O /\ Reach(w, sum, B, O, L, K)
      BY <1>9, <1>14, <2>3 DEF Reach
    <3>2. O \in SUBSET N /\ L \in Nat \ {0} /\ Reach(w, sum, B, O, L, N \ O)
      BY <1>4, <1>5
    <3>3. IsFiniteSet(S) /\ w \in [S -> Int] /\ Adds(sum, S, w)
      BY <1>1
    <3>4. N \in SUBSET S /\ (\A n \in N : w[n] > 0) /\ k = Cardinality(K)
      BY <1>2, <2>3
    <3>6. Closing(S, w, sum, N, B, O, L, K)
      BY <3>1, <3>2, <3>3, <3>4 DEF Closing
    <3>5. \A j : j = Cardinality(K) =>
              /\ j \in Nat /\ L - B * j \in Nat
              /\ O \ K # {} => /\ L - B * j > 0
                               /\ Reach(w, sum, B, O \ K, L - B * j, N \ (O \ K))
      BY <3>6, CappedLeave
    <3>7. QED
      BY <2>3, <3>5
  <2>5. Is(rest, L - B * k, d)
    <3>1. Is(Whole(k), k, 1)
      BY <2>4, Constants DEF Whole, Is
    <3>2. Is(Times(Whole(k), cap), k * B, 1 * d)
      BY <3>1, TimesForms
    <3>3. k * B = B * k /\ 1 * d = d
      BY <1>1, <2>4
    <3>4. QED
      BY <1>5, <2>3, <3>2, <3>3, CommonForms DEF rest
  <2>6. L - B * k = T - B * Cardinality(N \ (O \ K))
    <3>1. PICK P : P = N \ (O \ K)
      OBVIOUS
    <3>2. P \ K = N \ O /\ K \in SUBSET P /\ IsFiniteSet(P)
      <4>1. P \ K = N \ O /\ K \in SUBSET P /\ P \in SUBSET S
        BY <1>2, <1>4, <1>14, <2>3, <3>1
      <4>2. QED
        BY <1>1, <4>1, FS_Subset
    <3>3. /\ Cardinality(P) = Cardinality(K) + Cardinality(P \ K)
          /\ Cardinality(P \ K) \in Nat
      BY <3>2, CountSplits
    <3>4. PICK r \in Nat : r = Cardinality(N \ O)
      BY <3>2, <3>3
    <3>5. Cardinality(P) = k + r
      BY <2>3, <3>2, <3>3, <3>4
    <3>6. B * (k + r) = B * k + B * r
      BY <2>4
    <3>7. B * k \in Int /\ B * r \in Int
      BY <2>4
    <3>8. QED
      BY <1>5, <3>1, <3>4, <3>5, <3>6, <3>7
  <2>7. \A n \in N \ (O \ K) : full[n] = cap
    BY <1>2, <1>5, <1>14, <1>15, <2>3
  <2>8. \A n \in D \ N : full[n] = Zero
    BY <1>4, <1>14, <1>15
  <2>9. Filling(N, w, sum, d, T, B, D, cap, after)
    <3>1. after.open = O \ K /\ after.left = rest /\ after.targets = full /\ O \ K \in SUBSET N
      BY <1>4, <2>2, <2>3
    <3>2. PICK R : R = L - B * k
      OBVIOUS
    <3>3. /\ R \in Nat /\ Is(after.left, R, d) /\ R = T - B * Cardinality(N \ after.open)
          /\ \A n \in N \ after.open : after.targets[n] = cap
          /\ after.open # {} => R > 0 /\ Reach(w, sum, B, after.open, R, N \ after.open)
      BY <2>4, <2>5, <2>6, <2>7, <3>1, <3>2
    <3>4. QED
      BY <2>8, <3>1, <3>3 DEF Filling
  <2>10. QED
    BY <1>3, <1>14, <1>17, <2>2, <2>9
<1>18. QED
  BY <1>16, <1>17

\* A positive total is poured out: the holdings with a weight are all at the cap, or at
\* a level.
LEMMA WaterFills ==
  ASSUME NEW S, NEW w, NEW sum, NEW D, NEW weights, NEW d, Weighed(S, w, sum, D, weights, d),
         NEW total, NEW T \in Nat \ {0}, Is(total, T, d),
         NEW config, config.max_position_pct \in Fraction,
         NEW cap, cap = Share(total, config.max_position_pct),
         NEW B \in Nat, Is(cap, B, d), NEW N, Backed(N, D, w),
         NEW targets, targets = ConvictionTargets(total, weights, config)
  PROVE  /\ targets \in [D -> Fraction] /\ \A n \in D \ N : targets[n] = Zero
         /\ \/ B * Cardinality(N) <= T /\ \A n \in N : targets[n] = cap
            \/ Evened(N, w, sum, d, T, B, cap, targets)
<1>1. /\ IsFiniteSet(S) /\ D \in SUBSET S /\ d \in Nat \ {0}
      /\ weights \in [D -> Fraction] /\ \A n \in D : Is(weights[n], w[n], d)
  BY DEF Weighed
<1>2. IsFiniteSet(D) /\ total \in Fraction /\ cap \in Fraction
  BY <1>1, FS_Subset DEF Is
<1>3. PICK fill : Rounds(fill, D, total, weights, cap) /\ targets = fill[Cardinality(D)].targets
  BY <1>1, <1>2, FillSteps
<1>4. PICK rounds \in Nat : rounds = Cardinality(D)
  BY <1>2, FS_CardinalityType
<1>5. \A k \in 0..rounds : /\ fill[k] \in Fills(D, weights)
                           /\ k # 0 => fill[k] = FillRound(cap, weights, fill[k - 1])
  BY <1>3, <1>4 DEF Rounds
<1>6. N \in SUBSET D /\ N = {n \in D : Positive(weights[n])}
  <2>1. \A n \in D : Positive(weights[n]) <=> w[n] > 0
    BY <1>1, PositiveForm
  <2>2. QED
    BY <2>1 DEF Backed
<1>7. fill[0].open = N /\ fill[0].left = total /\ \A n \in D : fill[0].targets[n] = Zero
  BY <1>3, <1>6 DEF Rounds
<1>8. Filling(N, w, sum, d, T, B, D, cap, fill[0])
  <2>1. PICK start : start = fill[0]
    OBVIOUS
  <2>2. N \ start.open = {} /\ start.open = N /\ start.left = total
    BY <1>7, <2>1
  <2>3. T = T - B * Cardinality(N \ start.open)
    <3>1. Cardinality(N \ start.open) = 0
      BY <2>2, FS_EmptySet
    <3>2. B * 0 = 0 /\ T - 0 = T
      OBVIOUS
    <3>3. QED
      BY <3>1, <3>2
  <2>4. Reach(w, sum, B, start.open, T, N \ start.open)
    BY <2>2 DEF Reach
  <2>5. T > 0 /\ T \in Nat /\ Is(start.left, T, d) /\ \A n \in N \ start.open : start.targets[n] = cap
    BY <2>2
  <2>6. \A n \in D \ N : start.targets[n] = Zero
    BY <1>7, <2>1
  <2>7. QED
    BY <2>1, <2>2, <2>3, <2>4, <2>5, <2>6 DEF Filling
<1> DEFINE Pours(k) == /\ Filling(N, w, sum, d, T, B, D, cap, fill[k])
                       /\ fill[k].open = {} \/ Cardinality(fill[k].open) + k <= rounds
           Bad == {k \in 0..rounds : ~Pours(k)}
<1>9. Pours(0)
  <2>1. Cardinality(N) \in Nat /\ Cardinality(N) <= Cardinality(D)
    BY <1>2, <1>6, FS_Subset, FS_CardinalityType
  <2>2. QED
    BY <1>4, <1>7, <1>8, <2>1
<1>10. ASSUME NEW k \in 0..rounds, k # 0, Pours(k - 1) PROVE Pours(k)
  <2>1. k - 1 \in 0..rounds /\ k \in Nat
    BY <1>10
  <2>2. PICK s, t : s = fill[k - 1] /\ t = fill[k]
    OBVIOUS
  <2>3. /\ s \in Fills(D, weights) /\ t = FillRound(cap, weights, s)
        /\ Filling(N, w, sum, d, T, B, D, cap, s)
        /\ s.open = {} \/ Cardinality(s.open) + (k - 1) <= rounds
    BY <1>5, <1>10, <2>1, <2>2
  <2>4. CASE s.open = {}
    <3>1. t = s
      BY <2>3, <2>4 DEF FillRound
    <3>2. QED
      BY <2>2, <2>3, <2>4, <3>1
  <2>5. CASE s.open # {}
    <3>0. /\ Filling(N, w, sum, d, T, B, D, cap, FillRound(cap, weights, s))
          /\ FillRound(cap, weights, s).open \in SUBSET s.open
          /\ FillRound(cap, weights, s).open # s.open
      <4>1. PICK c : c = cap
        OBVIOUS
      <4>2. /\ Weighed(S, w, sum, D, weights, d) /\ T \in Int /\ B \in Nat /\ Is(c, B, d)
            /\ Backed(N, D, w) /\ s \in Fills(D, weights) /\ s.open # {}
            /\ Filling(N, w, sum, d, T, B, D, c, s)
        BY <2>3, <2>5, <4>1
      <4>3. /\ Filling(N, w, sum, d, T, B, D, c, FillRound(c, weights, s))
            /\ FillRound(c, weights, s).open \in SUBSET s.open
            /\ FillRound(c, weights, s).open # s.open
        BY <4>2, RoundPours
      <4>4. QED
        BY <4>1, <4>3
    <3>1. /\ Filling(N, w, sum, d, T, B, D, cap, t)
          /\ t.open \in SUBSET s.open /\ t.open # s.open
      BY <2>3, <3>0
    <3>2. IsFiniteSet(s.open)
      <4>1. s.open \in SUBSET D
        BY <1>6, <2>3 DEF Filling
      <4>2. QED
        BY <1>2, <4>1, FS_Subset
    <3>3. Cardinality(t.open) < Cardinality(s.open)
      <4>1. PICK a, b : a = s.open /\ b = t.open
        OBVIOUS
      <4>2. IsFiniteSet(a) /\ b \in SUBSET a /\ a # b
        BY <3>1, <3>2, <4>1
      <4>3. Cardinality(b) <= Cardinality(a) /\ Cardinality(b) # Cardinality(a)
        BY <4>2, FS_Subset
      <4>4. Cardinality(a) \in Nat /\ Cardinality(b) \in Nat
        BY <4>2, FS_Subset, FS_CardinalityType
      <4>5. QED
        BY <4>1, <4>3, <4>4
    <3>4. Cardinality(t.open) \in Nat /\ Cardinality(s.open) \in Nat
      BY <3>1, <3>2, FS_Subset, FS_CardinalityType
    <3>5. Cardinality(t.open) + k <= rounds
      BY <2>1, <2>3, <2>5, <3>3, <3>4
    <3>6. QED
      BY <2>2, <3>1, <3>5
  <2>6. QED
    BY <2>4, <2>5
<1> HIDE DEF Pours
<1>11. Bad = {}
  <2>1. SUFFICES ASSUME Bad # {} PROVE FALSE
    OBVIOUS
  <2>2. Bad \in SUBSET Nat
    OBVIOUS
  <2>3. PICK m \in Bad : \A k \in Bad : m <= k
    <3> HIDE DEF Bad
    <3>1. QED
      BY <2>1, <2>2, LeastNumber
  <2>4. m # 0 /\ m \in 0..rounds
    BY <1>9, <2>3
  <2>5. m - 1 \in 0..rounds /\ ~(m <= m - 1)
    BY <1>4, <2>4
  <2>6. Pours(m - 1)
    BY <2>3, <2>5
  <2>7. QED
    BY <1>10, <2>3, <2>4, <2>6
<1>12. PICK s : s = fill[rounds]
  OBVIOUS
<1>13. /\ s \in Fills(D, weights) /\ Filling(N, w, sum, d, T, B, D, cap, s)
       /\ s.open = {} \/ Cardinality(s.open) + rounds <= rounds
  <2>1. rounds \in 0..rounds
    BY <1>4
  <2>2. QED
    BY <1>5, <1>11, <1>12, <2>1 DEF Pours
<1>14. s.open = {}
  <2>1. IsFiniteSet(s.open)
    <3>1. s.open \in SUBSET D
      BY <1>6, <1>13 DEF Filling
    <3>2. QED
      BY <1>2, <3>1, FS_Subset
  <2>2. Cardinality(s.open) \in Nat /\ (Cardinality(s.open) = 0 <=> s.open = {})
    BY <2>1, FS_CardinalityType, FS_EmptySet
  <2>3. QED
    BY <1>13, <2>2
<1>15. s.targets = targets /\ targets \in [D -> Fraction] /\ \A n \in D \ N : targets[n] = Zero
  BY <1>3, <1>4, <1>12, <1>13 DEF Fills, Filling
<1>16. CASE Evened(N, w, sum, d, T, B, cap, s.targets)
  BY <1>15, <1>16
<1>17. CASE ~Evened(N, w, sum, d, T, B, cap, s.targets)
  <2>1. N \ s.open = N
    BY <1>14
  <2>2. PICK L \in Nat : L = T - B * Cardinality(N) /\ \A n \in N : s.targets[n] = cap
    BY <1>13, <1>17, <2>1 DEF Filling
  <2>3. Cardinality(N) \in Nat
    BY <1>2, <1>6, FS_Subset, FS_CardinalityType
  <2>4. B * Cardinality(N) <= T
    BY <2>2, <2>3
  <2>5. QED
    BY <1>15, <2>2, <2>4
<1>18. QED
  BY <1>16, <1>17

\* Nothing is poured when there is nothing to pour.
LEMMA NothingFills ==
  ASSUME NEW D, IsFiniteSet(D), NEW weights \in [D -> Fraction], NEW total \in Fraction,
         ~Positive(total), NEW config, config.max_position_pct \in Fraction,
         NEW n \in D
  PROVE  ConvictionTargets(total, weights, config)[n] = Zero
<1>1. PICK cap : cap = Share(total, config.max_position_pct)
  OBVIOUS
<1>2. PICK fill : /\ Rounds(fill, D, total, weights, cap)
                  /\ ConvictionTargets(total, weights, config) = fill[Cardinality(D)].targets
  BY <1>1, FillSteps
<1>3. PICK rounds \in Nat : rounds = Cardinality(D)
  BY FS_CardinalityType
<1> DEFINE Bad == {k \in 0..rounds : ~(fill[k].left = total /\ fill[k].targets[n] = Zero)}
<1>4. Bad = {}
  <2>1. SUFFICES ASSUME Bad # {} PROVE FALSE
    OBVIOUS
  <2>2. Bad \in SUBSET Nat
    OBVIOUS
  <2>3. PICK m \in Bad : \A k \in Bad : m <= k
    <3> HIDE DEF Bad
    <3>1. QED
      BY <2>1, <2>2, LeastNumber
  <2>4. m # 0 /\ m \in 0..rounds
    BY <1>2, <2>3 DEF Rounds
  <2>5. m - 1 \in 0..rounds /\ ~(m <= m - 1)
    BY <1>3, <2>4
  <2>6. fill[m - 1].left = total /\ fill[m - 1].targets[n] = Zero
    BY <2>3, <2>5
  <2>7. fill[m] = fill[m - 1]
    <3>1. fill[m] = FillRound(cap, weights, fill[m - 1])
      BY <1>2, <1>3, <2>4 DEF Rounds
    <3>2. QED
      BY <2>6, <3>1 DEF FillRound
  <2>8. QED
    BY <2>3, <2>6, <2>7
<1>5. rounds \in 0..rounds
  BY <1>3
<1>6. QED
  BY <1>2, <1>3, <1>4, <1>5

\* What WaterFills says of the targets of the holdings N.
Poured(N, w, sum, d, T, B, cap, targets) ==
    \/ B * Cardinality(N) <= T /\ \A n \in N : targets[n] = cap
    \/ Evened(N, w, sum, d, T, B, cap, targets)

\* No target is over the cap.
LEMMA PouredCapped ==
  ASSUME NEW S, IsFiniteSet(S), NEW w \in [S -> Int], NEW sum, Adds(sum, S, w),
         NEW N \in SUBSET S, \A n \in N : w[n] > 0, NEW d \in Nat \ {0},
         NEW T \in Int, NEW B \in Nat, NEW cap, Is(cap, B, d), NEW targets,
         Poured(N, w, sum, d, T, B, cap, targets), NEW n \in N
  PROVE  Leq(targets[n], cap)
<1>1. Leq(cap, cap)
  BY LeqTotal DEF Is
<1>2. ASSUME NEW O, NEW L, Level(N, w, sum, B, T, O, L), n \in O,
             Is(targets[n], L * w[n], d * sum[O])
      PROVE  Leq(targets[n], cap)
  <2>1. /\ O \in SUBSET N /\ O # {} /\ O \in SUBSET S /\ L \in Nat \ {0}
        /\ L * w[n] < B * sum[O]
    BY <1>2 DEF Level
  <2>2. PICK s, v : s = sum[O] /\ v = w[n]
    OBVIOUS
  <2>3. s \in Nat \ {0} /\ v \in Nat \ {0}
    BY <2>1, <2>2, SumPositive
  <2>4. (L * v) * d <= B * (d * s)
    <3>1. L * v \in Int /\ B * s \in Int /\ L * v <= B * s
      BY <2>1, <2>2, <2>3
    <3>2. (L * v) * d <= (B * s) * d
      BY <3>1, CancelLeq
    <3>3. (B * s) * d = B * (d * s)
      BY <2>3
    <3>4. QED
      BY <3>2, <3>3
  <2>5. Is(targets[n], L * v, d * s)
    BY <1>2, <2>2
  <2>6. QED
    BY <2>4, <2>5, LeqForms
<1>3. CASE B * Cardinality(N) <= T /\ \A m \in N : targets[m] = cap
  BY <1>1, <1>3
<1>4. CASE Evened(N, w, sum, d, T, B, cap, targets)
  <2>1. PICK O, L : /\ Level(N, w, sum, B, T, O, L)
                    /\ \A m \in O : Is(targets[m], L * w[m], d * sum[O])
                    /\ \A m \in N \ O : targets[m] = cap
    BY <1>4 DEF Evened
  <2>2. QED
    BY <1>1, <1>2, <2>1
<1>5. QED
  BY <1>3, <1>4 DEF Poured

\* Poured over some of the holdings, a total raises their targets.
LEMMA PouredRises ==
  ASSUME NEW S, IsFiniteSet(S), NEW w \in [S -> Int], NEW sum, Adds(sum, S, w),
         NEW N \in SUBSET S, \A n \in N : w[n] > 0, NEW R \in SUBSET N, NEW d \in Nat \ {0},
         NEW T \in Int, NEW B \in Nat, NEW cap, Is(cap, B, d), NEW top, Is(top, B, d),
         NEW before, Poured(N, w, sum, d, T, B, cap, before),
         NEW after, Poured(R, w, sum, d, T, B, top, after), NEW n \in R
  PROVE  Leq(before[n], after[n])
<1>1. /\ Leq(cap, top) /\ cap \in Fraction /\ top \in Fraction
      /\ R \in SUBSET S /\ \A m \in R : w[m] > 0
  <2>1. Leq(cap, top)
    <3>1. B * d <= B * d
      OBVIOUS
    <3>2. QED
      BY <3>1, LeqForms
  <2>2. cap \in Fraction /\ top \in Fraction
    BY DEF Is
  <2>3. QED
    BY <2>1, <2>2
<1>2. Leq(before[n], cap)
  BY PouredCapped
<1>3. before[n] \in Fraction
  BY DEF Poured, Evened, Is
<1>4. CASE after[n] = top
  BY <1>1, <1>2, <1>3, <1>4, LeqTrans
<1>5. CASE after[n] # top
  <2>1. PICK P, K : /\ Level(R, w, sum, B, T, P, K)
                    /\ \A m \in P : Is(after[m], K * w[m], d * sum[P])
                    /\ \A m \in R \ P : after[m] = top
    BY <1>5 DEF Poured, Evened
  <2>2. n \in P
    BY <1>5, <2>1
  <2>3. T < B * Cardinality(R)
    BY <1>1, <2>1, LevelBelow
  <2>4. B * Cardinality(R) <= B * Cardinality(N)
    <3>1. PICK a, b : a = Cardinality(R) /\ b = Cardinality(N)
      OBVIOUS
    <3>2. IsFiniteSet(N)
      BY FS_Subset
    <3>3. a <= b /\ a \in Nat /\ b \in Nat
      BY <3>1, <3>2, FS_Subset, FS_CardinalityType
    <3>4. B * a <= B * b
      BY <3>3
    <3>5. QED
      BY <3>1, <3>4
  <2>5. B * Cardinality(R) \in Int /\ B * Cardinality(N) \in Int
    <3>1. Cardinality(R) \in Nat /\ Cardinality(N) \in Nat
      BY FS_Subset, FS_CardinalityType
    <3>2. QED
      BY <3>1
  <2>6. Evened(N, w, sum, d, T, B, cap, before)
    BY <2>3, <2>4, <2>5 DEF Poured
  <2>7. PICK O, L : /\ Level(N, w, sum, B, T, O, L)
                    /\ \A m \in O : Is(before[m], L * w[m], d * sum[O])
                    /\ \A m \in N \ O : before[m] = cap
    BY <2>6 DEF Evened
  <2>8. L * sum[P] <= K * sum[O]
    BY <2>1, <2>7, LevelRises
  <2>9. PICK s, p, v : s = sum[O] /\ p = sum[P] /\ v = w[n]
    OBVIOUS
  <2>10. /\ O \in SUBSET N /\ O # {} /\ L \in Nat \ {0} /\ O \in SUBSET S
         /\ P \in SUBSET R /\ P # {} /\ K \in Nat \ {0} /\ P \in SUBSET S
    BY <2>1, <2>7 DEF Level
  <2>11. s \in Nat \ {0} /\ p \in Nat \ {0} /\ v \in Nat \ {0}
    <3>1. \A m \in O : w[m] > 0
      BY <2>10
    <3>2. \A m \in P : w[m] > 0
      BY <1>1, <2>10
    <3>3. s \in Nat \ {0}
      BY <2>9, <2>10, <3>1, SumPositive
    <3>4. p \in Nat \ {0}
      BY <2>9, <2>10, <3>2, SumPositive
    <3>5. QED
      BY <1>1, <2>9, <3>3, <3>4
  <2>12. Is(after[n], K * v, d * p)
    BY <2>1, <2>2, <2>9
  <2>13. (L * v) * p <= (K * v) * s
    <3>1. L * p \in Int /\ K * s \in Int /\ L * p <= K * s
      BY <2>8, <2>9, <2>10, <2>11
    <3>2. (L * p) * v <= (K * s) * v
      BY <2>11, <3>1, CancelLeq
    <3>3. (L * p) * v = (L * v) * p /\ (K * s) * v = (K * v) * s
      BY <2>10, <2>11
    <3>4. QED
      BY <3>2, <3>3
  <2>14. L * v \in Int /\ K * v \in Int /\ d * s \in Nat \ {0} /\ d * p \in Nat \ {0}
    BY <2>10, <2>11, ProductPositive
  <2>15. CASE n \in O
    <3>1. Is(before[n], L * v, d * s)
      BY <2>7, <2>9, <2>15
    <3>2. (L * v) * (d * p) <= (K * v) * (d * s)
      <4>1. (L * v) * p \in Int /\ (K * v) * s \in Int
        BY <2>11, <2>14
      <4>2. ((L * v) * p) * d <= ((K * v) * s) * d
        BY <2>13, <4>1, CancelLeq
      <4>3. ((L * v) * p) * d = (L * v) * (d * p) /\ ((K * v) * s) * d = (K * v) * (d * s)
        BY <2>11, <2>14
      <4>4. QED
        BY <4>2, <4>3
    <3>3. QED
      BY <2>12, <3>1, <3>2, LeqForms
  <2>16. CASE n \notin O
    <3>1. before[n] = cap /\ B * s <= L * v
      BY <2>7, <2>9, <2>16 DEF Level
    <3>2. B * p <= K * v
      <4>1. (B * s) * p <= (L * v) * p
        <5>1. B * s \in Int
          BY <2>11
        <5>2. QED
          BY <2>11, <2>14, <3>1, <5>1, CancelLeq
      <4>2. (B * s) * p = (B * p) * s
        BY <2>11
      <4>3. (B * p) * s \in Int /\ (L * v) * p \in Int /\ (K * v) * s \in Int /\ B * p \in Int
        BY <2>11, <2>14
      <4>4. (B * p) * s <= (K * v) * s
        BY <2>13, <4>1, <4>2, <4>3
      <4>5. QED
        BY <2>11, <2>14, <4>3, <4>4, CancelLeq
    <3>3. B * (d * p) <= (K * v) * d
      <4>1. (B * p) * d <= (K * v) * d
        <5>1. B * p \in Int
          BY <2>11
        <5>2. QED
          BY <2>14, <3>2, <5>1, CancelLeq
      <4>2. (B * p) * d = B * (d * p)
        BY <2>11
      <4>3. QED
        BY <4>1, <4>2
    <3>4. QED
      BY <2>12, <3>1, <3>3, LeqForms
  <2>17. QED
    BY <2>15, <2>16
<1>6. QED
  BY <1>4, <1>5

\* The numerators of the weights of the holdings D, and those that have a weight.
LEMMA Weighs ==
  ASSUME NEW D, IsFiniteSet(D), NEW weights \in [D -> Fraction], NEW x \in Fraction,
         NEW y \in Fraction
  PROVE  \E d, w, sum, n, m : /\ Weighed(D, w, sum, D, weights, d)
                              /\ Is(x, n, d) /\ Is(y, m, d)
<1>1. PICK X : X = {weights[t] : t \in D} \cup {x, y}
  OBVIOUS
<1>2. X \in SUBSET Fraction /\ x \in X /\ y \in X /\ \A t \in D : weights[t] \in X
  BY <1>1
<1>3. IsFiniteSet(X)
  <2>1. IsFiniteSet({weights[t] : t \in D})
    <3>1. weights \in Surjection(D, {weights[t] : t \in D})
      BY DEF Surjection
    <3>2. QED
      BY <3>1, FS_Surjection
  <2>2. IsFiniteSet({x, y})
    <3>1. IsFiniteSet({})
      BY FS_EmptySet
    <3>2. IsFiniteSet({} \cup {x})
      BY <3>1, FS_AddElement
    <3>3. IsFiniteSet(({} \cup {x}) \cup {y})
      BY <3>2, FS_AddElement
    <3>4. ({} \cup {x}) \cup {y} = {x, y}
      OBVIOUS
    <3>5. QED
      BY <3>3, <3>4
  <2>3. QED
    BY <1>1, <2>1, <2>2, FS_Union
<1>4. PICK d \in Nat \ {0} : \E num \in [X -> Int] : \A a \in X : Is(a, num[a], d)
  BY <1>2, <1>3, CommonDenominator
<1>5. PICK num \in [X -> Int] : \A a \in X : Is(a, num[a], d)
  BY <1>4
<1> DEFINE v == [t \in D |-> num[weights[t]]]
<1>6. v \in [D -> Int] /\ \A t \in D : v[t] = num[weights[t]]
  BY <1>2
<1> HIDE DEF v
<1>7. PICK sum : Adds(sum, D, v)
  BY <1>6, SumExists
<1>8. \A t \in D : Is(weights[t], v[t], d)
  BY <1>2, <1>5, <1>6
<1>9. Weighed(D, v, sum, D, weights, d)
  BY <1>6, <1>7, <1>8 DEF Weighed
<1>10. QED
  BY <1>2, <1>5, <1>9

\* Shared among some of the holdings, the same total raises the targets of those.
LEMMA FewerShareMore ==
  ASSUME NEW D, IsFiniteSet(D), NEW weights \in [D -> Fraction],
         NEW H \in SUBSET D, NEW kept \in [H -> Fraction], \A t \in H : kept[t] = weights[t],
         NEW total \in Fraction, NEW rest \in Fraction, Same(total, rest),
         NEW config, config.max_position_pct \in Fraction, Leq(Zero, config.max_position_pct),
         NEW t \in H
  PROVE  Leq(ConvictionTargets(total, weights, config)[t], ConvictionTargets(rest, kept, config)[t])
<1>1. PICK before, after : /\ before = ConvictionTargets(total, weights, config)
                           /\ after = ConvictionTargets(rest, kept, config)
  OBVIOUS
<1>2. PICK cap, top : /\ cap = Share(total, config.max_position_pct)
                      /\ top = Share(rest, config.max_position_pct)
  OBVIOUS
<1>3. cap \in Fraction /\ top \in Fraction /\ IsFiniteSet(H)
  BY <1>2, Closed, FS_Subset DEF Share
<1>4. Leq(Zero, Zero)
  BY LeqTotal, Constants
<1>5. CASE ~Positive(total)
  <2>1. ~Positive(rest)
    <3>1. Leq(rest, total) /\ Leq(total, Zero) /\ Zero \in Fraction
      BY <1>5, LeqTotal, Constants
    <3>2. Leq(rest, Zero)
      BY <3>1, LeqTrans
    <3>3. QED
      BY <3>2, LeqTotal
  <2>2. before[t] = Zero
    BY <1>1, <1>5, NothingFills
  <2>3. after[t] = Zero
    BY <1>1, <1>3, <2>1, NothingFills
  <2>4. QED
    BY <1>1, <1>4, <2>2, <2>3
<1>6. CASE Positive(total)
  <2>1. PICK d, w, sum, T, B : Weighed(D, w, sum, D, weights, d) /\ Is(total, T, d) /\ Is(cap, B, d)
    BY <1>3, Weighs
  <2>2. d \in Nat \ {0} /\ T \in Int /\ B \in Int
    BY <2>1 DEF Is
  <2>3. T \in Nat \ {0}
    BY <1>6, <2>1, <2>2, PositiveForm
  <2>4. Is(rest, T, d) /\ Is(top, B, d)
    <3>1. PICK n, e : Is(config.max_position_pct, n, e)
      BY FractionParts
    <3>2. Is(rest, T, d)
      <4>1. Is(rest, rest[1], rest[2]) /\ rest[2] \in Nat \ {0} /\ rest[1] \in Int
        BY FractionParts
      <4>2. T * rest[2] = rest[1] * d
        BY <2>1, <4>1, LeqForms
      <4>3. QED
        BY <2>2, <4>1, <4>2 DEF Is
    <3>3. Is(cap, T * n, d * e) /\ Is(top, T * n, d * e)
      BY <1>2, <2>1, <3>1, <3>2, TimesForms DEF Share
    <3>4. Same(cap, top)
      BY <3>3, CommonForms
    <3>5. Is(top, top[1], top[2]) /\ top[2] \in Nat \ {0} /\ top[1] \in Int
      BY <1>3, FractionParts
    <3>6. B * top[2] = top[1] * d
      BY <2>1, <3>4, <3>5, LeqForms
    <3>7. QED
      BY <1>3, <2>2, <3>2, <3>5, <3>6 DEF Is
  <2>5. B \in Nat
    <3>1. Leq(Zero, cap)
      <4>1. Leq(Zero, total)
        BY <1>6, LeqTotal, Constants
      <4>2. Leq(Times(Zero, config.max_position_pct), Times(total, config.max_position_pct))
        BY <4>1, TimesLeq, Constants
      <4>3. Times(Zero, config.max_position_pct) \in Fraction
        BY Closed, Constants
      <4>4. Leq(Zero, Times(Zero, config.max_position_pct))
        <5>1. PICK n, e : Is(config.max_position_pct, n, e)
          BY FractionParts
        <5>2. Is(Zero, 0, 1) /\ n \in Int /\ e \in Nat \ {0}
          BY <5>1, Constants DEF Is, Zero, Whole
        <5>3. Is(Times(Zero, config.max_position_pct), 0 * n, 1 * e)
          BY <5>1, <5>2, TimesForms
        <5>4. 0 * (1 * e) <= (0 * n) * 1
          BY <5>2
        <5>5. QED
          BY <5>2, <5>3, <5>4, LeqForms
      <4>5. QED
        BY <1>2, <1>3, <4>2, <4>3, <4>4, LeqTrans, Constants DEF Share
    <3>2. Is(Zero, 0, 1)
      BY Constants DEF Is, Zero, Whole
    <3>3. 0 * d <= B * 1
      BY <2>1, <3>1, <3>2, LeqForms
    <3>4. QED
      BY <2>2, <3>3
  <2>6. /\ w \in [D -> Int] /\ Adds(sum, D, w) /\ \A s \in D : Is(weights[s], w[s], d)
    BY <2>1 DEF Weighed
  <2>7. Weighed(D, w, sum, H, kept, d)
    <3>1. \A s \in H : Is(kept[s], w[s], d)
      BY <2>6
    <3>2. QED
      BY <2>2, <2>6, <3>1 DEF Weighed
  <2>8. PICK N, R : Backed(N, D, w) /\ Backed(R, H, w)
    BY DEF Backed
  <2>9. /\ N \in SUBSET D /\ R \in SUBSET N /\ \A n \in N : w[n] > 0
        /\ t \in R <=> t \in N
    BY <2>8 DEF Backed
  <2>10. /\ \A n \in D \ N : before[n] = Zero
         /\ Poured(N, w, sum, d, T, B, cap, before)
    <3>1. Weighed(D, w, sum, D, weights, d) /\ Is(total, T, d) /\ Is(cap, B, d) /\ Backed(N, D, w)
      BY <2>1, <2>8
    <3>2. QED
      BY <1>1, <1>2, <2>3, <2>5, <3>1, WaterFills DEF Poured
  <2>11. /\ \A n \in H \ R : after[n] = Zero
         /\ Poured(R, w, sum, d, T, B, top, after)
    <3>1. Weighed(D, w, sum, H, kept, d) /\ Is(rest, T, d) /\ Is(top, B, d) /\ Backed(R, H, w)
      BY <2>4, <2>7, <2>8
    <3>2. QED
      BY <1>1, <1>2, <2>3, <2>5, <3>1, WaterFills DEF Poured
  <2>12. CASE t \in R
    <3>1. T \in Int
      BY <2>2
    <3>2. QED
      BY <1>1, <2>1, <2>2, <2>4, <2>5, <2>6, <2>9, <2>10, <2>11, <2>12, <3>1, PouredRises
  <2>13. CASE t \notin R
    <3>1. before[t] = Zero /\ after[t] = Zero
      BY <2>9, <2>10, <2>11, <2>13
    <3>2. QED
      BY <1>1, <1>4, <3>1
  <2>14. QED
    BY <2>12, <2>13
<1>7. QED
  BY <1>5, <1>6

-----------------------------------------------------------------------------
(* The targets of a book, and of what is left of it.                       *)

\* What is the same amount has the same forms.
LEMMA SameForm ==
  ASSUME NEW x, NEW n, NEW d, Is(x, n, d), NEW y \in Fraction, Same(x, y)
  PROVE  Is(y, n, d)
<1>1. Is(y, y[1], y[2]) /\ y[1] \in Int /\ y[2] \in Nat \ {0}
  BY FractionParts
<1>2. n * y[2] = y[1] * d
  BY <1>1, LeqForms
<1>3. n \in Int /\ d \in Nat \ {0}
  BY DEF Is
<1>4. QED
  BY <1>1, <1>2, <1>3 DEF Is

\* The parts of a book.
LEMMA BookParts ==
  ASSUME NEW b, TypedBook(b)
  PROVE  /\ b.cash \in Fraction /\ b.config.max_position_pct \in Fraction
         /\ b.config.min_move \in Fraction
         /\ b.config.conviction_full_confidence \in Fraction
         /\ b.config.conviction_min_weight \in Fraction
         /\ b.config.conviction_max_weight \in Fraction
         /\ b.config.min_research_confidence \in Fraction
         /\ Leq(Zero, b.config.max_position_pct)
         /\ b.config.target_positions \in Nat /\ b.config.default_precision \in Nat
         /\ IsFiniteSet(DOMAIN b.holdings)
         /\ \A t \in DOMAIN b.holdings : TypedHolding(b.holdings[t], b.config)
  BY DEF TypedBook

\* The parts of a holding.
LEMMA HoldingParts ==
  ASSUME NEW h, NEW config, TypedHolding(h, config)
  PROVE  /\ h.quantity \in Fraction /\ Positive(h.quantity)
         /\ h.price \in PositiveFraction /\ h.confidence \in Fraction \cup {None}
         /\ h.managed => (h.quantity[1] * Lots(config)) % h.quantity[2] = 0
         /\ h \in [managed : BOOLEAN, action : STRING, confidence : Fraction \cup {None},
                   stale : BOOLEAN, quantity : {h.quantity}, price : PositiveFraction]
  BY DEF TypedHolding

\* A holding's weight is an amount.
LEMMA HoldingWeightType ==
  ASSUME NEW b, TypedBook(b), NEW t \in DOMAIN b.holdings
  PROVE  HoldingWeight(b.config, b.holdings[t]) \in Fraction
<1>1. PICK h, c : h = b.holdings[t] /\ c = b.config
  OBVIOUS
<1>2. /\ c.conviction_full_confidence \in Fraction /\ c.min_research_confidence \in Fraction
      /\ c.conviction_min_weight \in Fraction /\ c.conviction_max_weight \in Fraction
      /\ h.confidence \in Fraction \cup {None}
  BY <1>1, BookParts, HoldingParts
<1>3. CASE h.confidence = None \/ h.action # "BUY"
  BY <1>1, <1>2, <1>3 DEF HoldingWeight
<1>4. CASE ~(h.confidence = None \/ h.action # "BUY")
  <2>1. h.confidence \in Fraction
    BY <1>2, <1>4
  <2>2. ConvictionWeight(c, h.confidence) \in Fraction
    BY <1>2, <2>1, ConvictionWeightType
  <2>3. QED
    BY <1>1, <1>4, <2>2 DEF HoldingWeight
<1>5. QED
  BY <1>3, <1>4

\* What is left of a book when some of its holdings are sold, for what they are worth.
Remains(a, b) ==
    /\ a.config = b.config /\ DOMAIN a.holdings \in SUBSET DOMAIN b.holdings
    /\ \A t \in DOMAIN a.holdings : /\ a.holdings[t].action = b.holdings[t].action
                                    /\ a.holdings[t].confidence = b.holdings[t].confidence
    /\ BookTotal(a) \in Fraction /\ BookTotal(b) \in Fraction /\ Same(BookTotal(b), BookTotal(a))

\* The target of a holding is the same share of the same amount.
LEMMA SameShare ==
  ASSUME NEW total \in Fraction, NEW rest \in Fraction, Same(total, rest),
         NEW n \in Nat \ {0}, NEW weight \in Fraction, NEW pct \in Fraction
  PROVE  LET X == Smaller(Times(Over(total, Whole(n)), weight), Share(total, pct))
             Y == Smaller(Times(Over(rest, Whole(n)), weight), Share(rest, pct))
         IN  X \in Fraction /\ Y \in Fraction /\ Leq(X, Y)
<1>1. PICK x, y, p, q : /\ x = Times(Over(total, Whole(n)), weight) /\ p = Share(total, pct)
                        /\ y = Times(Over(rest, Whole(n)), weight) /\ q = Share(rest, pct)
  OBVIOUS
<1>2. PICK k, e, m, f, i, g : Is(total, k, e) /\ Is(weight, m, f) /\ Is(pct, i, g)
  BY FractionParts
<1>3. Is(rest, k, e)
  BY <1>2, SameForm
<1>4. Is(Whole(n), n, 1) /\ n > 0
  BY Constants DEF Is, Whole
<1>5. Is(Over(total, Whole(n)), k * 1, e * n) /\ Is(Over(rest, Whole(n)), k * 1, e * n)
  BY <1>2, <1>3, <1>4, OverForms
<1>6. PICK u, v : Is(x, u, v) /\ Is(y, u, v)
  <2>1. Is(x, (k * 1) * m, (e * n) * f) /\ Is(y, (k * 1) * m, (e * n) * f)
    BY <1>1, <1>2, <1>5, TimesForms
  <2>2. QED
    BY <2>1
<1>7. PICK r, s : Is(p, r, s) /\ Is(q, r, s)
  <2>1. Is(p, k * i, e * g) /\ Is(q, k * i, e * g)
    BY <1>1, <1>2, <1>3, TimesForms DEF Share
  <2>2. QED
    BY <2>1
<1>8. (Leq(x, p) <=> Leq(y, q))
  BY <1>6, <1>7, LeqForms
<1>9. Leq(x, y) /\ Leq(p, q)
  <2>1. u * v <= u * v /\ r * s <= r * s
    BY <1>6, <1>7 DEF Is
  <2>2. QED
    BY <1>6, <1>7, <2>1, LeqForms
<1>10. x \in Fraction /\ y \in Fraction /\ p \in Fraction /\ q \in Fraction
  BY <1>6, <1>7 DEF Is
<1>11. /\ Smaller(x, p) \in Fraction /\ Smaller(y, q) \in Fraction
       /\ Leq(Smaller(x, p), Smaller(y, q))
  BY <1>8, <1>9, <1>10 DEF Smaller
<1>12. QED
  BY <1>1, <1>11

\* No target falls when others are sold down.
LEMMA TargetsRise ==
  ASSUME NEW b, TypedBook(b), NEW a, Remains(a, b), NEW t \in DOMAIN a.holdings
  PROVE  /\ BookTargets(b)[t] \in Fraction /\ BookTargets(a)[t] \in Fraction
         /\ Leq(BookTargets(b)[t], BookTargets(a)[t])
<1>1. PICK D, H, c : D = DOMAIN b.holdings /\ H = DOMAIN a.holdings /\ c = b.config
  OBVIOUS
<1>2. /\ IsFiniteSet(D) /\ H \in SUBSET D /\ t \in H /\ t \in D /\ a.config = c
      /\ \A s \in H : /\ a.holdings[s].action = b.holdings[s].action
                      /\ a.holdings[s].confidence = b.holdings[s].confidence
      /\ c.max_position_pct \in Fraction /\ Leq(Zero, c.max_position_pct)
      /\ c.target_positions \in Nat
  BY <1>1, BookParts DEF Remains
<1>3. PICK total, rest : total = BookTotal(b) /\ rest = BookTotal(a)
  OBVIOUS
<1>4. total \in Fraction /\ rest \in Fraction /\ Same(total, rest)
  BY <1>3 DEF Remains
<1>5. PICK weights, kept : weights = HoldingWeights(b) /\ kept = HoldingWeights(a)
  OBVIOUS
<1>6. /\ DOMAIN weights = D /\ DOMAIN kept = H /\ weights = [s \in D |-> weights[s]]
      /\ kept = [s \in H |-> kept[s]]
      /\ \A s \in D : weights[s] = HoldingWeight(c, b.holdings[s])
      /\ \A s \in H : kept[s] = HoldingWeight(c, a.holdings[s])
  BY <1>1, <1>2, <1>5 DEF HoldingWeights
<1>7. \A s \in D : weights[s] \in Fraction
  BY <1>1, <1>6, HoldingWeightType
<1>8. \A s \in H : kept[s] = weights[s]
  <2>1. \A s \in H : HoldingWeight(c, a.holdings[s]) = HoldingWeight(c, b.holdings[s])
    BY <1>2 DEF HoldingWeight
  <2>2. QED
    BY <1>2, <1>6, <2>1
<1>9. weights \in [D -> Fraction] /\ kept \in [H -> Fraction]
  BY <1>2, <1>6, <1>7, <1>8
<1>10. CASE c.target_positions = 0
  <2>1. /\ BookTargets(b) = ConvictionTargets(total, weights, c)
        /\ BookTargets(a) = ConvictionTargets(rest, kept, c)
    BY <1>1, <1>2, <1>3, <1>5, <1>10 DEF BookTargets, TargetsOf
  <2>2. Leq(ConvictionTargets(total, weights, c)[t], ConvictionTargets(rest, kept, c)[t])
    BY <1>2, <1>4, <1>8, <1>9, FewerShareMore
  <2>3. ConvictionTargets(total, weights, c) \in [D -> Fraction]
    BY <1>2, <1>4, <1>9, TargetsType
  <2>4. ConvictionTargets(rest, kept, c) \in [H -> Fraction]
    <3>1. IsFiniteSet(H)
      BY <1>2, FS_Subset
    <3>2. QED
      BY <1>2, <1>4, <1>9, <3>1, TargetsType
  <2>5. QED
    BY <1>2, <2>1, <2>2, <2>3, <2>4
<1>11. CASE c.target_positions # 0
  <2>1. /\ BookTargets(b)[t] = Smaller(Times(Over(total, Whole(c.target_positions)), weights[t]),
                                       Share(total, c.max_position_pct))
        /\ BookTargets(a)[t] = Smaller(Times(Over(rest, Whole(c.target_positions)), kept[t]),
                                       Share(rest, c.max_position_pct))
    BY <1>1, <1>2, <1>3, <1>5, <1>11 DEF BookTargets, TargetsOf
  <2>2. c.target_positions \in Nat \ {0} /\ weights[t] \in Fraction /\ kept[t] = weights[t]
    BY <1>2, <1>7, <1>8, <1>11
  <2>3. QED
    BY <1>2, <1>4, <2>1, <2>2, SameShare
<1>12. QED
  BY <1>10, <1>11

-----------------------------------------------------------------------------
(* The sale of a trim.                                                     *)

\* A quantity rounded down is within one step of what it was.
LEMMA RoundDownForm ==
  ASSUME NEW a, NEW n, NEW d, Is(a, n, d), NEW step \in Nat \ {0}
  PROVE  \E k \in Int : /\ RoundDown(a, step) = <<k, step>>
                        /\ k * d <= n * step /\ n * step < (k + 1) * d
<1>1. PICK x, y : x = a[1] /\ y = a[2]
  OBVIOUS
<1>2. x \in Int /\ y \in Nat \ {0} /\ n \in Int /\ d \in Nat \ {0} /\ x * d = n * y
  BY <1>1, FractionParts DEF Is
<1>3. PICK p, k : p = x * step /\ k = p \div y
  OBVIOUS
<1>4. p \in Int /\ k \in Int /\ k * y <= p /\ p < (k + 1) * y
  BY <1>2, <1>3
<1>5. p * d = (n * step) * y
  <2>1. (x * step) * d = (x * d) * step /\ (n * y) * step = (n * step) * y
    BY <1>2
  <2>2. QED
    BY <1>2, <1>3, <2>1
<1>6. k * d <= n * step
  <2>1. k * y \in Int /\ k * d \in Int /\ n * step \in Int
    BY <1>2, <1>4
  <2>2. (k * y) * d <= p * d
    BY <1>2, <1>4, <2>1, CancelLeq
  <2>3. (k * y) * d = (k * d) * y
    BY <1>2, <1>4
  <2>4. (k * d) * y <= (n * step) * y
    BY <1>5, <2>2, <2>3
  <2>5. QED
    BY <1>2, <2>1, <2>4, CancelLeq
<1>7. n * step < (k + 1) * d
  <2>1. PICK j \in Int : j = k + 1
    BY <1>4
  <2>2. j * y \in Int /\ j * d \in Int /\ n * step \in Int
    BY <1>2, <2>1
  <2>3. ~(j * y <= p)
    BY <1>4, <2>1, <2>2
  <2>4. ~((j * y) * d <= p * d)
    BY <1>2, <1>4, <2>2, <2>3, CancelLeq
  <2>5. (j * y) * d = (j * d) * y
    BY <1>2
  <2>6. ~((j * d) * y <= (n * step) * y)
    BY <1>5, <2>4, <2>5
  <2>7. ~(j * d <= n * step)
    BY <1>2, <2>2, <2>6, CancelLeq
  <2>8. QED
    BY <2>1, <2>2, <2>7
<1>8. QED
  BY <1>1, <1>3, <1>4, <1>6, <1>7 DEF RoundDown

\* There are lots to a share.
LEMMA LotsType ==
  ASSUME NEW config, config.default_precision \in Nat
  PROVE  Lots(config) \in Nat \ {0}
<1>1. TenTo[config.default_precision] \in Nat \ {0}
  BY TenToType
<1>2. QED
  BY <1>1 DEF Lots

\* The part of a holding that a trim of this fraction asks to sell.
Part(fraction) == IF Leq(FullExit, fraction) THEN One ELSE Smaller(One, fraction)

\* A trim sells whole lots, the most there are in the part it asks to sell.
LEMMA SaleForm ==
  ASSUME NEW b, NEW h, TypedHolding(h, b.config), b.config.default_precision \in Nat,
         NEW fraction \in Fraction, NEW raw, raw = Times(h.quantity, Part(fraction)),
         Positive(raw), NEW n, NEW d, Is(raw, n, d), NEW s, s = Lots(b.config)
  PROVE  \E k \in Int : /\ Is(SizeSell(Trim(b, h, fraction)).quantity, k, s)
                        /\ k * d <= n * s /\ n * s < (k + 1) * d
<1>1. PICK i : i = Trim(b, h, fraction)
  OBVIOUS
<1>2. /\ i.action = IF Leq(FullExit, fraction) THEN "SELL" ELSE "REDUCE"
      /\ i.reduce_fraction = IF Leq(FullExit, fraction) THEN None ELSE fraction
      /\ i.config = b.config /\ i.identity.precision = None /\ Available(i) = h.quantity
  <2>1. PICK stake : stake = [available |-> h.quantity, quantity |-> h.quantity, value |-> Worth(h)]
    OBVIOUS
  <2>2. stake \in PositionStates
    <3>1. h.quantity \in Fraction /\ h.price \in Fraction
      BY HoldingParts, PositiveParts
    <3>2. Worth(h) \in Fraction
      BY <3>1, Closed DEF Worth
    <3>3. QED
      BY <2>1, <3>1, <3>2 DEF PositionStates, Option
  <2>3. i.account = [currency |-> "USD", position |-> stake]
    BY <1>1, <2>1 DEF Trim
  <2>4. i.account \in [currency : {"USD"}, position : PositionStates]
    BY <2>2, <2>3
  <2>10. i.account.position = stake
    BY <2>3
  <2>5. i.account # None /\ stake # None
    BY <2>2, <2>4, HeldAssumption
  <2>6. Available(i) = h.quantity
    BY <2>1, <2>5, <2>10 DEF Available, Position
  <2>7. i.identity.precision = None /\ i.config = b.config
    BY <1>1 DEF Trim
  <2>8. /\ i.action = IF Leq(FullExit, fraction) THEN "SELL" ELSE "REDUCE"
        /\ i.reduce_fraction = IF Leq(FullExit, fraction) THEN None ELSE fraction
    BY <1>1 DEF Trim
  <2>9. QED
    BY <2>6, <2>7, <2>8
<1>3. s \in Nat \ {0} /\ raw \in Fraction /\ n \in Int /\ d \in Nat \ {0}
  BY LotsType DEF Is
<1>4. RoundQuantity(raw, i) = RoundDown(raw, s)
  BY <1>2 DEF RoundQuantity, Lots
<1>5. SizeSell(i).quantity = IF Positive(RoundQuantity(raw, i)) THEN RoundQuantity(raw, i) ELSE Zero
  <2>1. PICK share : share = IF i.action = "SELL" THEN One
                             ELSE Smaller(One, IF i.reduce_fraction = None
                                               THEN i.config.reduce_fraction ELSE i.reduce_fraction)
    OBVIOUS
  <2>2. share = Part(fraction)
    <3>1. fraction # None
      BY NoneAssumption
    <3>2. QED
      BY <1>2, <2>1, <3>1 DEF Part
  <2>3. Positive(Available(i)) /\ Times(Available(i), share) = raw
    BY <1>2, <2>2, HoldingParts
  <2>4. SizeSell(i) = Sized(i, RoundQuantity(Available(i), i), RoundQuantity(raw, i), TRUE)
    BY <2>1, <2>3 DEF SizeSell
  <2>5. QED
    BY <2>4 DEF Sized
<1>6. PICK k \in Int : /\ RoundDown(raw, s) = <<k, s>>
                       /\ k * d <= n * s /\ n * s < (k + 1) * d
  BY <1>3, RoundDownForm
<1>7. Is(<<k, s>>, k, s)
  BY <1>3 DEF Is, Fraction
<1>8. CASE k > 0
  BY <1>1, <1>4, <1>5, <1>6, <1>7, <1>8 DEF Positive
<1>9. CASE k <= 0
  <2>1. n > 0
    BY PositiveForm
  <2>2. n * s > 0 /\ n * s \in Int
    BY <1>3, <2>1, ProductPositive
  <2>3. ~((k + 1) * d <= 0 * d)
    BY <1>3, <1>6, <2>2
  <2>4. ~(k + 1 <= 0)
    BY <1>3, <2>3, CancelLeq
  <2>5. k = 0
    BY <1>9, <2>4
  <2>6. SizeSell(i).quantity = Zero
    BY <1>4, <1>5, <1>6, <2>5 DEF Positive
  <2>7. Is(Zero, 0, s)
    BY <1>3, Constants DEF Is, Zero, Whole
  <2>8. QED
    BY <1>1, <1>6, <2>5, <2>6, <2>7
<1>10. QED
  BY <1>8, <1>9

\* A sale of nearly everything leaves nothing.
LEMMA SaleEmpties ==
  ASSUME NEW b, NEW h, TypedHolding(h, b.config), h.managed, b.config.default_precision \in Nat,
         NEW fraction \in Fraction, Leq(FullExit, fraction),
         NEW sold, sold = SizeSell(Trim(b, h, fraction)).quantity
  PROVE  sold \in Fraction /\ Same(Minus(h.quantity, sold), Zero)
<1>1. PICK q, e, s : q = h.quantity[1] /\ e = h.quantity[2] /\ s = Lots(b.config)
  OBVIOUS
<1>2. /\ h.quantity \in Fraction /\ Is(h.quantity, q, e) /\ q \in Nat \ {0} /\ e \in Nat \ {0}
      /\ s \in Nat \ {0} /\ (q * s) % e = 0
  <2>1. h.quantity \in Fraction /\ Positive(h.quantity) /\ (q * s) % e = 0
    BY <1>1, HoldingParts
  <2>2. Is(h.quantity, q, e) /\ q \in Int /\ e \in Nat \ {0}
    BY <1>1, <2>1, FractionParts
  <2>3. q > 0
    BY <1>1, <2>1 DEF Positive
  <2>4. QED
    BY <1>1, <2>1, <2>2, <2>3, LotsType
<1>3. PICK raw : raw = Times(h.quantity, Part(fraction))
  OBVIOUS
<1>4. Is(raw, q, e)
  <2>1. Is(One, 1, 1) /\ Part(fraction) = One
    BY Constants DEF Is, One, Whole, Part
  <2>2. Is(raw, q * 1, e * 1)
    BY <1>2, <1>3, <2>1, TimesForms
  <2>3. q * 1 = q /\ e * 1 = e
    BY <1>2
  <2>4. QED
    BY <2>2, <2>3
<1>5. Positive(raw)
  BY <1>2, <1>4, PositiveForm
<1>6. PICK k \in Int : Is(sold, k, s) /\ k * e <= q * s /\ q * s < (k + 1) * e
  BY <1>1, <1>3, <1>4, <1>5, SaleForm
<1>7. q * s = k * e
  <2>1. PICK x \in Nat : x = q * s
    BY <1>2
  <2>2. PICK m \in Int : m = x \div e
    BY <1>2, <2>1, Division
  <2>3. x = m * e
    <3>1. x = e * m + (x % e)
      BY <1>2, <2>1, <2>2, Division
    <3>2. x % e = 0
      BY <1>2, <2>1
    <3>3. e * m = m * e /\ e * m \in Int
      BY <1>2
    <3>4. QED
      BY <3>1, <3>2, <3>3
  <2>4. k <= m
    BY <1>2, <1>6, <2>1, <2>3, CancelLeq
  <2>5. ~((k + 1) * e <= m * e)
    <3>1. (k + 1) * e \in Int /\ m * e \in Int
      BY <1>2
    <3>2. QED
      BY <1>6, <2>1, <2>3, <3>1
  <2>6. ~(k + 1 <= m)
    <3>1. k + 1 \in Int
      OBVIOUS
    <3>2. QED
      BY <1>2, <2>5, <3>1, CancelLeq
  <2>7. k = m
    BY <2>4, <2>6
  <2>8. QED
    BY <2>1, <2>3, <2>7
<1>8. Is(Minus(h.quantity, sold), q * s - k * e, e * s)
  BY <1>2, <1>6, MinusForms
<1>9. q * s - k * e = 0
  BY <1>2, <1>7
<1>10. Is(Minus(h.quantity, sold), 0, e * s) /\ Is(Zero, 0, 1)
  BY <1>8, <1>9, Constants DEF Is, Zero, Whole
<1>11. 0 * 1 = 0 * (e * s)
  BY <1>2
<1>12. Same(Minus(h.quantity, sold), Zero)
  BY <1>10, <1>11, LeqForms
<1>13. sold \in Fraction
  BY <1>6 DEF Is
<1>14. QED
  BY <1>12, <1>13

\* A sale of less leaves the holding at its target, or above it by less than a lot.
LEMMA SaleTrims ==
  ASSUME NEW b, NEW h, TypedHolding(h, b.config), b.config.default_precision \in Nat,
         NEW target \in Fraction, Less(target, Worth(h)),
         NEW fraction, fraction = TrimFraction(h, target), ~Leq(FullExit, fraction),
         NEW sold, sold = SizeSell(Trim(b, h, fraction)).quantity,
         NEW left, left = Minus(h.quantity, sold)
  PROVE  /\ sold \in Fraction /\ left \in Fraction /\ Positive(left)
         /\ Leq(target, Times(left, h.price))
         /\ Less(Times(left, h.price), Plus(target, Lot(b, h)))
<1>1. PICK q, e, p, g, y, z, s : /\ q = h.quantity[1] /\ e = h.quantity[2]
                                 /\ p = h.price[1] /\ g = h.price[2]
                                 /\ y = target[1] /\ z = target[2] /\ s = Lots(b.config)
  OBVIOUS
<1>2. /\ h.quantity \in Fraction /\ Is(h.quantity, q, e) /\ q \in Nat \ {0} /\ e \in Nat \ {0}
      /\ h.price \in Fraction /\ Is(h.price, p, g) /\ p \in Nat \ {0} /\ g \in Nat \ {0}
      /\ Is(target, y, z) /\ y \in Int /\ z \in Nat \ {0} /\ s \in Nat \ {0}
  <2>1. /\ h.quantity \in Fraction /\ Positive(h.quantity)
        /\ h.price \in Fraction /\ Positive(h.price)
    BY HoldingParts, PositiveParts
  <2>2. Is(h.quantity, q, e) /\ q \in Int /\ e \in Nat \ {0}
    BY <1>1, <2>1, FractionParts
  <2>3. Is(h.price, p, g) /\ p \in Int /\ g \in Nat \ {0}
    BY <1>1, <2>1, FractionParts
  <2>4. Is(target, y, z) /\ y \in Int /\ z \in Nat \ {0}
    BY <1>1, FractionParts
  <2>5. q > 0 /\ p > 0
    BY <1>1, <2>1 DEF Positive
  <2>6. QED
    BY <1>1, <2>1, <2>2, <2>3, <2>4, <2>5, LotsType
<1>3. PICK worth, gap : worth = Worth(h) /\ gap = Minus(worth, target)
  OBVIOUS
<1>4. /\ Is(worth, q * p, e * g) /\ q * p \in Nat \ {0} /\ e * g \in Nat \ {0}
      /\ worth \in Fraction /\ Positive(worth)
  <2>1. Is(worth, q * p, e * g)
    BY <1>2, <1>3, TimesForms DEF Worth
  <2>2. q * p \in Nat \ {0} /\ e * g \in Nat \ {0}
    BY <1>2, ProductPositive
  <2>3. Positive(worth)
    BY <2>1, <2>2, PositiveForm
  <2>4. QED
    BY <2>1, <2>2, <2>3 DEF Is
<1>5. PICK u, v : u = (q * p) * z - y * (e * g) /\ v = (e * g) * z
  OBVIOUS
<1>6. Is(gap, u, v) /\ u \in Int /\ v \in Nat \ {0} /\ gap \in Fraction
  <2>1. Is(gap, u, v)
    BY <1>2, <1>3, <1>4, <1>5, MinusForms
  <2>2. QED
    BY <2>1 DEF Is
<1>7. u > 0
  <2>1. ~((q * p) * z <= y * (e * g))
    BY <1>2, <1>3, <1>4, LeqForms DEF Less
  <2>2. (q * p) * z \in Int /\ y * (e * g) \in Int
    BY <1>2
  <2>3. QED
    BY <1>5, <2>1, <2>2
<1>8. PICK slice : slice = Over(gap, worth)
  OBVIOUS
<1>9. slice \in Fraction /\ fraction = Smaller(One, slice)
  BY <1>3, <1>4, <1>6, <1>8, Closed DEF TrimFraction
<1>10. ~Leq(One, slice) /\ fraction = slice
  <2>1. Leq(FullExit, One)
    BY DEF FullExit, Percent, One, Whole, Leq
  <2>2. QED
    BY <1>9, <2>1 DEF Smaller
<1>11. Part(fraction) = slice
  BY <1>10 DEF Part, Smaller
<1>12. PICK raw : raw = Times(h.quantity, slice)
  OBVIOUS
<1>13. Is(raw, u, (e * z) * p)
  <2>1. Is(slice, u * (e * g), v * (q * p))
    BY <1>4, <1>6, <1>8, OverForms
  <2>2. Is(raw, q * (u * (e * g)), e * (v * (q * p)))
    BY <1>2, <1>12, <2>1, TimesForms
  <2>3. PICK f \in Nat \ {0} : f = (q * e) * g
    <3>1. q * e \in Nat \ {0}
      BY <1>2, ProductPositive
    <3>2. (q * e) * g \in Nat \ {0}
      BY <1>2, <3>1, ProductPositive
    <3>3. QED
      BY <3>2
  <2>4. q * (u * (e * g)) = u * f
    BY <1>2, <1>6, <2>3
  <2>5. e * (v * (q * p)) = ((e * z) * p) * f
    BY <1>2, <1>5, <2>3
  <2>6. (e * z) * p \in Nat \ {0}
    <3>1. e * z \in Nat \ {0}
      BY <1>2, ProductPositive
    <3>2. QED
      BY <1>2, <3>1, ProductPositive
  <2>7. QED
    BY <1>6, <2>2, <2>3, <2>4, <2>5, <2>6, Reduced
<1>14. Positive(raw)
  BY <1>7, <1>13, PositiveForm
<1>15. PICK d : d = (e * z) * p
  OBVIOUS
<1>16. d \in Nat \ {0} /\ Is(raw, u, d)
  BY <1>13, <1>15 DEF Is
<1>17. PICK k \in Int : Is(sold, k, s) /\ k * d <= u * s /\ u * s < (k + 1) * d
  BY <1>1, <1>9, <1>10, <1>11, <1>12, <1>14, <1>16, SaleForm
<1>18. sold \in Fraction /\ left \in Fraction
  BY <1>2, <1>17, Closed DEF Is
<1>19. PICK r \in Int : r = q * s - k * e
  BY <1>2
<1>20. /\ Is(left, r, e * s)
       /\ Is(Times(left, h.price), r * p, (e * s) * g)
  <2>1. Is(left, r, e * s)
    BY <1>2, <1>17, <1>19, MinusForms
  <2>2. QED
    BY <1>2, <2>1, TimesForms
<1>21. Leq(target, Times(left, h.price))
  <2>1. y * ((e * s) * g) <= (r * p) * z
    <3>1. (r * p) * z = ((q * p) * z) * s - k * d
      BY <1>2, <1>15, <1>19
    <3>2. u * s = ((q * p) * z) * s - y * ((e * s) * g)
      BY <1>2, <1>5
    <3>3. ((q * p) * z) * s \in Int /\ y * ((e * s) * g) \in Int /\ k * d \in Int
      BY <1>2, <1>16
    <3>4. QED
      BY <1>17, <3>1, <3>2, <3>3
  <2>2. QED
    BY <1>2, <1>20, <2>1, LeqForms
<1>22. Positive(left)
  <2>1. Positive(target)
    <3>1. ~Leq(worth, gap)
      <4>1. Leq(One, slice) <=> Leq(Times(One, worth), gap)
        BY <1>4, <1>6, <1>8, LeqOver, Constants
      <4>2. Is(One, 1, 1)
        BY Constants DEF Is, One, Whole
      <4>3. Is(Times(One, worth), 1 * (q * p), 1 * (e * g))
        BY <1>4, <4>2, TimesForms
      <4>4. 1 * (q * p) = q * p /\ 1 * (e * g) = e * g
        BY <1>4
      <4>5. Is(Times(One, worth), q * p, e * g)
        BY <4>3, <4>4
      <4>6. Leq(Times(One, worth), gap) <=> Leq(worth, gap)
        BY <1>4, <1>6, <4>5, LeqForms
      <4>7. QED
        BY <1>10, <4>1, <4>6
    <3>2. Leq(worth, gap) <=> Leq(Plus(target, worth), worth)
      BY <1>3, <1>4, LeqMinus
    <3>3. Is(Plus(target, worth), y * (e * g) + (q * p) * z, z * (e * g))
      BY <1>2, <1>4, PlusForms
    <3>4. ~((y * (e * g) + (q * p) * z) * (e * g) <= (q * p) * (z * (e * g)))
      BY <1>4, <3>1, <3>2, <3>3, LeqForms
    <3>5. (q * p) * (z * (e * g)) = ((q * p) * z) * (e * g)
      BY <1>2
    <3>6. ~(y * (e * g) + (q * p) * z <= (q * p) * z)
      <4>1. y * (e * g) + (q * p) * z \in Int /\ (q * p) * z \in Int
        BY <1>2
      <4>2. QED
        BY <1>4, <3>4, <3>5, <4>1, CancelLeq
    <3>7. ~(y * (e * g) <= 0 * (e * g))
      <4>1. y * (e * g) \in Int /\ (q * p) * z \in Int
        BY <1>2
      <4>2. QED
        BY <1>4, <3>6, <4>1
    <3>8. ~(y <= 0)
      BY <1>2, <1>4, <3>7, CancelLeq
    <3>9. QED
      BY <1>1, <1>2, <3>8 DEF Positive
  <2>2. Times(left, h.price) \in Fraction
    BY <1>20 DEF Is
  <2>3. Positive(Times(left, h.price))
    BY <1>21, <2>1, <2>2, PositiveLeq
  <2>4. r * p > 0
    BY <1>20, <2>3, PositiveForm
  <2>5. ~(r * p <= 0 * p)
    BY <1>2, <2>4
  <2>6. r > 0
    BY <1>2, <2>5, CancelLeq
  <2>7. QED
    BY <1>20, <2>6, PositiveForm
<1>23. Less(Times(left, h.price), Plus(target, Lot(b, h)))
  <2>1. Is(Whole(s), s, 1) /\ s > 0
    BY <1>2, Constants DEF Is, Whole
  <2>2. Is(Lot(b, h), p * 1, g * s)
    BY <1>1, <1>2, <2>1, OverForms DEF Lot
  <2>3. Is(Plus(target, Lot(b, h)), y * (g * s) + (p * 1) * z, z * (g * s))
    BY <1>2, <2>2, PlusForms
  <2>4. PICK m \in Int : m = y * (g * s) + p * z
    BY <1>2
  <2>5. Is(Plus(target, Lot(b, h)), m, z * (g * s))
    BY <1>2, <2>3, <2>4
  <2>6. PICK f \in Nat \ {0} : f = g * s
    <3>1. g * s \in Nat \ {0}
      BY <1>2, ProductPositive
    <3>2. QED
      BY <3>1
  <2>7. SUFFICES ASSUME m * ((e * s) * g) <= (r * p) * (z * (g * s)) PROVE FALSE
    BY <1>20, <2>5, LeqForms DEF Less
  <2>8. (m * e) * f <= ((r * p) * z) * f
    <3>1. m * ((e * s) * g) = (m * e) * f /\ (r * p) * (z * (g * s)) = ((r * p) * z) * f
      BY <1>2, <2>6
    <3>2. QED
      BY <2>7, <3>1
  <2>9. m * e <= (r * p) * z
    <3>1. m * e \in Int /\ (r * p) * z \in Int
      BY <1>2
    <3>2. QED
      BY <2>6, <2>8, <3>1, CancelLeq
  <2>10. (r * p) * z = ((q * p) * z) * s - k * d
    BY <1>2, <1>15, <1>19
  <2>11. m * e = (y * (e * g)) * s + d
    BY <1>2, <1>15, <2>4
  <2>12. u * s = ((q * p) * z) * s - (y * (e * g)) * s
    BY <1>2, <1>5
  <2>13. (k + 1) * d = k * d + d
    BY <1>16
  <2>14. /\ ((q * p) * z) * s \in Int /\ (y * (e * g)) * s \in Int
         /\ k * d \in Int /\ d \in Int /\ u * s \in Int
    BY <1>2, <1>6, <1>16
  <2>15. QED
    BY <1>17, <2>9, <2>10, <2>11, <2>12, <2>13, <2>14
<1>24. QED
  BY <1>18, <1>21, <1>22, <1>23

-----------------------------------------------------------------------------
(* The total of a book after a trim.                                       *)

\* The sum of sums.
LEMMA SumPlus ==
  ASSUME NEW S, IsFiniteSet(S), NEW f \in [S -> Int], NEW g \in [S -> Int], NEW h \in [S -> Int],
         NEW one, NEW other, NEW both, Adds(one, S, f), Adds(other, S, g), Adds(both, S, h),
         \A x \in S : h[x] = f[x] + g[x]
  PROVE  both[S] = one[S] + other[S]
<1> DEFINE joint == [s \in SUBSET S |-> one[s] + other[s]]
<1>1. /\ \A s \in SUBSET S : one[s] \in Int /\ other[s] \in Int
      /\ \A x \in S : f[x] \in Int /\ g[x] \in Int
  BY DEF Adds
<1>2. joint \in [SUBSET S -> Int] /\ \A s \in SUBSET S : joint[s] = one[s] + other[s]
  BY <1>1
<1> HIDE DEF joint
<1>3. joint[{}] = 0
  <2>1. PICK e \in SUBSET S : e = {}
    OBVIOUS
  <2>2. one[e] = 0 /\ other[e] = 0 /\ joint[e] = one[e] + other[e]
    BY <1>2, <2>1 DEF Adds
  <2>3. QED
    BY <2>1, <2>2
<1>4. ASSUME NEW s \in SUBSET S, NEW x \in s PROVE joint[s] = h[x] + joint[s \ {x}]
  <2>1. PICK r \in SUBSET S : r = s \ {x}
    OBVIOUS
  <2>2. one[s] = f[x] + one[r] /\ other[s] = g[x] + other[r]
    BY <2>1 DEF Adds
  <2>3. h[x] = f[x] + g[x] /\ joint[s] = one[s] + other[s] /\ joint[r] = one[r] + other[r]
    BY <1>2
  <2>4. /\ f[x] \in Int /\ g[x] \in Int /\ one[r] \in Int /\ other[r] \in Int
    BY <1>1
  <2>5. QED
    BY <2>1, <2>2, <2>3, <2>4
<1>5. Adds(joint, S, h)
  BY <1>2, <1>3, <1>4 DEF Adds
<1>6. both[S] = joint[S]
  BY <1>5, SumSame
<1>7. QED
  BY <1>2, <1>6

\* Two families of amounts have a denominator in common.
LEMMA CommonNumerators ==
  ASSUME NEW D, IsFiniteSet(D), NEW f \in [D -> Fraction], NEW g \in [D -> Fraction],
         NEW x \in Fraction
  PROVE  \E d \in Nat \ {0} : \E v \in [D -> Int], w \in [D -> Int] :
             /\ \A t \in D : Is(f[t], v[t], d) /\ Is(g[t], w[t], d)
             /\ \E n \in Int : Is(x, n, d)
<1>1. PICK F, G : F = {f[t] : t \in D} /\ G = {g[t] : t \in D}
  OBVIOUS
<1>2. IsFiniteSet(F)
  <2>1. f \in Surjection(D, F)
    BY <1>1 DEF Surjection
  <2>2. QED
    BY <2>1, FS_Surjection
<1>3. IsFiniteSet(G)
  <2>1. g \in Surjection(D, G)
    BY <1>1 DEF Surjection
  <2>2. QED
    BY <2>1, FS_Surjection
<1>4. PICK X : X = (F \cup G) \cup {x}
  OBVIOUS
<1>5. IsFiniteSet(X)
  <2>1. IsFiniteSet(F \cup G)
    BY <1>2, <1>3, FS_Union
  <2>2. QED
    BY <1>4, <2>1, FS_AddElement
<1>6. X \in SUBSET Fraction /\ x \in X /\ \A t \in D : f[t] \in X /\ g[t] \in X
  BY <1>1, <1>4
<1>7. PICK d \in Nat \ {0} : \E num \in [X -> Int] : \A a \in X : Is(a, num[a], d)
  BY <1>5, <1>6, CommonDenominator
<1>8. PICK num \in [X -> Int] : \A a \in X : Is(a, num[a], d)
  BY <1>7
<1> DEFINE v == [t \in D |-> num[f[t]]]
           w == [t \in D |-> num[g[t]]]
<1>9. v \in [D -> Int] /\ w \in [D -> Int]
  BY <1>6
<1>10. \A t \in D : Is(f[t], v[t], d) /\ Is(g[t], w[t], d)
  BY <1>6, <1>8
<1>11. num[x] \in Int /\ Is(x, num[x], d)
  BY <1>6, <1>8
<1> HIDE DEF v, w
<1>12. QED
  BY <1>9, <1>10, <1>11

\* What is left is worth what it was less what was sold.
LEMMA LeftWorth ==
  ASSUME NEW q \in Fraction, NEW s \in Fraction, NEW p \in Fraction, NEW n, NEW m, NEW d,
         Is(Times(q, p), n, d), Is(Times(s, p), m, d)
  PROVE  Is(Times(Minus(q, s), p), n - m, d)
<1>1. PICK a, e, b, f, c, g : Is(q, a, e) /\ Is(s, b, f) /\ Is(p, c, g)
  BY FractionParts
<1>2. /\ a \in Int /\ e \in Nat \ {0} /\ b \in Int /\ f \in Nat \ {0} /\ c \in Int /\ g \in Nat \ {0}
  BY <1>1 DEF Is
<1>3. Is(Minus(q, s), a * f - b * e, e * f)
  BY <1>1, MinusForms
<1>4. Is(Times(Minus(q, s), p), (a * f - b * e) * c, (e * f) * g)
  BY <1>1, <1>3, TimesForms
<1>5. Is(Times(q, p), a * c, e * g) /\ Is(Times(s, p), b * c, f * g)
  BY <1>1, TimesForms
<1>6. Is(Minus(Times(q, p), Times(s, p)), (a * c) * (f * g) - (b * c) * (e * g), (e * g) * (f * g))
  BY <1>5, MinusForms
<1>7. /\ (a * c) * (f * g) - (b * c) * (e * g) = ((a * f - b * e) * c) * g
      /\ (e * g) * (f * g) = ((e * f) * g) * g
  BY <1>2
<1>8. (a * f - b * e) * c \in Int /\ (e * f) * g \in Nat \ {0}
  BY <1>4 DEF Is
<1>9. Is(Minus(Times(q, p), Times(s, p)), (a * f - b * e) * c, (e * f) * g)
  BY <1>2, <1>6, <1>7, <1>8, Reduced
<1>10. Same(Minus(Times(q, p), Times(s, p)), Times(Minus(q, s), p))
  <2>1. PICK k, l : k = (a * f - b * e) * c /\ l = (e * f) * g
    OBVIOUS
  <2>2. Is(Times(Minus(q, s), p), k, l) /\ Is(Minus(Times(q, p), Times(s, p)), k, l)
    BY <1>4, <1>9, <2>1
  <2>3. k * l = k * l
    OBVIOUS
  <2>4. QED
    BY <2>2, <2>3, LeqForms
<1>11. Is(Minus(Times(q, p), Times(s, p)), n - m, d)
  BY CommonForms
<1>12. Times(Minus(q, s), p) \in Fraction
  BY <1>4 DEF Is
<1>13. QED
  BY <1>10, <1>11, <1>12, SameForm

\* What a sale leaves of a holding.
LeftOf(b, sold, t) ==
    IF t \in DOMAIN sold THEN Minus(b.holdings[t].quantity, sold[t]) ELSE b.holdings[t].quantity

\* What adds nothing is left out of a sum.
LEMMA SumRest ==
  ASSUME NEW S, IsFiniteSet(S), NEW f \in [S -> Int], NEW sum, Adds(sum, S, f),
         NEW A \in SUBSET S, \A x \in S \ A : f[x] = 0
  PROVE  sum[S] = sum[A] /\ sum[A] \in Int
<1>1. S \in SUBSET S /\ S \ A \in SUBSET S
  OBVIOUS
<1>2. sum[S] = sum[A] + sum[S \ A]
  <2>1. \A T \in SUBSET S : A \in SUBSET T => sum[T] = sum[A] + sum[T \ A]
    <3>1. ASSUME NEW T \in SUBSET S, A \in SUBSET T
          PROVE  sum[T] = sum[A] + sum[T \ A]
      BY <3>1, SumSplits
    <3>2. QED
      BY <3>1
  <2>2. QED
    BY <1>1, <2>1
<1>3. sum[S \ A] = 0 * Cardinality(S \ A) /\ Cardinality(S \ A) \in Nat
  BY <1>1, SumConstant
<1>4. sum[A] \in Int
  BY DEF Adds
<1>5. QED
  BY <1>2, <1>3, <1>4

\* The holdings after a sale.
KeptHoldings(a, b, sold) ==
    /\ DOMAIN a.holdings = {t \in DOMAIN b.holdings : Positive(LeftOf(b, sold, t))}
    /\ \A t \in DOMAIN a.holdings :
           /\ a.holdings[t].quantity = LeftOf(b, sold, t)
           /\ a.holdings[t].price = b.holdings[t].price
           /\ a.holdings[t].managed = b.holdings[t].managed
           /\ a.holdings[t].action = b.holdings[t].action
           /\ a.holdings[t].confidence = b.holdings[t].confidence
           /\ a.holdings[t].stale = b.holdings[t].stale

\* The book after a sale.
LEMMA FilledIs ==
  ASSUME NEW b, TypedBook(b), NEW sold, DOMAIN sold \in SUBSET DOMAIN b.holdings,
         NEW a, a = Filled(b, sold)
  PROVE  /\ a.config = b.config
         /\ a.cash = Plus(b.cash, TotalOf([t \in DOMAIN sold |->
                                              Times(sold[t], b.holdings[t].price)]))
         /\ KeptHoldings(a, b, sold)
<1>1. PICK gain, kept : /\ gain = Plus(b.cash, TotalOf([t \in DOMAIN sold |->
                                                          Times(sold[t], b.holdings[t].price)]))
                        /\ kept = [t \in {s \in DOMAIN b.holdings : Positive(LeftOf(b, sold, s))} |->
                                      [b.holdings[t] EXCEPT !.quantity = LeftOf(b, sold, t)]]
  OBVIOUS
<1>2. a = [b EXCEPT !.cash = gain, !.holdings = kept]
  BY <1>1 DEF Filled, LeftOf
<1>3. b \in [cash : Fraction, config : {b.config}, holdings : {b.holdings}]
  BY DEF TypedBook
<1>4. a.config = b.config /\ a.cash = gain /\ a.holdings = kept
  BY <1>2, <1>3
<1>5. DOMAIN kept = {t \in DOMAIN b.holdings : Positive(LeftOf(b, sold, t))}
  BY <1>1
<1>6. ASSUME NEW t \in DOMAIN kept
      PROVE  /\ kept[t].quantity = LeftOf(b, sold, t)
             /\ kept[t].price = b.holdings[t].price
             /\ kept[t].managed = b.holdings[t].managed
             /\ kept[t].action = b.holdings[t].action
             /\ kept[t].confidence = b.holdings[t].confidence
             /\ kept[t].stale = b.holdings[t].stale
  <2>1. PICK h : h = b.holdings[t]
    OBVIOUS
  <2>2. h \in [managed : BOOLEAN, action : STRING, confidence : Fraction \cup {None},
               stale : BOOLEAN, quantity : {h.quantity}, price : PositiveFraction]
    <3>1. TypedHolding(h, b.config)
      BY <1>5, <2>1, BookParts
    <3>2. QED
      BY <3>1, HoldingParts
  <2>3. kept[t] = [h EXCEPT !.quantity = LeftOf(b, sold, t)]
    BY <1>1, <1>5, <2>1
  <2>4. QED
    BY <2>1, <2>2, <2>3
<1>7. KeptHoldings(a, b, sold)
  BY <1>4, <1>5, <1>6 DEF KeptHoldings
<1>8. QED
  BY <1>1, <1>4, <1>7

\* A book sold down at the mark is worth what it was.
LEMMA TotalKept ==
  ASSUME NEW b, TypedBook(b), NEW sold, DOMAIN sold \in SUBSET DOMAIN b.holdings,
         \A t \in DOMAIN sold : /\ sold[t] \in Fraction
                                /\ Positive(LeftOf(b, sold, t)) \/ Same(LeftOf(b, sold, t), Zero),
         NEW a, a = Filled(b, sold)
  PROVE  /\ BookTotal(a) \in Fraction /\ BookTotal(b) \in Fraction
         /\ Same(BookTotal(b), BookTotal(a))
<1>1. PICK D, R, H : D = DOMAIN b.holdings /\ R = DOMAIN sold /\ H = DOMAIN a.holdings
  OBVIOUS
<1>2. /\ IsFiniteSet(D) /\ R \in SUBSET D /\ b.cash \in Fraction
      /\ H \in SUBSET D /\ \A t \in D : t \in H <=> Positive(LeftOf(b, sold, t))
      /\ \A t \in H : /\ a.holdings[t].quantity = LeftOf(b, sold, t)
                      /\ a.holdings[t].price = b.holdings[t].price
  <2>1. IsFiniteSet(D) /\ R \in SUBSET D /\ b.cash \in Fraction
    BY <1>1, BookParts
  <2>0. KeptHoldings(a, b, sold)
    BY FilledIs
  <2>2. H = {t \in D : Positive(LeftOf(b, sold, t))}
    BY <1>1, <2>0 DEF KeptHoldings
  <2>3. \A t \in H : /\ a.holdings[t].quantity = LeftOf(b, sold, t)
                     /\ a.holdings[t].price = b.holdings[t].price
    BY <1>1, <2>0 DEF KeptHoldings
  <2>4. QED
    BY <2>1, <2>2, <2>3
<1>3. \A t \in D : /\ b.holdings[t].quantity \in Fraction /\ Positive(b.holdings[t].quantity)
                   /\ b.holdings[t].price \in Fraction
  <2>1. ASSUME NEW t \in D
        PROVE  /\ b.holdings[t].quantity \in Fraction /\ Positive(b.holdings[t].quantity)
               /\ b.holdings[t].price \in Fraction
    <3>1. PICK h : h = b.holdings[t]
      OBVIOUS
    <3>2. TypedHolding(h, b.config)
      BY <1>1, <3>1, BookParts
    <3>3. h.quantity \in Fraction /\ Positive(h.quantity) /\ h.price \in Fraction
      BY <3>2, HoldingParts, PositiveParts
    <3>4. QED
      BY <3>1, <3>3
  <2>2. QED
    BY <2>1
<1> DEFINE worth == [t \in D |-> Worth(b.holdings[t])]
           proceeds == [t \in D |-> IF t \in R THEN Times(sold[t], b.holdings[t].price) ELSE Zero]
           gains == [t \in R |-> Times(sold[t], b.holdings[t].price)]
           rest == [t \in H |-> Worth(a.holdings[t])]
<1>4. worth \in [D -> Fraction]
  <2>1. \A t \in D : Worth(b.holdings[t]) \in Fraction
    BY <1>3, Closed DEF Worth
  <2>2. QED
    BY <2>1
<1>5. \A t \in R : Times(sold[t], b.holdings[t].price) \in Fraction
  BY <1>1, <1>2, <1>3, Closed
<1>6. proceeds \in [D -> Fraction] /\ gains \in [R -> Fraction]
  BY <1>5, Constants
<1>7. /\ \A t \in D : worth[t] = Times(b.holdings[t].quantity, b.holdings[t].price)
      /\ \A t \in R : proceeds[t] = Times(sold[t], b.holdings[t].price) /\ gains[t] = proceeds[t]
      /\ \A t \in D \ R : proceeds[t] = Zero
  BY <1>2 DEF Worth
<1>8. /\ BookTotal(b) = Plus(b.cash, TotalOf(worth))
      /\ a.cash = Plus(b.cash, TotalOf(gains))
      /\ BookTotal(a) = Plus(a.cash, TotalOf(rest))
  BY <1>1, FilledIs DEF BookTotal
<1>9. DOMAIN rest = H /\ rest = [t \in H |-> rest[t]]
      /\ \A t \in H : rest[t] = Times(LeftOf(b, sold, t), b.holdings[t].price)
  BY <1>2 DEF Worth
<1> HIDE DEF worth, proceeds, gains, rest
<1>10. PICK d \in Nat \ {0} : \E v \in [D -> Int], w \in [D -> Int] :
            /\ \A t \in D : Is(worth[t], v[t], d) /\ Is(proceeds[t], w[t], d)
            /\ \E n \in Int : Is(b.cash, n, d)
  <2>1. PICK x, f, g : x = b.cash /\ f = worth /\ g = proceeds
    OBVIOUS
  <2>2. IsFiniteSet(D) /\ f \in [D -> Fraction] /\ g \in [D -> Fraction] /\ x \in Fraction
    BY <1>2, <1>4, <1>6, <2>1
  <2>3. \E d \in Nat \ {0} : \E v \in [D -> Int], w \in [D -> Int] :
            /\ \A t \in D : Is(f[t], v[t], d) /\ Is(g[t], w[t], d)
            /\ \E n \in Int : Is(x, n, d)
    BY <2>2, CommonNumerators
  <2>4. QED
    BY <2>1, <2>3
<1>11. PICK v \in [D -> Int], w \in [D -> Int] :
            /\ \A t \in D : Is(worth[t], v[t], d) /\ Is(proceeds[t], w[t], d)
            /\ \E n \in Int : Is(b.cash, n, d)
  BY <1>10
<1>12. PICK n \in Int : Is(b.cash, n, d)
  BY <1>11
<1>13. \A t \in D : v[t] \in Int /\ w[t] \in Int
  BY <1>11
<1> DEFINE u == [t \in D |-> v[t] - w[t]]
<1>14. u \in [D -> Int] /\ \A t \in D : u[t] = v[t] - w[t] /\ v[t] = w[t] + u[t]
  BY <1>13
<1> HIDE DEF u
<1>15. \A t \in D \ R : w[t] = 0
  <2>1. ASSUME NEW t \in D \ R PROVE w[t] = 0
    <3>1. Is(Zero, w[t], d) /\ Is(Zero, 0, 1)
      BY <1>7, <1>11, Constants DEF Is, Zero, Whole
    <3>2. w[t] \in Int /\ Same(Zero, Zero)
      BY <1>13, LeqTotal, Constants
    <3>3. w[t] * 1 = 0 * d
      BY <3>1, <3>2, LeqForms
    <3>4. QED
      BY <3>2, <3>3
  <2>2. QED
    BY <2>1
<1>16. \A t \in D : Is(Times(LeftOf(b, sold, t), b.holdings[t].price), u[t], d)
  <2>1. ASSUME NEW t \in D
        PROVE  Is(Times(LeftOf(b, sold, t), b.holdings[t].price), u[t], d)
    <3>1. PICK q, p : q = b.holdings[t].quantity /\ p = b.holdings[t].price
      OBVIOUS
    <3>2. q \in Fraction /\ p \in Fraction /\ Is(Times(q, p), v[t], d)
      BY <1>3, <1>7, <1>11, <3>1
    <3>3. CASE t \in R
      <4>1. PICK s : s = sold[t]
        OBVIOUS
      <4>2. s \in Fraction /\ Is(Times(s, p), w[t], d)
        BY <1>1, <1>7, <1>11, <3>1, <3>3, <4>1
      <4>3. Is(Times(Minus(q, s), p), v[t] - w[t], d)
        BY <3>2, <4>2, LeftWorth
      <4>4. LeftOf(b, sold, t) = Minus(q, s)
        BY <1>1, <3>1, <3>3, <4>1 DEF LeftOf
      <4>5. QED
        BY <1>14, <3>1, <4>3, <4>4
    <3>4. CASE t \notin R
      <4>1. LeftOf(b, sold, t) = q
        BY <1>1, <3>1, <3>4 DEF LeftOf
      <4>2. u[t] = v[t]
        BY <1>13, <1>14, <1>15, <3>4
      <4>3. QED
        BY <3>1, <3>2, <4>1, <4>2
    <3>5. QED
      BY <3>3, <3>4
  <2>2. QED
    BY <2>1
<1>17. \A t \in D \ H : u[t] = 0
  <2>1. ASSUME NEW t \in D \ H PROVE u[t] = 0
    <3>1. PICK left, p : left = LeftOf(b, sold, t) /\ p = b.holdings[t].price
      OBVIOUS
    <3>2. Same(left, Zero) /\ left \in Fraction
      <4>1. ~Positive(left)
        BY <1>2, <3>1
      <4>2. t \in R
        BY <1>1, <1>2, <1>3, <3>1, <4>1 DEF LeftOf
      <4>3. left = Minus(b.holdings[t].quantity, sold[t]) /\ sold[t] \in Fraction
        BY <1>1, <3>1, <4>2 DEF LeftOf
      <4>4. left \in Fraction
        BY <1>3, <4>3, Closed
      <4>5. QED
        BY <1>1, <3>1, <4>1, <4>2, <4>4
    <3>3. PICK c, g : Is(p, c, g)
      BY <1>3, <3>1, FractionParts
    <3>4. c \in Int /\ g \in Nat \ {0}
      BY <3>3 DEF Is
    <3>5. Is(left, 0, 1)
      <4>1. Is(Zero, 0, 1) /\ Zero \in Fraction
        BY Constants DEF Is, Zero, Whole
      <4>2. Same(Zero, left)
        BY <3>2, <4>1, LeqTotal
      <4>3. QED
        BY <3>2, <4>1, <4>2, SameForm
    <3>6. Is(Times(left, p), 0 * c, 1 * g)
      BY <3>3, <3>5, TimesForms
    <3>7. Is(Times(left, p), u[t], d)
      BY <1>16, <3>1
    <3>8. Same(Times(left, p), Times(left, p))
      BY <3>7, LeqTotal DEF Is
    <3>9. u[t] * (1 * g) = (0 * c) * d
      BY <3>6, <3>7, <3>8, LeqForms
    <3>10. u[t] \in Int
      BY <1>14
    <3>11. (0 * c) * d = 0 * g /\ u[t] * (1 * g) = u[t] * g
      BY <3>4, <3>10
    <3>12. u[t] * g = 0 * g
      BY <3>9, <3>11
    <3>13. QED
      BY <3>4, <3>10, <3>12, CancelEq
  <2>2. QED
    BY <2>1
<1>18. PICK all : Adds(all, D, v)
  BY <1>2, <1>11, SumExists
<1>19. PICK took : Adds(took, D, w)
  BY <1>2, <1>11, SumExists
<1>20. PICK stay : Adds(stay, D, u)
  BY <1>2, <1>14, SumExists
<1>21. all[D] = took[D] + stay[D]
  BY <1>2, <1>11, <1>14, <1>18, <1>19, <1>20, SumPlus
<1>22. took[D] = took[R] /\ took[R] \in Int
  <2>1. IsFiniteSet(D) /\ w \in [D -> Int] /\ Adds(took, D, w) /\ R \in SUBSET D
    BY <1>2, <1>11, <1>19
  <2>2. \A t \in D \ R : w[t] = 0
    BY <1>15
  <2>3. QED
    BY <2>1, <2>2, SumRest
<1>23. stay[D] = stay[H] /\ stay[H] \in Int
  <2>1. IsFiniteSet(D) /\ u \in [D -> Int] /\ Adds(stay, D, u) /\ H \in SUBSET D
    BY <1>2, <1>14, <1>20
  <2>2. \A t \in D \ H : u[t] = 0
    BY <1>17
  <2>3. QED
    BY <2>1, <2>2, SumRest
<1>24. Is(TotalOf(worth), all[D], d)
  <2>1. \A t \in D : Is(worth[t], v[t], d)
    BY <1>11
  <2>2. D \in SUBSET D
    OBVIOUS
  <2>3. QED
    BY <1>2, <1>4, <1>11, <1>18, <2>1, <2>2, TotalForm
<1>25. Is(TotalOf(gains), took[R], d)
  <2>1. \A t \in R : Is(gains[t], w[t], d)
    BY <1>2, <1>7, <1>11
  <2>2. QED
    BY <1>2, <1>6, <1>11, <1>19, <2>1, TotalForm
<1>26. Is(TotalOf(rest), stay[H], d)
  <2>1. \A t \in H : Is(rest[t], u[t], d)
    BY <1>2, <1>9, <1>16
  <2>2. rest \in [H -> Fraction]
    BY <1>9, <2>1 DEF Is
  <2>3. QED
    BY <1>2, <1>14, <1>20, <2>1, <2>2, TotalForm
<1>27. Is(BookTotal(b), n + all[D], d)
  BY <1>8, <1>12, <1>24, CommonForms
<1>28. Is(a.cash, n + took[R], d)
  BY <1>8, <1>12, <1>25, CommonForms
<1>29. Is(BookTotal(a), (n + took[R]) + stay[H], d)
  BY <1>8, <1>26, <1>28, CommonForms
<1>30. (n + took[R]) + stay[H] = n + all[D]
  BY <1>21, <1>22, <1>23
<1>31. Same(BookTotal(b), BookTotal(a))
  BY <1>27, <1>29, <1>30, CommonForms
<1>32. QED
  BY <1>27, <1>29, <1>31 DEF Is

\* What a distance between two amounts reaches.
LEMMA DistanceForm ==
  ASSUME NEW a, NEW b, NEW c, NEW n, NEW m, NEW k, NEW d, Is(a, n, d), Is(b, m, d), Is(c, k, d)
  PROVE  ~Less(Distance(a, b), c) <=> k <= n - m \/ k <= m - n
<1>1. PICK x, y, p, q : x = Minus(a, b) /\ y = Minus(b, a) /\ p = n - m /\ q = m - n
  OBVIOUS
<1>2. Is(x, p, d) /\ Is(y, q, d)
  BY <1>1, CommonForms
<1>3. n \in Int /\ m \in Int /\ k \in Int
  BY DEF Is
<1>4. (Leq(c, x) <=> k <= p) /\ (Leq(c, y) <=> k <= q) /\ (Leq(x, y) <=> p <= q)
  BY <1>2, CommonForms
<1>5. ~Less(Distance(a, b), c) <=> Leq(c, IF Leq(x, y) THEN y ELSE x)
  BY <1>1 DEF Less, Distance, Larger
<1>6. QED
  BY <1>1, <1>3, <1>4, <1>5

\* Amounts over one denominator.
LEMMA FiveForms ==
  ASSUME NEW a \in Fraction, NEW b \in Fraction, NEW c \in Fraction, NEW e \in Fraction,
         NEW f \in Fraction
  PROVE  \E d \in Nat \ {0} : \E n, m, k, l, j \in Int :
             Is(a, n, d) /\ Is(b, m, d) /\ Is(c, k, d) /\ Is(e, l, d) /\ Is(f, j, d)
<1>1. PICK X : X = {a, b, c, e, f}
  OBVIOUS
<1>2. IsFiniteSet(X)
  <2>1. IsFiniteSet({a}) /\ IsFiniteSet({a, b}) /\ IsFiniteSet({a, b, c})
        /\ IsFiniteSet({a, b, c, e}) /\ IsFiniteSet({a, b, c, e, f})
    <3>1. IsFiniteSet({a})
      BY FS_Singleton
    <3>2. IsFiniteSet({a} \cup {b}) /\ {a} \cup {b} = {a, b}
      BY <3>1, FS_AddElement
    <3>3. IsFiniteSet({a, b} \cup {c}) /\ {a, b} \cup {c} = {a, b, c}
      BY <3>2, FS_AddElement
    <3>4. IsFiniteSet({a, b, c} \cup {e}) /\ {a, b, c} \cup {e} = {a, b, c, e}
      BY <3>3, FS_AddElement
    <3>5. IsFiniteSet({a, b, c, e} \cup {f}) /\ {a, b, c, e} \cup {f} = {a, b, c, e, f}
      BY <3>4, FS_AddElement
    <3>6. QED
      BY <3>1, <3>2, <3>3, <3>4, <3>5
  <2>2. QED
    BY <1>1, <2>1
<1>3. X \in SUBSET Fraction /\ {a, b, c, e, f} \subseteq X
  BY <1>1
<1>4. PICK d \in Nat \ {0} : \E num \in [X -> Int] : \A x \in X : Is(x, num[x], d)
  BY <1>2, <1>3, CommonDenominator
<1>5. PICK num \in [X -> Int] : \A x \in X : Is(x, num[x], d)
  BY <1>4
<1>6. /\ num[a] \in Int /\ num[b] \in Int /\ num[c] \in Int /\ num[e] \in Int /\ num[f] \in Int
      /\ Is(a, num[a], d) /\ Is(b, num[b], d) /\ Is(c, num[c], d) /\ Is(e, num[e], d)
      /\ Is(f, num[f], d)
  BY <1>3, <1>5
<1>7. QED
  BY <1>6

\* A surplus over a target is one over any lesser target, and what is less than a step
\* above the lesser one is no more than a step above the target.
LEMMA Surplus ==
  ASSUME NEW worth \in Fraction, NEW low \in Fraction, NEW high \in Fraction,
         NEW move \in Fraction, NEW step \in Fraction,
         Leq(low, high), Less(high, worth), ~Less(Distance(worth, high), move)
  PROVE  /\ Less(low, worth) /\ ~Less(Distance(worth, low), move)
         /\ Less(worth, Plus(low, step)) => Leq(move, step)
<1>1. PICK d \in Nat \ {0} : \E n, m, k, l, j \in Int :
             Is(worth, n, d) /\ Is(low, m, d) /\ Is(high, k, d) /\ Is(move, l, d) /\ Is(step, j, d)
  BY FiveForms
<1>2. PICK n, m, k, l, j \in Int :
             Is(worth, n, d) /\ Is(low, m, d) /\ Is(high, k, d) /\ Is(move, l, d) /\ Is(step, j, d)
  BY <1>1
<1>3. m <= k /\ k < n
  <2>1. m <= k
    BY <1>2, CommonForms
  <2>2. ~(n <= k)
    BY <1>2, CommonForms DEF Less
  <2>3. QED
    BY <2>1, <2>2
<1>4. l <= n - k \/ l <= k - n
  BY <1>2, DistanceForm
<1>5. ~(n <= m) /\ l <= n - m
  BY <1>3, <1>4
<1>6. Less(low, worth)
  BY <1>2, <1>5, CommonForms DEF Less
<1>7. ~Less(Distance(worth, low), move)
  BY <1>2, <1>5, DistanceForm
<1>8. Less(worth, Plus(low, step)) => Leq(move, step)
  <2>0. PICK x, p : x = Plus(low, step) /\ p = m + j
    OBVIOUS
  <2>1. Is(x, p, d)
    BY <1>2, <2>0, CommonForms
  <2>2. Less(worth, x) <=> ~(p <= n)
    BY <1>2, <2>1, CommonForms DEF Less
  <2>3. Leq(move, step) <=> l <= j
    BY <1>2, CommonForms
  <2>4. QED
    BY <1>5, <2>0, <2>2, <2>3
<1>9. QED
  BY <1>6, <1>7, <1>8

\* When a holding is trimmed.
LEMMA TrimmedWhen ==
  ASSUME NEW b, NEW targets, NEW t
  PROVE  t \in Trimmed(b, targets) <=>
             /\ t \in DOMAIN b.holdings
             /\ b.holdings[t].managed /\ b.holdings[t].action \in {"BUY", "HOLD"}
             /\ ~b.holdings[t].stale
             /\ ~Less(Distance(Worth(b.holdings[t]), targets[t]), b.config.min_move)
             /\ Less(targets[t], Worth(b.holdings[t]))
<1>1. t \in Trimmed(b, targets) <=>
          t \in DOMAIN b.holdings /\ Line(b.holdings[t], targets[t], b.config.min_move) = "TRIM"
  BY DEF Trimmed, Plan
<1>2. PICK h, target, move : h = b.holdings[t] /\ target = targets[t] /\ move = b.config.min_move
  OBVIOUS
<1>3. Line(h, target, move) = "TRIM" <=>
          /\ h.managed /\ h.action \in {"BUY", "HOLD"} /\ ~h.stale
          /\ ~Less(Distance(Worth(h), target), move) /\ Less(target, Worth(h))
  BY DEF Line
<1>4. QED
  BY <1>1, <1>2, <1>3

\* What a holding and a lot of it are worth.
LEMMA WorthType ==
  ASSUME NEW b, TypedBook(b), NEW t \in DOMAIN b.holdings
  PROVE  /\ Worth(b.holdings[t]) \in Fraction /\ Positive(Worth(b.holdings[t]))
         /\ Lot(b, b.holdings[t]) \in Fraction
         /\ TypedHolding(b.holdings[t], b.config)
<1>1. PICK h, q, p : h = b.holdings[t] /\ q = h.quantity /\ p = h.price
  OBVIOUS
<1>2. TypedHolding(h, b.config) /\ b.config.default_precision \in Nat
  BY <1>1, BookParts
<1>3. q \in Fraction /\ Positive(q) /\ p \in Fraction /\ Positive(p)
  BY <1>1, <1>2, HoldingParts, PositiveParts
<1>4. Is(q, q[1], q[2]) /\ Is(p, p[1], p[2])
  BY <1>3, FractionParts
<1>5. Is(Times(q, p), q[1] * p[1], q[2] * p[2])
  BY <1>4, TimesForms
<1>6. q[1] \in Int /\ q[1] > 0 /\ p[1] \in Int /\ p[1] > 0
  BY <1>3, <1>4, PositiveForm DEF Is
<1>7. q[1] * p[1] > 0
  <2>1. \A i, j \in Nat \ {0} : i * j > 0
    OBVIOUS
  <2>2. q[1] \in Nat \ {0} /\ p[1] \in Nat \ {0}
    BY <1>6
  <2>3. QED
    BY <2>1, <2>2
<1>8. Times(q, p) \in Fraction /\ Positive(Times(q, p))
  BY <1>5, <1>7, PositiveForm DEF Is
<1>9. Over(p, Whole(Lots(b.config))) \in Fraction
  <2>1. PICK n : n = Lots(b.config)
    OBVIOUS
  <2>2. n \in Nat \ {0}
    BY <1>2, <2>1, LotsType
  <2>3. Whole(n) \in Fraction /\ Is(Whole(n), n, 1)
    BY <2>2, Constants DEF Is, Whole
  <2>4. Positive(Whole(n))
    BY <2>2, <2>3, PositiveForm
  <2>5. QED
    BY <1>3, <2>1, <2>3, <2>4, Closed
<1>10. QED
  BY <1>1, <1>2, <1>8, <1>9 DEF Worth, Lot

-----------------------------------------------------------------------------
(* The trims of a rebalance.                                               *)

\* The target of a holding is an amount.
LEMMA OwnTarget ==
  ASSUME NEW b, TypedBook(b), NEW t \in DOMAIN b.holdings
  PROVE  BookTargets(b)[t] \in Fraction
<1>1. BookTotal(b) \in Fraction
  <2>1. PICK D, worth : D = DOMAIN b.holdings /\ worth = [s \in D |-> Worth(b.holdings[s])]
    OBVIOUS
  <2>2. IsFiniteSet(D) /\ b.cash \in Fraction
    BY <2>1, BookParts
  <2>3. worth \in [D -> Fraction]
    BY <2>1, WorthType
  <2>4. TotalOf(worth) \in Fraction
    BY <2>2, <2>3, TotalType
  <2>5. QED
    BY <2>1, <2>2, <2>4, Closed DEF BookTotal
<1>2. Remains(b, b)
  BY <1>1, LeqTotal DEF Remains
<1>3. QED
  BY <1>2, TargetsRise

\* A rebalance of b sells what is sold and leaves a.
SoldDown(b, sold, a) ==
    sold = Sales(b, Trimmed(b, BookTargets(b)), BookTargets(b)) /\ a = Filled(b, sold)

\* What a trim leaves of a holding.
LEMMA TrimLeaves ==
  ASSUME NEW b, TypedBook(b), NEW sold, NEW a, SoldDown(b, sold, a),
         NEW t \in Trimmed(b, BookTargets(b))
  PROVE  LET h == b.holdings[t]
             target == BookTargets(b)[t]
             left == LeftOf(b, sold, t)
         IN  /\ t \in DOMAIN b.holdings /\ sold[t] \in Fraction
             /\ IF Leq(FullExit, TrimFraction(h, target)) THEN Same(left, Zero)
                ELSE /\ Positive(left) /\ Leq(target, Times(left, h.price))
                     /\ Less(Times(left, h.price), Plus(target, Lot(b, h)))
<1>1. PICK h, target, s, left, share :
          /\ h = b.holdings[t] /\ target = BookTargets(b)[t] /\ s = sold[t]
          /\ left = LeftOf(b, sold, t) /\ share = TrimFraction(h, target)
  OBVIOUS
<1>2. t \in DOMAIN b.holdings /\ h.managed /\ Less(target, Worth(h))
  BY <1>1, TrimmedWhen
<1>3. /\ TypedHolding(h, b.config) /\ Worth(h) \in Fraction /\ Positive(Worth(h))
      /\ b.config.default_precision \in Nat
  BY <1>1, <1>2, WorthType, BookParts
<1>4. target \in Fraction
  BY <1>1, <1>2, OwnTarget
<1>5. s = SizeSell(Trim(b, h, share)).quantity
  BY <1>1 DEF SoldDown, Sales
<1>6. left = Minus(h.quantity, s)
  BY <1>1 DEF LeftOf, SoldDown, Sales
<1>7. share \in Fraction
  <2>1. Minus(Worth(h), target) \in Fraction
    BY <1>3, <1>4, Closed
  <2>2. Over(Minus(Worth(h), target), Worth(h)) \in Fraction
    BY <1>3, <2>1, Closed
  <2>3. QED
    BY <1>1, <2>2, Constants, Closed DEF TrimFraction
<1>8. CASE Leq(FullExit, share)
  <2>1. s \in Fraction /\ Same(Minus(h.quantity, s), Zero)
    BY <1>2, <1>3, <1>5, <1>7, <1>8, SaleEmpties
  <2>2. QED
    BY <1>1, <1>2, <1>6, <1>8, <2>1
<1>9. CASE ~Leq(FullExit, share)
  <2>1. /\ s \in Fraction /\ Positive(left) /\ Leq(target, Times(left, h.price))
        /\ Less(Times(left, h.price), Plus(target, Lot(b, h)))
    BY <1>1, <1>2, <1>3, <1>4, <1>5, <1>6, <1>9, SaleTrims
  <2>2. QED
    BY <1>1, <1>2, <1>9, <2>1
<1>10. QED
  BY <1>8, <1>9

\* The holdings of the book that a rebalance leaves, and its total.
LEMMA BookRemains ==
  ASSUME NEW b, TypedBook(b), NEW sold, NEW a, SoldDown(b, sold, a)
  PROVE  KeptHoldings(a, b, sold) /\ Remains(a, b)
<1>1. DOMAIN sold = Trimmed(b, BookTargets(b)) /\ a = Filled(b, sold)
  BY DEF SoldDown, Sales
<1>2. DOMAIN sold \in SUBSET DOMAIN b.holdings
  BY <1>1 DEF Trimmed
<1>3. \A t \in DOMAIN sold : /\ sold[t] \in Fraction
                             /\ Positive(LeftOf(b, sold, t)) \/ Same(LeftOf(b, sold, t), Zero)
  <2>1. ASSUME NEW t \in DOMAIN sold
        PROVE  /\ sold[t] \in Fraction
               /\ Positive(LeftOf(b, sold, t)) \/ Same(LeftOf(b, sold, t), Zero)
    BY <1>1, TrimLeaves
  <2>2. QED
    BY <2>1
<1>4. a.config = b.config /\ KeptHoldings(a, b, sold)
  BY <1>1, <1>2, FilledIs
<1>5. BookTotal(a) \in Fraction /\ BookTotal(b) \in Fraction /\ Same(BookTotal(b), BookTotal(a))
  BY <1>1, <1>2, <1>3, TotalKept
<1>6. DOMAIN a.holdings \in SUBSET DOMAIN b.holdings
  BY <1>4 DEF KeptHoldings
<1>7. \A t \in DOMAIN a.holdings : /\ a.holdings[t].action = b.holdings[t].action
                                   /\ a.holdings[t].confidence = b.holdings[t].confidence
  BY <1>4 DEF KeptHoldings
<1>8. QED
  BY <1>4, <1>5, <1>6, <1>7 DEF Remains

\* One half of a rebalance that settles: each trim lands on its target.
LEMMA TrimsLand ==
  ASSUME NEW b, TypedBook(b), NEW sold, NEW a, SoldDown(b, sold, a),
         NEW t \in Trimmed(b, BookTargets(b))
  PROVE  IF Leq(FullExit, TrimFraction(b.holdings[t], BookTargets(b)[t]))
         THEN t \notin DOMAIN a.holdings
         ELSE /\ t \in DOMAIN a.holdings
              /\ Leq(BookTargets(b)[t], Worth(a.holdings[t]))
              /\ Less(Worth(a.holdings[t]), Plus(BookTargets(b)[t], Lot(b, b.holdings[t])))
<1>1. PICK h, target, left : h = b.holdings[t] /\ target = BookTargets(b)[t] /\ left = LeftOf(b, sold, t)
  OBVIOUS
<1>2. /\ t \in DOMAIN b.holdings
      /\ IF Leq(FullExit, TrimFraction(h, target)) THEN Same(left, Zero)
         ELSE /\ Positive(left) /\ Leq(target, Times(left, h.price))
              /\ Less(Times(left, h.price), Plus(target, Lot(b, h)))
  BY <1>1, TrimLeaves
<1>3. KeptHoldings(a, b, sold)
  BY BookRemains
<1>4. t \in DOMAIN a.holdings <=> Positive(left)
  BY <1>1, <1>2, <1>3 DEF KeptHoldings
<1>5. CASE Leq(FullExit, TrimFraction(h, target))
  <2>1. ~Positive(left)
    <3>1. Same(left, Zero)
      BY <1>2, <1>5
    <3>2. sold[t] \in Fraction /\ b.holdings[t].quantity \in Fraction
      BY <1>2, TrimLeaves, WorthType, HoldingParts
    <3>3. t \in DOMAIN sold
      BY DEF SoldDown, Sales
    <3>4. left \in Fraction
      BY <1>1, <3>2, <3>3, Closed DEF LeftOf
    <3>5. Zero \in Fraction
      BY Constants
    <3>6. QED
      BY <3>1, <3>4, <3>5, LeqTotal
  <2>2. QED
    BY <1>1, <1>4, <1>5, <2>1
<1>6. CASE ~Leq(FullExit, TrimFraction(h, target))
  <2>1. t \in DOMAIN a.holdings
    BY <1>2, <1>4, <1>6
  <2>2. Worth(a.holdings[t]) = Times(left, h.price)
    BY <1>1, <1>3, <2>1 DEF KeptHoldings, Worth
  <2>3. QED
    BY <1>1, <1>2, <1>6, <2>1, <2>2
<1>7. QED
  BY <1>5, <1>6

\* The other half: what is trimmed after a rebalance was trimmed by it, and only for less
\* than a lot.
LEMMA TrimsEnd ==
  ASSUME NEW b, TypedBook(b), NEW sold, NEW a, SoldDown(b, sold, a),
         NEW t \in Trimmed(a, BookTargets(a))
  PROVE  /\ t \in Trimmed(b, BookTargets(b))
         /\ Leq(b.config.min_move, Lot(b, b.holdings[t]))
<1>1. PICK low, high, move, lot, worth :
          /\ low = BookTargets(b)[t] /\ high = BookTargets(a)[t] /\ move = b.config.min_move
          /\ lot = Lot(b, b.holdings[t]) /\ worth = Worth(a.holdings[t])
  OBVIOUS
<1>2. KeptHoldings(a, b, sold) /\ Remains(a, b)
  BY BookRemains
<1>3. /\ t \in DOMAIN a.holdings /\ a.holdings[t].managed /\ a.holdings[t].action \in {"BUY", "HOLD"}
      /\ ~a.holdings[t].stale /\ ~Less(Distance(worth, high), a.config.min_move) /\ Less(high, worth)
  BY <1>1, TrimmedWhen
<1>4. /\ t \in DOMAIN b.holdings /\ a.config = b.config
      /\ b.holdings[t].managed /\ b.holdings[t].action \in {"BUY", "HOLD"} /\ ~b.holdings[t].stale
      /\ worth = Times(LeftOf(b, sold, t), b.holdings[t].price)
  BY <1>1, <1>2, <1>3 DEF KeptHoldings, Remains, Worth
<1>5. low \in Fraction /\ high \in Fraction /\ Leq(low, high)
  BY <1>1, <1>2, <1>3, TargetsRise
<1>6. /\ move \in Fraction /\ lot \in Fraction /\ b.holdings[t].quantity \in Fraction
      /\ b.holdings[t].price \in Fraction /\ Worth(b.holdings[t]) \in Fraction
  BY <1>1, <1>4, BookParts, WorthType, HoldingParts, PositiveParts
<1>7. ~Less(Distance(worth, high), move) /\ Less(high, worth)
  BY <1>1, <1>3, <1>4
<1>8. t \in Trimmed(b, BookTargets(b))
  <2>1. SUFFICES ASSUME t \notin Trimmed(b, BookTargets(b)) PROVE FALSE
    OBVIOUS
  <2>2. t \notin DOMAIN sold
    BY <2>1 DEF SoldDown, Sales
  <2>3. worth = Worth(b.holdings[t])
    BY <1>4, <2>2 DEF LeftOf, Worth
  <2>4. Less(low, worth) /\ ~Less(Distance(worth, low), move)
    BY <1>5, <1>6, <1>7, <2>3, Surplus
  <2>5. QED
    BY <1>1, <1>4, <2>1, <2>3, <2>4, TrimmedWhen
<1>9. worth \in Fraction
  <2>1. sold[t] \in Fraction /\ t \in DOMAIN sold
    BY <1>8, TrimLeaves DEF SoldDown, Sales
  <2>2. LeftOf(b, sold, t) \in Fraction
    BY <1>6, <2>1, Closed DEF LeftOf
  <2>3. QED
    BY <1>4, <1>6, <2>2, Closed
<1>10. Less(worth, Plus(low, lot))
  <2>1. IF Leq(FullExit, TrimFraction(b.holdings[t], low)) THEN t \notin DOMAIN a.holdings
        ELSE Less(worth, Plus(low, lot))
    BY <1>1, <1>8, TrimsLand
  <2>2. QED
    BY <1>3, <2>1
<1>11. Leq(move, lot)
  BY <1>5, <1>6, <1>7, <1>9, <1>10, Surplus
<1>12. QED
  BY <1>1, <1>8, <1>11

\* RebalanceSettles: for every book of finitely many holdings, those that StockBrain opened in
\* whole lots, whatever the prices, the weights, the convictions and the bounds, the trims that
\* proposals/rebalance.py plans leave each holding on its target or less than a lot above it,
\* or close it, and another rebalance trims nothing but what one lot's worth of rounding left.
THEOREM Settles == Explored => []RebalanceSettles
<1>1. CaseInv => RebalanceSettles
  <2>1. SUFFICES ASSUME CaseInv, Asks("rebalance") PROVE RebalanceSettles
    BY DEF RebalanceSettles
  <2>2. PICK b, sold, a : b = case.b /\ SoldDown(b, sold, a)
    BY DEF SoldDown
  <2>3. TypedBook(b)
    BY <2>1, <2>2, CasesAssumption DEF CaseInv, Asks
  <2>4. AfterTrims(b, Trimmed(b, BookTargets(b)), BookTargets(b)) = a
    BY <2>2 DEF AfterTrims, SoldDown
  <2>5. Settled(b, BookTargets(b), Trimmed(b, BookTargets(b)), a)
    <3>1. \A t \in Trimmed(b, BookTargets(b)) :
              IF Leq(FullExit, TrimFraction(b.holdings[t], BookTargets(b)[t]))
              THEN t \notin DOMAIN a.holdings
              ELSE /\ t \in DOMAIN a.holdings
                   /\ Leq(BookTargets(b)[t], Worth(a.holdings[t]))
                   /\ Less(Worth(a.holdings[t]), Plus(BookTargets(b)[t], Lot(b, b.holdings[t])))
      <4>1. TAKE t \in Trimmed(b, BookTargets(b))
      <4>2. QED
        BY <2>2, <2>3, TrimsLand
    <3>2. \A t \in Trimmed(a, BookTargets(a)) :
              /\ t \in Trimmed(b, BookTargets(b))
              /\ Leq(b.config.min_move, Lot(b, b.holdings[t]))
      <4>1. TAKE t \in Trimmed(a, BookTargets(a))
      <4>2. QED
        BY <2>2, <2>3, TrimsEnd
    <3>3. QED
      BY <3>1, <3>2 DEF Settled
  <2>6. QED
    BY <2>2, <2>4, <2>5 DEF RebalanceSettles
<1>2. QED
  BY <1>1, CaseInvariant, PTL

===============================================================================
