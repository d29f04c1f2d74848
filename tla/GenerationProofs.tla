-------------------------- MODULE GenerationProofs --------------------------
(***************************************************************************)
(* Theorems about Generation: together the proposals stay within the       *)
(* exposure budget, for every set of theses, listings and generators.      *)
(***************************************************************************)
EXTENDS Generation, FiniteSetTheorems, TLAPS

-----------------------------------------------------------------------------
(* Sums over a finite set.  What MapThenSumSet computes does not depend on  *)
(* the order in which it takes the elements.                                *)

\* What MapThenSumSet computes step by step, for the numbers f over the subsets
\* of S.
SumsUp(it, S, f) ==
    it = [s \in SUBSET S |->
             IF s = {} THEN 0
             ELSE LET x == CHOOSE x \in s : TRUE IN f[x] + it[s \ {x}]]

\* The least-number principle, for a set of numbers.
LEMMA Least ==
  ASSUME NEW T \in SUBSET Nat, T # {}
  PROVE  \E m \in T : \A n \in T : m <= n
<1>1. \E m \in T : \A n \in T : <<n, m>> \notin OpToRel(<, Nat)
  BY NatLessThanWellFounded, WFMin
<1>2. PICK m \in T : \A n \in T : <<n, m>> \notin OpToRel(<, Nat)
  BY <1>1
<1>3. ASSUME NEW n \in T, n < m PROVE <<n, m>> \in OpToRel(<, Nat)
  BY <1>3 DEF OpToRel
<1>4. ASSUME NEW n \in T PROVE m <= n
  <2>1. n \in Nat /\ m \in Nat /\ ~(n < m)
    BY <1>2, <1>3
  <2>2. QED
    BY <2>1
<1>5. QED
  BY <1>4

\* The recursion of MapThenSumSet has a solution.
LEMMA SumExists ==
  ASSUME NEW S, IsFiniteSet(S), NEW f
  PROVE  \E it : SumsUp(it, S, f)
<1> DEFINE Pick(s) == CHOOSE x \in s : TRUE
           Upto(n) == {s \in SUBSET S : Cardinality(s) <= n}
           Next1(g, s) == IF s = {} THEN 0 ELSE f[Pick(s)] + g[s \ {Pick(s)}]
           Solves(g, n) == \A s \in Upto(n) : g[s] = Next1(g, s)
           Bad == {n \in Nat : ~ \E g : Solves(g, n)}
<1>1. \A s \in SUBSET S : /\ IsFiniteSet(s) /\ Cardinality(s) \in Nat
                          /\ Cardinality(s) <= Cardinality(S)
  BY FS_Subset, FS_CardinalityType
<1>2. ASSUME NEW s \in SUBSET S, s # {}
      PROVE  /\ Pick(s) \in s /\ s \ {Pick(s)} \in SUBSET S
             /\ Cardinality(s \ {Pick(s)}) = Cardinality(s) - 1
  BY <1>1, <1>2, FS_RemoveElement
<1>3. ASSUME NEW s \in SUBSET S, Cardinality(s) = 0 PROVE s = {}
  BY <1>1, <1>3, FS_EmptySet
<1> HIDE DEF Pick
<1>4. \E g : Solves(g, 0)
  <2> DEFINE g == [s \in SUBSET S |-> 0]
  <2>1. \A s \in Upto(0) : s = {}
    BY <1>1, <1>3
  <2>2. Solves(g, 0)
    BY <2>1
  <2>3. QED
    BY <2>2
<1>5. ASSUME NEW n \in Nat, NEW g, Solves(g, n)
      PROVE  \E h : Solves(h, n + 1)
  <2> DEFINE h == [s \in SUBSET S |-> IF s \in Upto(n) THEN g[s] ELSE Next1(g, s)]
  <2>1. ASSUME NEW s \in Upto(n + 1) PROVE h[s] = Next1(h, s)
    <3>1. h[s] = Next1(g, s)
      BY <1>5
    <3>2. CASE s # {}
      <4>1. s \ {Pick(s)} \in Upto(n)
        BY <1>1, <1>2, <3>2
      <4>2. h[s \ {Pick(s)}] = g[s \ {Pick(s)}]
        BY <4>1
      <4>3. QED
        BY <3>1, <3>2, <4>2
    <3>3. CASE s = {}
      BY <3>1, <3>3
    <3>4. QED
      BY <3>2, <3>3
  <2>2. Solves(h, n + 1)
    BY <2>1
  <2>3. QED
    BY <2>2
<1>6. Bad = {}
  <2>1. SUFFICES ASSUME Bad # {} PROVE FALSE
    OBVIOUS
  <2>2. PICK m \in Bad : \A n \in Bad : m <= n
    BY <2>1, Least
  <2>3. m \in Nat /\ m # 0
    BY <1>4, <2>2
  <2> HIDE DEF Solves
  <2>4. m - 1 \in Nat /\ m - 1 \notin Bad
    <3>1. m - 1 \in Nat /\ ~(m <= m - 1)
      BY <2>3
    <3>2. QED
      BY <2>2, <3>1
  <2>5. PICK g : Solves(g, m - 1)
    BY <2>4
  <2>6. \E h : Solves(h, (m - 1) + 1)
    BY <1>5, <2>4, <2>5
  <2>7. (m - 1) + 1 = m
    BY <2>3
  <2>8. QED
    BY <2>2, <2>6, <2>7
<1>7. Cardinality(S) \in Nat /\ Upto(Cardinality(S)) = SUBSET S
  BY <1>1, FS_CardinalityType
<1>8. PICK g : Solves(g, Cardinality(S))
  BY <1>6, <1>7
<1>9. [s \in SUBSET S |-> g[s]] = [s \in SUBSET S |-> Next1([t \in SUBSET S |-> g[t]], s)]
  <2>1. ASSUME NEW s \in SUBSET S
        PROVE  g[s] = Next1([t \in SUBSET S |-> g[t]], s)
    BY <1>2, <1>7, <1>8
  <2>2. QED
    BY <2>1
<1>10. SumsUp([s \in SUBSET S |-> g[s]], S, f)
  BY <1>9 DEF SumsUp, Pick
<1>11. QED
  BY <1>10

\* A smallest member of a set of finite sets.
LEMMA SmallestSubset ==
  ASSUME NEW S, IsFiniteSet(S), NEW B \in SUBSET (SUBSET S), B # {}
  PROVE  \E s \in B : \A u \in B : u \subseteq s => u = s
<1>1. IsWellFoundedOn(StrictSubsetOrdering(S), SUBSET S)
  BY FS_StrictSubsetOrderingWellFounded, FS_FiniteSubsetsOfFinite
<1>2. PICK s \in B : \A u \in B : <<u, s>> \notin StrictSubsetOrdering(S)
  BY <1>1, WFMin
<1>3. QED
  BY <1>2 DEF StrictSubsetOrdering

\* Any element may be taken first.
Splits(it, S, f) ==
    \A s \in SUBSET S : it[s] \in Int /\ \A y \in s : it[s] = f[y] + it[s \ {y}]

LEMMA SumSplit ==
  ASSUME NEW S, IsFiniteSet(S), NEW f \in [S -> Int], NEW it, SumsUp(it, S, f)
  PROVE  Splits(it, S, f)
<1> DEFINE Pick(s) == CHOOSE x \in s : TRUE
           Good(s) ==
             it[s] \in Int /\ \A y \in s : it[s \ {y}] \in Int /\ it[s] = f[y] + it[s \ {y}]
           Bad == {s \in SUBSET S : ~Good(s)}
<1>1. ASSUME NEW s \in SUBSET S
      PROVE  it[s] = IF s = {} THEN 0 ELSE f[Pick(s)] + it[s \ {Pick(s)}]
  BY DEF SumsUp
<1>2. \A s \in SUBSET S : s # {} => Pick(s) \in s
  OBVIOUS
<1> HIDE DEF Pick
<1>3. ASSUME NEW s \in SUBSET S, \A y \in s : Good(s \ {y})
      PROVE  Good(s)
  <2>1. CASE s = {}
    <3>1. it[s] = 0
      BY <1>1, <2>1
    <3>2. \A y \in s : FALSE
      BY <2>1
    <3>3. QED
      BY <3>1, <3>2
  <2>2. CASE s # {}
    <3>1. PICK x : x = Pick(s)
      OBVIOUS
    <3>2. x \in s /\ x \in S /\ f[x] \in Int
      BY <1>2, <2>2, <3>1
    <3>3. it[s] = f[x] + it[s \ {x}]
      BY <1>1, <2>2, <3>1
    <3>4. \A y \in s : it[s \ {y}] \in Int
      BY <1>3
    <3>5. ASSUME NEW y \in s, y # x PROVE it[s] = f[y] + it[s \ {y}]
      <4>1. PICK rest : rest = (s \ {y}) \ {x}
        OBVIOUS
      <4>2. rest = (s \ {x}) \ {y} /\ y \in s \ {x} /\ x \in s \ {y}
        BY <3>2, <3>5, <4>1
      <4>3. it[rest] \in Int /\ it[s \ {y}] = f[x] + it[rest]
        BY <1>3, <3>5, <4>1, <4>2
      <4>4. it[s \ {x}] = f[y] + it[rest]
        BY <1>3, <3>2, <4>2
      <4>5. f[y] \in Int
        OBVIOUS
      <4>6. QED
        BY <3>2, <3>3, <4>3, <4>4, <4>5
    <3>6. \A y \in s : it[s] = f[y] + it[s \ {y}]
      BY <3>3, <3>5
    <3>7. it[s] \in Int
      BY <3>2, <3>3, <3>4
    <3>8. QED
      BY <3>4, <3>6, <3>7
  <2>3. QED
    BY <2>1, <2>2
<1> HIDE DEF Good
<1>4. Bad = {}
  <2>1. SUFFICES ASSUME Bad # {} PROVE FALSE
    OBVIOUS
  <2>2. Bad \in SUBSET (SUBSET S)
    OBVIOUS
  <2>3. PICK s \in Bad : \A u \in Bad : u \subseteq s => u = s
    <3> HIDE DEF Bad
    <3>1. QED
      BY <2>1, <2>2, SmallestSubset
  <2>4. ASSUME NEW y \in s PROVE Good(s \ {y})
    BY <2>3
  <2>5. QED
    BY <1>3, <2>3, <2>4
<1>5. QED
  BY <1>4 DEF Good, Splits

\* Numbers that agree have the same sum; nothing else matters.
LEMMA SumSame ==
  ASSUME NEW S, IsFiniteSet(S), NEW f, NEW g, NEW itf, NEW itg,
         SumsUp(itf, S, f), SumsUp(itg, S, g),
         NEW T \in SUBSET S, \A x \in T : f[x] = g[x]
  PROVE  itf[T] = itg[T]
<1> DEFINE Pick(s) == CHOOSE x \in s : TRUE
           Bad == {s \in SUBSET T : itf[s] # itg[s]}
<1>1. ASSUME NEW s \in SUBSET S
      PROVE  /\ itf[s] = IF s = {} THEN 0 ELSE f[Pick(s)] + itf[s \ {Pick(s)}]
             /\ itg[s] = IF s = {} THEN 0 ELSE g[Pick(s)] + itg[s \ {Pick(s)}]
  BY DEF SumsUp
<1>2. \A s \in SUBSET S : s # {} => Pick(s) \in s
  OBVIOUS
<1> HIDE DEF Pick
<1>3. Bad = {}
  <2>1. SUFFICES ASSUME Bad # {} PROVE FALSE
    OBVIOUS
  <2>2. Bad \in SUBSET (SUBSET S)
    OBVIOUS
  <2>3. PICK s \in Bad : \A u \in Bad : u \subseteq s => u = s
    <3> HIDE DEF Bad
    <3>1. QED
      BY <2>1, <2>2, SmallestSubset
  <2>4. s \in SUBSET S /\ s # {}
    BY <1>1, <2>3
  <2>5. Pick(s) \in s /\ s \ {Pick(s)} \in SUBSET T
    BY <1>2, <2>3, <2>4
  <2>6. itf[s \ {Pick(s)}] = itg[s \ {Pick(s)}] /\ f[Pick(s)] = g[Pick(s)]
    BY <2>3, <2>5
  <2>7. QED
    BY <1>1, <2>3, <2>4, <2>6
<1>4. QED
  BY <1>3

\* What the sum of the numbers f over S is.
Sum(f, S) == MapThenSumSet(LAMBDA x : f[x], S)

LEMMA SumIs ==
  ASSUME NEW S, IsFiniteSet(S), NEW f
  PROVE  \E it : SumsUp(it, S, f) /\ Sum(f, S) = it[S]
<1> DEFINE It == CHOOSE it : it = [s \in SUBSET S |->
                    IF s = {} THEN 0
                    ELSE LET x == CHOOSE x \in s : TRUE IN f[x] + it[s \ {x}]]
<1>1. Sum(f, S) = It[S]
  BY DEF Sum, MapThenSumSet, MapThenFoldSet
<1>2. SumsUp(It, S, f)
  <2>1. \E it : SumsUp(it, S, f)
    BY SumExists
  <2>2. It = [s \in SUBSET S |->
                IF s = {} THEN 0
                ELSE LET x == CHOOSE x \in s : TRUE IN f[x] + It[s \ {x}]]
    BY <2>1, Zenon DEF SumsUp
  <2> HIDE DEF It
  <2>3. QED
    BY <2>2 DEF SumsUp
<1>3. QED
  BY <1>1, <1>2

LEMMA SumType ==
  ASSUME NEW S, IsFiniteSet(S), NEW f \in [S -> Int]
  PROVE  Sum(f, S) \in Int
  BY SumIs, SumSplit DEF Splits

\* Changing one of the numbers changes the sum by as much.
LEMMA SumChange ==
  ASSUME NEW S, IsFiniteSet(S), NEW f \in [S -> Int], NEW g \in [S -> Int],
         NEW y \in S, \A x \in S \ {y} : g[x] = f[x]
  PROVE  Sum(g, S) = Sum(f, S) - f[y] + g[y]
<1>1. PICK itf : SumsUp(itf, S, f) /\ Sum(f, S) = itf[S]
  BY SumIs
<1>2. PICK itg : SumsUp(itg, S, g) /\ Sum(g, S) = itg[S]
  BY SumIs
<1>3. S \in SUBSET S /\ S \ {y} \in SUBSET S
  OBVIOUS
<1>4. /\ itf[S] = f[y] + itf[S \ {y}] /\ itf[S \ {y}] \in Int
  <2>1. Splits(itf, S, f)
    BY <1>1, SumSplit
  <2>2. QED
    BY <1>3, <2>1 DEF Splits
<1>5. /\ itg[S] = g[y] + itg[S \ {y}] /\ itg[S \ {y}] \in Int
  <2>1. Splits(itg, S, g)
    BY <1>2, SumSplit
  <2>2. QED
    BY <1>3, <2>1 DEF Splits
<1>6. itg[S \ {y}] = itf[S \ {y}]
  BY <1>1, <1>2, <1>3, SumSame
<1>7. f[y] \in Int /\ g[y] \in Int
  OBVIOUS
<1>8. QED
  BY <1>1, <1>2, <1>4, <1>5, <1>6, <1>7

\* What is never negative adds up to what is not.
LEMMA SumNat ==
  ASSUME NEW S, IsFiniteSet(S), NEW f \in [S -> Nat]
  PROVE  Sum(f, S) \in Nat
<1>1. PICK it : SumsUp(it, S, f) /\ Sum(f, S) = it[S]
  BY SumIs
<1> DEFINE Bad == {s \in SUBSET S : it[s] \notin Nat}
<1>2. Bad = {}
  <2>1. SUFFICES ASSUME Bad # {} PROVE FALSE
    OBVIOUS
  <2>2. Bad \in SUBSET (SUBSET S)
    OBVIOUS
  <2>3. PICK s \in Bad : \A u \in Bad : u \subseteq s => u = s
    <3> HIDE DEF Bad
    <3>1. QED
      BY <2>1, <2>2, SmallestSubset
  <2>4. it[s] = IF s = {} THEN 0
                ELSE f[CHOOSE x \in s : TRUE] + it[s \ {CHOOSE x \in s : TRUE}]
    BY <1>1 DEF SumsUp
  <2>5. s # {}
    BY <2>4
  <2>6. PICK x \in s : x = CHOOSE y \in s : TRUE
    BY <2>5
  <2>7. it[s \ {x}] \in Nat /\ f[x] \in Nat
    BY <2>3, <2>6
  <2>8. it[s] = f[x] + it[s \ {x}]
    BY <2>4, <2>5, <2>6
  <2>9. QED
    BY <2>7, <2>8
<1>3. QED
  BY <1>1, <1>2

\* The sum of nothing but zeros.
LEMMA SumZero ==
  ASSUME NEW S, IsFiniteSet(S)
  PROVE  Sum([x \in S |-> 0], S) = 0
<1> DEFINE f == [x \in S |-> 0]
<1>1. PICK it : SumsUp(it, S, f) /\ Sum(f, S) = it[S]
  BY SumIs
<1>2. SumsUp([s \in SUBSET S |-> 0], S, f)
  BY DEF SumsUp
<1>3. it[S] = [s \in SUBSET S |-> 0][S]
  BY <1>1, <1>2, SumSame
<1>4. QED
  BY <1>1, <1>3

-----------------------------------------------------------------------------
(* The ledger.                                                              *)

\* What live buys claim, row by row.
claims == [k \in Keys |-> IF Live(k) /\ row[k].side = "BUY" THEN row[k].amount ELSE 0]

LEMMA ReservedIsSum ==
  ASSUME IsFiniteSet(Keys)
  PROVE  Reserved(Keys) = Sum(claims, Keys)
<1> DEFINE Pick(s) == CHOOSE x \in s : TRUE
           Rec(it) == [s \in SUBSET Keys |->
                         IF s = {} THEN 0
                         ELSE LET x == CHOOSE x \in s : TRUE IN Claim(x) + it[s \ {x}]]
           It == CHOOSE it : it = Rec(it)
<1>1. Reserved(Keys) = It[Keys]
  BY DEF Reserved, MapThenSumSet, MapThenFoldSet
<1>2. \A k \in Keys : Claim(k) = claims[k]
  BY DEF Claim, claims
<1>3. \A s \in SUBSET Keys : s # {} => Claim(Pick(s)) = claims[Pick(s)]
  BY <1>2
<1>4. ASSUME NEW it
      PROVE  SumsUp(it, Keys, claims) <=> it = Rec(it)
  BY <1>3 DEF SumsUp
<1>5. PICK sum : SumsUp(sum, Keys, claims) /\ Sum(claims, Keys) = sum[Keys]
  BY SumIs
<1>6. sum = Rec(sum)
  BY <1>4, <1>5
<1>7. It = Rec(It)
  BY <1>6, Zenon
<1> HIDE DEF It
<1>8. SumsUp(It, Keys, claims)
  BY <1>4, <1>7
<1>9. QED
  BY <1>1, <1>5, <1>8, SumSame

LEMMA LedgerTotal ==
  ASSUME NEW c
  PROVE  Ledger!Total(c) = Sum(c, Keys)
  BY DEF Ledger!Total, Ledger!MapThenSumSet, Ledger!MapThenFoldSet, Sum, MapThenSumSet,
         MapThenFoldSet

Quantities == [Listings -> Int]
Snapshots == [cash : Int, age : Int \cup {None}, held : Quantities]
Rows == [status : {"NONE", "ENDED", "EXECUTED"} \cup Active, side : {"BUY", "SELL", None},
         amount : Int]
Calls == [task : {"job", "exits", "rotation"}, key : Keys, side : {"BUY", "SELL"},
          account : {None} \cup [cash : Int, held : Int], late : BOOLEAN,
          transient : SUBSET {"account_state_available", "market_session"}]
Reviews == [listing : Listings, score : Scores \cup {None}]

\* Live buys are of a size; a call without an account cannot be permitted.
LedgerInv ==
    /\ row \in [Keys -> Rows]
    /\ \A k \in Keys : Live(k) /\ row[k].side = "BUY" => row[k].amount \in Sizes
    /\ gen \in [Generators -> {None} \cup Calls]
    /\ \A g \in Generators :
          gen[g] # None /\ gen[g].transient = {} => gen[g].account \in [cash : Int, held : Int]
    /\ account \in {None} \cup Snapshots
    /\ broker \in [cash : Int, held : Quantities]
    /\ review \in [Theses -> {None} \cup Reviews]

\* What a step may do to the rows: nothing, insert a sale, insert a buy that
\* together with everything reserved stays within the budget, or move one row.
Sells(k) ==
    /\ row[k].status = "NONE"
    /\ \E amount \in Int :
          row' = [row EXCEPT ![k] = [status |-> "READY", side |-> "SELL", amount |-> amount]]
Buys(k) ==
    /\ row[k].status = "NONE"
    /\ \E amount \in Sizes :
          /\ Reserved(Keys) + amount <= ExposureBudget
          /\ row' = [row EXCEPT ![k] = [status |-> "READY", side |-> "BUY", amount |-> amount]]
MovesOn(k) ==
    /\ row[k].status \in Active
    /\ \E status \in {"APPROVED", "EXECUTION_PENDING", "ENDED", "EXECUTED"} : SetStatus(k, status)
RowsMove == UNCHANGED row \/ \E k \in Keys : Sells(k) \/ Buys(k) \/ MovesOn(k)

LEMMA CommitMoves ==
  ASSUME LedgerInv, NEW g \in Generators, Commit(g)
  PROVE  RowsMove
<1>1. PICK c \in Calls :
            gen[g] = c /\ (c.transient = {} => c.account \in [cash : Int, held : Int])
  BY DEF LedgerInv, Commit
<1>2. CASE Blocks(c) # {}
  BY <1>1, <1>2 DEF Commit, RowsMove
<1>3. CASE Blocks(c) = {}
  <2>1. c.key \in Keys /\ c.transient = {} /\ c.account \in [cash : Int, held : Int]
    BY <1>1, <1>3 DEF Calls, Blocks
  <2>2. CASE c.side = "BUY"
    <3>1. PICK amount \in Fitting(c) : Insert(c, amount)
      BY <1>1, <1>3, <2>2 DEF Commit
    <3>2. amount \in Sizes /\ Reserved(Keys) + amount <= ExposureBudget
      BY <3>1 DEF Fitting, ReservedUnderLock
    <3>3. QED
      BY <2>1, <2>2, <3>1, <3>2 DEF Insert, RowsMove, Buys
  <2>3. CASE c.side = "SELL"
    <3>1. c.account.held \in Int /\ Insert(c, c.account.held)
      BY <1>1, <1>3, <2>1, <2>3 DEF Commit, Calls
    <3>2. QED
      BY <2>1, <2>3, <3>1 DEF Insert, RowsMove, Sells
  <2>4. QED
    BY <1>1, <2>2, <2>3 DEF Calls
<1>4. QED
  BY <1>2, <1>3

LEMMA StepMoves ==
  ASSUME LedgerInv, [Next]_vars
  PROVE  RowsMove
<1>1. ASSUME NEW g \in Generators, GeneratorNext(g) PROVE RowsMove
  <2>1. CASE Commit(g)
    BY <2>1, CommitMoves
  <2>2. CASE ~Commit(g)
    BY <1>1, <2>2 DEF GeneratorNext, Crash, Generate, ProcessReview, RetryAfterSale, Resize,
                      Start, RowsMove
  <2>3. QED
    BY <2>1, <2>2
<1>2. ASSUME NEW t \in Theses, ThesisNext(t) PROVE RowsMove
  BY <1>2 DEF ThesisNext, Publish, EnqueuePending, GenerateHalted, ReviewDone, RequestReview,
              RowsMove
<1>3. ASSUME NEW k \in Keys, RowNext(k) PROVE RowsMove
  BY <1>3 DEF RowNext, Authorize, Retire, Send, Record, Active, MovesOn, RowsMove
<1>4. CASE Refresh \/ Tick \/ OpenOrClose \/ SetHalted \/ UNCHANGED vars
  BY <1>4 DEF Refresh, Tick, OpenOrClose, SetHalted, vars, RowsMove
<1>5. QED
  BY <1>1, <1>2, <1>3, <1>4 DEF Next

LEMMA ConstantFacts ==
  /\ IsFiniteSet(Keys)
  /\ \A k \in Keys : ListingFor(k) \in Listings
  /\ Sizes \subseteq Int /\ \A n \in Sizes : n # 0 /\ n \in Nat
<1>1. IsFiniteSet(Keys)
  BY GenerationAssumption, FS_Union DEF Keys
<1>2. \A k \in Keys : ListingFor(k) \in Listings
  BY GenerationAssumption DEF Keys, ListingFor
<1>3. Sizes \subseteq Int /\ \A n \in Sizes : n # 0 /\ n \in Nat
  BY GenerationAssumption
<1>4. QED
  BY <1>1, <1>2, <1>3

\* The rows stay rows.
LEMMA RowsStep ==
  ASSUME LedgerInv, RowsMove
  PROVE  /\ row' \in [Keys -> Rows]
         /\ \A k \in Keys : Live(k)' /\ row'[k].side = "BUY" => row'[k].amount \in Sizes
<1> USE DEF LedgerInv
<1>1. CASE UNCHANGED row
  BY <1>1 DEF Live
<1>2. ASSUME NEW k \in Keys, Sells(k)
      PROVE  /\ row' \in [Keys -> Rows]
             /\ \A x \in Keys : Live(x)' /\ row'[x].side = "BUY" => row'[x].amount \in Sizes
  BY <1>2 DEF Sells, Rows, Active, Live
<1>3. ASSUME NEW k \in Keys, Buys(k)
      PROVE  /\ row' \in [Keys -> Rows]
             /\ \A x \in Keys : Live(x)' /\ row'[x].side = "BUY" => row'[x].amount \in Sizes
  BY <1>3, ConstantFacts DEF Buys, Rows, Active, Live
<1>4. ASSUME NEW k \in Keys, MovesOn(k)
      PROVE  /\ row' \in [Keys -> Rows]
             /\ \A x \in Keys : Live(x)' /\ row'[x].side = "BUY" => row'[x].amount \in Sizes
  <2>1. PICK status \in {"APPROVED", "EXECUTION_PENDING", "ENDED", "EXECUTED"} :
              SetStatus(k, status)
    BY <1>4 DEF MovesOn
  <2>2. Live(k)
    BY <1>4 DEF MovesOn, Live
  <2>3. CASE k \in Listings /\ status \notin Active
    <3>1. row' = [row EXCEPT ![k] = NoRow]
      BY <2>1, <2>3 DEF SetStatus
    <3>2. QED
      BY <3>1 DEF NoRow, Rows, Live, Active
  <2>4. CASE ~(k \in Listings /\ status \notin Active)
    <3>1. row' = [row EXCEPT ![k] = [@ EXCEPT !.status = status]]
      BY <2>1, <2>4 DEF SetStatus
    <3>2. QED
      BY <2>2, <3>1 DEF Rows, Live, Active
  <2>5. QED
    BY <2>3, <2>4
<1>5. QED
  BY <1>1, <1>2, <1>3, <1>4 DEF RowsMove

\* What a call takes along, it takes whole.
LEMMA CallIsCall ==
  ASSUME LedgerInv, NEW task \in {"job", "exits", "rotation"}, NEW k \in Keys,
         NEW side \in {"BUY", "SELL"}
  PROVE  /\ Call(task, k, side) \in Calls
         /\ Call(task, k, side).transient = {} =>
                Call(task, k, side).account \in [cash : Int, held : Int]
<1>1. Loaded \in {None} \cup Snapshots /\ ListingFor(k) \in Listings
  BY ConstantFacts DEF LedgerInv, Loaded
<1>2. Loaded # None => Loaded.cash \in Int /\ Loaded.held[ListingFor(k)] \in Int
  BY <1>1 DEF Snapshots, Quantities
<1> DEFINE kept == IF Loaded = None THEN None
                   ELSE [cash |-> Loaded.cash, held |-> Loaded.held[ListingFor(k)]]
           transient == (IF Loaded = None THEN {"account_state_available"} ELSE {})
                        \cup (IF open THEN {} ELSE {"market_session"})
           late == k \in Theses /\ thesis[k] > DeferralMax
<1>3. kept \in {None} \cup [cash : Int, held : Int]
  BY <1>2
<1>4. transient \in SUBSET {"account_state_available", "market_session"}
  OBVIOUS
<1>5. late \in BOOLEAN
  OBVIOUS
<1>6. transient = {} => kept \in [cash : Int, held : Int]
  <2>1. transient = {} => Loaded # None
    OBVIOUS
  <2>2. QED
    BY <1>2, <2>1
<1>7. Call(task, k, side) = [task |-> task, key |-> k, side |-> side, account |-> kept,
                             late |-> late, transient |-> transient]
  BY DEF Call
<1> HIDE DEF kept, late, transient
<1>8. Call(task, k, side) \in Calls
  BY <1>3, <1>4, <1>5, <1>7 DEF Calls
<1>9. QED
  BY <1>6, <1>7, <1>8

LEMMA LedgerInit == Init => LedgerInv
<1> SUFFICES ASSUME Init PROVE LedgerInv
  OBVIOUS
<1>1. broker \in [cash : Int, held : Quantities]
  BY GenerationAssumption DEF Init, Quantities
<1>2. row \in [Keys -> Rows] /\ \A k \in Keys : ~Live(k)
  BY DEF Init, NoRow, Rows, Live, Active
<1>3. QED
  BY <1>1, <1>2 DEF Init, LedgerInv

GenTyped ==
    /\ gen \in [Generators -> {None} \cup Calls]
    /\ \A g \in Generators :
          gen[g] # None /\ gen[g].transient = {} => gen[g].account \in [cash : Int, held : Int]

LEMMA StartKeeps ==
  ASSUME GenTyped, NEW g \in Generators, NEW c \in Calls,
         c.transient = {} => c.account \in [cash : Int, held : Int], Start(g, c)
  PROVE  GenTyped'
  BY DEF GenTyped, Start

LEMMA GenStep ==
  ASSUME LedgerInv, [Next]_vars
  PROVE  GenTyped'
<1>1. GenTyped
  BY DEF LedgerInv, GenTyped
<1>2. ASSUME NEW g \in Generators, Commit(g) \/ Crash(g) PROVE GenTyped'
  BY <1>1, <1>2 DEF GenTyped, Commit, Crash
<1>3. ASSUME NEW g \in Generators, NEW task \in {"job", "exits", "rotation"},
             NEW k \in Keys, NEW side \in {"BUY", "SELL"}, Start(g, Call(task, k, side))
      PROVE  GenTyped'
  <2>1. PICK c : c = Call(task, k, side)
    OBVIOUS
  <2>2. c \in Calls /\ (c.transient = {} => c.account \in [cash : Int, held : Int])
    BY <2>1, CallIsCall
  <2>3. Start(g, c)
    BY <1>3, <2>1 DEF Start
  <2>4. QED
    BY <1>1, <2>2, <2>3, StartKeeps
<1>4. ASSUME NEW g \in Generators, NEW t \in Theses,
             Generate(g, t) \/ ProcessReview(g, t) \/ RetryAfterSale(g, t)
      PROVE  GenTyped'
  <2>1. t \in Keys
    BY DEF Keys
  <2>2. CASE Generate(g, t) \/ RetryAfterSale(g, t)
    BY <1>3, <2>1, <2>2 DEF Generate, RetryAfterSale
  <2>3. CASE ProcessReview(g, t)
    <3>1. PICK l : l = review[t].listing
      OBVIOUS
    <3>2. l \in Keys
      BY <2>3, <3>1 DEF ProcessReview, SaleWanted, Reviewed, LedgerInv, Reviews, Keys
    <3>3. Start(g, Call("rotation", l, "SELL"))
      BY <2>3, <3>1 DEF ProcessReview, Start, Call
    <3>4. QED
      BY <1>3, <3>2, <3>3
  <2>4. QED
    BY <1>4, <2>2, <2>3
<1>5. ASSUME NEW g \in Generators, NEW l \in Listings, NEW side \in {"BUY", "SELL"},
             Resize(g, l, side)
      PROVE  GenTyped'
  BY <1>3, <1>5 DEF Resize, Keys
<1>6. ASSUME NEW t \in Theses, ThesisNext(t) PROVE UNCHANGED gen
  BY <1>6 DEF ThesisNext, Publish, EnqueuePending, GenerateHalted, ReviewDone, RequestReview
<1>7. ASSUME NEW k \in Keys, RowNext(k) PROVE UNCHANGED gen
  BY <1>7 DEF RowNext, Authorize, Retire, Send, Record
<1>8. ASSUME Refresh \/ Tick \/ OpenOrClose \/ SetHalted \/ UNCHANGED vars
      PROVE  UNCHANGED gen
  BY <1>8 DEF Refresh, Tick, OpenOrClose, SetHalted, vars
<1>9. ASSUME UNCHANGED gen PROVE GenTyped'
  BY <1>1, <1>9 DEF GenTyped
<1>10. QED
  BY <1>2, <1>4, <1>5, <1>6, <1>7, <1>8, <1>9 DEF Next, GeneratorNext

LEMMA MinOfTwo ==
  ASSUME NEW a \in Int, NEW b \in Int
  PROVE  Min({a, b}) \in Int
<1>1. \E x \in {a, b} : \A y \in {a, b} : x <= y
  OBVIOUS
<1>2. Min({a, b}) \in {a, b}
  BY <1>1 DEF Min
<1>3. QED
  BY <1>2

AccountTyped ==
    /\ account \in {None} \cup Snapshots
    /\ broker \in [cash : Int, held : Quantities]
    /\ review \in [Theses -> {None} \cup Reviews]

LEMMA AccountStep ==
  ASSUME LedgerInv, [Next]_vars
  PROVE  AccountTyped'
<1>1. AccountTyped
  BY DEF LedgerInv, AccountTyped
<1>2. CASE Refresh
  <2>1. account' = [cash |-> broker.cash, age |-> 0, held |-> broker.held]
    BY <1>2 DEF Refresh
  <2>2. account' \in Snapshots
    BY <1>1, <2>1 DEF AccountTyped, Snapshots
  <2>3. QED
    BY <1>1, <1>2, <2>2 DEF AccountTyped, Refresh
<1>3. CASE Tick
  <2>1. account' = Aged(account) /\ UNCHANGED <<broker, review>>
    BY <1>3 DEF Tick
  <2>2. CASE account = None
    BY <1>1, <2>1, <2>2 DEF AccountTyped, Aged
  <2>3. CASE account # None
    <3>1. account \in Snapshots
      BY <1>1, <2>3 DEF AccountTyped
    <3>2. PICK age : age = Later(account.age, SnapshotMaxAge)
      OBVIOUS
    <3>3. account' = [account EXCEPT !.age = age]
      BY <2>1, <2>3, <3>2 DEF Aged
    <3>4. age \in Int \cup {None}
      <4>1. account.age \in Int \cup {None} /\ SnapshotMaxAge \in Int
        BY <3>1, GenerationAssumption DEF Snapshots
      <4>2. CASE account.age = None
        BY <3>2, <4>2 DEF Later
      <4>3. CASE account.age # None
        <5>1. account.age + 1 \in Int /\ SnapshotMaxAge + 1 \in Int
          BY <4>1, <4>3
        <5>2. QED
          BY <3>2, <4>3, <5>1, MinOfTwo DEF Later
      <4>4. QED
        BY <4>2, <4>3
    <3>5. account' \in Snapshots
      BY <3>1, <3>3, <3>4 DEF Snapshots
    <3>6. QED
      BY <1>1, <2>1, <3>5 DEF AccountTyped
  <2>4. QED
    BY <2>2, <2>3
<1>4. ASSUME NEW k \in Keys, Send(k) PROVE AccountTyped'
  <2>1. PICK l : l = ListingFor(k)
    OBVIOUS
  <2>2. l \in Listings /\ row[k].amount \in Int /\ broker.cash \in Int
        /\ broker.held \in [Listings -> Int]
    BY <1>1, <2>1, ConstantFacts DEF LedgerInv, Rows, AccountTyped, Quantities
  <2>3. PICK sold \in Int : sold = Min({row[k].amount, broker.held[l]})
    BY <2>2, MinOfTwo
  <2>4. broker' = IF row[k].side = "BUY"
                  THEN [cash |-> broker.cash - row[k].amount,
                        held |-> [broker.held EXCEPT ![l] = @ + row[k].amount]]
                  ELSE [cash |-> broker.cash + sold,
                        held |-> [broker.held EXCEPT ![l] = @ - sold]]
    BY <1>4, <2>1, <2>3 DEF Send
  <2>5. broker' \in [cash : Int, held : Quantities]
    BY <2>2, <2>4 DEF Quantities
  <2>6. QED
    BY <1>1, <1>4, <2>5 DEF AccountTyped, Send
<1>5. ASSUME NEW t \in Theses, ReviewDone(t) \/ \E l \in Listings : RequestReview(t, l)
      PROVE  AccountTyped'
  <2>1. review' \in [Theses -> {None} \cup Reviews]
    BY <1>1, <1>5 DEF AccountTyped, ReviewDone, RequestReview, Reviews
  <2>2. QED
    BY <1>1, <1>5, <2>1 DEF AccountTyped, ReviewDone, RequestReview
<1>6. ASSUME UNCHANGED <<account, broker, review>> PROVE AccountTyped'
  BY <1>1, <1>6 DEF AccountTyped
<1>7. ASSUME NEW g \in Generators, GeneratorNext(g) PROVE UNCHANGED <<account, broker, review>>
  BY <1>7 DEF GeneratorNext, Commit, Crash, Generate, ProcessReview, RetryAfterSale, Resize,
              Start
<1>8. ASSUME NEW t \in Theses, Publish(t) \/ EnqueuePending(t) \/ GenerateHalted(t)
      PROVE  UNCHANGED <<account, broker, review>>
  BY <1>8 DEF Publish, EnqueuePending, GenerateHalted
<1>9. ASSUME NEW k \in Keys, Authorize(k) \/ Retire(k) \/ Record(k)
      PROVE  UNCHANGED <<account, broker, review>>
  BY <1>9 DEF Authorize, Retire, Record
<1>10. ASSUME OpenOrClose \/ SetHalted \/ UNCHANGED vars
       PROVE  UNCHANGED <<account, broker, review>>
  BY <1>10 DEF OpenOrClose, SetHalted, vars
<1>11. QED
  BY <1>2, <1>3, <1>4, <1>5, <1>6, <1>7, <1>8, <1>9, <1>10 DEF Next, ThesisNext, RowNext

LEMMA LedgerStep ==
  ASSUME LedgerInv, [Next]_vars
  PROVE  LedgerInv'
  BY StepMoves, RowsStep, GenStep, AccountStep DEF LedgerInv, GenTyped, AccountTyped

\* Rows, generators and the account keep in step: what a generator has read under
\* the account's lock is what the rows reserve (generate, generate_exit).
THEOREM LedgerInvariant == Spec => []LedgerInv
<1>1. Init => LedgerInv
  BY LedgerInit
<1>2. LedgerInv /\ [Next]_vars => LedgerInv'
  BY LedgerStep
<1>3. QED
  BY <1>1, <1>2, PTL DEF Spec

ClaimsAddUp ==
    /\ claims \in [Keys -> Nat]
    /\ Reserved(Keys) = Sum(claims, Keys)
    /\ Reserved(Keys) \in Nat

LEMMA ClaimsTyped == LedgerInv => ClaimsAddUp
<1> SUFFICES ASSUME LedgerInv PROVE ClaimsAddUp
  OBVIOUS
<1>1. ASSUME NEW k \in Keys
      PROVE  (IF Live(k) /\ row[k].side = "BUY" THEN row[k].amount ELSE 0) \in Nat
  BY ConstantFacts DEF LedgerInv
<1>2. claims \in [Keys -> Nat]
  BY <1>1 DEF claims
<1>3. QED
  BY <1>2, ConstantFacts, ReservedIsSum, SumNat DEF ClaimsAddUp

\* What one row's claim does to the whole.
LEMMA ReservedChange ==
  ASSUME ClaimsAddUp, ClaimsAddUp', NEW k \in Keys, NEW amount \in Int,
         claims' = [claims EXCEPT ![k] = amount]
  PROVE  /\ Reserved(Keys)' = Reserved(Keys) - claims[k] + amount
         /\ Reserved(Keys) \in Int /\ Reserved(Keys)' \in Int
         /\ Reserved(Keys)' = Ledger!Total(claims')
<1>1. PICK old, new : old = claims /\ new = claims'
  OBVIOUS
<1>2. old \in [Keys -> Int] /\ new = [old EXCEPT ![k] = amount] /\ new \in [Keys -> Int]
  BY <1>1 DEF ClaimsAddUp
<1>3. Sum(new, Keys) = Sum(old, Keys) - old[k] + new[k]
  <2>1. \A x \in Keys \ {k} : new[x] = old[x]
    BY <1>2
  <2>2. IsFiniteSet(Keys)
    BY ConstantFacts
  <2>3. old \in [Keys -> Int] /\ new \in [Keys -> Int]
    BY <1>2
  <2>4. QED
    BY ONLY <2>1, <2>2, <2>3, k \in Keys, SumChange
<1>4. Sum(old, Keys) \in Int /\ Sum(new, Keys) \in Int
  BY <1>2, ConstantFacts, SumType
<1>5. Reserved(Keys) = Sum(old, Keys) /\ Reserved(Keys)' = Sum(new, Keys)
  BY <1>1 DEF ClaimsAddUp
<1>6. Ledger!Total(claims') = Sum(new, Keys)
  BY <1>1, LedgerTotal
<1>7. QED
  BY <1>1, <1>2, <1>3, <1>4, <1>5, <1>6

\* Every step is one of the ledger's, or none of its business.
Booked == Ledger!Next \/ UNCHANGED claims

Within == Reserved(Keys) <= ExposureBudget

\* A buy is claimed against everything the others hold.
LEMMA BuyClaims ==
  ASSUME LedgerInv, LedgerInv', ClaimsAddUp, ClaimsAddUp', NEW k \in Keys, Buys(k)
  PROVE  Booked /\ Within'
<1>1. PICK amount \in Sizes :
        /\ Reserved(Keys) + amount <= ExposureBudget
        /\ row' = [row EXCEPT ![k] = [status |-> "READY", side |-> "BUY", amount |-> amount]]
  BY DEF Buys
<1>2. claims[k] = 0
  BY DEF Buys, claims, Live, Active
<1>3. claims' = [claims EXCEPT ![k] = amount]
  BY <1>1 DEF LedgerInv, claims, Live, Active, Rows
<1>4. amount \in Int /\ amount \in Nat /\ amount # 0
  BY ConstantFacts
<1>5. /\ Reserved(Keys)' = Reserved(Keys) - claims[k] + amount
      /\ Reserved(Keys) \in Int /\ Reserved(Keys)' = Ledger!Total(claims')
  BY <1>3, <1>4, ReservedChange
<1>6. Reserved(Keys)' <= ExposureBudget
  BY <1>1, <1>2, <1>4, <1>5
<1>7. amount \in 1..ExposureBudget
  BY <1>1, <1>4, GenerationAssumption DEF ClaimsAddUp
<1>8. Ledger!Claim(k)
  BY <1>2, <1>3, <1>5, <1>6, <1>7 DEF Ledger!Claim, claims
<1>9. QED
  BY <1>6, <1>8 DEF Booked, Ledger!Next, Within

\* A sale claims nothing.
LEMMA SaleClaims ==
  ASSUME LedgerInv, NEW k \in Keys, Sells(k)
  PROVE  UNCHANGED claims
<1>1. ASSUME NEW x \in Keys PROVE claims'[x] = claims[x]
  BY <1>1 DEF LedgerInv, Sells, claims, Live, Active
<1>2. QED
  BY <1>1 DEF claims

\* A row that moves on keeps its claim or gives it back.
LEMMA MoveClaims ==
  ASSUME LedgerInv, ClaimsAddUp, ClaimsAddUp', Within, NEW k \in Keys, MovesOn(k)
  PROVE  Booked /\ Within'
<1>1. PICK status \in {"APPROVED", "EXECUTION_PENDING", "ENDED", "EXECUTED"} :
            SetStatus(k, status)
  BY DEF MovesOn
<1>2. CASE status \in Active
  <2>1. row' = [row EXCEPT ![k] = [@ EXCEPT !.status = status]]
    BY <1>1, <1>2 DEF SetStatus
  <2>2. ASSUME NEW x \in Keys PROVE claims'[x] = claims[x]
    BY <1>2, <2>1 DEF LedgerInv, MovesOn, claims, Live, Rows
  <2>3. UNCHANGED claims
    BY <2>2 DEF claims
  <2>4. QED
    BY <2>3 DEF Booked, Within, ClaimsAddUp
<1>3. CASE status \notin Active
  <2>1. row' = [row EXCEPT ![k] = NoRow] \/ row' = [row EXCEPT ![k] = [@ EXCEPT !.status = status]]
    BY <1>1 DEF SetStatus
  <2>2. claims' = [claims EXCEPT ![k] = 0]
    <3>1. ASSUME NEW x \in Keys, x # k PROVE claims'[x] = claims[x]
      BY <2>1, <3>1 DEF LedgerInv, claims, Live
    <3>2. claims'[k] = 0
      <4>1. row'[k].status \notin Active
        BY <1>3, <2>1 DEF LedgerInv, Rows, NoRow, Active
      <4>2. QED
        BY <4>1 DEF claims, Live
    <3>3. QED
      BY <3>1, <3>2 DEF claims
  <2>3. claims[k] \in Nat
    BY DEF ClaimsAddUp
  <2>4. Reserved(Keys)' = Reserved(Keys) - claims[k]
    <3>1. 0 \in Int
      OBVIOUS
    <3>2. Reserved(Keys)' = Reserved(Keys) - claims[k] + 0 /\ Reserved(Keys) \in Int
      BY <2>2, <3>1, ReservedChange
    <3>3. QED
      BY <2>3, <3>2
  <2>5. Within'
    BY <2>3, <2>4, GenerationAssumption DEF Within, ClaimsAddUp
  <2>6. CASE claims[k] = 0
    <3>1. UNCHANGED claims
      BY <2>2, <2>6 DEF ClaimsAddUp
    <3>2. QED
      BY <2>5, <3>1 DEF Booked
  <2>7. CASE claims[k] # 0
    <3>1. 0 \in 0..ExposureBudget /\ 0 < claims[k]
      BY <2>3, <2>7, GenerationAssumption
    <3>2. Ledger!Release(k)
      BY <2>2, <3>1 DEF Ledger!Release, claims
    <3>3. QED
      BY <2>5, <3>2 DEF Booked, Ledger!Next
  <2>8. QED
    BY <2>6, <2>7
<1>4. QED
  BY <1>2, <1>3

LEMMA StepBooked ==
  ASSUME LedgerInv, LedgerInv', ClaimsAddUp, ClaimsAddUp', Within, [Next]_vars
  PROVE  Booked /\ Within'
<1>1. CASE UNCHANGED row
  BY <1>1 DEF Booked, claims, Live, Within, ClaimsAddUp
<1>2. ASSUME NEW k \in Keys, Sells(k) PROVE Booked /\ Within'
  BY <1>2, SaleClaims DEF Booked, Within, ClaimsAddUp
<1>3. QED
  BY <1>1, <1>2, StepMoves, BuyClaims, MoveClaims DEF RowsMove

\* Together the live buys never reserve more than the exposure budget, although
\* every generator judges its thesis alone and from facts of before (generate,
\* generate_exit, _reserved_exposure under the advisory lock).
THEOREM NeverOverspent == Spec => []Within
<1>1. Init => Within
  <2>1. SUFFICES ASSUME Init PROVE Within
    OBVIOUS
  <2>2. ClaimsAddUp
    BY <2>1, LedgerInit, ClaimsTyped
  <2>3. claims = [k \in Keys |-> 0] /\ ClaimsAddUp
    BY <2>1, <2>2 DEF Init, NoRow, claims, Live, Active
  <2>4. QED
    BY <2>3, SumZero, ConstantFacts, GenerationAssumption DEF ClaimsAddUp, Within
<1>2. LedgerInv /\ LedgerInv' /\ ClaimsAddUp /\ ClaimsAddUp' /\ Within /\ [Next]_vars => Within'
  BY StepBooked
<1>3. QED
  BY <1>1, <1>2, LedgerInvariant, ClaimsTyped, PTL DEF Spec

\* Generation keeps the reserve-before-you-spend ledger of Budget: every step of
\* it is a claim granted against everything the others hold at that moment, or
\* one given back, or does not touch the ledger (generate, generate_exit).
THEOREM LedgerKept == Spec => KeepsLedger
<1>1. Init => Ledger!Init
  BY DEF Init, NoRow, Live, Active, Ledger!Init
<1>2. LedgerInv /\ LedgerInv' /\ ClaimsAddUp /\ ClaimsAddUp' /\ Within /\ [Next]_vars
         => Booked
  BY StepBooked
<1>3. QED
  BY <1>1, <1>2, LedgerInvariant, ClaimsTyped, NeverOverspent, PTL
     DEF Spec, KeepsLedger, Ledger!Spec, Booked, claims

=============================================================================
