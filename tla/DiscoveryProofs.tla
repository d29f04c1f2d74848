--------------------------- MODULE DiscoveryProofs --------------------------
(***************************************************************************)
(* Theorems about Discovery, for every set of queries, sources and workers *)
(* and every cap, cooldown and window of the paid providers.               *)
(***************************************************************************)
EXTENDS Discovery, FiniteSetTheorems, TLAPS

Calls == [item : Items, phase : {"local", "request", "close", "record"},
          current : BOOLEAN, outcome : Outcomes \cup {None}]

\* What the theorems take of the constants.
Constants == DiscoveryAssumption /\ None \notin Calls

-----------------------------------------------------------------------------
(* The least and the greatest of two numbers.                              *)

LEMMA LeastOfTwo ==
  ASSUME NEW a \in Int, NEW b \in Int
  PROVE  Min({a, b}) = IF a <= b THEN a ELSE b
<1> DEFINE least == IF a <= b THEN a ELSE b
<1>1. least \in {a, b} /\ \A y \in {a, b} : least =< y
  OBVIOUS
<1>2. \A x \in {a, b} : (\A y \in {a, b} : x =< y) => x = least
  OBVIOUS
<1>3. QED
  BY <1>1, <1>2 DEF Min

LEMMA GreatestOfTwo ==
  ASSUME NEW a \in Int, NEW b \in Int
  PROVE  Max({a, b}) = IF a >= b THEN a ELSE b
<1> DEFINE greatest == IF a >= b THEN a ELSE b
<1>1. greatest \in {a, b} /\ \A y \in {a, b} : greatest >= y
  OBVIOUS
<1>2. \A x \in {a, b} : (\A y \in {a, b} : x >= y) => x = greatest
  OBVIOUS
<1>3. QED
  BY <1>1, <1>2 DEF Max

-----------------------------------------------------------------------------
(* Whose item is whose.                                                    *)

Busy(w) == caller[w] # None

Typed ==
    /\ wait \in [Queries -> Nat] /\ since \in [Queries -> Nat]
    /\ fetched \in SUBSET Sources /\ offered \in SUBSET Items
    /\ caller \in [Workers -> {None} \cup Calls]
    /\ used \in [Providers -> [calls : Int, units : Int]] /\ bill \in [Providers -> Int]
    /\ lost \in [Items -> Nat] /\ paid \in [Sources -> Nat]

\* A worker's item has its job, and nobody else's attention.
Attended ==
    /\ \A w \in Workers : Busy(w) => caller[w].item \in offered
    /\ \A v, w \in Workers : Busy(v) /\ Busy(w) /\ caller[v].item = caller[w].item => v = w

\* Only pages are read by the free extractor.
LocalPages == \A w \in Workers : Busy(w) /\ caller[w].phase = "local" => caller[w].item \in Sources

\* The row of a reservation covers what the request may still be billed, and
\* what it was not billed but is still to be given back.
Owing(p) == {w \in Workers : /\ Busy(w) /\ caller[w].current
                             /\ ProviderOf(caller[w].item) = p
                             /\ \/ caller[w].phase = "request"
                                \/ caller[w].phase = "close" /\ Refunded(caller[w])}

Covered == \A p \in Providers :
              /\ bill[p] + Cardinality(Owing(p)) <= used[p].units
              /\ used[p].units <= UnitCap[p]

\* Before its fetch has been asked for, a page is paid for by dead workers only.
Pages == \A s \in Sources :
            /\ s \in fetched => ~Claimed(s)
            /\ paid[s] <= 1 + lost[s]
            /\ (/\ s \notin fetched
                /\ \A w \in Workers : Busy(w) /\ caller[w].item = s =>
                                         caller[w].phase \in {"local", "request"})
               => paid[s] <= lost[s]

\* A query nobody is searching waits out its cooldown, before it is offered.
Pace == Min({Interval, FailureCooldown})
Rested == \A q \in Queries : lost[q] = 0 /\ ~Claimed(q) =>
             since[q] + (IF q \in offered THEN 0 ELSE wait[q]) >= Pace

-----------------------------------------------------------------------------
(* Types.                                                                  *)

LEMMA TypedInit == ASSUME Constants, Init PROVE Typed
BY DEF Init, Typed, Constants, DiscoveryAssumption, Providers

\* What a caller's record becomes is a call again.
LEMMA CallTypes ==
  ASSUME Typed, NEW w \in Workers, Busy(w)
  PROVE  /\ caller[w] \in Calls /\ caller[w].item \in Items
         /\ \A phase \in {"local", "request", "close", "record"} :
               [caller[w] EXCEPT !.phase = phase] \in Calls
         /\ \A phase \in {"local", "request", "close", "record"},
               outcome \in Outcomes \cup {None} :
               [caller[w] EXCEPT !.phase = phase, !.outcome = outcome] \in Calls
         /\ [caller[w] EXCEPT !.current = FALSE] \in Calls
BY DEF Typed, Busy, Calls

LEMMA NewCall ==
  ASSUME NEW i \in Items, NEW phase \in {"local", "request"}
  PROVE  [item |-> i, phase |-> phase, current |-> TRUE, outcome |-> None] \in Calls
BY DEF Calls

LEMMA ReserveTypes ==
  ASSUME Typed, NEW w \in Workers, NEW i \in Items, Reserve(w, i)
  PROVE  /\ caller' \in [Workers -> {None} \cup Calls]
         /\ used' \in [Providers -> [calls : Int, units : Int]]
<1>1. [item |-> i, phase |-> "request", current |-> TRUE, outcome |-> None] \in Calls
  BY NewCall
<1>2. ProviderOf(i) \in Providers
  BY DEF ProviderOf, Providers
<1>3. QED
  BY <1>1, <1>2 DEF Typed, Reserve

\* What a request is billed, in the window and to its page.
LEMMA BillingFacts ==
  ASSUME Constants, NEW p \in Providers, NEW outcome \in Outcomes,
         NEW n \in Billed(p, outcome)
  PROVE  /\ n \in Nat /\ n - Unforeseen(p, outcome, n) \in 0 .. 1
         /\ p = "search" /\ Refunds /\ outcome \in {"rejected", "unreadable"} =>
               n - Unforeseen(p, outcome, n) = 0
<1>1. n \in 0 .. 2
  BY DEF Billed, Attempts, Outcomes
<1>2. Max({n - 1, 0}) = IF n - 1 >= 0 THEN n - 1 ELSE 0
  BY <1>1, GreatestOfTwo
<1>3. outcome = "rejected" => n \in 0 .. 1
  BY DEF Billed
<1>4. p = "search" /\ Refunds /\ outcome = "rejected" => n = 0
  BY DEF Billed
<1>5. QED
  BY <1>1, <1>2, <1>3, <1>4 DEF Unforeseen

\* A request that ended so, and was billed n.
Ends(w, outcome, n) ==
    LET c == caller[w]
        p == ProviderOf(c.item)
    IN  /\ n \in Billed(p, outcome)
        /\ caller' = [caller EXCEPT ![w].phase = "close", ![w].outcome = outcome]
        /\ bill' = Counted(bill, c, n - Unforeseen(p, outcome, n))
        /\ paid' = IF c.item \in Sources /\ n > 0
                   THEN [paid EXCEPT ![c.item] = @ + 1] ELSE paid

LEMMA TypedStep == ASSUME Constants, Typed, [Next]_vars PROVE Typed'
<1> USE DEF Typed
<1>0. Items = Queries \cup Sources /\ Queries \cap Sources = {}
  BY DEF Items, Constants, DiscoveryAssumption
<1>00. Interval \in Nat /\ FailureCooldown \in Nat
  BY DEF Constants, DiscoveryAssumption
<1>1. CASE UNCHANGED vars
  BY <1>1 DEF vars
<1>2. CASE EnqueueDueSearches
  BY <1>0, <1>00, <1>2 DEF EnqueueDueSearches, kSubset
<1>3. CASE EnqueueContentFetches
  BY <1>0, <1>3 DEF EnqueueContentFetches
<1>4. ASSUME NEW w \in Workers, NEW q \in Queries, Search(w, q) PROVE Typed'
  <2>1. CASE Refused("search")
    BY <1>0, <1>00, <1>4, <2>1 DEF Search
  <2>2. CASE ~Refused("search")
    <3>1. Reserve(w, q) /\ since' = [since EXCEPT ![q] = 0]
          /\ UNCHANGED <<wait, offered, lost, fetched, bill, paid>>
      BY <1>4, <2>2 DEF Search
    <3>2. QED
      BY <1>0, <3>1, ReserveTypes
  <2>3. QED
    BY <2>1, <2>2
<1>5. ASSUME NEW w \in Workers, NEW s \in Sources, Extract(w, s) PROVE Typed'
  <2>1. [item |-> s, phase |-> "local", current |-> TRUE, outcome |-> None] \in Calls
    BY <1>0, NewCall
  <2>2. QED
    BY <1>5, <2>1 DEF Extract
<1>6. ASSUME NEW w \in Workers, ExtractLocally(w) PROVE Typed'
  <2>1. Busy(w) /\ caller[w].item \in Items
    BY <1>6, CallTypes DEF ExtractLocally, Busy
  <2>2. CASE Reserve(w, caller[w].item)
    BY <1>6, <2>1, <2>2, ReserveTypes DEF ExtractLocally
  <2>3. CASE ~Reserve(w, caller[w].item)
    <3>1. PICK outcome \in Outcomes :
             caller' = [caller EXCEPT ![w].phase = "record", ![w].outcome = outcome]
      BY <1>6, <2>3 DEF ExtractLocally, Outcomes
    <3>2. used' = used
      BY <1>6, <2>3 DEF ExtractLocally
    <3>3. [caller[w] EXCEPT !.phase = "record", !.outcome = outcome] \in Calls
      BY <2>1, CallTypes
    <3>4. QED
      BY <1>6, <3>1, <3>2, <3>3 DEF ExtractLocally
  <2>4. QED
    BY <2>2, <2>3
<1>7. ASSUME NEW w \in Workers, Request(w) PROVE Typed'
  <2>1. Busy(w) /\ caller[w].item \in Items
    BY <1>7, CallTypes DEF Request, Busy
  <2>2. PICK outcome \in Outcomes : \E k : Ends(w, outcome, k)
    BY <1>7 DEF Request, Ends
  <2>3. PICK n : Ends(w, outcome, n)
    BY <2>2
  <2>4. ProviderOf(caller[w].item) \in Providers
    BY DEF ProviderOf, Providers
  <2>5. n - Unforeseen(ProviderOf(caller[w].item), outcome, n) \in Int
    BY <2>3, <2>4, BillingFacts DEF Ends
  <2>6. bill' \in [Providers -> Int]
    BY <2>3, <2>4, <2>5 DEF Counted, Ends
  <2>7. paid' \in [Sources -> Nat]
    BY <2>3 DEF Ends
  <2>8. [caller[w] EXCEPT !.phase = "close", !.outcome = outcome] \in Calls
    BY <2>1, CallTypes
  <2>9. QED
    BY <1>7, <2>3, <2>6, <2>7, <2>8 DEF Request, Ends
<1>8. ASSUME NEW w \in Workers, Close(w) PROVE Typed'
  <2>1. Busy(w) /\ [caller[w] EXCEPT !.phase = "record"] \in Calls
    BY <1>8, CallTypes DEF Close, Busy
  <2>2. ProviderOf(caller[w].item) \in Providers
    BY DEF ProviderOf, Providers
  <2>3. used' \in [Providers -> [calls : Int, units : Int]]
    BY <1>8, <2>2 DEF Close
  <2>4. QED
    BY <1>8, <2>1, <2>3 DEF Close
<1>9. ASSUME NEW w \in Workers, Record(w) PROVE Typed'
  <2>1. Busy(w) /\ caller[w].item \in Items
    BY <1>9, CallTypes DEF Record, Busy
  <2>2. Cooldown(caller[w]) \in Nat
    BY <1>00 DEF Cooldown
  <2>3. QED
    BY <1>0, <1>9, <2>1, <2>2 DEF Record
<1>10. ASSUME NEW w \in Workers, Die(w) PROVE Typed'
  <2>1. Busy(w) /\ caller[w].item \in Items
    BY <1>10, CallTypes DEF Die, Busy
  <2>2. lost' \in [Items -> Nat] /\ caller' \in [Workers -> {None} \cup Calls]
    BY <1>10, <2>1 DEF Die
  <2>3. QED
    BY <1>10, <2>2 DEF Die
<1>11. CASE Tick
  <2>1. ASSUME NEW q \in Queries
        PROVE  Max({wait[q] - 1, 0}) \in Nat /\ Min({since[q] + 1, FailureCooldown}) \in Nat
    <3>1. wait[q] - 1 \in Int /\ 0 \in Int /\ since[q] + 1 \in Nat /\ since[q] + 1 \in Int
      OBVIOUS
    <3>2. FailureCooldown \in Int
      BY <1>00
    <3>3. Max({wait[q] - 1, 0}) \in Nat
      BY <3>1, GreatestOfTwo
    <3>4. Min({since[q] + 1, FailureCooldown}) \in Nat
      BY <1>00, <3>1, <3>2, LeastOfTwo
    <3>5. QED
      BY <3>3, <3>4
  <2>2. QED
    BY <1>11, <2>1 DEF Tick
<1>12. CASE NewWindow
  <2>1. ASSUME NEW w \in Workers, caller[w] # None
        PROVE  [caller[w] EXCEPT !.current = FALSE] \in Calls
    BY <2>1, CallTypes DEF Busy
  <2>2. QED
    BY <1>12, <2>1 DEF NewWindow
<1>13. QED
  BY <1>1, <1>2, <1>3, <1>4, <1>5, <1>6, <1>7, <1>8, <1>9, <1>10, <1>11, <1>12 DEF Next
-----------------------------------------------------------------------------
(* Attention.                                                              *)

\* What a step does to the items of the callers: nothing; or it takes up one of
\* those that nobody has; or it lets its own go.
Takes(w, i) == /\ ~Busy(w) /\ Busy(w)' /\ i \in offered /\ ~Claimed(i)
               /\ caller[w]' \in Calls /\ caller'[w].item = i
               /\ \A v \in Workers \ {w} : caller'[v] = caller[v]
               /\ UNCHANGED <<offered, fetched, lost, wait>>
Leaves(w) == /\ Busy(w) /\ ~Busy(w)'
             /\ \A v \in Workers \ {w} : caller'[v] = caller[v]
             /\ offered' = offered \ {caller[w].item}
Stays == \A v \in Workers : (Busy(v)' <=> Busy(v)) /\ (Busy(v) => caller'[v].item = caller[v].item)
Spares == \A v \in Workers : Busy(v) /\ caller[v].item \in offered => caller[v].item \in offered'

\* A call goes on from one phase to the next.
Advances(w, from, to) ==
    /\ Busy(w) /\ caller[w].phase = from
    /\ caller'[w] \in Calls /\ caller'[w].phase = to
    /\ caller'[w].item = caller[w].item
    /\ from # "local" => caller'[w].current = caller[w].current
    /\ \A v \in Workers \ {w} : caller'[v] = caller[v]

LEMMA OutcomeMoves ==
  ASSUME Typed, NEW w \in Workers, Busy(w),
         NEW phase \in {"local", "request", "close", "record"}, NEW outcome \in Outcomes,
         caller' = [caller EXCEPT ![w].phase = phase, ![w].outcome = outcome]
  PROVE  Advances(w, caller[w].phase, phase)
<1>1. caller'[w] = [caller[w] EXCEPT !.phase = phase, !.outcome = outcome]
  BY DEF Typed
<1>2. caller[w] \in Calls /\ [caller[w] EXCEPT !.phase = phase, !.outcome = outcome] \in Calls
  BY CallTypes
<1>3. /\ caller'[w].phase = phase /\ caller'[w].item = caller[w].item
      /\ caller'[w].current = caller[w].current
  BY <1>1, <1>2 DEF Calls, Typed
<1>4. QED
  BY <1>1, <1>2, <1>3 DEF Advances, Typed

LEMMA Progress ==
  ASSUME Constants, Typed, NEW w \in Workers
  PROVE  /\ ExtractLocally(w) => Advances(w, "local", "request") \/ Advances(w, "local", "record")
         /\ Request(w) => Advances(w, "request", "close")
         /\ Close(w) => Advances(w, "close", "record")
<1> USE DEF Typed
<1>0. None \notin Calls
  BY DEF Constants
<1>1. ASSUME ExtractLocally(w)
      PROVE  Advances(w, "local", "request") \/ Advances(w, "local", "record")
  <2>1. Busy(w) /\ caller[w].phase = "local" /\ caller[w].item \in Items
    BY <1>1, CallTypes DEF ExtractLocally, Busy
  <2>2. CASE Reserve(w, caller[w].item)
    <3>1. caller'[w] = [item |-> caller[w].item, phase |-> "request", current |-> TRUE,
                        outcome |-> None]
      BY <2>2 DEF Reserve
    <3>2. caller'[w] \in Calls
      BY <2>1, <3>1, NewCall
    <3>3. QED
      BY <2>1, <2>2, <3>1, <3>2 DEF Reserve, Advances
  <2>3. CASE ~Reserve(w, caller[w].item)
    <3>1. PICK outcome \in Outcomes :
             caller' = [caller EXCEPT ![w].phase = "record", ![w].outcome = outcome]
      BY <1>1, <2>3 DEF ExtractLocally, Outcomes
    <3>2. QED
      BY <2>1, <3>1, OutcomeMoves
  <2>4. QED
    BY <2>2, <2>3
<1>2. ASSUME Request(w) PROVE Advances(w, "request", "close")
  <2>1. PICK outcome \in Outcomes :
           caller' = [caller EXCEPT ![w].phase = "close", ![w].outcome = outcome]
    BY <1>2 DEF Request
  <2>2. Busy(w) /\ caller[w].phase = "request"
    BY <1>2 DEF Request, Busy
  <2>3. QED
    BY <2>1, <2>2, OutcomeMoves
<1>3. ASSUME Close(w) PROVE Advances(w, "close", "record")
  <2>1. Busy(w) /\ caller[w].phase = "close" /\ caller' = [caller EXCEPT ![w].phase = "record"]
    BY <1>3 DEF Close, Busy
  <2>2. caller'[w] = [caller[w] EXCEPT !.phase = "record"]
    BY <2>1
  <2>3. caller'[w] \in Calls /\ caller[w] \in Calls
    BY <2>1, <2>2, CallTypes
  <2>4. QED
    BY <2>1, <2>2, <2>3 DEF Advances, Calls
<1>4. QED
  BY <1>1, <1>2, <1>3

LEMMA AttentionMoves ==
  ASSUME Constants, Typed, Attended, [Next]_vars
  PROVE  \/ \E w \in Workers, i \in Items : Takes(w, i)
         \/ \E w \in Workers : Leaves(w)
         \/ Stays /\ Spares
<1> USE DEF Typed
<1>0. Items = Queries \cup Sources /\ None \notin Calls
  BY DEF Items, Constants
<1>1. CASE UNCHANGED vars
  BY <1>1 DEF vars, Stays, Spares, Busy
<1>2. CASE EnqueueDueSearches \/ EnqueueContentFetches
  BY <1>2 DEF EnqueueDueSearches, EnqueueContentFetches, Stays, Spares, Busy
<1>3. ASSUME NEW w \in Workers, NEW q \in Queries, Search(w, q)
      PROVE  Takes(w, q) \/ (Stays /\ Spares)
  <2>1. CASE Refused("search")
    BY <1>0, <1>3, <2>1 DEF Search, Stays, Spares, Busy, Claimed
  <2>2. CASE ~Refused("search")
    <3>1. [item |-> q, phase |-> "request", current |-> TRUE, outcome |-> None] \in Calls
      BY <1>0, NewCall
    <3>2. caller' = [caller EXCEPT ![w] = [item |-> q, phase |-> "request", current |-> TRUE,
                                           outcome |-> None]]
          /\ UNCHANGED <<offered, fetched, lost, wait>> /\ caller[w] = None /\ q \in offered /\ ~Claimed(q)
      BY <1>3, <2>2 DEF Search, Reserve
    <3>3. QED
      BY <1>0, <3>1, <3>2 DEF Takes, Busy
  <2>3. QED
    BY <2>1, <2>2
<1>4. ASSUME NEW w \in Workers, NEW s \in Sources, Extract(w, s)
      PROVE  Takes(w, s) \/ (Stays /\ Spares)
  <2>1. CASE s \in fetched
    BY <1>0, <1>4, <2>1 DEF Extract, Stays, Spares, Busy, Claimed
  <2>2. CASE s \notin fetched
    <3>1. [item |-> s, phase |-> "local", current |-> TRUE, outcome |-> None] \in Calls
      BY <1>0, NewCall
    <3>2. caller' = [caller EXCEPT ![w] = [item |-> s, phase |-> "local", current |-> TRUE,
                                           outcome |-> None]]
          /\ UNCHANGED <<offered, fetched, lost, wait>> /\ caller[w] = None /\ s \in offered /\ ~Claimed(s)
      BY <1>4, <2>2 DEF Extract
    <3>3. QED
      BY <1>0, <3>1, <3>2 DEF Takes, Busy
  <2>3. QED
    BY <2>1, <2>2
<1>5. ASSUME NEW w \in Workers, ExtractLocally(w) \/ Request(w) \/ Close(w)
      PROVE  Stays /\ Spares
  <2>1. offered' = offered
    BY <1>5 DEF ExtractLocally, Request, Close
  <2>2. Busy(w) /\ caller'[w] \in Calls /\ caller'[w].item = caller[w].item
        /\ \A v \in Workers \ {w} : caller'[v] = caller[v]
    BY <1>5, Progress DEF Advances
  <2>3. QED
    BY <1>0, <2>1, <2>2 DEF Stays, Spares, Busy
<1>6. ASSUME NEW w \in Workers, Record(w) \/ Die(w) PROVE Leaves(w)
  BY <1>6 DEF Record, Die, Leaves, Busy
<1>7. CASE Tick
  BY <1>7 DEF Tick, Stays, Spares, Busy
<1>8. CASE NewWindow
  <2>1. ASSUME NEW w \in Workers, caller[w] # None
        PROVE  caller'[w] # None /\ caller'[w].item = caller[w].item
    <3>1. [caller[w] EXCEPT !.current = FALSE] \in Calls /\ caller[w] \in Calls
      BY <2>1, CallTypes DEF Busy
    <3>2. QED
      BY <1>0, <1>8, <2>1, <3>1 DEF NewWindow, Calls
  <2>2. QED
    BY <1>8, <2>1 DEF NewWindow, Stays, Spares, Busy
<1>9. QED
  BY <1>0, <1>1, <1>2, <1>3, <1>4, <1>5, <1>6, <1>7, <1>8 DEF Next

LEMMA AttendedStep ==
  ASSUME Constants, Typed, Attended, [Next]_vars
  PROVE  Attended'
<1>1. ASSUME NEW w \in Workers, NEW i \in Items, Takes(w, i) PROVE Attended'
  BY <1>1 DEF Takes, Attended, Busy, Claimed
<1>2. ASSUME NEW w \in Workers, Leaves(w) PROVE Attended'
  BY <1>2 DEF Leaves, Attended, Busy
<1>3. ASSUME Stays, Spares PROVE Attended'
  BY <1>3 DEF Stays, Spares, Attended, Busy
<1>4. QED
  BY <1>1, <1>2, <1>3, AttentionMoves

LEMMA LocalStep ==
  ASSUME Constants, Typed, Attended, LocalPages, [Next]_vars
  PROVE  LocalPages'
<1>0. None \notin Calls
  BY DEF Constants
<1>1. CASE UNCHANGED caller
  BY <1>1 DEF LocalPages, Busy
<1>2. ASSUME NEW w \in Workers,
             caller'[w] = caller[w] \/ (Busy(w)' => caller'[w].phase # "local" \/ caller'[w].item \in Sources),
             \A v \in Workers \ {w} : caller'[v] = caller[v]
      PROVE  LocalPages'
  BY <1>2 DEF LocalPages, Busy
<1>3. ASSUME NEW w \in Workers, NEW q \in Queries, Search(w, q) PROVE LocalPages'
  BY <1>1, <1>2, <1>3 DEF Search, Reserve, Typed
<1>4. ASSUME NEW w \in Workers, NEW s \in Sources, Extract(w, s) PROVE LocalPages'
  BY <1>1, <1>2, <1>4 DEF Extract, Typed
<1>5. ASSUME NEW w \in Workers, ExtractLocally(w) \/ Request(w) \/ Close(w) PROVE LocalPages'
  BY <1>2, <1>5, Progress DEF Advances
<1>6. ASSUME NEW w \in Workers, Record(w) \/ Die(w) PROVE LocalPages'
  BY <1>2, <1>6 DEF Record, Die, Busy, Typed
<1>7. CASE NewWindow
  <2>1. ASSUME NEW w \in Workers, Busy(w)
        PROVE  caller'[w].item = caller[w].item /\ caller'[w].phase = caller[w].phase
    <3>1. [caller[w] EXCEPT !.current = FALSE] \in Calls /\ caller[w] \in Calls
      BY <2>1, CallTypes
    <3>2. QED
      BY <1>7, <2>1, <3>1 DEF NewWindow, Calls, Busy
  <2>2. \A w \in Workers : Busy(w)' => Busy(w)
    BY <1>7 DEF NewWindow, Busy
  <2>3. QED
    BY <2>1, <2>2 DEF LocalPages
<1>8. QED
  BY <1>1, <1>3, <1>4, <1>5, <1>6, <1>7
  DEF Next, vars, EnqueueDueSearches, EnqueueContentFetches, Tick

-----------------------------------------------------------------------------
(* Pages.                                                                  *)

\* The fetch of s is paid for, or need not be.
Settled(s) ==
    s \in fetched \/ \E w \in Workers : /\ Busy(w) /\ caller[w].item = s
                                       /\ caller[w].phase \notin {"local", "request"}

LEMMA PagesAre ==
  Pages <=> \A s \in Sources :
               /\ s \in fetched => ~Claimed(s)
               /\ paid[s] <= 1 + lost[s]
               /\ ~Settled(s) => paid[s] <= lost[s]
BY DEF Pages, Settled

LEMMA PagesStep ==
  ASSUME Constants, Typed, Typed', Attended, Attended', Pages, [Next]_vars
  PROVE  Pages'
<1> USE DEF Typed
<1>0. None \notin Calls /\ Items = Queries \cup Sources /\ Queries \cap Sources = {}
  BY DEF Constants, DiscoveryAssumption, Items
<1>1. ASSUME UNCHANGED <<fetched, paid, lost>>,
             \A s \in Sources : Claimed(s)' => Claimed(s) \/ s \notin fetched,
             \A s \in Sources : Settled(s) => Settled(s)'
      PROVE  Pages'
  <2>1. ASSUME NEW s \in Sources
        PROVE  /\ s \in fetched' => ~Claimed(s)'
               /\ paid'[s] <= 1 + lost'[s]
               /\ ~Settled(s)' => paid'[s] <= lost'[s]
    BY <1>1, PagesAre
  <2>2. QED
    BY <2>1 DEF Pages, Settled
<1>2. CASE UNCHANGED vars
  BY <1>1, <1>2 DEF vars, Claimed, Settled, Busy
<1>3. CASE EnqueueDueSearches \/ EnqueueContentFetches \/ Tick
  BY <1>1, <1>3 DEF EnqueueDueSearches, EnqueueContentFetches, Tick, Claimed, Settled, Busy
<1>4. ASSUME NEW w \in Workers, NEW q \in Queries, Search(w, q) PROVE Pages'
  <2>1. UNCHANGED <<fetched, paid, lost>>
    BY <1>4 DEF Search
  <2>2. \A s \in Sources : Claimed(s)' => Claimed(s)
    BY <1>0, <1>4 DEF Search, Reserve, Claimed
  <2>3. \A s \in Sources : Settled(s) => Settled(s)'
    BY <1>0, <1>4 DEF Search, Reserve, Settled, Busy
  <2>4. QED
    BY <1>1, <2>1, <2>2, <2>3
<1>5. ASSUME NEW w \in Workers, NEW p \in Sources, Extract(w, p) PROVE Pages'
  <2>1. UNCHANGED <<fetched, paid, lost>>
    BY <1>5 DEF Extract
  <2>2. \A s \in Sources : Claimed(s)' => Claimed(s) \/ s \notin fetched
    BY <1>0, <1>5 DEF Extract, Claimed
  <2>3. \A s \in Sources : Settled(s) => Settled(s)'
    BY <1>0, <1>5 DEF Extract, Settled, Busy
  <2>4. QED
    BY <1>1, <2>1, <2>2, <2>3
<1>6. ASSUME NEW w \in Workers, ExtractLocally(w) \/ Close(w) PROVE Pages'
  <2>1. UNCHANGED <<fetched, paid, lost>>
    BY <1>6 DEF ExtractLocally, Close
  <2>2. PICK from, to \in {"local", "request", "close", "record"} :
          Advances(w, from, to) /\ (from = "local" \/ to = "record")
    BY <1>6, Progress
  <2>3. \A s \in Sources : Claimed(s)' => Claimed(s)
    BY <2>2 DEF Advances, Claimed, Busy
  <2>4. \A s \in Sources : Settled(s) => Settled(s)'
    BY <1>0, <2>1, <2>2 DEF Advances, Settled, Busy
  <2>5. QED
    BY <1>1, <2>1, <2>3, <2>4
<1>7. ASSUME NEW w \in Workers, Request(w) PROVE Pages'
  <2>1. Advances(w, "request", "close") /\ UNCHANGED <<fetched, lost>>
    BY <1>7, Progress DEF Request
  <2>2. PICK outcome \in Outcomes : \E k : Ends(w, outcome, k)
    BY <1>7 DEF Request, Ends
  <2>3. PICK n : Ends(w, outcome, n)
    BY <2>2
  <2>4. ASSUME NEW s \in Sources
        PROVE  /\ s \in fetched' => ~Claimed(s)'
               /\ paid'[s] <= 1 + lost'[s]
               /\ ~Settled(s)' => paid'[s] <= lost'[s]
    <3>1. s \in fetched => ~Claimed(s)'
      BY <2>1, PagesAre DEF Advances, Claimed, Busy
    <3>2. CASE caller[w].item = s
      <4>1. s \notin fetched
        BY <2>1, <3>2, PagesAre DEF Claimed, Advances, Busy
      <4>2. ~Settled(s)
        BY <2>1, <3>2, <4>1 DEF Settled, Advances, Attended
      <4>3. Settled(s)'
        BY <1>0, <2>1, <3>2 DEF Settled, Advances, Busy
      <4>4. paid[s] \in Nat /\ lost[s] \in Nat /\ paid[s] <= lost[s]
        BY <1>0, <4>2, PagesAre
      <4>5. paid'[s] = paid[s] \/ paid'[s] = paid[s] + 1
        BY <2>3 DEF Ends
      <4>6. QED
        BY <2>1, <3>1, <4>3, <4>4, <4>5
    <3>3. CASE caller[w].item # s
      <4>1. paid'[s] = paid[s]
        BY <2>3, <3>3 DEF Ends
      <4>2. Settled(s) => Settled(s)'
        BY <2>1, <3>3 DEF Settled, Advances, Busy
      <4>3. QED
        BY <2>1, <3>1, <4>1, <4>2, PagesAre
    <3>4. QED
      BY <3>2, <3>3
  <2>5. QED
    BY <2>4 DEF Pages, Settled
<1>8. ASSUME NEW w \in Workers, Record(w) PROVE Pages'
  <2>1. /\ Busy(w) /\ caller[w].phase = "record" /\ paid' = paid
        /\ caller' = [caller EXCEPT ![w] = None]
        /\ fetched' = IF caller[w].item \in Queries THEN fetched
                      ELSE fetched \cup {caller[w].item}
        /\ \A s \in Sources : lost'[s] = lost[s]
    BY <1>0, <1>8 DEF Record, Busy, Marks
  <2>2. ASSUME NEW s \in Sources
        PROVE  /\ s \in fetched' => ~Claimed(s)'
               /\ paid'[s] <= 1 + lost'[s]
               /\ ~Settled(s)' => paid'[s] <= lost'[s]
    <3>1. CASE caller[w].item = s
      <4>1. fetched' = fetched \cup {s} /\ ~Claimed(s)'
        BY <1>0, <2>1, <3>1 DEF Claimed, Attended, Busy
      <4>2. QED
        BY <2>1, <4>1, PagesAre DEF Settled
    <3>2. CASE caller[w].item # s
      <4>1. s \in fetched' <=> s \in fetched
        BY <2>1, <3>2
      <4>2. Claimed(s)' => Claimed(s)
        BY <2>1 DEF Claimed
      <4>3. Settled(s) => Settled(s)'
        BY <2>1, <3>2, <4>1 DEF Settled, Busy
      <4>4. QED
        BY <2>1, <4>1, <4>2, <4>3, PagesAre
    <3>3. QED
      BY <3>1, <3>2
  <2>3. QED
    BY <2>2 DEF Pages, Settled
<1>9. ASSUME NEW w \in Workers, Die(w) PROVE Pages'
  <2>1. /\ Busy(w) /\ caller[w].item \in Items
        /\ caller' = [caller EXCEPT ![w] = None] /\ UNCHANGED <<paid, fetched>>
        /\ lost' = [lost EXCEPT ![caller[w].item] = @ + 1]
    BY <1>9, CallTypes DEF Die, Busy
  <2>2. ASSUME NEW s \in Sources
        PROVE  /\ s \in fetched' => ~Claimed(s)'
               /\ paid'[s] <= 1 + lost'[s]
               /\ ~Settled(s)' => paid'[s] <= lost'[s]
    <3>1. Claimed(s)' => Claimed(s)
      BY <2>1 DEF Claimed
    <3>2. CASE caller[w].item = s
      <4>1. lost'[s] = lost[s] + 1 /\ lost[s] \in Nat /\ paid[s] \in Nat
        BY <1>0, <2>1, <3>2
      <4>2. QED
        BY <2>1, <3>1, <4>1, PagesAre
    <3>3. CASE caller[w].item # s
      <4>1. lost'[s] = lost[s]
        BY <1>0, <2>1, <3>3
      <4>2. Settled(s) => Settled(s)'
        BY <2>1, <3>3 DEF Settled, Busy
      <4>3. QED
        BY <2>1, <3>1, <4>1, <4>2, PagesAre
    <3>4. QED
      BY <3>2, <3>3
  <2>3. QED
    BY <2>2 DEF Pages, Settled
<1>10. CASE NewWindow
  <2>1. UNCHANGED <<fetched, paid, lost>>
    BY <1>10 DEF NewWindow
  <2>2. ASSUME NEW w \in Workers
        PROVE  /\ Busy(w)' <=> Busy(w)
               /\ Busy(w) => caller'[w].item = caller[w].item /\ caller'[w].phase = caller[w].phase
    <3>1. Busy(w) => [caller[w] EXCEPT !.current = FALSE] \in Calls /\ caller[w] \in Calls
      BY CallTypes
    <3>2. QED
      BY <1>0, <1>10, <3>1 DEF NewWindow, Calls, Busy
  <2>3. \A s \in Sources : Claimed(s)' => Claimed(s)
    BY <2>2 DEF Claimed, Busy
  <2>4. \A s \in Sources : Settled(s) => Settled(s)'
    BY <2>1, <2>2 DEF Settled
  <2>5. QED
    BY <1>1, <2>1, <2>3, <2>4
<1>11. QED
  BY <1>2, <1>3, <1>4, <1>5, <1>6, <1>7, <1>8, <1>9, <1>10 DEF Next

-----------------------------------------------------------------------------
(* The bill.                                                               *)

LEMMA Count ==
  ASSUME NEW S, IsFiniteSet(S), NEW A \in SUBSET S, NEW B \in SUBSET S
  PROVE  /\ Cardinality(A) \in Nat /\ Cardinality(B) \in Nat
         /\ B \subseteq A => Cardinality(B) <= Cardinality(A)
         /\ \A x \in A : B \subseteq A \ {x} => Cardinality(B) <= Cardinality(A) - 1
         /\ \A x : B \subseteq A \cup {x} => Cardinality(B) <= Cardinality(A) + 1
<1>1. IsFiniteSet(A) /\ Cardinality(A) \in Nat /\ IsFiniteSet(B) /\ Cardinality(B) \in Nat
  BY FS_Subset, FS_CardinalityType
<1>2. B \subseteq A => Cardinality(B) <= Cardinality(A)
  BY <1>1, FS_Subset
<1>3. ASSUME NEW x \in A, B \subseteq A \ {x} PROVE Cardinality(B) <= Cardinality(A) - 1
  <2>1. IsFiniteSet(A \ {x}) /\ Cardinality(A \ {x}) = Cardinality(A) - 1
    BY <1>1, FS_RemoveElement
  <2>2. Cardinality(B) <= Cardinality(A \ {x})
    BY <1>3, <2>1, FS_Subset
  <2>3. QED
    BY <2>1, <2>2
<1>4. ASSUME NEW x, B \subseteq A \cup {x} PROVE Cardinality(B) <= Cardinality(A) + 1
  <2>1. IsFiniteSet(A \cup {x}) /\ Cardinality(A \cup {x}) <= Cardinality(A) + 1
    BY <1>1, FS_AddElement
  <2>2. Cardinality(B) <= Cardinality(A \cup {x})
    BY <1>4, <2>1, FS_Subset
  <2>3. Cardinality(A \cup {x}) \in Nat
    BY <2>1, FS_CardinalityType
  <2>4. QED
    BY <1>1, <2>1, <2>2, <2>3
<1>5. QED
  BY <1>1, <1>2, <1>3, <1>4

\* What a step may do to a provider's rows and its bill: bill less for what it
\* owes, owe one more for a unit that fits, owe one less for one that is billed
\* or given back.
CoveredFor(p) ==
    bill[p] + Cardinality(Owing(p)) <= used[p].units /\ used[p].units <= UnitCap[p]
Undone(p) == bill'[p] = bill[p] /\ used'[p] = used[p] /\ Owing(p)' \subseteq Owing(p)
Reserves(p, w) == /\ bill'[p] = bill[p] /\ used'[p].units = used[p].units + 1
                  /\ used[p].units + 1 <= UnitCap[p]
                  /\ Owing(p)' \subseteq Owing(p) \cup {w}
Pays(p, w) == /\ bill'[p] \in {bill[p], bill[p] + 1} /\ used'[p] = used[p]
              /\ w \in Owing(p) /\ Owing(p)' \subseteq Owing(p) \ {w}
GivesBack(p, w) == /\ bill'[p] = bill[p] /\ used'[p].units = used[p].units - 1
                   /\ w \in Owing(p) /\ Owing(p)' \subseteq Owing(p) \ {w}
Forgets(p) == bill'[p] = 0 /\ used'[p].units = 0 /\ Owing(p)' = {}

LEMMA CoverMoves ==
  ASSUME Constants, Typed, Typed', NEW p \in Providers, CoveredFor(p),
         \/ Undone(p) \/ Forgets(p)
         \/ \E w \in Workers : Reserves(p, w) \/ Pays(p, w) \/ GivesBack(p, w)
  PROVE  CoveredFor(p)'
<1>1. IsFiniteSet(Workers) /\ Owing(p) \in SUBSET Workers /\ Owing(p)' \in SUBSET Workers
  BY DEF Constants, DiscoveryAssumption, Owing
<1>2. /\ Cardinality(Owing(p)) \in Nat /\ Cardinality(Owing(p)') \in Nat
      /\ Owing(p)' \subseteq Owing(p) => Cardinality(Owing(p)') <= Cardinality(Owing(p))
      /\ \A x \in Owing(p) : Owing(p)' \subseteq Owing(p) \ {x} =>
            Cardinality(Owing(p)') <= Cardinality(Owing(p)) - 1
      /\ \A x : Owing(p)' \subseteq Owing(p) \cup {x} =>
            Cardinality(Owing(p)') <= Cardinality(Owing(p)) + 1
  <2>1. PICK A, B : A = Owing(p) /\ B = Owing(p)'
    OBVIOUS
  <2>2. QED
    BY ONLY <1>1, <2>1, Count
<1>3. /\ bill[p] \in Int /\ bill'[p] \in Int /\ used[p].units \in Int /\ used'[p].units \in Int
      /\ UnitCap[p] \in Nat
  BY DEF Typed, Constants, DiscoveryAssumption
<1>4. CASE Undone(p)
  BY <1>2, <1>3, <1>4 DEF CoveredFor, Undone
<1>5. CASE Forgets(p)
  BY <1>3, <1>5, FS_EmptySet DEF CoveredFor, Forgets
<1>6. ASSUME NEW w \in Workers, Reserves(p, w) PROVE CoveredFor(p)'
  BY <1>2, <1>3, <1>6 DEF CoveredFor, Reserves
<1>7. ASSUME NEW w \in Workers, Pays(p, w) PROVE CoveredFor(p)'
  BY <1>2, <1>3, <1>7 DEF CoveredFor, Pays
<1>8. ASSUME NEW w \in Workers, GivesBack(p, w) PROVE CoveredFor(p)'
  BY <1>2, <1>3, <1>8 DEF CoveredFor, GivesBack
<1>9. QED
  BY <1>4, <1>5, <1>6, <1>7, <1>8

LEMMA ReserveCovers ==
  ASSUME Constants, Typed, NEW w \in Workers, NEW i \in Items, NEW p \in Providers,
         ~Refused(ProviderOf(i)), Reserve(w, i), bill' = bill
  PROVE  Undone(p) \/ Reserves(p, w)
<1>1. ProviderOf(i) \in Providers
  BY DEF ProviderOf, Providers
<1>2. [item |-> i, phase |-> "request", current |-> TRUE, outcome |-> None] \in Calls
  BY NewCall
<1>3. /\ caller'[w].item = i
      /\ \A v \in Workers \ {w} : caller'[v] = caller[v]
  BY DEF Typed, Reserve
<1>4. CASE p = ProviderOf(i)
  <2>1. used'[p].units = used[p].units + 1 /\ used[p].units + 1 <= UnitCap[p]
    BY <1>1, <1>4 DEF Typed, Reserve, Refused, Constants, DiscoveryAssumption
  <2>2. Owing(p)' \subseteq Owing(p) \cup {w}
    BY <1>3 DEF Owing, Busy
  <2>3. QED
    BY <2>1, <2>2 DEF Reserves
<1>5. CASE p # ProviderOf(i)
  <2>1. used'[p] = used[p]
    BY <1>1, <1>5 DEF Typed, Reserve
  <2>2. Owing(p)' \subseteq Owing(p)
    BY <1>3, <1>5 DEF Owing, Busy
  <2>3. QED
    BY <2>1, <2>2 DEF Undone
<1>6. QED
  BY <1>4, <1>5

LEMMA CoveredStep ==
  ASSUME Constants, Typed, Typed', LocalPages, Covered, [Next]_vars
  PROVE  Covered'
<1> USE DEF Typed
<1>0. None \notin Calls /\ Items = Queries \cup Sources
  BY DEF Constants, Items
<1>1. SUFFICES ASSUME NEW p \in Providers
               PROVE  \/ Undone(p) \/ Forgets(p)
                      \/ \E w \in Workers : Reserves(p, w) \/ Pays(p, w) \/ GivesBack(p, w)
  BY CoverMoves DEF Covered, CoveredFor
<1>2. CASE UNCHANGED <<caller, used, bill>>
  BY <1>2 DEF Undone, Owing, Busy
<1>3. ASSUME NEW w \in Workers, NEW q \in Queries, Search(w, q)
      PROVE  Undone(p) \/ Reserves(p, w)
  <2>1. CASE Refused("search")
    BY <1>3, <2>1 DEF Search, Undone, Owing, Busy
  <2>2. CASE ~Refused("search")
    <3>1. Reserve(w, q) /\ bill' = bill /\ ProviderOf(q) = "search"
      BY <1>3, <2>2 DEF Search, ProviderOf
    <3>2. QED
      BY <1>0, <2>2, <3>1, ReserveCovers
  <2>3. QED
    BY <2>1, <2>2
<1>4. ASSUME NEW w \in Workers, NEW s \in Sources, Extract(w, s) PROVE Undone(p)
  <2>1. UNCHANGED <<used, bill>> /\ \A v \in Workers \ {w} : caller'[v] = caller[v]
    BY <1>4 DEF Extract
  <2>2. caller'[w] = caller[w] \/ caller'[w].phase = "local"
    BY <1>4 DEF Extract
  <2>3. Owing(p)' \subseteq Owing(p)
    BY <2>1, <2>2 DEF Owing, Busy
  <2>4. QED
    BY <2>1, <2>3 DEF Undone
<1>5. ASSUME NEW w \in Workers, ExtractLocally(w) PROVE Undone(p) \/ Reserves(p, w)
  <2>1. Busy(w) /\ caller[w].item \in Items /\ bill' = bill
    BY <1>5, CallTypes DEF ExtractLocally, Busy
  <2>2. CASE Reserve(w, caller[w].item) /\ ~Refused("scrape")
    <3>1. caller[w].item \in Sources /\ ProviderOf(caller[w].item) = "scrape"
      BY <1>5, <2>1 DEF ExtractLocally, LocalPages, ProviderOf, Constants, DiscoveryAssumption
    <3>2. QED
      BY <2>1, <2>2, <3>1, ReserveCovers
  <2>3. ASSUME used' = used, Advances(w, "local", "record") PROVE Undone(p)
    BY <2>1, <2>3 DEF Undone, Owing, Busy, Advances
  <2>4. ASSUME NEW outcome \in Outcomes,
               caller' = [caller EXCEPT ![w].phase = "record", ![w].outcome = outcome], used' = used
        PROVE  Undone(p)
    <3>1. Advances(w, caller[w].phase, "record")
      BY <2>1, <2>4, OutcomeMoves
    <3>2. caller[w].phase = "local"
      BY <1>5 DEF ExtractLocally
    <3>3. QED
      BY <2>3, <2>4, <3>1, <3>2
  <2>5. \/ Reserve(w, caller[w].item) /\ ~Refused("scrape")
        \/ \E outcome \in Outcomes :
              caller' = [caller EXCEPT ![w].phase = "record", ![w].outcome = outcome] /\ used' = used
    BY <1>5 DEF ExtractLocally, Outcomes
  <2>6. QED
    BY <2>2, <2>4, <2>5
<1>6. ASSUME NEW w \in Workers, Request(w) PROVE Undone(p) \/ Pays(p, w)
  <2>1. Advances(w, "request", "close") /\ used' = used
    BY <1>6, Progress DEF Request
  <2>2. PICK outcome \in Outcomes : \E k : Ends(w, outcome, k)
    BY <1>6 DEF Request, Ends
  <2>3. PICK n : Ends(w, outcome, n)
    BY <2>2
  <2>4. caller[w] \in Calls /\ ProviderOf(caller[w].item) \in Providers /\ caller[w].current \in BOOLEAN
    BY <2>1, CallTypes DEF Advances, ProviderOf, Providers, Calls
  <2>5. CASE ~(caller[w].current /\ ProviderOf(caller[w].item) = p)
    <3>1. bill'[p] = bill[p]
      BY <2>3, <2>4, <2>5 DEF Ends, Counted
    <3>2. Owing(p)' \subseteq Owing(p)
      BY <2>1, <2>5 DEF Owing, Busy, Advances
    <3>3. QED
      BY <2>1, <3>1, <3>2 DEF Undone
  <2>6. CASE caller[w].current /\ ProviderOf(caller[w].item) = p
    <3>1. w \in Owing(p)
      BY <2>1, <2>6 DEF Owing, Advances
    <3>2. n - Unforeseen(p, outcome, n) \in 0 .. 1
      BY <2>3, <2>6, BillingFacts DEF Ends
    <3>3. bill'[p] = bill[p] + (n - Unforeseen(p, outcome, n))
      BY <2>3, <2>6 DEF Ends, Counted
    <3>4. caller'[w].outcome = outcome /\ caller'[w].item = caller[w].item
      BY <2>1, <2>3, <2>4 DEF Ends, Calls, Advances
    <3>5. CASE Refunded(caller'[w])
      <4>1. n - Unforeseen(p, outcome, n) = 0
        BY <2>3, <2>6, <3>4, <3>5, BillingFacts DEF Ends, Refunded
      <4>2. bill'[p] = bill[p]
        BY <3>3, <4>1
      <4>3. Owing(p)' \subseteq Owing(p)
        BY <2>1, <3>1 DEF Owing, Busy, Advances
      <4>4. QED
        BY <2>1, <4>2, <4>3 DEF Undone
    <3>6. CASE ~Refunded(caller'[w])
      <4>1. Owing(p)' \subseteq Owing(p) \ {w}
        BY <2>1, <3>6 DEF Owing, Busy, Advances, Refunded
      <4>2. QED
        BY <2>1, <3>1, <3>2, <3>3, <4>1 DEF Pays
    <3>7. QED
      BY <3>5, <3>6
  <2>7. QED
    BY <2>5, <2>6
<1>7. ASSUME NEW w \in Workers, Close(w) PROVE Undone(p) \/ GivesBack(p, w)
  <2>1. Advances(w, "close", "record") /\ bill' = bill
    BY <1>7, Progress DEF Close
  <2>2. ProviderOf(caller[w].item) \in Providers
    BY DEF ProviderOf, Providers
  <2>3. CASE caller[w].current /\ Refunded(caller[w]) /\ ProviderOf(caller[w].item) = p
    <3>1. used'[p].units = used[p].units - 1
      BY <1>7, <2>2, <2>3 DEF Close
    <3>2. w \in Owing(p) /\ Owing(p)' \subseteq Owing(p) \ {w}
      BY <2>1, <2>3 DEF Owing, Busy, Advances
    <3>3. QED
      BY <2>1, <3>1, <3>2 DEF GivesBack
  <2>4. CASE ~(caller[w].current /\ Refunded(caller[w]) /\ ProviderOf(caller[w].item) = p)
    <3>1. used'[p] = used[p]
      BY <1>7, <2>2, <2>4 DEF Close
    <3>2. Owing(p)' \subseteq Owing(p)
      BY <2>1 DEF Owing, Busy, Advances
    <3>3. QED
      BY <2>1, <3>1, <3>2 DEF Undone
  <2>5. QED
    BY <2>3, <2>4
<1>8. ASSUME NEW w \in Workers, Record(w) \/ Die(w) PROVE Undone(p)
  <2>1. UNCHANGED <<used, bill>> /\ caller' = [caller EXCEPT ![w] = None]
    BY <1>8 DEF Record, Die
  <2>2. QED
    BY <2>1 DEF Undone, Owing, Busy
<1>9. CASE NewWindow
  <2>1. bill'[p] = 0 /\ used'[p].units = 0
    BY <1>9 DEF NewWindow
  <2>2. ASSUME NEW w \in Workers PROVE w \notin Owing(p)'
    <3>1. Busy(w) => [caller[w] EXCEPT !.current = FALSE] \in Calls /\ caller[w] \in Calls
      BY CallTypes
    <3>2. QED
      BY <1>9, <3>1 DEF NewWindow, Owing, Busy, Calls
  <2>3. QED
    BY <2>1, <2>2 DEF Forgets, Owing
<1>10. QED
  BY <1>2, <1>3, <1>4, <1>5, <1>6, <1>7, <1>8, <1>9
  DEF Next, vars, EnqueueDueSearches, EnqueueContentFetches, Tick

-----------------------------------------------------------------------------
(* Cooldowns.                                                              *)

LEMMA PaceFacts ==
  ASSUME Constants
  PROVE  /\ Interval \in Nat /\ FailureCooldown \in Nat /\ Pace \in Nat
         /\ Pace <= Interval /\ Pace <= FailureCooldown
BY LeastOfTwo DEF Constants, DiscoveryAssumption, Pace

Waits(q) == since[q] + (IF q \in offered THEN 0 ELSE wait[q]) >= Pace

LEMMA RestedStep ==
  ASSUME Constants, Typed, Typed', Attended, Attended', Rested, [Next]_vars
  PROVE  Rested'
<1> USE DEF Typed
<1>0. /\ None \notin Calls /\ Items = Queries \cup Sources /\ Queries \cap Sources = {}
      /\ Interval \in Nat /\ FailureCooldown \in Nat /\ Pace \in Nat
      /\ Pace <= Interval /\ Pace <= FailureCooldown
  BY PaceFacts DEF Constants, DiscoveryAssumption, Items
<1>1. SUFFICES ASSUME NEW q \in Queries, lost'[q] = 0, ~Claimed(q)' PROVE Waits(q)'
  BY DEF Rested, Waits
<1>2. q \in Items /\ since[q] \in Nat /\ wait[q] \in Nat /\ since'[q] \in Nat /\ wait'[q] \in Nat
  BY <1>0
<1>3. ASSUME since'[q] = since[q], lost'[q] = lost[q], Claimed(q) => Claimed(q)',
             wait'[q] = wait[q], q \in offered' => q \in offered
      PROVE  Waits(q)'
  BY <1>0, <1>1, <1>2, <1>3 DEF Rested, Waits
<1>4. ASSUME since'[q] \in Nat, wait'[q] >= Pace, q \notin offered' PROVE Waits(q)'
  BY <1>0, <1>2, <1>4 DEF Waits
<1>5. CASE UNCHANGED vars
  BY <1>3, <1>5 DEF vars, Claimed
<1>6. CASE EnqueueDueSearches
  <2>1. PICK qs \in SUBSET {x \in Queries : wait[x] = 0 /\ x \notin offered} :
          /\ offered' = offered \cup qs
          /\ wait' = [x \in Queries |-> IF x \in qs THEN Interval ELSE wait[x]]
    BY <1>6 DEF EnqueueDueSearches, kSubset
  <2>2. UNCHANGED <<caller, since, lost>>
    BY <1>6 DEF EnqueueDueSearches
  <2>3. CASE q \in qs
    BY <1>0, <1>1, <1>2, <2>1, <2>2, <2>3 DEF Rested, Waits, Claimed
  <2>4. CASE q \notin qs
    BY <1>3, <2>1, <2>2, <2>4 DEF Claimed
  <2>5. QED
    BY <2>3, <2>4
<1>7. CASE EnqueueContentFetches
  BY <1>0, <1>3, <1>7 DEF EnqueueContentFetches, Claimed
<1>8. ASSUME NEW w \in Workers, NEW x \in Queries, Search(w, x) PROVE Waits(q)'
  <2>1. CASE Refused("search")
    <3>1. /\ wait' = [wait EXCEPT ![x] = FailureCooldown] /\ offered' = offered \ {x}
          /\ UNCHANGED <<caller, since, lost>>
      BY <1>8, <2>1 DEF Search
    <3>2. CASE x = q
      BY <1>0, <1>2, <1>4, <3>1, <3>2
    <3>3. CASE x # q
      BY <1>3, <3>1, <3>3 DEF Claimed
    <3>4. QED
      BY <3>2, <3>3
  <2>2. CASE ~Refused("search")
    <3>1. /\ caller' = [caller EXCEPT ![w] = [item |-> x, phase |-> "request", current |-> TRUE,
                                              outcome |-> None]]
          /\ since' = [since EXCEPT ![x] = 0] /\ UNCHANGED <<wait, offered, lost>>
          /\ caller[w] = None
      BY <1>8, <2>2 DEF Search, Reserve
    <3>2. [item |-> x, phase |-> "request", current |-> TRUE, outcome |-> None] \in Calls
      BY <1>0, NewCall
    <3>3. Claimed(x)'
      BY <1>0, <3>1, <3>2 DEF Claimed
    <3>4. x # q
      BY <1>1, <3>3
    <3>5. Claimed(q) => Claimed(q)'
      BY <3>1 DEF Claimed
    <3>6. QED
      BY <1>3, <3>1, <3>4, <3>5
  <2>3. QED
    BY <2>1, <2>2
<1>9. ASSUME NEW w \in Workers, NEW s \in Sources, Extract(w, s) PROVE Waits(q)'
  <2>1. UNCHANGED <<wait, since, lost>> /\ (q \in offered' => q \in offered)
    BY <1>9 DEF Extract
  <2>2. Claimed(q) => Claimed(q)'
    BY <1>9 DEF Extract, Claimed
  <2>3. QED
    BY <1>3, <2>1, <2>2
<1>10. ASSUME NEW w \in Workers, ExtractLocally(w) \/ Request(w) \/ Close(w) PROVE Waits(q)'
  <2>1. UNCHANGED <<wait, since, lost, offered>>
    BY <1>10 DEF ExtractLocally, Request, Close
  <2>2. Busy(w) /\ caller'[w] \in Calls /\ caller'[w].item = caller[w].item
        /\ \A v \in Workers \ {w} : caller'[v] = caller[v]
    BY <1>10, Progress DEF Advances
  <2>3. Claimed(q) => Claimed(q)'
    BY <1>0, <2>2 DEF Claimed
  <2>4. QED
    BY <1>3, <2>1, <2>3
<1>11. ASSUME NEW w \in Workers, Record(w) PROVE Waits(q)'
  <2>1. CASE caller[w].item = q
    <3>1. wait'[q] = Cooldown(caller[w]) /\ q \notin offered'
      BY <1>11, <2>1 DEF Record
    <3>2. wait'[q] >= Pace
      BY <1>0, <3>1 DEF Cooldown
    <3>3. QED
      BY <1>2, <1>4, <3>1, <3>2
  <2>2. CASE caller[w].item # q
    <3>1. wait'[q] = wait[q] /\ since'[q] = since[q] /\ lost'[q] = lost[q]
          /\ (q \in offered' => q \in offered)
      BY <1>2, <1>11, <2>2 DEF Record
    <3>2. Claimed(q) => Claimed(q)'
      BY <1>11, <2>2 DEF Record, Claimed
    <3>3. QED
      BY <1>3, <3>1, <3>2
  <2>3. QED
    BY <2>1, <2>2
<1>12. ASSUME NEW w \in Workers, Die(w) PROVE Waits(q)'
  <2>1. caller[w].item # q
    BY <1>1, <1>2, <1>12 DEF Die
  <2>2. lost'[q] = lost[q] /\ UNCHANGED <<wait, since>> /\ (q \in offered' => q \in offered)
    BY <1>2, <1>12, <2>1 DEF Die
  <2>3. Claimed(q) => Claimed(q)'
    BY <1>12, <2>1 DEF Die, Claimed
  <2>4. QED
    BY <1>3, <2>2, <2>3
<1>13. CASE Tick
  <2>1. /\ wait'[q] = Max({wait[q] - 1, 0}) /\ since'[q] = Min({since[q] + 1, FailureCooldown})
        /\ UNCHANGED <<offered, caller, lost>>
    BY <1>13 DEF Tick
  <2>2. wait'[q] = IF wait[q] - 1 >= 0 THEN wait[q] - 1 ELSE 0
    <3>1. wait[q] - 1 \in Int /\ 0 \in Int
      BY <1>2
    <3>2. QED
      BY <2>1, <3>1, GreatestOfTwo
  <2>3. since'[q] = IF since[q] + 1 <= FailureCooldown THEN since[q] + 1 ELSE FailureCooldown
    <3>1. since[q] + 1 \in Int /\ FailureCooldown \in Int
      BY <1>0, <1>2
    <3>2. QED
      BY <2>1, <3>1, LeastOfTwo
  <2>4. Waits(q)
    BY <1>1, <2>1 DEF Rested, Waits, Claimed
  <2>5. QED
    BY <1>0, <1>2, <2>1, <2>2, <2>3, <2>4 DEF Waits
<1>14. CASE NewWindow
  <2>1. UNCHANGED <<wait, since, lost, offered>>
    BY <1>14 DEF NewWindow
  <2>2. ASSUME NEW w \in Workers, Busy(w)
        PROVE  caller'[w] # None /\ caller'[w].item = caller[w].item
    <3>1. [caller[w] EXCEPT !.current = FALSE] \in Calls /\ caller[w] \in Calls
      BY <2>2, CallTypes
    <3>2. QED
      BY <1>0, <1>14, <2>2, <3>1 DEF NewWindow, Calls, Busy
  <2>3. Claimed(q) => Claimed(q)'
    BY <2>2 DEF Claimed, Busy
  <2>4. QED
    BY <1>3, <2>1, <2>3
<1>15. QED
  BY <1>5, <1>6, <1>7, <1>8, <1>9, <1>10, <1>11, <1>12, <1>13, <1>14 DEF Next

-----------------------------------------------------------------------------
(* The theorems.                                                           *)

DiscoveryInv ==
    Typed /\ Attended /\ LocalPages /\ Covered /\ Pages /\ Rested

\* The callers, the ledger, the pages and the cooldowns keep in step with one
\* another: the invariant the three results below rest on.
THEOREM DiscoveryInvariant == ASSUME Constants PROVE Spec => []DiscoveryInv
<1>1. Init => DiscoveryInv
  <2> SUFFICES ASSUME Init PROVE DiscoveryInv
    OBVIOUS
  <2>1. Typed
    BY Constants, TypedInit
  <2>2. Attended /\ LocalPages /\ Pages
    BY DEF Init, Attended, LocalPages, Pages, Busy, Claimed, Constants, DiscoveryAssumption, Items
  <2>3. Covered
    <3>1. \A p \in Providers : Owing(p) = {}
      BY DEF Init, Owing, Busy
    <3>2. \A p \in Providers : bill[p] = 0 /\ used[p].units = 0 /\ UnitCap[p] \in Nat
      BY Constants DEF Init, Constants, DiscoveryAssumption
    <3>3. QED
      BY <3>1, <3>2, FS_EmptySet DEF Covered
  <2>4. Rested
    BY Constants, PaceFacts DEF Init, Rested
  <2>5. QED
    BY <2>1, <2>2, <2>3, <2>4 DEF DiscoveryInv
<1>2. DiscoveryInv /\ [Next]_vars => DiscoveryInv'
  BY Constants, TypedStep, AttendedStep, LocalStep, CoveredStep, PagesStep, RestedStep
  DEF DiscoveryInv
<1>3. QED
  BY <1>1, <1>2, PTL DEF Spec

\* However many workers call, die in a call or time out, and whatever caps are
\* set, a provider bills no more in a window than its cap (reserve under the
\* advisory lock, record_failure).
THEOREM BilledWithinCaps == ASSUME Constants PROVE Spec => []BillWithinCaps
<1>1. DiscoveryInv => BillWithinCaps
  <2> SUFFICES ASSUME DiscoveryInv, NEW p \in Providers PROVE bill[p] <= UnitCap[p]
    BY DEF BillWithinCaps
  <2>1. Cardinality(Owing(p)) \in Nat
    <3>1. IsFiniteSet(Workers) /\ Owing(p) \in SUBSET Workers
      BY Constants DEF Constants, DiscoveryAssumption, Owing
    <3>2. QED
      BY <3>1, Count
  <2>2. bill[p] \in Int /\ used[p].units \in Int /\ UnitCap[p] \in Nat
    BY Constants DEF DiscoveryInv, Typed, Constants, DiscoveryAssumption
  <2>3. QED
    BY <2>1, <2>2 DEF DiscoveryInv, Covered
<1>2. QED
  BY <1>1, DiscoveryInvariant, PTL

\* A page is paid for once, and once more for every worker that died with it
\* (handle_content_extract, content_fetched_at).
THEOREM PaidOnce == ASSUME Constants PROVE Spec => []PagePaidOnce
<1>1. DiscoveryInv => PagePaidOnce
  BY DEF DiscoveryInv, Pages, PagePaidOnce
<1>2. QED
  BY <1>1, DiscoveryInvariant, PTL

\* Whenever a worker takes up a query, the shorter of its two cooldowns has
\* passed since it was last searched, unless that search's worker died
\* (next_eligible_at).
THEOREM Paced == ASSUME Constants PROVE Spec => SearchesArePaced
<1>1. DiscoveryInv /\ [Next]_vars =>
         \A w \in Workers : caller[w] = None /\ caller'[w] # None =>
            LET i == caller'[w].item IN
            i \in Queries => since[i] >= Min({Interval, FailureCooldown}) \/ lost[i] > 0
  <2> SUFFICES ASSUME DiscoveryInv, [Next]_vars, NEW w \in Workers, caller[w] = None,
                      caller'[w] # None, caller'[w].item \in Queries
               PROVE  \/ since[caller'[w].item] >= Pace
                      \/ lost[caller'[w].item] > 0
    BY DEF Pace
  <2>1. PICK i \in Items : Takes(w, i)
    BY Constants, AttentionMoves DEF DiscoveryInv, Takes, Leaves, Stays, Busy
  <2>2. i \in offered /\ ~Claimed(i) /\ caller'[w].item = i
    BY <2>1 DEF Takes
  <2>3. lost[i] \in Nat /\ since[i] \in Nat
    BY <2>2 DEF DiscoveryInv, Typed
  <2>4. QED
    BY <2>2, <2>3 DEF DiscoveryInv, Rested
<1>2. QED
  BY <1>1, DiscoveryInvariant, PTL DEF Spec, SearchesArePaced
=============================================================================
