--------------------------- MODULE ServicesProofs ---------------------------
(***************************************************************************)
(* Theorems about the parts MCServices explores, for every value of its    *)
(* constants.  A run of several parts is a run of each, so that what       *)
(* DiscoveryProofs proves of its module holds of it.  What LlmBudget,      *)
(* Events, Research, Instruments and Notices promise is proved here;       *)
(* Research's theorems are about its own specification.                    *)
(***************************************************************************)
EXTENDS MCServices, TLAPS
-----------------------------------------------------------------------------
(* The parts of one run.                                                   *)

all == <<part, vars, spending, discovery, events, notices, instruments>>

LEMMA StepParts ==
  [Step]_all => [L!Next]_L!vars /\ [D!Next]_D!vars /\ [E!Next]_E!vars /\ [N!Next]_N!vars
<1>1. UNCHANGED spending => UNCHANGED L!vars
  BY DEF L!vars, spending
<1>2. UNCHANGED discovery => UNCHANGED D!vars
  BY DEF D!vars, discovery
<1>3. UNCHANGED events => UNCHANGED E!vars
  BY DEF E!vars, events
<1>4. UNCHANGED notices => UNCHANGED N!vars
  BY DEF N!vars, notices
<1>5. UNCHANGED all => UNCHANGED <<spending, discovery, events, notices>>
  BY DEF all
<1>6. Step => /\ L!Next \/ UNCHANGED spending
              /\ D!Next \/ UNCHANGED discovery
              /\ E!Next \/ UNCHANGED events
              /\ N!Next \/ UNCHANGED notices
  BY DEF Step
<1>7. QED
  BY <1>1, <1>2, <1>3, <1>4, <1>5, <1>6

\* In a run of several parts each part does what its module says.
LEMMA EachPart == Explored => L!Spec /\ D!Spec /\ E!Spec /\ N!Spec
<1>1. Start => L!Init /\ D!Init /\ E!Init /\ N!Init
  BY DEF Start
<1>2. QED
  BY <1>1, StepParts, PTL DEF Explored, L!Spec, D!Spec, E!Spec, N!Spec, all

-----------------------------------------------------------------------------
(* What other modules prove of their parts.                                *)

\* However many workers call, die in a call or time out, a provider bills no more
\* in a window than its cap (reserve under the advisory lock, record_failure).
THEOREM Billed == Explored => []BillWithinCaps
  BY D!BilledWithinCaps, EachPart, ServicesAssumption, PTL DEF BillWithinCaps

\* A page is paid for once, and once more for every worker that died with it
\* (handle_content_extract, content_fetched_at).
THEOREM Pages == Explored => []PagePaidOnce
  BY D!PaidOnce, EachPart, ServicesAssumption, PTL DEF PagePaidOnce

\* The shorter of a query's two cooldowns has passed whenever it is searched again,
\* unless its last search's worker died (next_eligible_at).
THEOREM SearchesPaced == Explored => SearchesArePaced
  BY D!Paced, EachPart, ServicesAssumption, PTL DEF SearchesArePaced

-----------------------------------------------------------------------------
(* LlmBudget: the guard cuts off in time.                                  *)

\* Whether a sum stops work of a priority.
Past(n, window, p) ==
    n >= Limit[window].hard \/ (p = "OPTIONAL" /\ n >= Limit[window].soft)

Reads == {r \in [phase : {"daily", "monthly"}, priority : L!Priorities, age : Nat,
                 sums : [L!Windows -> Nat], late : BOOLEAN] : r.age <= ReadTime}
Calling == [phase : {"call"}, priority : L!Priorities]

SpendTypes ==
    /\ spend \in [L!Windows -> Nat]
    /\ cached \in {None} \cup [status : L!Statuses, age : Nat]
    /\ consumer \in [Workers -> {None} \cup Reads \cup Calling]
    /\ over \in [L!Priorities -> {None} \cup Nat]

\* The work has had to stop for longer than n.
Longer(p, n) == over[p] # None /\ over[p] > n

\* over is about the spend of now; and what a read has found or will find, and what
\* was cached, stops all work that has had to stop since before the read began.
OverSpent == \A p \in L!Priorities : over[p] # None =>
                \E x \in L!Windows : Past(spend[x], x, p)
ReadSees == \A w \in Workers, p \in L!Priorities :
    L!In(w, "monthly") /\ Longer(p, consumer[w].age) =>
        Past(consumer[w].sums["day"], "day", p) \/ Past(spend["month"], "month", p)
CacheSees == \A p \in L!Priorities :
    cached # None /\ Longer(p, cached.age) => L!Suppresses(cached.status, p)

SpendInv == SpendTypes /\ OverSpent /\ ReadSees /\ CacheSees

LEMMA SpendNumbers ==
  /\ CacheSeconds \in Nat /\ ReadTime \in Nat /\ MaxSpend \in Nat
  /\ Limit \in [L!Windows -> [soft : Nat, hard : Nat]]
  BY ServicesAssumption

LEMMA Ageing ==
  ASSUME NEW n \in Nat
  PROVE  /\ L!Aged(n) \in Nat /\ L!Aged(n) <= n + 1
         /\ \A m \in Nat : m <= n => L!Aged(m) <= L!Aged(n)
<1> USE SpendNumbers
<1>1. ASSUME NEW a \in Int, NEW b \in Int
      PROVE  L!Min({a, b}) = (IF a <= b THEN a ELSE b) /\ L!Max({a, b}) = (IF a <= b THEN b ELSE a)
  <2> DEFINE least == IF a <= b THEN a ELSE b
             most == IF a <= b THEN b ELSE a
  <2>1. least \in {a, b} /\ (\A y \in {a, b} : least <= y)
        /\ \A x \in {a, b} : (\A y \in {a, b} : x <= y) => x = least
    OBVIOUS
  <2>2. most \in {a, b} /\ (\A y \in {a, b} : most >= y)
        /\ \A x \in {a, b} : (\A y \in {a, b} : x >= y) => x = most
    OBVIOUS
  <2> HIDE DEF least, most
  <2>3. L!Min({a, b}) = least /\ L!Max({a, b}) = most
    BY <2>1, <2>2 DEF L!Min, L!Max
  <2>4. QED
    BY <2>3 DEF least, most
<1>2. L!Horizon \in Nat
  <2>1. CacheSeconds \in Int /\ ReadTime \in Int
    OBVIOUS
  <2>2. L!Max({CacheSeconds, ReadTime}) = (IF CacheSeconds <= ReadTime THEN ReadTime
                                           ELSE CacheSeconds)
    BY <1>1, <2>1
  <2>3. QED
    BY <2>2 DEF L!Horizon
<1>3. \A m \in Nat : L!Aged(m) = IF m + 1 <= L!Horizon THEN m + 1 ELSE L!Horizon
  BY <1>1, <1>2 DEF L!Aged
<1>4. QED
  BY <1>2, <1>3

LEMMA PastGrows ==
  ASSUME NEW x \in L!Windows, NEW p, NEW n \in Nat, NEW m \in Nat, n <= m, Past(n, x, p)
  PROVE  Past(m, x, p)
  BY SpendNumbers DEF Past

LEMMA Stops ==
  ASSUME NEW sums \in [L!Windows -> Nat], NEW p \in L!Priorities
  PROVE  /\ L!Suppresses(L!Status(sums), p) <=> \E x \in L!Windows : Past(sums[x], x, p)
         /\ L!Status(sums) \in L!Statuses
<1> USE SpendNumbers
<1>1. CASE \E x \in L!Windows : sums[x] >= Limit[x].hard
  <2>1. L!Status(sums) = "HARD_EXCEEDED"
    BY <1>1 DEF L!Status
  <2>2. \E x \in L!Windows : Past(sums[x], x, p)
    BY <1>1 DEF Past
  <2>3. QED
    BY <2>1, <2>2 DEF L!Suppresses, L!Statuses
<1>2. CASE /\ ~ \E x \in L!Windows : sums[x] >= Limit[x].hard
           /\ \A x \in L!Windows : sums[x] < Limit[x].soft
  <2>1. L!Status(sums) = "OK"
    BY <1>2 DEF L!Status
  <2>2. \A x \in L!Windows : ~Past(sums[x], x, p)
    BY <1>2 DEF Past
  <2>3. QED
    BY <2>1, <2>2 DEF L!Suppresses, L!Statuses
<1>3. CASE /\ ~ \E x \in L!Windows : sums[x] >= Limit[x].hard
           /\ ~ \A x \in L!Windows : sums[x] < Limit[x].soft
  <2>1. L!Status(sums) = "SOFT_EXCEEDED"
    BY <1>3 DEF L!Status
  <2>2. (\E x \in L!Windows : Past(sums[x], x, p)) <=> p = "OPTIONAL"
    BY <1>3 DEF Past
  <2>3. QED
    BY <2>1, <2>2 DEF L!Suppresses, L!Statuses
<1>4. QED
  BY <1>1, <1>2, <1>3

\* How over follows the spend.
LEMMA Notes ==
  ASSUME SpendTypes, spend' \in [L!Windows -> Nat], over' = L!Noted(spend')
  PROVE  /\ over' \in [L!Priorities -> {None} \cup Nat]
         /\ OverSpent'
         /\ \A p \in L!Priorities, n \in Nat : Longer(p, n)' => Longer(p, n)
<1>1. ASSUME NEW p \in L!Priorities
      PROVE  /\ over'[p] \in {None} \cup Nat
             /\ over'[p] # None => /\ L!Suppresses(L!Status(spend'), p)
                                   /\ over'[p] = 0 \/ over'[p] = over[p]
  BY DEF SpendTypes, L!Noted
<1>2. over' = [p \in L!Priorities |-> over'[p]]
  BY DEF L!Noted
<1>3. OverSpent'
  BY <1>1, Stops DEF OverSpent
<1>4. \A p \in L!Priorities, n \in Nat : Longer(p, n)' => Longer(p, n)
  BY <1>1 DEF Longer
<1>5. QED
  BY <1>1, <1>2, <1>3, <1>4

\* What a check reads of a window is at least what it is now.
LEMMA Summed ==
  ASSUME SpendTypes, NEW w \in Workers, NEW x \in L!Windows, NEW n \in L!Sum(w, x)
  PROVE  n \in Nat /\ n >= spend[x]
  BY SpendNumbers DEF SpendTypes, L!Sum

\* A check that ends sees what was past before it began.
LEMMA MonthSees ==
  ASSUME SpendInv, NEW w \in Workers, L!In(w, "monthly"), NEW n \in L!Sum(w, "month"),
         NEW p \in L!Priorities, Longer(p, consumer[w].age)
  PROVE  L!Suppresses(L!Status([consumer[w].sums EXCEPT !["month"] = n]), p)
<1> USE SpendNumbers
<1>1. SpendTypes /\ consumer[w] \in Reads
  BY DEF SpendInv, SpendTypes, Reads, Calling, L!In
<1>2. n \in Nat /\ n >= spend["month"] /\ spend["month"] \in Nat
  BY <1>1, Summed DEF L!Windows, SpendTypes
<1>3. PICK sums \in [L!Windows -> Nat] :
        /\ sums = [consumer[w].sums EXCEPT !["month"] = n]
        /\ sums["month"] = n /\ sums["day"] = consumer[w].sums["day"]
  <2>1. consumer[w].sums \in [L!Windows -> Nat]
    BY <1>1 DEF Reads
  <2>2. [consumer[w].sums EXCEPT !["month"] = n] \in [L!Windows -> Nat]
    BY <1>2, <2>1
  <2>3. /\ [consumer[w].sums EXCEPT !["month"] = n]["month"] = n
        /\ [consumer[w].sums EXCEPT !["month"] = n]["day"] = consumer[w].sums["day"]
    BY <2>1 DEF L!Windows
  <2>4. QED
    BY <2>2, <2>3
<1>4. Past(sums["day"], "day", p) \/ Past(spend["month"], "month", p)
  BY <1>3 DEF SpendInv, ReadSees
<1>5. Past(sums["day"], "day", p) \/ Past(sums["month"], "month", p)
  BY <1>2, <1>3, <1>4, PastGrows DEF L!Windows
<1>6. QED
  BY <1>3, <1>5, Stops DEF L!Windows

LEMMA SpendStep == SpendInv /\ [L!Next]_L!vars => SpendInv'
<1> SUFFICES ASSUME SpendInv, [L!Next]_L!vars PROVE SpendInv'
  OBVIOUS
<1> USE SpendNumbers
<1>0. SpendTypes /\ OverSpent /\ ReadSees /\ CacheSees
  BY DEF SpendInv
<1>a. /\ \A w \in Workers : consumer[w] # None /\ consumer[w].phase \in {"daily", "monthly"}
                               => consumer[w] \in Reads
      /\ \A w \in Workers : consumer[w] # None => consumer[w].priority \in L!Priorities
  BY <1>0 DEF SpendTypes, Reads, Calling
<1>1. ASSUME NEW w \in Workers, NEW p \in L!Priorities, L!Check(w, p) PROVE SpendInv'
  <2>1. UNCHANGED <<spend, cached, over>>
    BY <1>1 DEF L!Check
  <2>2. PICK c : /\ consumer' = [consumer EXCEPT ![w] = c]
                 /\ c \in {None} \cup Reads \cup Calling
                 /\ c # None => c.phase # "monthly"
    <3>1. CASE L!Fresh
      BY <1>1, <3>1 DEF L!Check, L!Decide, Calling
    <3>2. CASE ~L!Fresh
      <4>1. PICK c : /\ consumer' = [consumer EXCEPT ![w] = c]
                     /\ c = [phase |-> "daily", priority |-> p, age |-> 0,
                             sums |-> [x \in L!Windows |-> 0], late |-> FALSE]
        BY <1>1, <3>2 DEF L!Check
      <4>2. c \in Reads /\ c.phase # "monthly"
        BY <4>1 DEF Reads
      <4>3. QED
        BY <4>1, <4>2
    <3>3. QED
      BY <3>1, <3>2
  <2>3. SpendTypes'
    BY <1>0, <2>1, <2>2 DEF SpendTypes
  <2>4. ReadSees'
    BY <1>0, <2>1, <2>2 DEF ReadSees, Longer, L!In, SpendTypes
  <2>5. QED
    BY <1>0, <2>1, <2>3, <2>4 DEF SpendInv, OverSpent, CacheSees, Longer
<1>2. ASSUME NEW w \in Workers, L!ReadDay(w) PROVE SpendInv'
  <2>1. PICK n \in L!Sum(w, "day") :
          consumer' = [consumer EXCEPT ![w].phase = "monthly", ![w].sums["day"] = n]
    BY <1>2 DEF L!ReadDay
  <2>2. UNCHANGED <<spend, cached, over>> /\ consumer[w] \in Reads
    BY <1>2, <1>a DEF L!ReadDay, L!In
  <2>3. n \in Nat /\ n >= spend["day"]
    BY <1>0, <2>1, Summed DEF L!Windows
  <2>4. PICK c \in Reads : c = [consumer[w] EXCEPT !.phase = "monthly", !.sums["day"] = n]
    BY <2>2, <2>3 DEF Reads
  <2>5. consumer' = [consumer EXCEPT ![w] = c] /\ c.sums["day"] = n
    BY <1>0, <2>1, <2>2, <2>4 DEF SpendTypes, Reads, L!Windows
  <2>6. SpendTypes'
    BY <1>0, <2>2, <2>4, <2>5 DEF SpendTypes
  <2>7. \A p \in L!Priorities : over[p] # None =>
           Past(n, "day", p) \/ Past(spend["month"], "month", p)
    <3>1. spend["day"] \in Nat
      BY <1>0 DEF SpendTypes, L!Windows
    <3>2. QED
      BY <1>0, <2>3, <3>1, PastGrows DEF OverSpent, L!Windows
  <2>8. ReadSees'
    BY <1>0, <2>2, <2>5, <2>7 DEF ReadSees, Longer, L!In, SpendTypes
  <2>9. QED
    BY <1>0, <2>2, <2>6, <2>8 DEF SpendInv, OverSpent, CacheSees, Longer
<1>3. ASSUME NEW w \in Workers, L!ReadMonth(w) PROVE SpendInv'
  <2>0. PICK n \in L!Sum(w, "month") :
          LET status == L!Status([consumer[w].sums EXCEPT !["month"] = n]) IN
             /\ cached' = [status |-> status, age |-> consumer[w].age]
             /\ L!Decide(w, status, consumer[w].priority)
    BY <1>3 DEF L!ReadMonth, L!AgeWhenCached
  <2>1. PICK sums, status :
          /\ sums = [consumer[w].sums EXCEPT !["month"] = n] /\ status = L!Status(sums)
          /\ cached' = [status |-> status, age |-> consumer[w].age]
          /\ L!Decide(w, status, consumer[w].priority)
    BY <2>0
  <2>2. UNCHANGED <<spend, over>> /\ L!In(w, "monthly") /\ consumer[w] \in Reads
    BY <1>3, <1>a DEF L!ReadMonth, L!In
  <2>3. n \in Nat /\ n >= spend["month"] /\ spend["month"] \in Nat
    BY <1>0, Summed DEF L!Windows, SpendTypes
  <2>4. sums \in [L!Windows -> Nat] /\ sums["month"] = n /\ sums["day"] = consumer[w].sums["day"]
    BY <2>1, <2>2, <2>3 DEF Reads, L!Windows
  <2>5. PICK c : consumer' = [consumer EXCEPT ![w] = c] /\ c \in {None} \cup Calling
    BY <1>a, <2>1, <2>2 DEF L!Decide, Calling, L!In
  <2>6. SpendTypes'
    BY <1>0, <2>1, <2>2, <2>4, <2>5, Stops DEF SpendTypes, Reads, L!Priorities
  <2>7. ReadSees'
    BY <1>0, <2>2, <2>5 DEF ReadSees, Longer, L!In, SpendTypes, Calling
  <2>8. CacheSees'
    <3>1. SUFFICES ASSUME NEW p \in L!Priorities, Longer(p, consumer[w].age)
                   PROVE  L!Suppresses(status, p)
      BY <2>1, <2>2 DEF CacheSees, Longer
    <3>2. QED
      BY <2>1, <2>2, <3>1, MonthSees
  <2>9. QED
    BY <1>0, <2>2, <2>6, <2>7, <2>8 DEF SpendInv, OverSpent
<1>4. ASSUME NEW w \in Workers, L!Record(w) PROVE SpendInv'
  <2>1. /\ spend' = [x \in L!Windows |-> spend[x] + 1] /\ over' = L!Noted(spend')
        /\ cached' = None /\ consumer' = [consumer EXCEPT ![w] = None]
    BY <1>4 DEF L!Record
  <2>2. spend' \in [L!Windows -> Nat] /\ spend["month"] \in Nat
        /\ spend'["month"] = spend["month"] + 1
    BY <1>0, <2>1 DEF SpendTypes, L!Windows
  <2>3. SpendTypes'
    BY <1>0, <2>1, <2>2, Notes DEF SpendTypes
  <2>4. ReadSees'
    <3>1. SUFFICES ASSUME NEW v \in Workers, NEW p \in L!Priorities,
                          L!In(v, "monthly")', Longer(p, consumer[v].age)'
                   PROVE  Past(consumer'[v].sums["day"], "day", p)
                          \/ Past(spend'["month"], "month", p)
      BY DEF ReadSees
    <3>2. L!In(v, "monthly") /\ consumer'[v] = consumer[v]
      BY <1>0, <2>1, <3>1 DEF L!In, SpendTypes
    <3>3. consumer[v].age \in Nat
      BY <1>a, <3>2 DEF L!In, Reads
    <3>4. Longer(p, consumer[v].age)
      BY <1>0, <2>1, <2>2, <3>1, <3>2, <3>3, Notes DEF Longer
    <3>5. QED
      BY <1>0, <2>2, <3>2, <3>4, PastGrows DEF ReadSees, L!Windows
  <2>5. QED
    BY <1>0, <2>1, <2>2, <2>3, <2>4, Notes DEF SpendInv, CacheSees
<1>5. CASE L!Invalidate
  BY <1>0, <1>5 DEF L!Invalidate, SpendInv, SpendTypes, OverSpent, ReadSees, CacheSees, Longer,
     L!In
<1>6. CASE L!Restart
  BY <1>0, <1>6 DEF L!Restart, SpendInv, SpendTypes, OverSpent, ReadSees, CacheSees, Longer,
     L!In
\* A rollover sets back no sum a read has made.
<1>7. ASSUME spend' \in [L!Windows -> Nat], over' = L!Noted(spend'), consumer' = L!Late,
             UNCHANGED cached,
             spend'["month"] = spend["month"] \/ \A x \in L!Windows : spend'[x] = 0
      PROVE  SpendInv'
  <2>1. \A w \in Workers :
           /\ consumer'[w] \in {None} \cup Reads \cup Calling
           /\ L!In(w, "monthly")' => /\ L!In(w, "monthly") /\ consumer'[w].age = consumer[w].age
                                     /\ consumer'[w].sums = consumer[w].sums
    <3>1. SUFFICES ASSUME NEW w \in Workers
                   PROVE  /\ consumer'[w] \in {None} \cup Reads \cup Calling
                          /\ L!In(w, "monthly")' =>
                                /\ L!In(w, "monthly") /\ consumer'[w].age = consumer[w].age
                                /\ consumer'[w].sums = consumer[w].sums
      OBVIOUS
    <3>2. CASE L!Reading(w)
      <4>1. consumer'[w] = [consumer[w] EXCEPT !.late = TRUE] /\ consumer[w] \in Reads
        BY <1>7, <1>a, <3>2 DEF L!Late, L!Reading, L!In
      <4>2. QED
        BY <3>2, <4>1 DEF Reads, L!In, L!Reading
    <3>3. CASE ~L!Reading(w)
      BY <1>0, <1>7, <3>3 DEF L!Late, L!In, SpendTypes
    <3>4. QED
      BY <3>2, <3>3
  <2>2. SpendTypes'
    <3>1. consumer' = [w \in Workers |-> consumer'[w]]
      BY <1>7 DEF L!Late
    <3>2. QED
      BY <1>0, <1>7, <2>1, <3>1, Notes DEF SpendTypes
  <2>3. ReadSees'
    <3>1. SUFFICES ASSUME NEW v \in Workers, NEW p \in L!Priorities,
                          L!In(v, "monthly")', Longer(p, consumer[v].age)'
                   PROVE  Past(consumer'[v].sums["day"], "day", p)
                          \/ Past(spend'["month"], "month", p)
      BY DEF ReadSees
    <3>2. consumer[v] \in Reads /\ L!In(v, "monthly") /\ consumer'[v].age = consumer[v].age
          /\ consumer'[v].sums = consumer[v].sums
      BY <1>a, <2>1, <3>1 DEF L!In
    <3>3. consumer[v].age \in Nat /\ consumer[v].sums["day"] \in Nat
      BY <3>2 DEF Reads, L!Windows
    <3>4. Longer(p, consumer[v].age) /\ OverSpent' /\ over'[p] # None
      BY <1>0, <1>7, <3>1, <3>2, <3>3, Notes DEF Longer
    <3>5. CASE spend'["month"] = spend["month"]
      BY <1>0, <3>2, <3>4, <3>5 DEF ReadSees
    <3>6. CASE \A x \in L!Windows : spend'[x] = 0
      <4>1. Past(0, "day", p) \/ Past(0, "month", p)
        BY <3>4, <3>6 DEF OverSpent, L!Windows
      <4>2. Past(consumer[v].sums["day"], "day", p) \/ Past(spend'["month"], "month", p)
        BY <3>3, <3>6, <4>1, PastGrows DEF L!Windows
      <4>3. QED
        BY <3>2, <4>2
    <3>7. QED
      BY <1>7, <3>5, <3>6
  <2>4. CacheSees'
    <3>1. SUFFICES ASSUME NEW p \in L!Priorities, cached # None, Longer(p, cached.age)'
                   PROVE  L!Suppresses(cached.status, p)
      BY <1>7 DEF CacheSees
    <3>2. cached.age \in Nat
      BY <1>0, <3>1 DEF SpendTypes
    <3>3. Longer(p, cached.age)
      BY <1>0, <1>7, <3>1, <3>2, Notes DEF Longer
    <3>4. QED
      BY <1>0, <3>1, <3>3 DEF CacheSees
  <2>5. QED
    BY <1>0, <1>7, <2>2, <2>3, <2>4, Notes DEF SpendInv
<1>8. CASE L!NewDay
  <2>1. spend' = [spend EXCEPT !["day"] = 0]
    BY <1>8 DEF L!NewDay
  <2>2. spend' \in [L!Windows -> Nat] /\ spend'["month"] = spend["month"]
    BY <1>0, <2>1 DEF SpendTypes, L!Windows
  <2>3. QED
    BY <1>7, <1>8, <2>2 DEF L!NewDay
<1>9. CASE L!NewMonth
  <2>1. spend' = [x \in L!Windows |-> 0]
    BY <1>9 DEF L!NewMonth
  <2>2. spend' \in [L!Windows -> Nat] /\ \A x \in L!Windows : spend'[x] = 0
    BY <2>1
  <2>3. QED
    BY <1>7, <1>9, <2>2 DEF L!NewMonth
<1>10. CASE L!Tick
  <2>1. /\ cached' = IF cached = None THEN None ELSE [cached EXCEPT !.age = L!Aged(@)]
        /\ over' = [p \in L!Priorities |-> IF over[p] = None THEN None ELSE L!Aged(over[p])]
        /\ UNCHANGED spend
    BY <1>10 DEF L!Tick
  <2>2. \A p \in L!Priorities :
           /\ over'[p] \in {None} \cup Nat
           /\ over'[p] # None => over[p] # None /\ over[p] \in Nat /\ over'[p] = L!Aged(over[p])
    BY <1>0, <2>1, Ageing DEF SpendTypes
  <2>3. cached # None => /\ cached.age \in Nat
                         /\ cached' = [cached EXCEPT !.age = L!Aged(cached.age)]
                         /\ cached'.age = L!Aged(cached.age) /\ cached'.status = cached.status
                         /\ cached' \in [status : L!Statuses, age : Nat]
    <3>1. ASSUME cached # None
          PROVE  cached \in [status : L!Statuses, age : Nat] /\ L!Aged(cached.age) \in Nat
      BY <1>0, <3>1, Ageing DEF SpendTypes
    <3>2. QED
      BY <2>1, <3>1
  <2>4. \A w \in Workers :
           /\ consumer'[w] \in {None} \cup Reads \cup Calling
           /\ L!In(w, "monthly")' => /\ L!In(w, "monthly") /\ consumer[w].age \in Nat
                                     /\ consumer'[w].age = consumer[w].age + 1
                                     /\ consumer'[w].sums = consumer[w].sums
    <3>1. SUFFICES ASSUME NEW w \in Workers
                   PROVE  /\ consumer'[w] \in {None} \cup Reads \cup Calling
                          /\ L!In(w, "monthly")' =>
                                /\ L!In(w, "monthly") /\ consumer[w].age \in Nat
                                /\ consumer'[w].age = consumer[w].age + 1
                                /\ consumer'[w].sums = consumer[w].sums
      OBVIOUS
    <3>2. CASE L!Reading(w)
      <4>1. /\ consumer'[w] = [consumer[w] EXCEPT !.age = @ + 1] /\ consumer[w] \in Reads
            /\ consumer[w].age < ReadTime
        BY <1>10, <1>a, <3>2 DEF L!Tick, L!Reading, L!In
      <4>2. QED
        BY <3>2, <4>1 DEF Reads, L!In, L!Reading
    <3>3. CASE ~L!Reading(w)
      <4>1. consumer'[w] = consumer[w]
        BY <1>10, <3>3 DEF L!Tick
      <4>2. QED
        BY <1>0, <3>3, <4>1 DEF L!In, L!Reading, SpendTypes
    <3>4. QED
      BY <3>2, <3>3
  <2>5. SpendTypes'
    <3>1. consumer' = [w \in Workers |-> consumer'[w]]
      BY <1>10 DEF L!Tick
    <3>2. cached' \in {None} \cup [status : L!Statuses, age : Nat]
      BY <2>1, <2>3
    <3>3. over' = [p \in L!Priorities |-> over'[p]]
      BY <2>1
    <3>4. QED
      BY <1>0, <2>1, <2>2, <2>4, <3>1, <3>2, <3>3 DEF SpendTypes
  <2>6. OverSpent'
    BY <1>0, <2>1, <2>2 DEF OverSpent
  <2>7. ReadSees'
    <3>1. SUFFICES ASSUME NEW v \in Workers, NEW p \in L!Priorities,
                          L!In(v, "monthly")', Longer(p, consumer[v].age)'
                   PROVE  Past(consumer[v].sums["day"], "day", p)
                          \/ Past(spend["month"], "month", p)
      BY <2>1, <2>4 DEF ReadSees
    <3>2. over[p] # None /\ over[p] \in Nat /\ over'[p] = L!Aged(over[p])
          /\ over'[p] > consumer[v].age + 1 /\ consumer[v].age \in Nat /\ L!In(v, "monthly")
      BY <2>2, <2>4, <3>1 DEF Longer
    <3>3. Longer(p, consumer[v].age)
      <4>1. L!Aged(over[p]) \in Nat /\ L!Aged(over[p]) <= over[p] + 1
        BY <3>2, Ageing
      <4>2. QED
        BY <3>2, <4>1 DEF Longer
    <3>4. QED
      BY <1>0, <3>2, <3>3 DEF ReadSees
  <2>8. CacheSees'
    <3>1. SUFFICES ASSUME NEW p \in L!Priorities, cached' # None, Longer(p, cached.age)'
                   PROVE  L!Suppresses(cached'.status, p)
      BY DEF CacheSees
    <3>2. cached # None /\ over[p] # None /\ over[p] \in Nat /\ over'[p] = L!Aged(over[p])
          /\ L!Aged(over[p]) > L!Aged(cached.age) /\ cached.age \in Nat
      BY <2>1, <2>2, <2>3, <3>1 DEF Longer
    <3>3. Longer(p, cached.age)
      <4>1. over[p] <= cached.age => L!Aged(over[p]) <= L!Aged(cached.age)
        BY <3>2, Ageing
      <4>2. L!Aged(over[p]) \in Nat /\ L!Aged(cached.age) \in Nat
        BY <3>2, Ageing
      <4>3. QED
        BY <3>2, <4>1, <4>2 DEF Longer
    <3>4. QED
      BY <1>0, <2>3, <3>2, <3>3 DEF CacheSees
  <2>9. QED
    BY <2>5, <2>6, <2>7, <2>8 DEF SpendInv
<1>11. CASE UNCHANGED L!vars
  BY <1>0, <1>11 DEF L!vars, SpendInv, SpendTypes, OverSpent, ReadSees, CacheSees, Longer, L!In
<1>12. QED
  BY <1>1, <1>2, <1>3, <1>4, <1>5, <1>6, <1>8, <1>9, <1>10, <1>11 DEF L!Next

\* What the guard's answers are worth at every moment, whatever read was under way
\* when a call was recorded (BudgetGuard.state, invalidate).
THEOREM SpendInvariant == Explored => []SpendInv
<1>1. L!Init => SpendInv
  BY DEF L!Init, SpendInv, SpendTypes, OverSpent, ReadSees, CacheSees, L!In
<1>2. QED
  BY <1>1, SpendStep, EachPart, PTL DEF L!Spec

\* No work starts once the recorded spend has been past its limit for longer than
\* the cache or a read lasts: a read is dated by its beginning, and sees whatever
\* had been recorded by then (BudgetGuard.check).
THEOREM CutOff == Explored => CutOffInTime
<1>1. ASSUME SpendInv, L!Next, NEW w \in Workers, ~L!In(w, "call"), L!In(w, "call")',
             NEW p, p = consumer'[w].priority
      PROVE  over[p] = None \/ over[p] < CacheSeconds \/ over[p] <= ReadTime
  <2> USE SpendNumbers
  <2>0. SpendTypes /\ OverSpent /\ ReadSees /\ CacheSees
    BY <1>1 DEF SpendInv
  <2>1. ASSUME NEW v \in Workers, NEW q \in L!Priorities, L!Check(v, q) PROVE v = w /\ L!Fresh
    <3>1. v = w
      BY <1>1, <2>0, <2>1 DEF L!Check, L!Decide, L!In, SpendTypes
    <3>2. L!Fresh
      <4>1. ~L!Fresh => consumer' = [consumer EXCEPT ![w] =
                           [phase |-> "daily", priority |-> q, age |-> 0,
                            sums |-> [x \in L!Windows |-> 0], late |-> FALSE]]
        BY <2>1, <3>1 DEF L!Check
      <4>2. QED
        BY <1>1, <2>0, <4>1 DEF L!In, SpendTypes
    <3>3. QED
      BY <3>1, <3>2
  <2>2. ASSUME NEW v \in Workers, L!ReadDay(v) \/ L!Record(v) PROVE FALSE
    <3>1. consumer' = [consumer EXCEPT ![v] = None]
          \/ \E n : consumer' = [consumer EXCEPT ![v].phase = "monthly", ![v].sums["day"] = n]
             /\ consumer[v] \in Reads
      BY <2>0, <2>2 DEF L!ReadDay, L!Record, L!In, SpendTypes, Calling
    <3>2. QED
      BY <1>1, <2>0, <3>1 DEF L!In, SpendTypes, Reads
  <2>3. CASE L!Invalidate \/ L!Restart
    BY <1>1, <2>3 DEF L!Invalidate, L!Restart, L!In
  <2>4. CASE L!NewDay \/ L!NewMonth \/ L!Tick
    <3>1. consumer'[w] = consumer[w]
          \/ /\ consumer[w] \in Reads /\ consumer[w] # None
             /\ \/ consumer'[w] = [consumer[w] EXCEPT !.late = TRUE]
                \/ consumer'[w] = [consumer[w] EXCEPT !.age = @ + 1]
      BY <2>0, <2>4 DEF L!NewDay, L!NewMonth, L!Tick, L!Late, L!Reading, L!In, SpendTypes, Calling
    <3>2. QED
      BY <1>1, <3>1 DEF L!In, Reads
  <2>5. ASSUME NEW q \in L!Priorities, L!Check(w, q), L!Fresh
        PROVE  over[p] = None \/ over[p] < CacheSeconds
    <3>1. ~L!Suppresses(cached.status, q) /\ p = q /\ cached # None
          /\ cached.age \in Nat /\ cached.age < CacheSeconds
      BY <1>1, <2>0, <2>5 DEF L!Check, L!Decide, L!In, L!Fresh, SpendTypes
    <3>2. ~Longer(q, cached.age)
      BY <2>0, <3>1 DEF CacheSees
    <3>3. QED
      BY <2>0, <3>1, <3>2 DEF Longer, SpendTypes
  <2>6. ASSUME NEW v \in Workers, L!ReadMonth(v)
        PROVE  over[p] = None \/ over[p] <= ReadTime
    <3>1. consumer[v] \in Reads /\ L!In(v, "monthly")
      BY <2>0, <2>6 DEF L!ReadMonth, L!In, SpendTypes, Calling
    <3>2. PICK n \in L!Sum(v, "month") :
            L!Decide(v, L!Status([consumer[v].sums EXCEPT !["month"] = n]), consumer[v].priority)
      BY <2>6 DEF L!ReadMonth
    <3>3. /\ v = w /\ p = consumer[v].priority
          /\ ~L!Suppresses(L!Status([consumer[v].sums EXCEPT !["month"] = n]),
                           consumer[v].priority)
      BY <1>1, <2>0, <3>2 DEF L!Decide, L!In, SpendTypes
    <3>4. consumer[v].age \in Nat /\ consumer[v].age <= ReadTime /\ p \in L!Priorities
      BY <3>1, <3>3 DEF Reads
    <3>5. ~Longer(p, consumer[v].age)
      BY <1>1, <3>1, <3>2, <3>3, <3>4, MonthSees
    <3>6. QED
      BY <2>0, <3>4, <3>5 DEF Longer, SpendTypes
  <2>7. QED
    BY <1>1, <2>1, <2>2, <2>3, <2>4, <2>5, <2>6 DEF L!Next
<1>2. SpendInv /\ [L!Next]_L!vars =>
        [\A w \in Workers : ~L!In(w, "call") /\ L!In(w, "call")' =>
            LET p == consumer'[w].priority IN
            over[p] = None \/ over[p] < CacheSeconds \/ over[p] <= ReadTime]_L!vars
  BY <1>1
<1>3. QED
  BY <1>2, SpendInvariant, EachPart, PTL DEF CutOffInTime, L!CutOffInTime, L!Spec

-----------------------------------------------------------------------------
(* Events: a judgment stands.                                              *)

\* A classification is over before its event counts as stalled.
InTime == CallLimit < Stale

EventRows == [status : E!Settled \cup {"ABSENT", "NEW", "CLASSIFYING"},
              into : Docs \cup {None}, age : Nat]
Phases == {"claim", "ask", "merge", "fold", "apply", "chain"}
Classifications ==
    {c \in [event : Docs, phase : Phases, owner : BOOLEAN, spent : Nat, final : BOOLEAN,
            target : Docs \cup {None}, links : SUBSET Docs] :
        /\ c.phase = "claim" => c.spent = 0
        /\ c.phase \in {"merge", "fold"} => c.target \in Docs}

EventTypes ==
    /\ event \in [Docs -> EventRows]
    /\ linked \in [Docs -> SUBSET Docs]
    /\ feed \in [Feeds -> {None} \cup [doc : Docs, match : Docs \cup {None}]]
    /\ reader \in [Workers -> {None} \cup Classifications]

\* A document that no event has, has made none.
Unmade == \A d \in Docs : linked[d] = {} => event[d].status = "ABSENT"

\* Whoever may still write a classification has its claim, which is younger than
\* his call; and he alone.
Claimants ==
    /\ \A w \in Workers : E!Writing(w) =>
          /\ event[reader[w].event].status = "CLASSIFYING"
          /\ event[reader[w].event].age <= reader[w].spent /\ reader[w].spent <= CallLimit
    /\ \A v, w \in Workers :
          E!Writing(v) /\ E!Writing(w) /\ reader[v].event = reader[w].event => v = w

EventsInv == EventTypes /\ Unmade /\ Claimants

\* How a step leaves an event's row: its status and pointer, and no older than a
\* tick makes it.
Keeps(e) == /\ event'[e].status = event[e].status /\ event'[e].into = event[e].into
            /\ event'[e].age <= event[e].age

\* Who may write goes on, or is out of the way.
Withdraws(w) == E!Writing(w)' => /\ E!Writing(w) /\ reader'[w].event = reader[w].event
                                 /\ reader'[w].spent = reader[w].spent

\* What a step does: age everything; leave every row and every writer; or change one
\* row, which nobody writes, or its writer does and withdraws.
Ages ==
    /\ \A e \in Docs : /\ event'[e].status = event[e].status /\ event'[e].into = event[e].into
                       /\ event'[e].age <= event[e].age + 1
    /\ \A w \in Workers :
          /\ E!Writing(w)' => /\ E!Writing(w) /\ reader'[w].event = reader[w].event
                              /\ reader'[w].spent = reader[w].spent + 1
                              /\ reader[w].spent < CallLimit
Untouched == (\A e \in Docs : Keeps(e)) /\ \A w \in Workers : Withdraws(w)
Takes(e) ==
    /\ event[e].status \notin E!Judged /\ event[e].status # "ABSENT"
    /\ event'[e].status # "ABSENT"
    /\ \A d \in Docs \ {e} : Keeps(d)
Released(e) ==      \* nobody writes it, before or after
    /\ ~ \E w \in Workers : E!Writing(w) /\ reader[w].event = e
    /\ \A w \in Workers : Withdraws(w)
ClaimedBy(e, w) ==
    /\ event[e].status = "NEW" /\ event'[e].status = "CLASSIFYING" /\ event'[e].age = 0
    /\ ~E!Writing(w) /\ reader'[w].event = e /\ reader'[w].spent = 0
    /\ \A v \in Workers \ {w} : Withdraws(v)
WrittenBy(e, w) ==
    /\ E!Writing(w) /\ reader[w].event = e /\ ~E!Writing(w)'
    /\ \A v \in Workers \ {w} : Withdraws(v)
Makes(d) ==
    /\ linked[d] = {} /\ linked'[d] # {} /\ event'[d].status = "NEW"
    /\ \A e \in Docs \ {d} : Keeps(e)
    /\ \A w \in Workers : Withdraws(w)

LinksKept == \A d \in Docs : linked'[d] = {} => linked[d] = {}

Moves ==
    /\ LinksKept
    /\ \/ Ages \/ Untouched \/ \E d \in Docs : Makes(d)
       \/ \E e \in Docs :
             /\ Takes(e)
             /\ \/ Released(e)
                \/ \E w \in Workers : ClaimedBy(e, w) \/ WrittenBy(e, w)

LEMMA Numbers ==
  /\ CallLimit \in Nat /\ Stale \in Nat /\ CacheSeconds \in Nat /\ ReadTime \in Nat
  /\ None \notin Docs
  BY ServicesAssumption

LEMMA NextOfTwo ==
  ASSUME NEW a \in Nat
  PROVE  E!Min({a + 1, Stale}) \in Nat /\ E!Min({a + 1, Stale}) <= a + 1
<1> DEFINE least == IF a + 1 <= Stale THEN a + 1 ELSE Stale
<1>1. least \in {a + 1, Stale} /\ \A y \in {a + 1, Stale} : least <= y
  BY Numbers
<1>2. \A x \in {a + 1, Stale} : (\A y \in {a + 1, Stale} : x <= y) => x = least
  BY Numbers
<1>3. E!Min({a + 1, Stale}) = least
  BY <1>1, <1>2 DEF E!Min
<1>4. QED
  BY <1>3, Numbers

LEMMA RowTypes ==
  ASSUME EventTypes, NEW e \in Docs,
         NEW status \in E!Settled \cup {"ABSENT", "NEW", "CLASSIFYING"}
  PROVE  /\ E!Moved(e, status) \in [Docs -> EventRows]
         /\ \A d \in Docs \ {e} : E!Moved(e, status)[d] = event[d]
         /\ E!Moved(e, status)[e].status = status /\ E!Moved(e, status)[e].age = 0
         /\ E!Moved(e, status)[e].into = event[e].into
<1>1. [event[e] EXCEPT !.status = status, !.age = 0] \in EventRows
  BY DEF EventTypes, EventRows
<1>2. QED
  BY <1>1 DEF EventTypes, EventRows, E!Moved

LEMMA Going ==
  ASSUME EventTypes, NEW w \in Workers, reader[w] # None, NEW phase \in {"ask", "apply", "chain"},
         reader' = [reader EXCEPT ![w].phase = phase]
  PROVE  /\ reader' \in [Workers -> {None} \cup Classifications]
         /\ \A v \in Workers \ {w} : reader'[v] = reader[v]
         /\ reader'[w].phase = phase /\ reader'[w].event = reader[w].event
         /\ reader'[w].spent = reader[w].spent /\ reader[w].event \in Docs
<1>1. reader[w] \in Classifications
  BY DEF EventTypes
<1>2. [reader[w] EXCEPT !.phase = phase] \in Classifications
  BY <1>1 DEF Classifications, Phases
<1>3. QED
  BY <1>1, <1>2 DEF EventTypes, Classifications

\* A call writes its result, and is over but for its jobs.
LEMMA WriteMoves ==
  ASSUME EventTypes, Claimants, NEW w \in Workers, E!Writing(w), NEW e \in Docs,
         e = reader[w].event,
         event' \in [Docs -> EventRows], event'[e].status # "ABSENT",
         \A d \in Docs \ {e} : Keeps(d),
         linked' \in [Docs -> SUBSET Docs], LinksKept, UNCHANGED feed,
         \/ reader' = [reader EXCEPT ![w] = None]
         \/ reader' = [reader EXCEPT ![w].phase = "chain"]
  PROVE  EventTypes' /\ Moves
<1>1. reader' \in [Workers -> {None} \cup Classifications]
      /\ ~E!Writing(w)' /\ \A v \in Workers \ {w} : Withdraws(v)
  <2>1. CASE reader' = [reader EXCEPT ![w] = None]
    BY <2>1 DEF EventTypes, Withdraws, E!Writing
  <2>2. CASE reader' = [reader EXCEPT ![w].phase = "chain"]
    BY <2>2, Going DEF Withdraws, E!Writing
  <2>3. QED
    BY <2>1, <2>2
<1>2. event[e].status = "CLASSIFYING"
  BY DEF Claimants
<1>3. Takes(e) /\ WrittenBy(e, w)
  BY <1>1, <1>2 DEF Takes, WrittenBy, E!Judged
<1>4. QED
  BY <1>1, <1>3 DEF EventTypes, Moves

LEMMA EventStep ==
  ASSUME EventsInv, InTime, [E!Next]_E!vars
  PROVE  EventTypes' /\ Moves
<1> USE Numbers
<1>0. EventTypes /\ Unmade /\ Claimants
  BY DEF EventsInv
<1>a. \A e \in Docs : event[e] \in EventRows /\ event[e].age \in Nat
  BY <1>0 DEF EventTypes, EventRows
<1>1. ASSUME UNCHANGED <<event, linked, reader>> PROVE Untouched /\ LinksKept
  BY <1>1, <1>a DEF Untouched, Keeps, Withdraws, LinksKept, E!Writing
<1>2. ASSUME NEW f \in Feeds, NEW d \in Docs, E!Ingest(f, d) PROVE EventTypes' /\ Moves
  <2>1. feed' \in [Feeds -> {None} \cup [doc : Docs, match : Docs \cup {None}]]
    BY <1>0, <1>2 DEF E!Ingest, E!Matching, EventTypes
  <2>2. QED
    BY <1>0, <1>1, <1>2, <2>1 DEF E!Ingest, EventTypes, Moves
<1>3. ASSUME NEW f \in Feeds, E!Store(f) PROVE EventTypes' /\ Moves
  <2>1. PICK d, match : d = feed[f].doc /\ match = feed[f].match
    OBVIOUS
  <2>2. /\ feed[f] # None /\ UNCHANGED reader
        /\ feed' = [feed EXCEPT ![f] = None]
        /\ \/ linked[d] # {} /\ UNCHANGED <<event, linked>>
           \/ /\ linked[d] = {} /\ match # None
              /\ linked' = [linked EXCEPT ![d] = {match}]
              /\ event' = [event EXCEPT ![match].age = 0]
           \/ /\ linked[d] = {} /\ match = None
              /\ linked' = [linked EXCEPT ![d] = {d}]
              /\ event' = E!Moved(d, "NEW")
    BY <1>3, <2>1 DEF E!Store
  <2>3. d \in Docs /\ match \in Docs \cup {None}
        /\ feed' \in [Feeds -> {None} \cup [doc : Docs, match : Docs \cup {None}]]
    BY <1>0, <2>1, <2>2 DEF EventTypes
  <2>4. CASE linked[d] # {} /\ UNCHANGED <<event, linked>>
    BY <1>0, <1>1, <2>2, <2>3, <2>4 DEF EventTypes, Moves
  <2>5. CASE /\ linked[d] = {} /\ match # None
             /\ linked' = [linked EXCEPT ![d] = {match}]
             /\ event' = [event EXCEPT ![match].age = 0]
    <3>1. match \in Docs /\ [event[match] EXCEPT !.age = 0] \in EventRows
      BY <1>a, <2>3, <2>5 DEF EventRows
    <3>2. EventTypes'
      BY <1>0, <2>2, <2>3, <2>5, <3>1 DEF EventTypes
    <3>3. \A e \in Docs : Keeps(e)
      BY <1>0, <1>a, <2>5, <3>1 DEF Keeps, EventTypes, EventRows
    <3>4. \A w \in Workers : Withdraws(w)
      BY <2>2 DEF Withdraws, E!Writing
    <3>5. LinksKept
      BY <1>0, <2>3, <2>5 DEF LinksKept, EventTypes
    <3>6. QED
      BY <3>2, <3>3, <3>4, <3>5 DEF Moves, Untouched
  <2>6. CASE /\ linked[d] = {} /\ match = None
             /\ linked' = [linked EXCEPT ![d] = {d}]
             /\ event' = E!Moved(d, "NEW")
    <3>1. EventTypes'
      BY <1>0, <2>2, <2>3, <2>6, RowTypes DEF EventTypes
    <3>2. Makes(d)
      BY <1>0, <1>a, <2>2, <2>3, <2>6, RowTypes DEF Makes, Keeps, Withdraws, E!Writing, EventTypes
    <3>3. LinksKept
      BY <1>0, <2>3, <2>6 DEF LinksKept, EventTypes
    <3>4. QED
      BY <2>3, <3>1, <3>2, <3>3 DEF Moves
  <2>7. QED
    BY <2>2, <2>4, <2>5, <2>6
<1>4. ASSUME NEW e \in Docs,
             \/ E!EnqueuePendingClassification(e) \/ E!EnqueuePendingResolution(e)
             \/ E!ResolveCandidates(e)
      PROVE  EventTypes' /\ Moves
  BY <1>0, <1>1, <1>4 DEF E!EnqueuePendingClassification, E!EnqueuePendingResolution,
     E!ResolveCandidates, EventTypes, Moves
<1>5. ASSUME NEW e \in Docs, E!ReleaseStalled(e) PROVE EventTypes' /\ Moves
  <2>1. event[e].status = "CLASSIFYING" /\ event[e].age >= Stale
        /\ event' = E!Moved(e, "NEW") /\ UNCHANGED <<linked, feed, reader>>
    BY <1>5 DEF E!ReleaseStalled, E!Stalled
  <2>2. EventTypes' /\ LinksKept
    BY <1>0, <2>1, RowTypes DEF EventTypes, LinksKept
  <2>3. Takes(e)
    BY <1>a, <2>1, RowTypes, <1>0 DEF Takes, Keeps, E!Judged
  <2>4. ~ \E w \in Workers : E!Writing(w) /\ reader[w].event = e
    <3>1. SUFFICES ASSUME NEW w \in Workers, E!Writing(w), reader[w].event = e PROVE FALSE
      OBVIOUS
    <3>2. event[e].age <= reader[w].spent /\ reader[w].spent <= CallLimit
      BY <1>0, <3>1 DEF Claimants
    <3>3. reader[w].spent \in Nat
      BY <1>0, <3>1 DEF EventTypes, Classifications, E!Writing
    <3>4. QED
      BY <1>a, <2>1, <3>2, <3>3, InTime DEF InTime
  <2>5. \A w \in Workers : Withdraws(w)
    BY <2>1 DEF Withdraws, E!Writing
  <2>6. QED
    BY <2>2, <2>3, <2>4, <2>5 DEF Moves, Released
<1>6. ASSUME NEW w \in Workers, NEW e \in Docs, E!Begin(w, e) PROVE EventTypes' /\ Moves
  <2>1. UNCHANGED <<event, linked, feed>> /\ reader[w] = None
    BY <1>6 DEF E!Begin
  <2>2. CASE UNCHANGED reader
    BY <1>0, <1>1, <2>1, <2>2 DEF EventTypes, Moves
  <2>3. CASE reader' # reader
    <3>1. PICK c : /\ reader' = [reader EXCEPT ![w] = c]
                   /\ c = [event |-> e, phase |-> "claim", owner |-> TRUE, spent |-> 0,
                           final |-> classifying[e] + 1 = MaxAttempts, target |-> None,
                           links |-> {}]
      BY <1>6, <2>3 DEF E!Begin
    <3>2. c \in Classifications /\ c.phase = "claim"
      BY <3>1 DEF Classifications, Phases
    <3>3. EventTypes'
      BY <1>0, <2>1, <3>1, <3>2 DEF EventTypes
    <3>4. \A v \in Workers : Withdraws(v)
      BY <1>0, <3>1, <3>2 DEF Withdraws, E!Writing, EventTypes
    <3>5. QED
      BY <1>a, <2>1, <3>3, <3>4 DEF Moves, Untouched, Keeps, LinksKept
  <2>4. QED
    BY <2>2, <2>3
<1>7. ASSUME NEW w \in Workers, E!Claim(w) PROVE EventTypes' /\ Moves
  <2>1. PICK e : e = reader[w].event
    OBVIOUS
  <2>2. reader[w] # None /\ reader[w].phase = "claim" /\ e \in Docs
        /\ reader[w] \in Classifications /\ UNCHANGED <<linked, feed>>
    BY <1>0, <1>7, <2>1 DEF E!Claim, E!In, EventTypes, Classifications
  <2>3. CASE event[e].status = "NEW"
    <3>1. event' = E!Moved(e, "CLASSIFYING") /\ reader' = [reader EXCEPT ![w].phase = "ask"]
      BY <1>7, <2>1, <2>3 DEF E!Claim, E!To
    <3>2. EventTypes'
      BY <1>0, <2>2, <3>1, RowTypes, Going DEF EventTypes, Phases
    <3>3. Takes(e) /\ LinksKept
      BY <1>0, <1>a, <2>2, <2>3, <3>1, RowTypes DEF Takes, Keeps, E!Judged, LinksKept
    <3>4. reader[w].spent = 0
      BY <2>2 DEF Classifications
    <3>5. QED
      BY <1>0, <2>1, <2>2, <2>3, <3>1, <3>2, <3>3, <3>4, RowTypes, Going
      DEF Moves, ClaimedBy, Withdraws, E!Writing, Phases
  <2>4. CASE event[e].status # "NEW"
    <3>1. UNCHANGED event /\ reader' = [reader EXCEPT ![w] = None]
      BY <1>7, <2>1, <2>4 DEF E!Claim, E!Ended
    <3>2. EventTypes'
      BY <1>0, <2>2, <3>1 DEF EventTypes
    <3>3. \A v \in Workers : Withdraws(v)
      BY <1>0, <3>1 DEF Withdraws, E!Writing, EventTypes
    <3>4. QED
      BY <1>a, <2>2, <3>1, <3>2, <3>3 DEF Moves, Untouched, Keeps, LinksKept
  <2>5. QED
    BY <2>3, <2>4
<1>8. ASSUME NEW w \in Workers, E!AskFailed(w) PROVE EventTypes' /\ Moves
  <2>1. PICK e \in Docs : e = reader[w].event
    BY <1>0, <1>8 DEF E!AskFailed, E!In, EventTypes, Classifications
  <2>2. PICK status \in {"CLASSIFICATION_FAILED", "NEW"} : event' = E!Moved(e, status)
    BY <1>8, <2>1 DEF E!AskFailed
  <2>3. /\ reader' = [reader EXCEPT ![w] = None] /\ UNCHANGED <<linked, feed>>
        /\ E!Writing(w)
    BY <1>8 DEF E!AskFailed, E!Ended, E!In, E!Writing
  <2>4. /\ event' \in [Docs -> EventRows] /\ event'[e].status # "ABSENT"
        /\ \A d \in Docs \ {e} : Keeps(d)
    BY <1>0, <1>a, <2>2, RowTypes DEF Keeps, E!Settled
  <2>5. LinksKept /\ linked' \in [Docs -> SUBSET Docs]
    BY <1>0, <2>3 DEF LinksKept, EventTypes
  <2>6. QED
    BY <1>0, <2>1, <2>3, <2>4, <2>5, WriteMoves
<1>9. ASSUME NEW w \in Workers, E!Asked(w) \/ E!MergeRead(w) PROVE EventTypes' /\ Moves
  <2>1. PICK c : reader' = [reader EXCEPT ![w] = c]
                 /\ c.event = reader[w].event /\ c.spent = reader[w].spent /\ c \in Classifications
    <3>1. reader[w] # None /\ reader[w] \in Classifications
      BY <1>0, <1>9 DEF E!Asked, E!MergeRead, E!In, EventTypes
    <3>2. CASE reader' = [reader EXCEPT ![w].phase = "apply"]
      <4>1. [reader[w] EXCEPT !.phase = "apply"] \in Classifications
        BY <3>1 DEF Classifications, Phases
      <4>2. QED
        BY <1>0, <3>1, <3>2, <4>1 DEF EventTypes, Classifications
    <3>3. ASSUME NEW t \in Docs,
                 reader' = [reader EXCEPT ![w].phase = "merge", ![w].target = t]
          PROVE  \E c : /\ reader' = [reader EXCEPT ![w] = c]
                        /\ c.event = reader[w].event /\ c.spent = reader[w].spent
                        /\ c \in Classifications
      <4>1. [reader[w] EXCEPT !.phase = "merge", !.target = t] \in Classifications
        BY <3>1 DEF Classifications, Phases
      <4>2. QED
        BY <1>0, <3>1, <3>3, <4>1 DEF EventTypes, Classifications
    <3>4. ASSUME NEW ls \in SUBSET Docs, reader[w].phase = "merge",
                 reader' = [reader EXCEPT ![w].phase = "fold", ![w].links = ls]
          PROVE  \E c : /\ reader' = [reader EXCEPT ![w] = c]
                        /\ c.event = reader[w].event /\ c.spent = reader[w].spent
                        /\ c \in Classifications
      <4>1. [reader[w] EXCEPT !.phase = "fold", !.links = ls] \in Classifications
        BY <3>1, <3>4 DEF Classifications, Phases
      <4>2. PICK c \in Classifications : c = [reader[w] EXCEPT !.phase = "fold", !.links = ls]
        BY <4>1
      <4>3. reader' = [reader EXCEPT ![w] = c]
        BY <1>0, <3>4, <4>2 DEF EventTypes
      <4>4. c.event = reader[w].event /\ c.spent = reader[w].spent
        BY <3>1, <4>2 DEF Classifications
      <4>5. QED
        BY <4>3, <4>4
    <3>5. CASE E!Asked(w)
      BY <3>2, <3>3, <3>5 DEF E!Asked, E!To, E!Candidates
    <3>6. CASE E!MergeRead(w)
      <4>1. /\ reader[w].phase = "merge"
            /\ {d \in Docs : reader[w].event \in linked[d]} \in SUBSET Docs
        BY <3>6 DEF E!MergeRead, E!In
      <4>2. QED
        BY <3>2, <3>4, <3>6, <4>1 DEF E!MergeRead, E!To
    <3>7. QED
      BY <1>9, <3>5, <3>6
  <2>2. E!Writing(w) /\ UNCHANGED <<event, linked, feed>>
    BY <1>9 DEF E!Asked, E!MergeRead, E!In, E!Writing
  <2>3. EventTypes'
    BY <1>0, <2>1, <2>2 DEF EventTypes
  <2>4. \A v \in Workers : Withdraws(v)
    BY <1>0, <2>1, <2>2 DEF Withdraws, E!Writing, EventTypes
  <2>5. QED
    BY <1>a, <2>2, <2>3, <2>4 DEF Moves, Untouched, Keeps, LinksKept
<1>10. ASSUME NEW w \in Workers, E!MergeWrite(w) PROVE EventTypes' /\ Moves
  <2>1. PICK e \in Docs, t \in Docs \cup {None}, ls \in SUBSET Docs :
          e = reader[w].event /\ t = reader[w].target /\ ls = reader[w].links
    BY <1>0, <1>10 DEF E!MergeWrite, E!In, EventTypes, Classifications
  <2>2. /\ linked' = [d \in Docs |-> IF d \in ls THEN (linked[d] \ {e}) \cup {t} ELSE linked[d]]
        /\ event' = [E!Moved(e, "ARCHIVED") EXCEPT ![e].into = t, ![t].age = 0]
        /\ reader' = [reader EXCEPT ![w] = None] /\ UNCHANGED feed /\ E!Writing(w)
    BY <1>10, <2>1 DEF E!MergeWrite, E!Ended, E!In, E!Writing
  <2>3. t \in Docs /\ reader[w].phase = "fold"
    BY <1>0, <1>10, <2>1 DEF E!MergeWrite, E!In, EventTypes, Classifications
  <2>4. linked' \in [Docs -> SUBSET Docs] /\ LinksKept
    BY <1>0, <2>1, <2>2, <2>3 DEF LinksKept, EventTypes
  <2>5. PICK moved \in [Docs -> EventRows] : moved = E!Moved(e, "ARCHIVED")
    BY <1>0, RowTypes DEF E!Settled, E!Judged
  <2>6. /\ \A d \in Docs \ {e} : moved[d] = event[d]
        /\ moved[e].status = "ARCHIVED"
    BY <1>0, <2>5, RowTypes DEF E!Settled, E!Judged
  <2>7. /\ event' = [moved EXCEPT ![e].into = t, ![t].age = 0]
    BY <2>2, <2>5
  <2>8. [moved[e] EXCEPT !.into = t] \in EventRows
    BY <2>3, <2>5 DEF EventRows
  <2>9. [moved[e] EXCEPT !.into = t, !.age = 0] \in EventRows
        /\ [moved[t] EXCEPT !.age = 0] \in EventRows
    <3>1. moved[e] \in EventRows /\ moved[t] \in EventRows
      BY <2>3, <2>5
    <3>2. [moved[e] EXCEPT !.into = t, !.age = 0] \in EventRows
      BY <2>3, <3>1 DEF EventRows
    <3>3. [moved[t] EXCEPT !.age = 0] \in EventRows
      BY <3>1 DEF EventRows
    <3>4. QED
      BY <3>2, <3>3
  <2>10. /\ event' \in [Docs -> EventRows] /\ event'[e].status = "ARCHIVED"
         /\ \A d \in Docs \ {e} : Keeps(d)
    <3>1. CASE t = e
      <4>1. event' = [moved EXCEPT ![e] = [moved[e] EXCEPT !.into = t, !.age = 0]]
        BY <2>5, <2>7, <3>1 DEF EventRows
      <4>2. QED
        BY <1>a, <2>5, <2>6, <2>9, <4>1 DEF Keeps, EventRows
    <3>2. CASE t # e
      <4>1. event' = [moved EXCEPT ![e] = [moved[e] EXCEPT !.into = t],
                                   ![t] = [moved[t] EXCEPT !.age = 0]]
        BY <2>3, <2>5, <2>7, <3>2 DEF EventRows
      <4>2. event' \in [Docs -> EventRows] /\ event'[e].status = "ARCHIVED"
        BY <2>3, <2>5, <2>6, <2>8, <2>9, <3>2, <4>1 DEF EventRows
      <4>3. \A d \in Docs \ {e} : Keeps(d)
        BY <1>a, <2>3, <2>5, <2>6, <3>2, <4>1 DEF Keeps, EventRows
      <4>4. QED
        BY <4>2, <4>3
    <3>3. QED
      BY <3>1, <3>2
  <2>11. QED
    BY <1>0, <2>1, <2>2, <2>4, <2>10, WriteMoves
<1>11. ASSUME NEW w \in Workers, E!Apply(w) PROVE EventTypes' /\ Moves
  <2>1. PICK e \in Docs : e = reader[w].event
    BY <1>0, <1>11 DEF E!Apply, E!In, EventTypes, Classifications
  <2>2. PICK status \in {"CANDIDATE", "CLASSIFIED", "IRRELEVANT"} : event' = E!Moved(e, status)
    BY <1>11, <2>1 DEF E!Apply
  <2>3. /\ reader' = [reader EXCEPT ![w].phase = "chain"] /\ UNCHANGED <<linked, feed>>
        /\ E!Writing(w)
    BY <1>11 DEF E!Apply, E!To, E!In, E!Writing
  <2>4. /\ event' \in [Docs -> EventRows] /\ event'[e].status # "ABSENT"
        /\ \A d \in Docs \ {e} : Keeps(d)
    BY <1>0, <1>a, <2>2, RowTypes DEF Keeps, E!Settled, E!Judged
  <2>5. LinksKept /\ linked' \in [Docs -> SUBSET Docs]
    BY <1>0, <2>3 DEF LinksKept, EventTypes
  <2>6. QED
    BY <1>0, <2>1, <2>3, <2>4, <2>5, WriteMoves
<1>12. ASSUME NEW w \in Workers, E!Chain(w) \/ E!Die(w) PROVE EventTypes' /\ Moves
  <2>1. reader' = [reader EXCEPT ![w] = None] /\ UNCHANGED <<event, linked, feed>>
    BY <1>12 DEF E!Chain, E!Die, E!Ended
  <2>2. EventTypes' /\ \A v \in Workers : Withdraws(v)
    BY <1>0, <2>1 DEF EventTypes, Withdraws, E!Writing
  <2>3. QED
    BY <1>a, <2>1, <2>2 DEF Moves, Untouched, Keeps, LinksKept
<1>13. ASSUME NEW w \in Workers, E!LoseLease(w) PROVE EventTypes' /\ Moves
  <2>1. /\ reader[w] # None /\ reader' = [reader EXCEPT ![w].owner = FALSE]
        /\ UNCHANGED <<event, linked, feed>>
    BY <1>13 DEF E!LoseLease
  <2>2. reader[w] \in Classifications
    BY <1>0, <2>1 DEF EventTypes
  <2>3. PICK c \in Classifications : c = [reader[w] EXCEPT !.owner = FALSE]
    BY <2>2 DEF Classifications
  <2>4. /\ reader' = [reader EXCEPT ![w] = c] /\ c.event = reader[w].event
        /\ c.spent = reader[w].spent /\ c.phase = reader[w].phase
    BY <2>1, <2>2, <2>3 DEF Classifications
  <2>5. EventTypes' /\ \A v \in Workers : Withdraws(v)
    BY <1>0, <2>1, <2>4 DEF EventTypes, Withdraws, E!Writing
  <2>6. QED
    BY <1>a, <2>1, <2>5 DEF Moves, Untouched, Keeps, LinksKept
<1>14. CASE E!Tick
  <2>1. \A e \in Docs : /\ event'[e] \in EventRows
                        /\ event'[e].status = event[e].status
                        /\ event'[e].into = event[e].into
                        /\ event'[e].age <= event[e].age + 1
    BY <1>a, <1>14, NextOfTwo DEF E!Tick, EventRows
  <2>2. ASSUME NEW w \in Workers
        PROVE  /\ reader'[w] \in {None} \cup Classifications
               /\ E!Writing(w)' => /\ E!Writing(w) /\ reader'[w].event = reader[w].event
                                   /\ reader'[w].spent = reader[w].spent + 1
                                   /\ reader[w].spent < CallLimit
    <3>1. CASE E!Writing(w)
      <4>1. reader'[w] = [reader[w] EXCEPT !.spent = @ + 1] /\ reader[w].spent < CallLimit
        BY <1>14, <3>1 DEF E!Tick
      <4>2. reader[w] \in Classifications /\ reader[w].phase # "claim"
        BY <1>0, <3>1 DEF E!Writing, EventTypes
      <4>3. QED
        BY <3>1, <4>1, <4>2 DEF Classifications
    <3>2. CASE ~E!Writing(w)
      <4>1. reader'[w] = reader[w]
        BY <1>14, <3>2 DEF E!Tick
      <4>2. QED
        BY <1>0, <3>2, <4>1 DEF EventTypes, E!Writing
    <3>3. QED
      BY <3>1, <3>2
  <2>3. /\ DOMAIN event' = Docs /\ event' = [e \in Docs |-> event'[e]]
        /\ reader' = [w \in Workers |-> reader'[w]] /\ UNCHANGED <<linked, feed>>
    BY <1>14 DEF E!Tick
  <2>4. EventTypes'
    BY <1>0, <2>1, <2>2, <2>3 DEF EventTypes
  <2>5. QED
    BY <2>1, <2>2, <2>3, <2>4 DEF Moves, Ages, LinksKept
<1>15. CASE E!Pause \/ UNCHANGED E!vars
  BY <1>0, <1>1, <1>15 DEF E!Pause, E!vars, EventTypes, Moves
<1>16. QED
  BY <1>2, <1>3, <1>4, <1>5, <1>6, <1>7, <1>8, <1>9, <1>10, <1>11, <1>12, <1>13, <1>14, <1>15
  DEF E!Next, E!Classify

\* The status, the links and the writers of a step.
LEMMA ClaimsStep ==
  ASSUME EventsInv, EventTypes', Moves
  PROVE  Unmade' /\ Claimants'
<1> USE Numbers
<1>0. /\ EventTypes /\ Unmade /\ Claimants
      /\ \A e \in Docs : event[e].age \in Nat /\ event'[e].age \in Nat
      /\ \A w \in Workers : E!Writing(w) => reader[w].event \in Docs /\ reader[w].spent \in Nat
      /\ \A w \in Workers : E!Writing(w)' => reader'[w].event \in Docs /\ reader'[w].spent \in Nat
  BY DEF EventsInv, EventTypes, EventRows, Classifications, E!Writing
<1>1. Unmade'
  BY <1>0 DEF Unmade, Moves, LinksKept, Ages, Untouched, Makes, Takes, Keeps, E!Judged
<1>2. CASE Ages
  BY <1>0, <1>1, <1>2 DEF Claimants, Ages
<1>3. CASE Untouched
  BY <1>0, <1>1, <1>3 DEF Claimants, Untouched, Keeps, Withdraws
<1>4. ASSUME NEW d \in Docs, Makes(d) PROVE Claimants'
  <2>1. event[d].status = "ABSENT"
    BY <1>0, <1>4 DEF Makes, Unmade
  <2>2. \A w \in Workers : E!Writing(w) => reader[w].event # d
    BY <1>0, <2>1 DEF Claimants
  <2>3. QED
    BY <1>0, <1>4, <2>2 DEF Claimants, Makes, Keeps, Withdraws
<1>5. ASSUME NEW e \in Docs, Takes(e), Released(e) PROVE Claimants'
  BY <1>0, <1>5 DEF Claimants, Takes, Released, Keeps, Withdraws
<1>6. ASSUME NEW e \in Docs, NEW w \in Workers, Takes(e), ClaimedBy(e, w) PROVE Claimants'
  <2>1. \A v \in Workers : E!Writing(v) => reader[v].event # e
    BY <1>0, <1>6 DEF Claimants, ClaimedBy
  <2>2. QED
    BY <1>0, <1>6, <2>1 DEF Claimants, Takes, ClaimedBy, Keeps, Withdraws
<1>7. ASSUME NEW e \in Docs, NEW w \in Workers, Takes(e), WrittenBy(e, w) PROVE Claimants'
  <2>1. \A v \in Workers \ {w} : E!Writing(v) => reader[v].event # e
    BY <1>0, <1>7 DEF Claimants, WrittenBy
  <2>2. QED
    BY <1>0, <1>7, <2>1 DEF Claimants, Takes, WrittenBy, Keeps, Withdraws
<1>8. ASSUME NEW e \in Docs, Takes(e),
             Released(e) \/ \E w \in Workers : ClaimedBy(e, w) \/ WrittenBy(e, w)
      PROVE  Claimants'
  BY <1>5, <1>6, <1>7, <1>8
<1>9. QED
  BY <1>1, <1>2, <1>3, <1>4, <1>8 DEF Moves

\* A claim belongs to one call, which is over before anybody may release it
\* (release_stalled, classify_event).
THEOREM EventsInvariant == ASSUME InTime PROVE Explored => []EventsInv
<1>1. E!Init => EventsInv
  <2>1. ASSUME E!Init
        PROVE  \A e \in Docs : [status |-> "ABSENT", into |-> None, age |-> 0] \in EventRows
    BY DEF EventRows
  <2>2. QED
    BY <2>1 DEF E!Init, EventsInv, EventTypes, Unmade, Claimants, E!Writing
<1>2. EventsInv /\ [E!Next]_E!vars => EventsInv'
  BY InTime, EventStep, ClaimsStep DEF EventsInv
<1>3. QED
  BY <1>1, <1>2, EachPart, PTL DEF E!Spec

\* A judgment stands, whatever is released, redelivered or merged and however many
\* workers die, as long as a classification is over before its event counts as
\* stalled: _record_failure and _apply_classification do not look at the status
\* they overwrite.
THEOREM Judged == ASSUME InTime PROVE Explored => JudgmentStands
<1>1. ASSUME EventsInv, [E!Next]_E!vars, NEW e \in Docs, event[e].status \in E!Judged
      PROVE  /\ event'[e].status \in E!Judged
             /\ event[e].status = "ARCHIVED" => event'[e].into = event[e].into
  <2>1. Moves /\ Unmade
    BY <1>1, InTime, EventStep DEF EventsInv
  <2>2. event[e].status # "ABSENT"
    BY <1>1 DEF E!Judged
  <2>3. Keeps(e) \/ Ages
    BY <1>1, <2>1, <2>2 DEF Moves, Untouched, Makes, Takes, Unmade
  <2>4. QED
    BY <1>1, <2>3 DEF Keeps, Ages
<1>2. EventsInv /\ [E!Next]_E!vars =>
        [\A e \in Docs : event[e].status \in E!Judged =>
            /\ event'[e].status \in E!Judged
            /\ event[e].status = "ARCHIVED" => event'[e].into = event[e].into]_E!vars
  BY <1>1
<1>3. QED
  BY <1>2, EventsInvariant, EachPart, InTime, PTL DEF JudgmentStands, E!JudgmentStands, E!Spec

-----------------------------------------------------------------------------
(* Research.                                                               *)

Rows == [status : Ended \cup {"ABSENT", "PENDING", "RUNNING"},
         token : Workers \cup {None}, left : 0 .. Lease]
Tasks == [run : Keys, phase : {"claim", "analyse", "announce", "raise", "retry"},
          owner : BOOLEAN, final : BOOLEAN]

Types ==
    /\ run \in [Keys -> Rows] /\ config \in 0 .. MaxDeploys
    /\ job \in [Keys -> {None} \cup Nat] /\ worker \in [Workers -> {None} \cup Tasks]
    /\ announced \in SUBSET Keys /\ interrupted \in SUBSET Keys /\ allowed \in BOOLEAN

\* A worker is still analysing r, as far as it knows.
On(w, r) == In(w, "analyse") /\ worker[w].run = r

\* Who holds a lease holds it on a run that is running.
Leases ==
    \A r \in Keys : run[r].token \in Workers => run[r].status = "RUNNING"

\* A worker that analyses has its run's lease, or the run is over.
Analyses == \A w \in Workers, r \in Keys :
    On(w, r) => \/ run[r].status = "RUNNING" /\ Holds(w, r)
                \/ run[r].status \in Ended

\* What was interrupted has begun, and nobody is at it who could give it back.
Interrupted == \A r \in interrupted :
    /\ run[r].status \in Ended \cup {"RUNNING"}
    /\ run[r].status = "RUNNING" => \A w \in Workers : ~On(w, r)

ResearchInv == Types /\ Leases /\ Analyses /\ Interrupted
-----------------------------------------------------------------------------
(* Research: type correctness.                                             *)

LEMMA Facts ==
  /\ {MaxDeploys, MaxAttempts, Lease} \subseteq Nat /\ None \notin Workers
  /\ \A r \in Keys : ConfigOf(r) \in 0 .. MaxDeploys
BY ResearchAssumption DEF Keys, ConfigOf

LEMMA Shorter ==
  ASSUME NEW left \in 0 .. Lease
  PROVE  Max({left - 1, 0}) \in 0 .. Lease
<1> DEFINE rest == IF left - 1 >= 0 THEN left - 1 ELSE 0
<1>1. rest \in {left - 1, 0} /\ \A y \in {left - 1, 0} : rest >= y
  BY ResearchAssumption
<1>2. \A x \in {left - 1, 0} : (\A y \in {left - 1, 0} : x >= y) => x = rest
  BY ResearchAssumption
<1>3. Max({left - 1, 0}) = rest
  BY <1>1, <1>2 DEF Max
<1>4. QED
  BY <1>3, ResearchAssumption

\* What a worker is on, and what the end of its job makes of the jobs.
LEMMA TaskTypes ==
  ASSUME Types, NEW w \in Workers, worker[w] # None
  PROVE  /\ worker[w] \in Tasks /\ worker[w].run \in Keys
         /\ \A phase \in {"claim", "analyse", "announce", "raise", "retry"} :
               To(w, phase) => worker' \in [Workers -> {None} \cup Tasks]
         /\ Freed(w) \in [Workers -> {None} \cup Tasks]
         /\ Done(w) \in [Keys -> {None} \cup Nat] /\ Failed(w) \in [Keys -> {None} \cup Nat]
<1>1. worker[w] \in Tasks /\ worker[w].run \in Keys
  BY DEF Types, Tasks
<1>2. ASSUME NEW phase \in {"claim", "analyse", "announce", "raise", "retry"}, To(w, phase)
      PROVE  worker' \in [Workers -> {None} \cup Tasks]
  <2>1. [worker[w] EXCEPT !.phase = phase] \in Tasks
    BY <1>1 DEF Tasks
  <2>2. QED
    BY <1>2, <2>1 DEF Types, To
<1>3. QED
  BY <1>1, <1>2 DEF Types, Freed, Done, Failed, Tried

LEMMA TypeStep == Types /\ [Next]_vars => Types'
<1> SUFFICES ASSUME Types, [Next]_vars PROVE Types'
  OBVIOUS
<1> USE Facts DEF Types
<1>1. ASSUME NEW r \in Keys, Request(r) PROVE Types'
  <2>1. [run[r] EXCEPT !.status = "PENDING"] \in Rows
    BY DEF Rows
  <2>2. run' \in [Keys -> Rows]
    BY <1>1, <2>1 DEF Request
  <2>3. QED
    BY <1>1, <2>2 DEF Request, Offered
<1>2. CASE Sweep
  <2>1. ASSUME NEW r \in Keys PROVE Swept(r) \in Rows
    BY DEF Swept, Rows, Expired, Ended
  <2>2. QED
    BY <1>2, <2>1 DEF Sweep, Offered
<1>3. ASSUME NEW w \in Workers, NEW r \in Keys, Begin(w, r) PROVE Types'
  <2>1. job[r] \in Nat /\ Final(r) \in BOOLEAN
    BY <1>3 DEF Begin, Final
  <2>2. [run |-> r, phase |-> IF allowed THEN "claim" ELSE "announce", owner |-> TRUE,
         final |-> Final(r)] \in Tasks
    BY <2>1 DEF Tasks
  <2>3. QED
    BY <1>3, <2>1, <2>2 DEF Begin
<1>4. ASSUME NEW w \in Workers, Claim(w) PROVE Types'
  <2>1. [status |-> "RUNNING", token |-> w, left |-> Lease] \in Rows
    BY DEF Rows
  <2>2. run' \in [Keys -> Rows]
    BY <1>4, <2>1 DEF Claim
  <2>3. worker' \in [Workers -> {None} \cup Tasks]
    BY <1>4, TaskTypes DEF Claim, In
  <2>4. QED
    BY <1>4, <2>2, <2>3 DEF Claim
<1>5. ASSUME NEW w \in Workers, Publish(w) PROVE Types'
  <2>1. [status |-> "SUCCEEDED", token |-> None, left |-> 0] \in Rows
    BY DEF Rows, Ended
  <2>2. run' \in [Keys -> Rows]
    BY <1>5, <2>1 DEF Publish
  <2>3. worker' \in [Workers -> {None} \cup Tasks]
    BY <1>5, TaskTypes DEF Publish, In
  <2>4. QED
    BY <1>5, <2>2, <2>3 DEF Publish
<1>6. ASSUME NEW w \in Workers, Fail(w) PROVE Types'
  <2>1. worker[w] # None /\ worker[w].run \in Keys
    BY <1>6, TaskTypes DEF Fail, In
  <2>2. PICK outcome \in Outcomes :
          /\ run' = IF Holds(w, worker[w].run)
                    THEN [run EXCEPT ![worker[w].run] =
                            [status |-> After(w, outcome), token |-> None, left |-> 0]]
                    ELSE run
          /\ interrupted' = IF outcome \in {"TIMED_OUT", "CANCELLED"}
                            THEN interrupted \cup {worker[w].run} ELSE interrupted
          /\ To(w, IF After(w, outcome) = "PENDING" THEN "retry" ELSE "raise")
    BY <1>6 DEF Fail
  <2>3. [status |-> After(w, outcome), token |-> None, left |-> 0] \in Rows
    BY DEF Rows, Ended, After, Outcomes
  <2>4. worker' \in [Workers -> {None} \cup Tasks]
    BY <2>1, <2>2, TaskTypes
  <2>5. QED
    BY <1>6, <2>1, <2>2, <2>3, <2>4 DEF Fail
<1>7. ASSUME NEW w \in Workers, Announce(w) \/ Retry(w) \/ Die(w) PROVE Types'
  <2>1. worker[w] # None
    BY <1>7 DEF Announce, Retry, Die, In
  <2>2. /\ worker' \in [Workers -> {None} \cup Tasks] /\ job' \in [Keys -> {None} \cup Nat]
        /\ worker[w].run \in Keys
    BY <1>7, <2>1, TaskTypes DEF Announce, Retry, Die
  <2>3. Broken({w}) \in SUBSET Keys
    BY <2>2 DEF Broken
  <2>4. QED
    BY <1>7, <2>2, <2>3 DEF Announce, Retry, Die
<1>8. ASSUME NEW w \in Workers, LoseClaim(w) PROVE Types'
  <2>1. worker[w] # None
    BY <1>8 DEF LoseClaim
  <2>2. worker[w] \in Tasks /\ job' \in [Keys -> {None} \cup Nat]
    BY <1>8, <2>1, TaskTypes DEF LoseClaim
  <2>3. [worker[w] EXCEPT !.owner = FALSE] \in Tasks
    BY <2>2 DEF Tasks
  <2>4. worker' \in [Workers -> {None} \cup Tasks]
    BY <1>8, <2>3 DEF LoseClaim
  <2>5. QED
    BY <1>8, <2>2, <2>4 DEF LoseClaim
<1>9. CASE Deploy
  <2>1. ASSUME NEW r \in Keys PROVE Tried(r)[r] \in {None} \cup Nat
    BY DEF Tried
  <2>2. Broken(Workers) \in SUBSET Keys
    BY TaskTypes DEF Broken, In
  <2>3. config' \in 0 .. MaxDeploys
    BY <1>9 DEF Deploy
  <2>4. QED
    BY <1>9, <2>1, <2>2, <2>3 DEF Deploy
<1>10. CASE Tick
  <2>1. ASSUME NEW r \in Keys PROVE [run[r] EXCEPT !.left = Max({@ - 1, 0})] \in Rows
    BY Shorter DEF Rows
  <2>2. QED
    BY <1>10, <2>1 DEF Tick
<1>11. CASE Pause
  BY <1>11 DEF Pause
<1>12. CASE UNCHANGED vars
  BY <1>12 DEF vars
<1>13. QED
  BY <1>1, <1>2, <1>3, <1>4, <1>5, <1>6, <1>7, <1>8, <1>9, <1>10, <1>11, <1>12 DEF Next, Run
-----------------------------------------------------------------------------
(* Research: no blind rerun.                                               *)

\* What a step may do to a run: nothing; request it; sweep what nobody answers
\* for; claim it; and what its worker writes under the lease.
Kept(r) == run'[r].status = run[r].status /\ run'[r].token = run[r].token
Requested(r) == /\ run[r].status \in {"ABSENT", "PENDING"} /\ run'[r].status = "PENDING"
                /\ run'[r].token = run[r].token
GivenUp(r) == \/ /\ run[r].status = "RUNNING" /\ run'[r].status = "TIMED_OUT"
                 /\ run'[r].token = None
              \/ /\ run[r].status = "PENDING" /\ run'[r].status = "CANCELLED"
                 /\ run'[r].token = run[r].token
Claimed(r, w) == /\ run[r].status = "PENDING" /\ run'[r].status = "RUNNING"
                 /\ run'[r].token = w
Written(r, w) == /\ On(w, r) /\ Holds(w, r) /\ ~On(w, r)' /\ run'[r].token = None
                 /\ run'[r].status \in Ended \cup {"PENDING"}
                 /\ \A v \in Workers \ {w} : worker'[v] = worker[v]
                 /\ run'[r].status = "PENDING" => interrupted' = interrupted

\* And to the workers: what is analysed was analysed, or has just been claimed.
NoneAnew == \A w \in Workers, r \in Keys : On(w, r)' => On(w, r)
\* Only those are newly interrupted that a worker was on and is no longer.
Breaks(r) == \E w \in Workers : On(w, r) /\ ~On(w, r)'

\* The four kinds of steps the invariant tells apart.
Quiet == /\ NoneAnew /\ interrupted' = interrupted
         /\ \A r \in Keys : Kept(r) \/ Requested(r) \/ GivenUp(r)
Claims(w) ==
    /\ interrupted' = interrupted
    /\ \A v \in Workers, r \in Keys : On(v, r)' => On(v, r) \/ (v = w /\ Claimed(r, w))
    /\ \A r \in Keys : Kept(r) \/ Claimed(r, w)
Writes(w) ==
    /\ NoneAnew
    /\ \A r \in Keys : Kept(r) \/ Written(r, w)
    /\ \A r \in interrupted' : r \in interrupted \/ (On(w, r) /\ ~On(w, r)')
    /\ \A r \in Keys : On(w, r) => ~On(w, r)'
    /\ \A v \in Workers \ {w} : worker'[v] = worker[v]
Breakdown ==
    /\ NoneAnew /\ \A r \in Keys : Kept(r)
    /\ \A r \in interrupted' : r \in interrupted \/ Breaks(r)

LEMMA StepKinds ==
  ASSUME Types, [Next]_vars
  PROVE  \/ Quiet \/ Breakdown
         \/ \E w \in Workers : Claims(w) \/ Writes(w)
<1> USE DEF Types
<1>1. ASSUME UNCHANGED run PROVE \A r \in Keys : Kept(r)
  BY <1>1 DEF Kept
<1>2. ASSUME UNCHANGED worker PROVE NoneAnew
  BY <1>2 DEF NoneAnew, On, In
<1>3. ASSUME NEW r \in Keys, Request(r) PROVE Quiet
  <2>1. \A x \in Keys : Kept(x) \/ Requested(x)
    BY <1>3 DEF Request, Kept, Requested, Rows
  <2>2. QED
    BY <1>2, <1>3, <2>1 DEF Request, Quiet
<1>4. CASE Sweep
  <2>1. ASSUME NEW r \in Keys PROVE Kept(r) \/ GivenUp(r)
    BY <1>4 DEF Sweep, Swept, Expired, Kept, GivenUp, Rows
  <2>2. QED
    BY <1>2, <1>4, <2>1 DEF Sweep, Quiet
<1>5. ASSUME NEW w \in Workers, NEW r \in Keys, Begin(w, r) PROVE Quiet
  <2>1. NoneAnew
    BY <1>5 DEF Begin, NoneAnew, On, In
  <2>2. QED
    BY <1>1, <1>5, <2>1 DEF Begin, Quiet
<1>6. ASSUME NEW w \in Workers, Claim(w) PROVE Claims(w) \/ Quiet
  <2>1. worker[w] \in Tasks /\ worker[w].run \in Keys
    BY <1>6, TaskTypes DEF Claim, In
  <2>2. CASE run[worker[w].run].status = "PENDING" /\ ConfigOf(worker[w].run) = config
    <3>1. /\ run' = [run EXCEPT ![worker[w].run] =
                      [status |-> "RUNNING", token |-> w, left |-> Lease]]
          /\ worker' = [worker EXCEPT ![w].phase = "analyse"] /\ interrupted' = interrupted
      BY <1>6, <2>2 DEF Claim, To
    <3>2. worker'[w].run = worker[w].run
      BY <2>1, <3>1 DEF Tasks
    <3>3. \A r \in Keys : Kept(r) \/ (r = worker[w].run /\ Claimed(r, w))
      BY <2>1, <2>2, <3>1 DEF Kept, Claimed, Rows
    <3>4. ASSUME NEW v \in Workers, NEW r \in Keys, On(v, r)'
          PROVE  On(v, r) \/ (v = w /\ Claimed(r, w))
      BY <2>2, <3>1, <3>2, <3>4 DEF On, In, Claimed
    <3>5. QED
      BY <3>1, <3>3, <3>4 DEF Claims
  <2>3. CASE ~(run[worker[w].run].status = "PENDING" /\ ConfigOf(worker[w].run) = config)
    <3>1. worker' = [worker EXCEPT ![w].phase = "announce"] /\ UNCHANGED <<run, interrupted>>
      BY <1>6, <2>3 DEF Claim, To
    <3>2. NoneAnew
      BY <2>1, <3>1 DEF NoneAnew, On, In, Tasks
    <3>3. QED
      BY <1>1, <3>1, <3>2 DEF Quiet
  <2>4. QED
    BY <2>2, <2>3
<1>7. ASSUME NEW w \in Workers, Publish(w) PROVE Writes(w)
  <2>1. worker[w] \in Tasks /\ worker[w].run \in Keys /\ On(w, worker[w].run)
    BY <1>7, TaskTypes DEF Publish, In, On
  <2>2. \E phase \in {"announce", "raise"} : worker' = [worker EXCEPT ![w].phase = phase]
    BY <1>7 DEF Publish, To
  <2>3. /\ NoneAnew /\ \A r \in Keys : On(w, r) => ~On(w, r)'
        /\ \A v \in Workers \ {w} : worker'[v] = worker[v]
    BY <2>1, <2>2 DEF NoneAnew, On, In, Tasks
  <2>4. interrupted' = interrupted
    BY <1>7 DEF Publish
  <2>5. ASSUME NEW r \in Keys PROVE Kept(r) \/ Written(r, w)
    BY <1>7, <2>1, <2>3, <2>4 DEF Publish, Publishes, Kept, Written, Ended
  <2>6. \A r \in interrupted' : r \in interrupted \/ (On(w, r) /\ ~On(w, r)')
    BY <2>4
  <2>7. \A r \in Keys : Kept(r) \/ Written(r, w)
    BY <2>5
  <2>8. QED
    BY ONLY <2>3, <2>6, <2>7 DEF Writes
<1>8. ASSUME NEW w \in Workers, Fail(w) PROVE Writes(w)
  <2>1. worker[w] \in Tasks /\ worker[w].run \in Keys /\ On(w, worker[w].run)
    BY <1>8, TaskTypes DEF Fail, In, On
  <2>2. PICK outcome \in Outcomes :
          /\ run' = IF Holds(w, worker[w].run)
                    THEN [run EXCEPT ![worker[w].run] =
                            [status |-> After(w, outcome), token |-> None, left |-> 0]]
                    ELSE run
          /\ interrupted' = IF outcome \in {"TIMED_OUT", "CANCELLED"}
                            THEN interrupted \cup {worker[w].run} ELSE interrupted
          /\ To(w, IF After(w, outcome) = "PENDING" THEN "retry" ELSE "raise")
    BY <1>8 DEF Fail
  <2>3. \E phase \in {"retry", "raise"} : worker' = [worker EXCEPT ![w].phase = phase]
    BY <2>2 DEF To
  <2>4. /\ NoneAnew /\ \A r \in Keys : On(w, r) => ~On(w, r)'
        /\ \A v \in Workers \ {w} : worker'[v] = worker[v]
    BY <2>1, <2>3 DEF NoneAnew, On, In, Tasks
  <2>5. /\ After(w, outcome) \in Ended \cup {"PENDING"}
        /\ After(w, outcome) = "PENDING" => outcome = "capacity"
    BY DEF After, Outcomes, Ended
  <2>6. ASSUME NEW r \in Keys PROVE Kept(r) \/ Written(r, w)
    BY <2>1, <2>2, <2>4, <2>5 DEF Kept, Written
  <2>7. \A r \in interrupted' : r \in interrupted \/ r = worker[w].run
    BY <2>2
  <2>8. \A r \in interrupted' : r \in interrupted \/ (On(w, r) /\ ~On(w, r)')
    BY <2>1, <2>4, <2>7
  <2>9. \A r \in Keys : Kept(r) \/ Written(r, w)
    BY <2>6
  <2>10. QED
    BY ONLY <2>4, <2>8, <2>9 DEF Writes
<1>9. ASSUME NEW w \in Workers, Announce(w) \/ Retry(w) PROVE Quiet
  <2>1. NoneAnew /\ UNCHANGED <<run, interrupted>>
    BY <1>9 DEF Announce, Retry, Freed, NoneAnew, On, In
  <2>2. QED
    BY <1>1, <2>1 DEF Quiet
<1>10. ASSUME NEW w \in Workers, Die(w) PROVE Breakdown
  <2>1. NoneAnew /\ UNCHANGED run /\ worker'[w] = None
    BY <1>10 DEF Die, Freed, NoneAnew, On, In
  <2>2. \A r \in interrupted' : r \in interrupted \/ On(w, r)
    BY <1>10 DEF Die, Broken, On
  <2>3. \A r \in Keys : ~On(w, r)'
    BY <2>1 DEF On, In
  <2>4. \A r \in interrupted' : r \in interrupted \/ Breaks(r)
    BY <1>10, <2>1, <2>2 DEF Breaks, On, In
  <2>5. QED
    BY <1>1, <2>1, <2>4 DEF Breakdown
<1>11. ASSUME NEW w \in Workers, LoseClaim(w) PROVE Quiet
  <2>1. worker[w] \in Tasks
    BY <1>11, TaskTypes DEF LoseClaim
  <2>2. NoneAnew /\ UNCHANGED <<run, interrupted>>
    BY <1>11, <2>1 DEF LoseClaim, NoneAnew, On, In, Tasks
  <2>3. QED
    BY <1>1, <2>2 DEF Quiet
<1>12. CASE Deploy
  <2>1. NoneAnew /\ UNCHANGED run /\ \A w \in Workers : worker'[w] = None
    BY <1>12 DEF Deploy, NoneAnew, On, In
  <2>2. \A r \in interrupted' : r \in interrupted \/ \E w \in Workers : On(w, r)
    BY <1>12 DEF Deploy, Broken, On
  <2>3. \A r \in interrupted' : r \in interrupted \/ Breaks(r)
    BY <2>1, <2>2 DEF Breaks, On, In
  <2>4. QED
    BY <1>1, <2>1, <2>3 DEF Breakdown
<1>13. CASE Tick
  <2>1. ASSUME NEW r \in Keys PROVE Kept(r)
    BY <1>13 DEF Tick, Kept, Rows
  <2>2. QED
    BY <1>2, <1>13, <2>1 DEF Tick, Quiet
<1>14. CASE Pause \/ UNCHANGED vars
  BY <1>1, <1>2, <1>14 DEF Pause, vars, Quiet
<1>15. QED
  BY <1>3, <1>4, <1>5, <1>6, <1>7, <1>8, <1>9, <1>10, <1>11, <1>12, <1>13, <1>14 DEF Next, Run

LEMMA ResearchStep == ResearchInv /\ [Next]_vars => ResearchInv'
<1> SUFFICES ASSUME ResearchInv, [Next]_vars PROVE ResearchInv'
  OBVIOUS
<1> USE DEF ResearchInv
<1>0. Types' /\ None \notin Workers /\ "RUNNING" \notin Ended /\ "PENDING" \notin Ended
  BY TypeStep, Facts DEF Ended
<1>1. CASE Quiet
  <2>1. Leases'
    BY <1>0, <1>1 DEF Quiet, Leases, Kept, Requested, GivenUp
  <2>2. Analyses'
    BY <1>0, <1>1 DEF Quiet, NoneAnew, Analyses, Kept, Requested, GivenUp, Holds, Ended
  <2>3. Interrupted'
    BY <1>0, <1>1 DEF Quiet, NoneAnew, Interrupted, Types, Kept, Requested, GivenUp, Ended
  <2>4. QED
    BY <1>0, <2>1, <2>2, <2>3
<1>2. CASE Breakdown
  <2>1. Leases' /\ Analyses'
    BY <1>0, <1>2 DEF Breakdown, NoneAnew, Leases, Analyses, Kept, Holds
  <2>2. ASSUME NEW r \in interrupted'
        PROVE  /\ run'[r].status \in Ended \cup {"RUNNING"}
               /\ run'[r].status = "RUNNING" => \A w \in Workers : ~On(w, r)'
    <3>1. r \in Keys /\ Kept(r)
      BY <1>0, <1>2 DEF Breakdown, Types
    <3>2. CASE r \in interrupted
      BY <1>2, <3>1, <3>2 DEF Breakdown, NoneAnew, Interrupted, Kept
    <3>3. CASE Breaks(r)
      <4>1. PICK w \in Workers : On(w, r) /\ ~On(w, r)'
        BY <3>3 DEF Breaks
      <4>2. ASSUME NEW v \in Workers, On(v, r)', run[r].status = "RUNNING" PROVE FALSE
        BY <1>0, <1>2, <3>1, <4>1, <4>2 DEF Breakdown, NoneAnew, Analyses, Holds
      <4>3. QED
        BY <3>1, <4>1, <4>2 DEF Analyses, Kept
    <3>4. QED
      BY <1>2, <3>2, <3>3 DEF Breakdown
  <2>3. QED
    BY <1>0, <2>1, <2>2 DEF Interrupted
<1>3. ASSUME NEW w \in Workers, Claims(w) PROVE ResearchInv'
  <2>1. Leases'
    BY <1>3 DEF Claims, Leases, Kept, Claimed
  <2>2. Analyses'
    <3>1. ASSUME NEW v \in Workers, NEW r \in Keys, On(v, r)'
          PROVE  \/ run'[r].status = "RUNNING" /\ run'[r].token = v
                 \/ run'[r].status \in Ended
      BY <1>0, <1>3, <3>1 DEF Claims, Analyses, Kept, Claimed, Holds
    <3>2. QED
      BY <3>1 DEF Analyses, Holds
  <2>3. Interrupted'
    BY <1>0, <1>3 DEF Claims, Interrupted, Types, Kept, Claimed
  <2>4. QED
    BY <1>0, <2>1, <2>2, <2>3
<1>4. ASSUME NEW w \in Workers, Writes(w) PROVE ResearchInv'
  <2>1. Leases'
    BY <1>0, <1>4 DEF Writes, Leases, Kept, Written
  <2>2. Analyses'
    <3>1. ASSUME NEW v \in Workers, NEW r \in Keys, On(v, r)'
          PROVE  \/ run'[r].status = "RUNNING" /\ run'[r].token = v
                 \/ run'[r].status \in Ended
      BY <1>0, <1>4, <3>1 DEF Writes, NoneAnew, Analyses, Leases, Kept, Written, Holds
    <3>2. QED
      BY <3>1 DEF Analyses, Holds
  <2>3. ASSUME NEW r \in interrupted'
        PROVE  /\ run'[r].status \in Ended \cup {"RUNNING"}
               /\ run'[r].status = "RUNNING" => \A v \in Workers : ~On(v, r)'
    <3>1. r \in Keys
      BY <1>0 DEF Types
    <3>2. CASE Written(r, w)
      BY <1>0, <1>4, <3>1, <3>2 DEF Writes, Written, Interrupted, Leases, Holds
    <3>3. CASE Kept(r) /\ r \in interrupted
      BY <1>4, <3>1, <3>3 DEF Writes, NoneAnew, Interrupted, Kept
    <3>4. CASE Kept(r) /\ On(w, r) /\ ~On(w, r)'
      BY <1>0, <1>4, <3>1, <3>4 DEF Writes, NoneAnew, Analyses, Kept, Holds
    <3>5. QED
      BY <1>4, <3>1, <3>2, <3>3, <3>4 DEF Writes
  <2>4. QED
    BY <1>0, <2>1, <2>2, <2>3 DEF Interrupted
<1>5. QED
  BY <1>1, <1>2, <1>3, <1>4, StepKinds

\* Leases, workers and interruptions agree (request, run, sweep).
THEOREM ResearchInvariant == Spec => []ResearchInv
<1>1. Init => ResearchInv
  BY Facts DEF Init, ResearchInv, Types, Rows, Leases, Analyses, Interrupted, On, In, Ended
<1>2. QED
  BY <1>1, ResearchStep, PTL DEF Spec

\* Runs, jobs and workers are well typed: a lease never exceeds its term, and
\* nothing is on a run that cannot be requested.
THEOREM TypeCorrect == Spec => []TypeOK
<1>1. ResearchInv => TypeOK
  BY DEF ResearchInv, Types, TypeOK, Rows, Tasks
<1>2. QED
  BY <1>1, ResearchInvariant, PTL

\* A run that was claimed and whose worker cannot say what it spent is never
\* begun again, and a run that has ended stays as it ended, whatever lapses, is
\* swept, redelivered or redeployed (module docstring of research_service).
THEOREM NeverBlindly == Spec => NoBlindRerun
<1>1. ResearchInv /\ [Next]_vars =>
         \A r \in Keys :
            /\ run[r].status \in Ended => run'[r].status = run[r].status
            /\ r \in interrupted /\ run[r].status = "PENDING" => run'[r].status # "RUNNING"
  <2> SUFFICES ASSUME ResearchInv, [Next]_vars, NEW r \in Keys
               PROVE  /\ run[r].status \in Ended => run'[r].status = run[r].status
                      /\ r \in interrupted /\ run[r].status = "PENDING" =>
                            run'[r].status # "RUNNING"
    OBVIOUS
  <2>1. r \in interrupted => run[r].status # "PENDING"
    BY DEF ResearchInv, Interrupted, Ended
  <2>2. \/ Kept(r) \/ Requested(r) \/ GivenUp(r)
        \/ \E w \in Workers : Claimed(r, w) \/ Written(r, w)
    BY StepKinds DEF ResearchInv, Quiet, Breakdown, Claims, Writes
  <2>3. ASSUME NEW w \in Workers, Written(r, w) PROVE run[r].status = "RUNNING"
    BY <2>3 DEF Written, Holds, ResearchInv, Leases
  <2>4. QED
    BY <2>1, <2>2, <2>3 DEF Kept, Requested, GivenUp, Claimed, Ended
<1>2. QED
  BY <1>1, ResearchInvariant, PTL DEF Spec, NoBlindRerun

-----------------------------------------------------------------------------
(* Instruments: what a hint of the exchange does.                          *)

Unhinted(i) == [i EXCEPT !.exchange = None]

Rungs(i) == <<I!ByIsin(I!IsinOf(i)),
              IF I!Aliased(i) # None THEN I!ForCompany(I!Aliased(i)) ELSE {},
              I!BySymbol(i.symbol),
              I!ByName(i.name)>>

\* The parts of Aliased, of Decide and of Ladder that take no hint.
Chosen(exchange, rows) ==
    LET scoped == {a \in rows : a.exchange # None /\ a.exchange = exchange}
    IN  IF scoped # {} THEN scoped ELSE {a \in rows : a.exchange = None}
Only(chosen) ==
    IF I!Cardinality(chosen) = 1 THEN (CHOOSE a \in chosen : TRUE).company ELSE None

Verdict(narrowed) ==
    LET supported == {t \in narrowed : instrument[t].listing.supported}
    IN  CASE I!Cardinality(narrowed) = 1 ->
                I!Answer(IF supported # {} THEN "RESOLVED" ELSE "UNSUPPORTED",
                         CHOOSE t \in narrowed : TRUE)
          [] OTHER -> I!Answer(IF supported # {} THEN "AMBIGUOUS" ELSE "UNSUPPORTED", None)

First(telling) == CHOOSE n \in telling : \A m \in telling : n <= m
Nothing(i) == I!Answer(IF I!Plausible(i) # {} THEN "AMBIGUOUS" ELSE "NOT_FOUND", None)

\* Without the hint nothing else of an impact is different.
LEMMA SameBesides ==
  ASSUME NEW i \in Hints
  PROVE  /\ Unhinted(i).name = i.name /\ Unhinted(i).symbol = i.symbol
         /\ Unhinted(i).isin = i.isin /\ Unhinted(i).exchange = None
<1>1. i = [name |-> i.name, symbol |-> i.symbol, exchange |-> i.exchange, isin |-> i.isin]
  BY ServicesAssumption
<1>2. QED
  BY <1>1 DEF Unhinted

\* The rungs are made of the impact's other hints.
LEMMA SameRungs ==
  ASSUME NEW i \in Hints, ~I!Scoped(i)
  PROVE  Rungs(Unhinted(i)) = Rungs(i) /\ I!Plausible(Unhinted(i)) = I!Plausible(i)
<1> DEFINE j == Unhinted(i)
<1>1. j.name = i.name /\ j.symbol = i.symbol /\ j.isin = i.isin /\ j.exchange = None
  BY SameBesides
<1> HIDE DEF j
<1>2. I!IsinOf(j) = I!IsinOf(i)
  BY <1>1 DEF I!IsinOf, I!IsinFromCompany
<1>3. I!Aliased(j) = I!Aliased(i)
  <2> DEFINE rows == {a \in Aliases : a.key \in {i.name, i.symbol} \ {None}}
  <2>1. I!Aliased(i) = Only(Chosen(i.exchange, rows))
    BY DEF I!Aliased, Only, Chosen
  <2>2. I!Aliased(j) = Only(Chosen(j.exchange, rows))
    BY <1>1 DEF I!Aliased, Only, Chosen
  <2>3. \A a \in rows : a.exchange = None
    BY DEF I!Scoped
  <2> HIDE DEF rows
  <2>4. Chosen(i.exchange, rows) = Chosen(j.exchange, rows)
    BY <1>1, <2>3 DEF Chosen
  <2>5. QED
    BY <2>1, <2>2, <2>4
<1>4. I!Plausible(j) = I!Plausible(i)
  BY <1>1 DEF I!Plausible
<1>5. QED
  BY <1>1, <1>2, <1>3, <1>4 DEF Rungs, j

\* A hint keeps all that is there, or some of several.
LEMMA Narrowed ==
  ASSUME NEW i \in Hints, NEW matches
  PROVE  /\ I!Narrow(Unhinted(i), matches) = matches
         /\ \/ I!Narrow(i, matches) = matches
            \/ /\ I!Narrow(i, matches) \subseteq matches /\ I!Narrow(i, matches) # {}
               /\ I!Cardinality(matches) > 1
  BY SameBesides DEF I!Narrow

LEMMA Decided ==
  ASSUME NEW i \in Hints, NEW matches
  PROVE  LET with == I!Decide(i, matches) without == I!Decide(Unhinted(i), matches) IN
         \/ with = without
         \/ without = I!Answer("AMBIGUOUS", None)
         \/ with.status = "UNSUPPORTED" /\ without = I!Answer("UNSUPPORTED", None)
<1>0. \A k : I!Decide(k, matches) = Verdict(I!Narrow(k, matches))
  BY DEF I!Decide, Verdict
<1>1. CASE I!Narrow(i, matches) = matches
  <2>1. I!Narrow(Unhinted(i), matches) = matches
    BY Narrowed
  <2>2. QED
    BY <1>0, <1>1, <2>1
<1>2. CASE I!Narrow(i, matches) # matches
  <2> DEFINE here == I!Narrow(i, matches)
             good(s) == {t \in s : instrument[t].listing.supported}
  <2>1. /\ here \subseteq matches /\ I!Cardinality(matches) # 1
        /\ I!Narrow(Unhinted(i), matches) = matches
    BY <1>2, Narrowed
  <2>2. I!Decide(Unhinted(i), matches)
           = I!Answer(IF good(matches) # {} THEN "AMBIGUOUS" ELSE "UNSUPPORTED", None)
    BY <2>1 DEF I!Decide
  <2>3. good(matches) = {} => good(here) = {}
    BY <2>1
  <2>4. good(here) = {} => I!Decide(i, matches).status = "UNSUPPORTED"
    BY DEF I!Decide, I!Answer
  <2>5. QED
    BY <2>2, <2>3, <2>4
<1>3. QED
  BY <1>1, <1>2

\* A model's guess of the exchange never moves an answer from one listing to another,
\* and settles only what was ambiguous without it (_decide).
LEMMA HintNarrows ==
  ASSUME NEW i \in Hints, ~I!Scoped(i)
  PROVE  LET with == I!Ladder(i) without == I!Ladder(Unhinted(i)) IN
         \/ with = without
         \/ without = I!Answer("AMBIGUOUS", None)
         \/ with.status = "UNSUPPORTED" /\ without = I!Answer("UNSUPPORTED", None)
<1> DEFINE telling(k) == {n \in DOMAIN Rungs(k) : I!Narrow(k, Rungs(k)[n]) # {}}
           ladder(k) == IF telling(k) # {} THEN I!Decide(k, Rungs(k)[First(telling(k))])
                        ELSE Nothing(k)
<1>1. I!Ladder(i) = ladder(i) /\ I!Ladder(Unhinted(i)) = ladder(Unhinted(i))
  BY DEF I!Ladder, Rungs, First, Nothing
<1>2. Rungs(Unhinted(i)) = Rungs(i) /\ Nothing(Unhinted(i)) = Nothing(i)
  BY SameRungs DEF Nothing
<1>3. telling(Unhinted(i)) = telling(i)
  <2>1. ASSUME NEW n \in DOMAIN Rungs(i)
        PROVE  (I!Narrow(Unhinted(i), Rungs(i)[n]) # {}) <=> (I!Narrow(i, Rungs(i)[n]) # {})
    BY Narrowed
  <2>2. QED
    BY <1>2, <2>1
<1>4. ladder(Unhinted(i)) = IF telling(i) # {}
                            THEN I!Decide(Unhinted(i), Rungs(i)[First(telling(i))])
                            ELSE Nothing(i)
  BY <1>2, <1>3
<1>5. QED
  BY <1>1, <1>4, Decided

\* Whatever syncs and resolutions have left behind, it holds of every state.
THEOREM HintsNarrow == Explored => []HintsOnlyNarrow
<1>1. HintsOnlyNarrow
  BY HintNarrows DEF HintsOnlyNarrow, I!HintsOnlyNarrow, Unhinted
<1>2. QED
  BY <1>1, PTL

-----------------------------------------------------------------------------
(* Notices: what is told is told once.                                     *)

\* What the theorems take of the constants.
Distinct == None \notin N!Tasks

\* A worker delivers an item.
Delivers(w, i) == sender[w] # None /\ sender[w].item = i

NoticeTypes ==
    /\ notice \in [N!Items -> {"ABSENT", "PENDING", "SENT", "FAILED", "SUPPRESSED"}]
    /\ sender \in [Workers -> {None} \cup N!Tasks]
    /\ sent \in [N!Items -> Nat] /\ dropped \in [N!Items -> Nat]

\* Nobody else delivers what a worker delivers; an alert's row is read before
\* the send, a notice's is claimed and then checked.
Deliveries ==
    /\ \A v, w \in Workers, i \in N!Items : Delivers(v, i) /\ Delivers(w, i) => v = w
    /\ \A w \in Workers, k \in N!Alerts :
          Delivers(w, k) => notice[k] = "PENDING" /\ sender[w].phase # "check"
    /\ \A w \in Workers : N!In(w, "mark") => sender[w].outcome \in {"SENT", "FAILED", "SUPPRESSED"}

\* A notice is sent by whoever claimed its row, and nobody claims it again.
NoticeClaimed == \A n \in N!Notices :
    /\ sent[n] <= 1
    /\ notice[n] = "ABSENT" => sent[n] = 0 /\ \A w \in Workers : ~Delivers(w, n)
    /\ \A w \in Workers : Delivers(w, n) /\ sender[w].phase # "mark" => sent[n] = 0

\* An alert that is still to be announced reached the chat only through workers
\* that died.
Unmarked(k) == /\ notice[k] \in {"ABSENT", "PENDING"}
               /\ \A w \in Workers : Delivers(w, k) => sender[w].phase # "mark"
Counted == \A k \in N!Alerts :
    sent[k] <= 1 + dropped[k] /\ (Unmarked(k) => sent[k] <= dropped[k])

\* What is marked sent has been, and so has the opening of what follows it.
Opening(p) == <<p, "opening">>
Followup(p) == <<p, "followup">>
Opened ==
    /\ \A n \in N!Notices : notice[n] = "SENT" => sent[n] > 0
    /\ \A w \in Workers, n \in N!Notices :
          Delivers(w, n) /\ sender[w].phase = "mark" /\ sender[w].outcome = "SENT" => sent[n] > 0
    /\ \A w \in Workers, p \in Proposals :
          Delivers(w, Followup(p)) /\ sender[w].phase = "send" => sent[Opening(p)] > 0
    /\ \A p \in Proposals : sent[Followup(p)] > 0 => sent[Opening(p)] > 0

ToldInv == NoticeTypes /\ Deliveries /\ NoticeClaimed /\ Counted /\ Opened

-----------------------------------------------------------------------------
(* Notices: its steps.                                                     *)

LEMMA ItemKinds ==
  /\ N!Alerts \cap N!Notices = {} /\ N!Alerts \subseteq N!Items /\ N!Notices \subseteq N!Items
  /\ \A p \in Proposals : Opening(p) \in N!Notices /\ Followup(p) \in N!Notices
  /\ \A n \in N!Notices : \E p \in Proposals : n = Opening(p) \/ n = Followup(p)
<1>1. \A k \in N!Alerts : DOMAIN k = 1 .. 3
  BY DEF N!Alerts
<1>2. \A n \in N!Notices : DOMAIN n = 1 .. 2
  BY DEF N!Notices
<1>3. 3 \in 1 .. 3 /\ 3 \notin 1 .. 2
  OBVIOUS
<1>4. QED
  BY <1>1, <1>2, <1>3 DEF N!Items, N!Notices, Opening, Followup

\* What a step does to the rows, the deliveries and the chat, seven ways.
Aside == UNCHANGED <<notice, sender, sent, dropped>>
Registers(keys) == /\ notice' = [i \in N!Items |-> IF i \in keys THEN "PENDING" ELSE notice[i]]
                 /\ UNCHANGED <<sender, sent, dropped>>
Starts(w, i, phase) ==
    /\ sender[w] = None /\ \A v \in Workers : ~Delivers(v, i)
    /\ sender' = [sender EXCEPT ![w] = [item |-> i, phase |-> phase, outcome |-> None]]
    /\ UNCHANGED <<sent, dropped>>
Suppressed(k) == /\ \A v \in Workers : ~Delivers(v, k)
                 /\ notice' = [notice EXCEPT ![k] = "SUPPRESSED"] /\ UNCHANGED <<sender, sent, dropped>>
Goes(w, phase, outcome) ==
    /\ sender' = [sender EXCEPT ![w].phase = phase, ![w].outcome = outcome]
    /\ UNCHANGED <<notice, dropped>>
Leaves(w) == sender[w] # None /\ sender' = [sender EXCEPT ![w] = None] /\ sent' = sent

LEMMA NoticeKinds ==
  ASSUME NoticeTypes, Deliveries, [N!Next]_N!vars
  PROVE  \/ Aside
         \/ \E keys : /\ keys \cap N!Notices = {} /\ \A k \in keys : notice[k] = "ABSENT"
                     /\ Registers(keys)
         \/ \E w \in Workers, k \in N!Alerts :
               notice[k] = "PENDING" /\ UNCHANGED notice /\ Starts(w, k, "send")
         \/ \E k \in N!Alerts : Suppressed(k)
         \/ \E w \in Workers, n \in N!Notices :
               /\ notice[n] = "ABSENT" /\ notice' = [notice EXCEPT ![n] = "PENDING"]
               /\ Starts(w, n, "check")
         \/ \E w \in Workers : N!Check(w) \/ N!Send(w) \/ N!Mark(w) \/ N!Die(w)
<1>1. CASE N!ScanStore \/ N!ScanEnqueue \/ N!Tick \/ (\E c \in Conditions : N!Flip(c))
           \/ (\E n \in N!Notices : N!Enqueue(n)) \/ UNCHANGED N!vars
  BY <1>1 DEF N!ScanStore, N!ScanEnqueue, N!Tick, N!Flip, N!Enqueue, N!vars, Aside
<1>2. CASE N!ScanRecord
  <2>1. ASSUME NEW c PROVE N!FiredKey(c) \notin N!Notices /\ N!ResolvedKey(c) \notin N!Notices
    <3>1. \A n \in N!Notices : DOMAIN n = 1 .. 2
      BY DEF N!Notices
    <3>2. DOMAIN N!FiredKey(c) = 1 .. 3 /\ DOMAIN N!ResolvedKey(c) = 1 .. 3
      BY DEF N!FiredKey, N!ResolvedKey
    <3>3. 3 \in 1 .. 3 /\ 3 \notin 1 .. 2
      OBVIOUS
    <3>4. QED
      BY <3>1, <3>2, <3>3
  <2> DEFINE keys == {k \in {N!FiredKey(c) : c \in firing}
                            \cup {N!ResolvedKey(c) : c \in active \ firing} : notice[k] = "ABSENT"}
  <2>2. keys \cap N!Notices = {} /\ \A k \in keys : notice[k] = "ABSENT"
    BY <2>1
  <2>3. Registers(keys)
    BY <1>2 DEF N!ScanRecord, Registers
  <2>4. QED
    BY <2>2, <2>3
<1>3. ASSUME NEW w \in Workers, NEW k \in N!Alerts, N!TakeAlert(w, k)
      PROVE  \/ Aside \/ Suppressed(k)
             \/ notice[k] = "PENDING" /\ UNCHANGED notice /\ Starts(w, k, "send")
  BY <1>3 DEF N!TakeAlert, N!MayAnnounce, N!Started, N!Taken, Starts, Suppressed, Aside, Delivers
<1>4. ASSUME NEW w \in Workers, NEW n \in N!Notices, N!TakeNotice(w, n)
      PROVE  \/ Aside
             \/ /\ notice[n] = "ABSENT" /\ notice' = [notice EXCEPT ![n] = "PENDING"]
                /\ Starts(w, n, "check")
  BY <1>4 DEF N!TakeNotice, N!Claims, N!Taken, Starts, Aside, Delivers
<1>5. QED
  BY <1>1, <1>2, <1>3, <1>4 DEF N!Next, N!Deliver

\* A delivery goes on from one phase to the next.
LEMMA GoesOn ==
  ASSUME NoticeTypes, NEW w \in Workers, sender[w] # None,
         NEW phase \in {"check", "send", "mark"},
         NEW outcome \in {None, "SENT", "FAILED", "SUPPRESSED"},
         \/ sender' = [sender EXCEPT ![w].phase = phase, ![w].outcome = outcome]
         \/ /\ sender' = [sender EXCEPT ![w].phase = phase]
            /\ outcome = sender[w].outcome
  PROVE  /\ sender'[w] \in N!Tasks /\ sender'[w].item = sender[w].item
         /\ sender'[w].phase = phase /\ sender'[w].outcome = outcome
         /\ sender' \in [Workers -> {None} \cup N!Tasks]
         /\ \A v \in Workers \ {w} : sender'[v] = sender[v]
<1>1. sender[w] \in N!Tasks
  BY DEF NoticeTypes
<1>2. CASE sender' = [sender EXCEPT ![w].phase = phase, ![w].outcome = outcome]
  <2>1. sender'[w] = [sender[w] EXCEPT !.phase = phase, !.outcome = outcome]
    BY <1>2 DEF NoticeTypes
  <2>2. QED
    BY <1>1, <1>2, <2>1 DEF NoticeTypes, N!Tasks
<1>3. CASE /\ sender' = [sender EXCEPT ![w].phase = phase]
           /\ outcome = sender[w].outcome
  <2>1. sender'[w] = [sender[w] EXCEPT !.phase = phase]
    BY <1>3 DEF NoticeTypes
  <2>2. QED
    BY <1>1, <1>3, <2>1 DEF NoticeTypes, N!Tasks
<1>4. QED
  BY <1>2, <1>3

Suppresses(w) == /\ N!In(w, "check") /\ N!Marks(w, "SUPPRESSED")
                 /\ UNCHANGED <<notice, sent, dropped, offered>>
Passes(w) == /\ N!In(w, "check") /\ sender' = [sender EXCEPT ![w].phase = "send"]
             /\ sender[w].item[2] = "followup" => N!WasAnnounced(sender[w].item)
             /\ UNCHANGED <<notice, sent, dropped, offered>>

\* What a send leaves behind: in the chat or not, but never marked as sent
\* without having arrived.
Sends(w, arrived, status) ==
    /\ N!In(w, "send") /\ status \in {"SENT", "FAILED"}
    /\ status = "SENT" => arrived
    /\ sent' = IF arrived THEN [sent EXCEPT ![sender[w].item] = @ + 1] ELSE sent
    /\ N!Marks(w, status) /\ UNCHANGED <<notice, dropped, offered>>

LEMMA CheckKinds == ASSUME NEW w \in Workers, N!Check(w) PROVE Suppresses(w) \/ Passes(w)
BY DEF N!Check, Suppresses, Passes

LEMMA SendKinds ==
  ASSUME NEW w \in Workers, N!Send(w)
  PROVE  \E arrived \in BOOLEAN, status \in {"SENT", "FAILED"} : Sends(w, arrived, status)
BY DEF N!Send, Sends

\* A delivery under way: it goes on, or leaves.
Onward(w) == /\ sender[w] # None /\ sender'[w] # None
             /\ sender'[w] \in N!Tasks /\ sender'[w].item = sender[w].item
             /\ sender'[w].phase \in {"send", "mark"}
             /\ sender' \in [Workers -> {None} \cup N!Tasks]
             /\ \A v \in Workers \ {w} : sender'[v] = sender[v]

LEMMA OnwardKinds ==
  ASSUME Distinct, NoticeTypes, NEW w \in Workers
  PROVE  /\ Suppresses(w) => Onward(w) /\ sender'[w].phase = "mark" /\ sender'[w].outcome = "SUPPRESSED"
         /\ Passes(w) => Onward(w) /\ sender'[w].phase = "send"
         /\ \A arrived, status : Sends(w, arrived, status) =>
               Onward(w) /\ sender'[w].phase = "mark" /\ sender'[w].outcome = status
<1>1. ASSUME Suppresses(w)
      PROVE  Onward(w) /\ sender'[w].phase = "mark" /\ sender'[w].outcome = "SUPPRESSED"
  <2>1. sender[w] # None
        /\ sender' = [sender EXCEPT ![w].phase = "mark", ![w].outcome = "SUPPRESSED"]
    BY <1>1 DEF Suppresses, N!In, N!Marks
  <2>2. sender'[w] \in N!Tasks
    BY <2>1, GoesOn
  <2>3. sender'[w] # None
    BY <2>2 DEF Distinct
  <2>4. QED
    BY <2>1, <2>3, GoesOn DEF Onward
<1>2. ASSUME Passes(w) PROVE Onward(w) /\ sender'[w].phase = "send"
  <2>1. sender[w] # None /\ sender' = [sender EXCEPT ![w].phase = "send"]
    BY <1>2 DEF Passes, N!In
  <2>2. sender[w].outcome \in {None, "SENT", "FAILED", "SUPPRESSED"}
    BY <2>1 DEF NoticeTypes, N!Tasks
  <2>3. sender'[w] \in N!Tasks
    BY <2>1, <2>2, GoesOn
  <2>4. sender'[w] # None
    BY <2>3 DEF Distinct
  <2>5. QED
    BY <2>1, <2>2, <2>4, GoesOn DEF Onward
<1>3. ASSUME NEW arrived, NEW status, Sends(w, arrived, status)
      PROVE  Onward(w) /\ sender'[w].phase = "mark" /\ sender'[w].outcome = status
  <2>1. sender[w] # None /\ status \in {"SENT", "FAILED"}
        /\ sender' = [sender EXCEPT ![w].phase = "mark", ![w].outcome = status]
    BY <1>3 DEF Sends, N!In, N!Marks
  <2>2. sender'[w] \in N!Tasks
    BY <2>1, GoesOn
  <2>3. sender'[w] # None
    BY <2>2 DEF Distinct
  <2>4. QED
    BY <2>1, <2>3, GoesOn DEF Onward
<1>4. QED
  BY <1>1, <1>2, <1>3

\* The six ways the proofs distinguish, the deliveries under way taken apart.
NoticeMoves ==
    \/ Aside
    \/ \E keys : /\ keys \cap N!Notices = {} /\ \A k \in keys : notice[k] = "ABSENT"
                /\ Registers(keys)
    \/ \E w \in Workers, k \in N!Alerts :
          notice[k] = "PENDING" /\ UNCHANGED notice /\ Starts(w, k, "send")
    \/ \E k \in N!Alerts : Suppressed(k)
    \/ \E w \in Workers, n \in N!Notices :
          /\ notice[n] = "ABSENT" /\ notice' = [notice EXCEPT ![n] = "PENDING"]
          /\ Starts(w, n, "check")
    \/ \E w \in Workers :
          \/ Suppresses(w) \/ Passes(w) \/ N!Mark(w) \/ N!Die(w)
          \/ \E arrived \in BOOLEAN, status \in {"SENT", "FAILED"} : Sends(w, arrived, status)

LEMMA AllMoves == ASSUME NoticeTypes, Deliveries, [N!Next]_N!vars PROVE NoticeMoves
BY NoticeKinds, CheckKinds, SendKinds DEF NoticeMoves

LEMMA TypesStep ==
  ASSUME Distinct, NoticeTypes, Deliveries, NoticeMoves
  PROVE  NoticeTypes'
<1> USE DEF NoticeTypes
<1>0. N!Alerts \subseteq N!Items /\ N!Notices \subseteq N!Items
  BY ItemKinds
<1>1. CASE Aside
  BY <1>1 DEF Aside
<1>2. ASSUME NEW keys, Registers(keys) PROVE NoticeTypes'
  BY <1>2 DEF Registers
<1>3. ASSUME NEW w \in Workers, NEW i \in N!Items, NEW phase \in {"check", "send"},
             Starts(w, i, phase), notice' = notice \/ notice' = [notice EXCEPT ![i] = "PENDING"]
      PROVE  NoticeTypes'
  <2>1. [item |-> i, phase |-> phase, outcome |-> None] \in N!Tasks
    BY DEF N!Tasks
  <2>2. QED
    BY <1>3, <2>1 DEF Starts
<1>4. ASSUME NEW k \in N!Alerts, Suppressed(k) PROVE NoticeTypes'
  BY <1>0, <1>4 DEF Suppressed
<1>5. ASSUME NEW w \in Workers, Suppresses(w) \/ Passes(w) PROVE NoticeTypes'
  BY <1>5, OnwardKinds DEF Onward, Suppresses, Passes
<1>6. ASSUME NEW w \in Workers, NEW arrived \in BOOLEAN, NEW status \in {"SENT", "FAILED"},
             Sends(w, arrived, status)
      PROVE  NoticeTypes'
  <2>1. sender[w] \in N!Tasks /\ sender[w].item \in N!Items
    BY <1>6 DEF Sends, N!In, N!Tasks
  <2>2. sent' \in [N!Items -> Nat]
    BY <1>6, <2>1 DEF Sends
  <2>3. QED
    BY <1>6, <2>2, OnwardKinds DEF Onward, Sends
<1>7. ASSUME NEW w \in Workers, N!Mark(w) PROVE NoticeTypes'
  <2>1. sender[w] \in N!Tasks /\ sender[w].outcome \in {"SENT", "FAILED", "SUPPRESSED"}
    BY <1>7 DEF N!Mark, N!In, N!Tasks, Deliveries
  <2>2. QED
    BY <1>7, <2>1 DEF N!Mark, N!Finish, N!Tasks
<1>8. ASSUME NEW w \in Workers, N!Die(w) PROVE NoticeTypes'
  <2>1. sender[w] \in N!Tasks
    BY <1>8 DEF N!Die
  <2>2. QED
    BY <1>8, <2>1 DEF N!Die, N!Finish, N!Tasks
<1>9. QED
  BY <1>0, <1>1, <1>2, <1>3, <1>4, <1>5, <1>6, <1>7, <1>8 DEF NoticeMoves

LEMMA DeliveriesStep ==
  ASSUME Distinct, NoticeTypes, NoticeTypes', Deliveries, NoticeMoves
  PROVE  Deliveries'
<1> USE DEF Deliveries
<1>0. N!Alerts \subseteq N!Items /\ N!Notices \subseteq N!Items /\ N!Alerts \cap N!Notices = {}
  BY ItemKinds
<1>1. CASE Aside
  BY <1>1 DEF Aside, Delivers, N!In
<1>2. ASSUME NEW keys, \A k \in keys : notice[k] = "ABSENT", Registers(keys) PROVE Deliveries'
  BY <1>0, <1>2 DEF Registers, Delivers, N!In, NoticeTypes
<1>3. ASSUME NEW w \in Workers, NEW k \in N!Alerts, notice[k] = "PENDING", UNCHANGED notice,
             Starts(w, k, "send")
      PROVE  Deliveries'
  BY <1>0, <1>3 DEF Starts, Delivers, N!In, NoticeTypes
<1>4. ASSUME NEW k \in N!Alerts, Suppressed(k) PROVE Deliveries'
  BY <1>0, <1>4 DEF Suppressed, Delivers, N!In, NoticeTypes
<1>5. ASSUME NEW w \in Workers, NEW n \in N!Notices, notice' = [notice EXCEPT ![n] = "PENDING"],
             Starts(w, n, "check")
      PROVE  Deliveries'
  BY <1>0, <1>5 DEF Starts, Delivers, N!In, NoticeTypes
<1>6. ASSUME NEW w \in Workers, Onward(w), notice' = notice,
             sender'[w].phase = "mark" => sender'[w].outcome \in {"SENT", "FAILED", "SUPPRESSED"}
      PROVE  Deliveries'
  BY <1>6 DEF Onward, Delivers, N!In, NoticeTypes
<1>7. ASSUME NEW w \in Workers, N!Mark(w) PROVE Deliveries'
  BY <1>0, <1>7 DEF N!Mark, N!Finish, Delivers, N!In, NoticeTypes, N!Tasks
<1>8. ASSUME NEW w \in Workers, N!Die(w) PROVE Deliveries'
  BY <1>8 DEF N!Die, N!Finish, Delivers, N!In, NoticeTypes
<1>9. QED
  BY <1>1, <1>2, <1>3, <1>4, <1>5, <1>6, <1>7, <1>8, OnwardKinds DEF NoticeMoves, Suppresses, Passes, Sends

LEMMA ClaimedStep ==
  ASSUME Distinct, NoticeTypes, NoticeTypes', Deliveries, Deliveries', NoticeClaimed, NoticeMoves
  PROVE  NoticeClaimed'
<1>0. N!Alerts \subseteq N!Items /\ N!Notices \subseteq N!Items /\ N!Alerts \cap N!Notices = {}
  BY ItemKinds
<1>1. CASE Aside
  BY <1>1 DEF Aside, NoticeClaimed, Delivers
<1>2. ASSUME NEW keys, keys \cap N!Notices = {}, Registers(keys) PROVE NoticeClaimed'
  BY <1>0, <1>2 DEF Registers, NoticeClaimed, Delivers
<1>3. ASSUME NEW w \in Workers, NEW k \in N!Alerts, UNCHANGED notice, Starts(w, k, "send")
      PROVE  NoticeClaimed'
  BY <1>0, <1>3 DEF Starts, NoticeClaimed, Delivers, NoticeTypes
<1>4. ASSUME NEW k \in N!Alerts, Suppressed(k) PROVE NoticeClaimed'
  BY <1>0, <1>4 DEF Suppressed, NoticeClaimed, Delivers, NoticeTypes
<1>5. ASSUME NEW w \in Workers, NEW n \in N!Notices, notice[n] = "ABSENT",
             notice' = [notice EXCEPT ![n] = "PENDING"], Starts(w, n, "check")
      PROVE  NoticeClaimed'
  BY <1>0, <1>5 DEF Starts, NoticeClaimed, Delivers, NoticeTypes
<1>6. ASSUME NEW w \in Workers, Onward(w), sender[w].phase = "check", UNCHANGED <<notice, sent>>
      PROVE  NoticeClaimed'
  BY <1>6 DEF Onward, NoticeClaimed, Delivers
<1>7. ASSUME NEW w \in Workers, NEW arrived \in BOOLEAN, NEW status \in {"SENT", "FAILED"},
             Sends(w, arrived, status)
      PROVE  NoticeClaimed'
  <2>1. Onward(w) /\ sender'[w].phase = "mark" /\ sender[w].phase = "send" /\ notice' = notice
    BY <1>7, OnwardKinds DEF Sends, N!In
  <2>2. ASSUME NEW n \in N!Notices
        PROVE  /\ sent'[n] <= 1
               /\ notice'[n] = "ABSENT" => sent'[n] = 0 /\ \A v \in Workers : ~Delivers(v, n)'
               /\ \A v \in Workers : Delivers(v, n)' /\ sender'[v].phase # "mark" => sent'[n] = 0
    <3>1. CASE sender[w].item = n
      <4>1. Delivers(w, n) /\ sent[n] = 0 /\ notice[n] # "ABSENT" /\ Delivers(w, n)'
        BY <2>1, <3>1 DEF NoticeClaimed, Delivers, Onward, NoticeTypes, N!Tasks
      <4>2. sent'[n] <= 1
        BY <1>0, <1>7, <3>1, <4>1 DEF Sends, NoticeTypes
      <4>3. \A v \in Workers : Delivers(v, n)' => v = w
        BY <1>0, <4>1 DEF Deliveries
      <4>4. QED
        BY <2>1, <4>1, <4>2, <4>3
    <3>2. CASE sender[w].item # n
      <4>1. sent'[n] = sent[n]
        BY <1>7, <3>2 DEF Sends
      <4>2. QED
        BY <2>1, <3>2, <4>1 DEF NoticeClaimed, Delivers, Onward
    <3>3. QED
      BY <3>1, <3>2
  <2>3. QED
    BY <2>2 DEF NoticeClaimed
<1>8. ASSUME NEW w \in Workers, N!Mark(w) PROVE NoticeClaimed'
  <2>1. sender[w].outcome \in {"SENT", "FAILED", "SUPPRESSED"} /\ sender[w].item \in N!Items
    BY <1>8 DEF N!Mark, N!In, Deliveries, NoticeTypes, N!Tasks
  <2>2. QED
    BY <1>0, <1>8, <2>1 DEF N!Mark, N!Finish, N!In, NoticeClaimed, Delivers, NoticeTypes
<1>9. ASSUME NEW w \in Workers, N!Die(w) PROVE NoticeClaimed'
  BY <1>9 DEF N!Die, N!Finish, NoticeClaimed, Delivers, NoticeTypes
<1>10. QED
  BY <1>1, <1>2, <1>3, <1>4, <1>5, <1>6, <1>7, <1>8, <1>9, OnwardKinds
  DEF NoticeMoves, Suppresses, Passes, N!In

LEMMA CountedStep ==
  ASSUME Distinct, NoticeTypes, NoticeTypes', Deliveries, Deliveries', Counted, NoticeMoves
  PROVE  Counted'
<1>0. N!Alerts \subseteq N!Items /\ N!Notices \subseteq N!Items /\ N!Alerts \cap N!Notices = {}
  BY ItemKinds
<1>1. CASE Aside
  BY <1>1 DEF Aside, Counted, Unmarked, Delivers
<1>2. ASSUME NEW keys, \A k \in keys : notice[k] = "ABSENT", Registers(keys) PROVE Counted'
  BY <1>0, <1>2 DEF Registers, Counted, Unmarked, Delivers
<1>3. ASSUME NEW w \in Workers, NEW i \in N!Items, NEW phase, phase \in {"check", "send"},
             Starts(w, i, phase), \A k \in N!Alerts : notice'[k] = notice[k]
      PROVE  Counted'
  BY <1>0, <1>3 DEF Starts, Counted, Unmarked, Delivers, NoticeTypes
<1>4. ASSUME NEW k \in N!Alerts, Suppressed(k) PROVE Counted'
  BY <1>0, <1>4 DEF Suppressed, Counted, Unmarked, Delivers, NoticeTypes
<1>5. ASSUME NEW w \in Workers, Onward(w), sender[w].phase = "check", UNCHANGED <<notice, sent, dropped>>
      PROVE  Counted'
  BY <1>5 DEF Onward, Counted, Unmarked, Delivers, Deliveries
<1>6. ASSUME NEW w \in Workers, NEW arrived \in BOOLEAN, NEW status \in {"SENT", "FAILED"},
             Sends(w, arrived, status)
      PROVE  Counted'
  <2>1. /\ Onward(w) /\ sender'[w].phase = "mark" /\ sender[w].phase = "send"
        /\ UNCHANGED <<notice, dropped>>
    BY <1>6, OnwardKinds DEF Sends, N!In
  <2>2. ASSUME NEW k \in N!Alerts
        PROVE  sent'[k] <= 1 + dropped'[k] /\ (Unmarked(k)' => sent'[k] <= dropped'[k])
    <3>1. sent[k] \in Nat /\ dropped[k] \in Nat
      BY <1>0 DEF NoticeTypes
    <3>2. CASE sender[w].item = k
      <4>1. Delivers(w, k) /\ Unmarked(k)
        BY <1>0, <2>1, <3>2 DEF Delivers, Onward, Deliveries, Unmarked
      <4>2. ~Unmarked(k)'
        BY <2>1, <3>2 DEF Unmarked, Delivers, Onward, NoticeTypes, N!Tasks
      <4>3. sent'[k] \in {sent[k], sent[k] + 1}
        BY <1>0, <1>6, <3>2 DEF Sends, NoticeTypes
      <4>4. QED
        BY <2>1, <3>1, <4>1, <4>2, <4>3 DEF Counted
    <3>3. CASE sender[w].item # k
      <4>1. sent'[k] = sent[k]
        BY <1>6, <3>3 DEF Sends
      <4>2. Unmarked(k)' => Unmarked(k)
        BY <2>1, <3>3 DEF Unmarked, Delivers, Onward
      <4>3. QED
        BY <2>1, <4>1, <4>2 DEF Counted
    <3>4. QED
      BY <3>2, <3>3
  <2>3. QED
    BY <2>2 DEF Counted
<1>7. ASSUME NEW w \in Workers, N!Mark(w) PROVE Counted'
  <2>1. sender[w].outcome \in {"SENT", "FAILED", "SUPPRESSED"} /\ sender[w].item \in N!Items
    BY <1>7 DEF N!Mark, N!In, Deliveries, NoticeTypes, N!Tasks
  <2>2. QED
    BY <1>0, <1>7, <2>1 DEF N!Mark, N!Finish, N!In, Counted, Unmarked, Delivers, NoticeTypes
<1>8. ASSUME NEW w \in Workers, N!Die(w) PROVE Counted'
  <2>1. /\ sender' = [sender EXCEPT ![w] = None] /\ UNCHANGED <<notice, sent>>
        /\ dropped' = [dropped EXCEPT ![sender[w].item] = @ + 1] /\ sender[w] # None
    BY <1>8 DEF N!Die, N!Finish
  <2>2. ASSUME NEW k \in N!Alerts
        PROVE  sent'[k] <= 1 + dropped'[k] /\ (Unmarked(k)' => sent'[k] <= dropped'[k])
    <3>1. sent[k] \in Nat /\ dropped[k] \in Nat
      BY <1>0 DEF NoticeTypes
    <3>2. CASE sender[w].item = k
      <4>1. dropped'[k] = dropped[k] + 1
        BY <1>0, <2>1, <3>2 DEF NoticeTypes
      <4>2. QED
        BY <2>1, <3>1, <4>1 DEF Counted
    <3>3. CASE sender[w].item # k
      <4>1. dropped'[k] = dropped[k]
        BY <1>0, <2>1, <3>3 DEF NoticeTypes
      <4>2. Unmarked(k)' => Unmarked(k)
        BY <2>1, <3>3 DEF Unmarked, Delivers, NoticeTypes
      <4>3. QED
        BY <2>1, <4>1, <4>2 DEF Counted
    <3>4. QED
      BY <3>2, <3>3
  <2>3. QED
    BY <2>2 DEF Counted
<1>9. QED
  BY <1>0, <1>1, <1>2, <1>3, <1>4, <1>5, <1>6, <1>7, <1>8, OnwardKinds
  DEF NoticeMoves, Suppresses, Passes, N!In, NoticeTypes

LEMMA OpenedStep ==
  ASSUME Distinct, NoticeTypes, NoticeTypes', Deliveries, NoticeClaimed, Opened, NoticeMoves
  PROVE  Opened'
<1>0. /\ N!Alerts \subseteq N!Items /\ N!Notices \subseteq N!Items /\ N!Alerts \cap N!Notices = {}
      /\ \A p \in Proposals : Opening(p) \in N!Notices /\ Followup(p) \in N!Notices
  BY ItemKinds
<1>1. CASE Aside
  BY <1>1 DEF Aside, Opened, Delivers
<1>2. ASSUME NEW keys, Registers(keys) PROVE Opened'
  BY <1>0, <1>2 DEF Registers, Opened, Delivers
<1>3. ASSUME NEW w \in Workers, NEW k \in N!Alerts, UNCHANGED notice, Starts(w, k, "send")
      PROVE  Opened'
  BY <1>0, <1>3 DEF Starts, Opened, Delivers, NoticeTypes
<1>4. ASSUME NEW k \in N!Alerts, Suppressed(k) PROVE Opened'
  BY <1>0, <1>4 DEF Suppressed, Opened, Delivers, NoticeTypes
<1>5. ASSUME NEW w \in Workers, NEW n \in N!Notices, notice' = [notice EXCEPT ![n] = "PENDING"],
             Starts(w, n, "check")
      PROVE  Opened'
  BY <1>0, <1>5 DEF Starts, Opened, Delivers, NoticeTypes
<1>6. ASSUME NEW w \in Workers, Suppresses(w) PROVE Opened'
  <2>1. Onward(w) /\ sender'[w].phase = "mark" /\ sender'[w].outcome = "SUPPRESSED"
        /\ UNCHANGED <<notice, sent>>
    BY <1>6, OnwardKinds DEF Suppresses
  <2>2. QED
    BY <2>1 DEF Onward, Opened, Delivers
<1>7. ASSUME NEW w \in Workers, Passes(w) PROVE Opened'
  <2>1. Onward(w) /\ sender'[w].phase = "send" /\ UNCHANGED <<notice, sent>>
    BY <1>7, OnwardKinds DEF Passes
  <2>2. ASSUME NEW p \in Proposals, sender[w].item = Followup(p) PROVE sent[Opening(p)] > 0
    <3>1. N!WasAnnounced(sender[w].item)
      BY <1>7, <2>2 DEF Passes, Followup
    <3>2. notice[Opening(p)] = "SENT"
      BY <2>2, <3>1 DEF N!WasAnnounced, Followup, Opening
    <3>3. QED
      BY <1>0, <3>2 DEF Opened
  <2>3. QED
    BY <2>1, <2>2 DEF Onward, Opened, Delivers
<1>8. ASSUME NEW w \in Workers, NEW arrived \in BOOLEAN, NEW status \in {"SENT", "FAILED"},
             Sends(w, arrived, status)
      PROVE  Opened'
  <2>1. /\ Onward(w) /\ sender'[w].phase = "mark" /\ sender'[w].outcome = status
        /\ sender[w].phase = "send" /\ notice' = notice /\ sender[w].item \in N!Items
    BY <1>8, OnwardKinds DEF Sends, N!In, Onward, NoticeTypes, N!Tasks
  <2>2. /\ \A i \in N!Items : sent[i] \in Nat /\ sent'[i] \in Nat
        /\ \A i \in N!Items : sent'[i] = sent[i] \/ (i = sender[w].item /\ sent'[i] = sent[i] + 1)
        /\ status = "SENT" => sent'[sender[w].item] = sent[sender[w].item] + 1
    BY <1>8, <2>1 DEF Sends, NoticeTypes
  <2>3. \A i \in N!Items : sent[i] > 0 => sent'[i] > 0
    BY <2>2
  <2>4. \A n \in N!Notices : notice'[n] = "SENT" => sent'[n] > 0
    BY <1>0, <2>1, <2>3 DEF Opened
  <2>5. ASSUME NEW v \in Workers, NEW n \in N!Notices, Delivers(v, n)', sender'[v].phase = "mark",
               sender'[v].outcome = "SENT"
        PROVE  sent'[n] > 0
    <3>1. CASE v = w
      BY <1>0, <2>1, <2>2, <2>5, <3>1 DEF Delivers, Onward
    <3>2. CASE v # w
      BY <1>0, <2>1, <2>3, <2>5, <3>2 DEF Delivers, Onward, Opened
    <3>3. QED
      BY <3>1, <3>2
  <2>6. ASSUME NEW v \in Workers, NEW p \in Proposals, Delivers(v, Followup(p))',
               sender'[v].phase = "send"
        PROVE  sent'[Opening(p)] > 0
    BY <1>0, <2>1, <2>3, <2>6 DEF Delivers, Onward, Opened
  <2>7. ASSUME NEW p \in Proposals, sent'[Followup(p)] > 0 PROVE sent'[Opening(p)] > 0
    <3>1. CASE sender[w].item = Followup(p)
      BY <1>0, <2>1, <2>3, <3>1 DEF Delivers, Onward, Opened
    <3>2. CASE sender[w].item # Followup(p)
      BY <1>0, <2>2, <2>3, <2>7, <3>2 DEF Opened
    <3>3. QED
      BY <3>1, <3>2
  <2>8. QED
    BY <2>4, <2>5, <2>6, <2>7 DEF Opened
<1>9. ASSUME NEW w \in Workers, N!Mark(w) PROVE Opened'
  <2>1. /\ sender[w] # None /\ sender[w].phase = "mark" /\ sender[w].item \in N!Items
        /\ notice' = [notice EXCEPT ![sender[w].item] = sender[w].outcome] /\ sent' = sent
        /\ sender' = [sender EXCEPT ![w] = None]
    BY <1>9 DEF N!Mark, N!Finish, N!In, NoticeTypes, N!Tasks
  <2>2. \A n \in N!Notices : notice'[n] = "SENT" => sent[n] > 0
    BY <1>0, <2>1 DEF Opened, Delivers, NoticeTypes
  <2>3. QED
    BY <2>1, <2>2 DEF Opened, Delivers, NoticeTypes
<1>10. ASSUME NEW w \in Workers, N!Die(w) PROVE Opened'
  BY <1>10 DEF N!Die, N!Finish, Opened, Delivers, NoticeTypes
<1>11. QED
  BY <1>1, <1>2, <1>3, <1>4, <1>5, <1>6, <1>7, <1>8, <1>9, <1>10 DEF NoticeMoves

-----------------------------------------------------------------------------
(* Notices: the theorems.                                                  *)

\* The rows of what is told, the deliveries under way and what has reached the
\* chat agree (deliver, _deliver_alert).
THEOREM NoticesInvariant == Explored => []ToldInv
<1>1. N!Init => ToldInv
  <2> SUFFICES ASSUME N!Init PROVE ToldInv
    OBVIOUS
  <2>1. N!Alerts \subseteq N!Items /\ N!Notices \subseteq N!Items
        /\ \A p \in Proposals : Opening(p) \in N!Notices /\ Followup(p) \in N!Notices
    BY ItemKinds
  <2>2. NoticeTypes
    BY DEF N!Init, NoticeTypes
  <2>3. Deliveries /\ NoticeClaimed
    BY <2>1 DEF N!Init, Deliveries, NoticeClaimed, Delivers, N!In
  <2>4. Counted /\ Opened
    BY <2>1 DEF N!Init, Counted, Unmarked, Opened, Delivers
  <2>5. QED
    BY <2>2, <2>3, <2>4 DEF ToldInv
<1>2. ToldInv /\ [N!Next]_N!vars => ToldInv'
  BY ServicesAssumption, AllMoves, TypesStep, DeliveriesStep, ClaimedStep, CountedStep, OpenedStep DEF ToldInv, Distinct
<1>3. QED
  BY <1>1, <1>2, EachPart, PTL DEF N!Spec

\* Whoever dies between a send and its record, and however often a notice is
\* enqueued, the chat gets a notice once, an alert once more for every death,
\* and no end of a proposal whose opening it did not get.
THEOREM NoticesTold == Explored => []ToldOnce
<1>1. ToldInv => ToldOnce
  BY DEF ToldInv, NoticeClaimed, Counted, Opened, Opening, Followup, N!ToldOnce, ToldOnce
<1>2. QED
  BY <1>1, NoticesInvariant, PTL
=============================================================================
