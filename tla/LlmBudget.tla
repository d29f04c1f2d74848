------------------------------ MODULE LlmBudget ------------------------------
(***************************************************************************)
(* The guard on what language models may cost: llm/budget.py, and what its *)
(* callers in intelligence/ do around it.                                  *)
(*                                                                         *)
(* The guard is one object all workers of the process share.  A check      *)
(* answers from its cache or sums the day and then the month from          *)
(* llm_calls, with an await at each; a call that was allowed records what  *)
(* it cost and drops the cache.  One call costs one unit.  over only       *)
(* records for how long the spend has been at a limit.                     *)
(***************************************************************************)
EXTENDS Integers, FiniteSetsExt

CONSTANTS
    Workers,
    Limit,          \* [Windows -> [soft, hard : Nat]]
    CacheSeconds,   \* in ticks
    ReadTime,       \* ticks a sum over llm_calls takes at most
    MaxSpend,       \* bound
    None

Windows == {"day", "month"}
Statuses == {"OK", "SOFT_EXCEEDED", "HARD_EXCEEDED"}
Priorities == {"ESSENTIAL", "OPTIONAL"}

VARIABLES
    spend,      \* what llm_calls sums to
    cached,     \* the guard's status and its age, None when dropped
    worker,     \* a check or a call under way
    over

vars == <<spend, cached, worker, over>>

\* Ages are counted to where nothing depends on them any more.
Horizon == Max({CacheSeconds, ReadTime}) + 1
Aged(n) == Min({n + 1, Horizon})

\* In this order: the hard limits before the soft ones.
Status(sums) ==
    IF \E w \in Windows : sums[w] >= Limit[w].hard THEN "HARD_EXCEEDED"
    ELSE IF \E w \in Windows : sums[w] >= Limit[w].soft THEN "SOFT_EXCEEDED"
    ELSE "OK"

Suppresses(status, priority) ==
    status = "HARD_EXCEEDED" \/ (status = "SOFT_EXCEEDED" /\ priority = "OPTIONAL")

\* For how long the spend has been such that the work must stop.
Noted(sums) ==
    [p \in Priorities |->
        IF ~Suppresses(Status(sums), p) THEN None
        ELSE IF over[p] = None THEN 0 ELSE over[p]]

Init ==
    /\ spend = [w \in Windows |-> 0]
    /\ cached = None
    /\ worker = [w \in Workers |-> None]
    /\ over = [p \in Priorities |-> None]

Decide(w, status, priority) ==
    worker' = [worker EXCEPT ![w] =
                  IF Suppresses(status, priority) THEN None
                  ELSE [phase |-> "call", priority |-> priority]]

Fresh == cached # None /\ cached.age < CacheSeconds

Check(w, priority) ==
    /\ worker[w] = None
    /\ IF Fresh THEN Decide(w, cached.status, priority)
       ELSE worker' = [worker EXCEPT ![w] =
               [phase |-> "daily", priority |-> priority, age |-> 0, sums |-> [x \in Windows |-> 0],
                late |-> FALSE]]
    /\ UNCHANGED <<spend, cached, over>>

\* The start of the window was fixed when the check began: a window that has
\* rolled over meanwhile is summed with the one before it.
Sum(w, window) ==
    IF worker[w].late THEN spend[window] .. MaxSpend ELSE {spend[window]}

In(w, phase) == worker[w] # None /\ worker[w].phase = phase

ReadDay(w) ==
    /\ In(w, "daily")
    /\ \E n \in Sum(w, "day") :
          worker' = [worker EXCEPT ![w].phase = "monthly", ![w].sums["day"] = n]
    /\ UNCHANGED <<spend, cached, over>>

\* Mutant: the cache is dated by the end of the read.
AgeWhenRead(w) == 0
AgeWhenCached(w) == worker[w].age

\* Cached as of the moment the check began, whatever was dropped meanwhile.
ReadMonth(w) ==
    /\ In(w, "monthly")
    /\ \E n \in Sum(w, "month") :
          LET status == Status([worker[w].sums EXCEPT !["month"] = n]) IN
             /\ cached' = [status |-> status, age |-> AgeWhenCached(w)]
             /\ Decide(w, status, worker[w].priority)
    /\ UNCHANGED <<spend, over>>

\* The call's cost is recorded, and the guard told; invalidate alone is what
\* check_budget of the research service begins with.
Record(w) ==
    /\ In(w, "call") /\ spend["month"] < MaxSpend
    /\ spend' = [x \in Windows |-> spend[x] + 1]
    /\ over' = Noted(spend')
    /\ cached' = None
    /\ worker' = [worker EXCEPT ![w] = None]

Invalidate == cached' = None /\ UNCHANGED <<spend, worker, over>>

\* A process that dies takes the guard with it; what its calls cost stays.
Restart ==
    /\ cached' = None
    /\ worker' = [w \in Workers |-> None]
    /\ UNCHANGED <<spend, over>>

Reading(w) == In(w, "daily") \/ In(w, "monthly")
Late == [w \in Workers |-> IF Reading(w) THEN [worker[w] EXCEPT !.late = TRUE] ELSE worker[w]]

NewDay ==
    /\ spend["day"] > 0
    /\ spend' = [spend EXCEPT !["day"] = 0]
    /\ over' = Noted(spend')
    /\ worker' = Late
    /\ UNCHANGED cached

NewMonth ==
    /\ spend["month"] > 0
    /\ spend' = [w \in Windows |-> 0]
    /\ over' = Noted(spend')
    /\ worker' = Late
    /\ UNCHANGED cached

Tick ==
    /\ \A w \in Workers : Reading(w) => worker[w].age < ReadTime
    /\ cached' = IF cached = None THEN None ELSE [cached EXCEPT !.age = Aged(@)]
    /\ worker' = [w \in Workers |-> IF Reading(w) THEN [worker[w] EXCEPT !.age = @ + 1]
                                    ELSE worker[w]]
    /\ over' = [p \in Priorities |-> IF over[p] = None THEN None ELSE Aged(over[p])]
    /\ UNCHANGED spend

Next ==
    \/ \E w \in Workers :
          ReadDay(w) \/ ReadMonth(w) \/ Record(w) \/ \E p \in Priorities : Check(w, p)
    \/ Invalidate \/ Restart \/ NewDay \/ NewMonth \/ Tick

Spec == Init /\ [][Next]_vars

-----------------------------------------------------------------------------

TypeOK ==
    /\ spend \in [Windows -> 0 .. MaxSpend]
    /\ cached = None \/ cached \in [status : Statuses, age : 0 .. Horizon]
    /\ over \in [Priorities -> {None} \cup 0 .. Horizon]

\* However checks, records and rollovers interleave - a read that began before a
\* record and is cached after it included - no work starts once the recorded
\* spend has been past its limit for longer than the cache or a read lasts
\* (BudgetGuard.check: "a hard limit: stop starting new analysis entirely").
CutOffInTime ==
    [][\A w \in Workers : ~In(w, "call") /\ In(w, "call")' =>
          LET p == worker'[w].priority IN
          over[p] = None \/ over[p] < CacheSeconds \/ over[p] <= ReadTime]_vars
=============================================================================
