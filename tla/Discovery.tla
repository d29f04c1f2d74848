------------------------------ MODULE Discovery ------------------------------
(***************************************************************************)
(* The calls StockBrain pays a search or scrape provider for:              *)
(* ingestion/provider_budget.py (the ledger), jobs/handlers.py             *)
(* (handle_web_discovery_search, handle_content_extract), the sweeps of    *)
(* services.py and ingestion/service.py that enqueue them, and the search  *)
(* and scrape clients.                                                     *)
(*                                                                         *)
(* Every call is one unit.  A worker's call goes through the reservation,  *)
(* the request, the closing of the ledger row and the record of what came  *)
(* of it, each a transaction or a request of its own, and may die between  *)
(* any two of them.  Both jobs have one attempt, so a job whose worker     *)
(* dies is over.  The day's window and the month's are the same sum over   *)
(* rows: one window stands for both.  bill is what the provider counts for *)
(* the reservations of the window, less what no row can know (Unforeseen); *)
(* bill, since, lost and paid only record what happened.                   *)
(***************************************************************************)
EXTENDS Integers, FiniteSetsExt

CONSTANTS
    Queries, Sources, Workers,
    CallCap,        \* [Providers -> Nat]: searches or scrapes of a window
    UnitCap,        \* [Providers -> Nat]: units of a window
    Retries,        \* BOOLEAN: the search client repeats a failed request once (Brave)
    Refunds,        \* BOOLEAN: a classified search error is not billed (Brave)
    Interval,       \* effective_query_interval_minutes, in ticks
    FailureCooldown, \* web_discovery_failure_cooldown_minutes
    FetchLimit,     \* content_extract_max_per_day
    MaxLosses,      \* bound on handlers that die
    None

Providers == {"search", "scrape"}

DiscoveryAssumption ==
    /\ Queries \cap Sources = {} /\ IsFiniteSet(Workers)
    /\ UnitCap \in [Providers -> Nat] /\ CallCap \in [Providers -> Nat]
    /\ {Retries, Refunds} \subseteq BOOLEAN
    /\ {Interval, FailureCooldown} \subseteq Nat

Items == Queries \cup Sources
ProviderOf(i) == IF i \in Queries THEN "search" ELSE "scrape"

VARIABLES
    wait,       \* next_eligible_at of a query: ticks until it is due
    fetched,    \* sources with content_fetched_at
    offered,    \* items with an active job
    caller,     \* what a worker's handler is doing, None when idle
    used,       \* what the ledger's rows of the window come to
    bill, since, lost, paid

vars == <<wait, fetched, offered, caller, used, bill, since, lost, paid>>

Init ==
    /\ wait = [q \in Queries |-> 0]
    /\ fetched = {}
    /\ offered = {}
    /\ caller = [w \in Workers |-> None]
    /\ used = [p \in Providers |-> [calls |-> 0, units |-> 0]]
    /\ bill = [p \in Providers |-> 0]
    /\ since = [q \in Queries |-> FailureCooldown]
    /\ lost = [i \in Items |-> 0]
    /\ paid = [s \in Sources |-> 0]

Losses == MapThenSumSet(LAMBDA i : lost[i], Items)
Claimed(i) == \E w \in Workers : caller[w] # None /\ caller[w].item = i

\* n more, if the worker's row is in the window.
Counted(sums, c, n) ==
    [sums EXCEPT ![ProviderOf(c.item)] = IF c.current THEN @ + n ELSE @]

-----------------------------------------------------------------------------
(* The sweeps.                                                             *)

Exhausted(p) ==
    used[p].calls >= CallCap[p] \/ used[p].units >= UnitCap[p]

\* A search is offered once its cooldown is over, and its slot claimed.
EnqueueDueSearches ==
    /\ ~Exhausted("search")
    /\ LET due == {q \in Queries : wait[q] = 0 /\ q \notin offered}
           left == CallCap["search"] - used["search"].calls
       IN  \E qs \in kSubset(Min({left, Cardinality(due)}), due) :
              /\ qs # {}
              /\ offered' = offered \cup qs
              /\ wait' = [q \in Queries |-> IF q \in qs THEN Interval ELSE wait[q]]
    /\ UNCHANGED <<fetched, caller, used, bill, since, lost, paid>>

EnqueueContentFetches ==
    /\ \E ss \in SUBSET (Sources \ fetched) :
          /\ ss \ offered # {} /\ Cardinality(ss) <= FetchLimit
          /\ offered' = offered \cup ss
    /\ UNCHANGED <<wait, fetched, caller, used, bill, since, lost, paid>>

-----------------------------------------------------------------------------
(* reserve, under the provider's advisory lock.                            *)

\* Mutant: a row counts once it is closed.
RefusedByClosedRows(p) ==
    LET pending == Cardinality({w \in Workers :
                      caller[w] # None /\ caller[w].current /\ ProviderOf(caller[w].item) = p
                      /\ caller[w].phase \in {"request", "close"}})
    IN  used[p].calls - pending + 1 > CallCap[p] \/ used[p].units - pending + 1 > UnitCap[p]
Refused(p) == used[p].calls + 1 > CallCap[p] \/ used[p].units + 1 > UnitCap[p]

Reserve(w, i) ==
    /\ caller' = [caller EXCEPT ![w] = [item |-> i, phase |-> "request", current |-> TRUE,
                                        outcome |-> None]]
    /\ used' = [used EXCEPT ![ProviderOf(i)] = [calls |-> @.calls + 1, units |-> @.units + 1]]

\* A query that is switched off, or whose provider is not configured, spends
\* nothing either: it waits as one the budget refused.
Search(w, q) ==
    /\ caller[w] = None /\ q \in offered /\ ~Claimed(q)
    /\ IF Refused("search")
       THEN /\ wait' = [wait EXCEPT ![q] = FailureCooldown]
            /\ offered' = offered \ {q}
            /\ UNCHANGED <<caller, used, since, lost>>
       ELSE /\ Reserve(w, q)
            /\ since' = [since EXCEPT ![q] = 0]
            /\ UNCHANGED <<wait, offered, lost>>
    /\ UNCHANGED <<fetched, bill, paid>>

\* The free extractor first.
Extract(w, s) ==
    /\ caller[w] = None /\ s \in offered /\ ~Claimed(s)
    /\ IF s \in fetched
       THEN offered' = offered \ {s} /\ UNCHANGED caller
       ELSE /\ caller' = [caller EXCEPT ![w] = [item |-> s, phase |-> "local", current |-> TRUE,
                                                outcome |-> None]]
            /\ UNCHANGED offered
    /\ UNCHANGED <<wait, fetched, used, bill, since, lost, paid>>

\* Read, or unreadable for anybody, or worth the paid fallback.
ExtractLocally(w) ==
    /\ caller[w] # None /\ caller[w].phase = "local"
    /\ \/ \E outcome \in {"answered", "rejected"} :
             /\ caller' = [caller EXCEPT ![w].phase = "record", ![w].outcome = outcome]
             /\ UNCHANGED used
       \/ IF Refused("scrape")
          THEN /\ caller' = [caller EXCEPT ![w].phase = "record", ![w].outcome = "rejected"]
               /\ UNCHANGED used
          ELSE Reserve(w, caller[w].item)
    /\ UNCHANGED <<wait, fetched, offered, bill, since, lost, paid>>

-----------------------------------------------------------------------------
(* The request, and what the provider bills for it.                        *)

\* An answer; an error the provider classifies; a body that is not what it
\* documents; no answer, or a server's error.
Outcomes == {"answered", "rejected", "unreadable", "lost"}

\* The client repeats a request that was lost, which may have been served.
Attempts(p) == IF p = "search" /\ Retries THEN 2 ELSE 1
Billed(p, outcome) ==
    CASE outcome \in {"answered", "unreadable"} -> 1 .. Attempts(p)
      [] outcome = "rejected" -> IF p = "search" /\ Refunds THEN {0} ELSE 0 .. 1
      [] outcome = "lost" -> 0 .. Attempts(p)

\* What of it exceeds the row: the repetition of a request that had been served,
\* and an answer that was billed and is given back because it could not be read.
Unforeseen(p, outcome, n) ==
    IF outcome = "unreadable" /\ p = "search" /\ Refunds THEN n ELSE Max({n - 1, 0})

\* Mutant: every failure is given back.
RefundedOnFailure(c) == ProviderOf(c.item) = "search" /\ Refunds /\ c.outcome # "answered"
Refunded(c) ==
    ProviderOf(c.item) = "search" /\ Refunds /\ c.outcome \in {"rejected", "unreadable"}

Request(w) ==
    /\ caller[w] # None /\ caller[w].phase = "request"
    /\ LET c == caller[w]
           p == ProviderOf(c.item)
       IN  \E outcome \in Outcomes : \E n \in Billed(p, outcome) :
              /\ caller' = [caller EXCEPT ![w].phase = "close", ![w].outcome = outcome]
              /\ bill' = Counted(bill, c, n - Unforeseen(p, outcome, n))
              /\ paid' = IF c.item \in Sources /\ n > 0
                         THEN [paid EXCEPT ![c.item] = @ + 1] ELSE paid
    /\ UNCHANGED <<wait, fetched, offered, used, since, lost>>

\* record_success, record_failure.
Close(w) ==
    /\ caller[w] # None /\ caller[w].phase = "close"
    /\ used' = IF caller[w].current /\ Refunded(caller[w])
                THEN [used EXCEPT ![ProviderOf(caller[w].item)].units = @ - 1] ELSE used
    /\ caller' = [caller EXCEPT ![w].phase = "record"]
    /\ UNCHANGED <<wait, fetched, offered, bill, since, lost, paid>>

\* Mutant: only content that arrived marks its source.
MarksRead(c) == c.outcome = "answered"
Marks(c) == TRUE

\* Mutant: a failed search leaves the cooldown alone.
CooldownOnSuccess(c) == IF c.outcome = "answered" THEN Interval ELSE wait[c.item]
Cooldown(c) == IF c.outcome = "answered" THEN Interval ELSE FailureCooldown

\* The results are ingested and the cooldown written; the content attached, or
\* the attempt marked.
Record(w) ==
    /\ caller[w] # None /\ caller[w].phase = "record"
    /\ LET c == caller[w] IN
          /\ IF c.item \in Queries
             THEN wait' = [wait EXCEPT ![c.item] = Cooldown(c)] /\ UNCHANGED fetched
             ELSE /\ fetched' = IF Marks(c) THEN fetched \cup {c.item} ELSE fetched
                  /\ UNCHANGED wait
          /\ offered' = offered \ {c.item}
          /\ lost' = [lost EXCEPT ![c.item] = IF c.item \in Queries THEN 0 ELSE @]
    /\ caller' = [caller EXCEPT ![w] = None]
    /\ UNCHANGED <<used, bill, since, paid>>

\* The process dies, or the handler raises: the only attempt is used up.
Die(w) ==
    /\ caller[w] # None /\ Losses < MaxLosses
    /\ lost' = [lost EXCEPT ![caller[w].item] = @ + 1]
    /\ offered' = offered \ {caller[w].item}
    /\ caller' = [caller EXCEPT ![w] = None]
    /\ UNCHANGED <<wait, fetched, used, bill, since, paid>>

-----------------------------------------------------------------------------

Tick ==
    /\ \E q \in Queries : wait[q] > 0 \/ since[q] < FailureCooldown
    /\ wait' = [q \in Queries |-> Max({wait[q] - 1, 0})]
    /\ since' = [q \in Queries |-> Min({since[q] + 1, FailureCooldown})]
    /\ UNCHANGED <<fetched, offered, caller, used, bill, lost, paid>>

\* The database's clock passes midnight: the window moves on, and the rows of
\* calls still under way are in none.
NewWindow ==
    /\ used' = [p \in Providers |-> [calls |-> 0, units |-> 0]]
    /\ bill' = [p \in Providers |-> 0]
    /\ caller' = [w \in Workers |-> IF caller[w] = None \/ caller[w].phase = "local" THEN caller[w]
                                    ELSE [caller[w] EXCEPT !.current = FALSE]]
    /\ UNCHANGED <<wait, fetched, offered, since, lost, paid>>

Next ==
    \/ EnqueueDueSearches \/ EnqueueContentFetches
    \/ \E w \in Workers :
          \/ \E q \in Queries : Search(w, q)
          \/ \E s \in Sources : Extract(w, s)
          \/ ExtractLocally(w) \/ Request(w) \/ Close(w) \/ Record(w) \/ Die(w)
    \/ Tick \/ NewWindow

Spec == Init /\ [][Next]_vars

-----------------------------------------------------------------------------

TypeOK ==
    /\ wait \in [Queries -> 0 .. Interval]
    /\ fetched \in SUBSET Sources /\ offered \in SUBSET Items
    /\ caller \in [Workers -> {None} \cup
          [item : Items, phase : {"local", "request", "close", "record"},
           current : BOOLEAN, outcome : Outcomes \cup {None}]]
    /\ used \in [Providers -> [calls : Nat, units : Nat]]
    /\ bill \in [Providers -> Nat]

\* However many workers call, die in a call or time out, what a provider bills
\* in a window stays within its cap, but for the requests the search
\* client repeated although the first had been served and the answers that were
\* billed and could not be read (reserve, record_failure).
BillWithinCaps ==
    \A p \in Providers : bill[p] <= UnitCap[p]

\* A query is not searched again before its cooldown, the shorter of the two,
\* however long its job has been waiting, unless the worker of its last search
\* died.
SearchesArePaced ==
    [][\A w \in Workers : caller[w] = None /\ caller'[w] # None =>
          LET i == caller'[w].item IN
          i \in Queries => since[i] >= Min({Interval, FailureCooldown}) \/ lost[i] > 0]_vars

\* A page is paid for once, and once more for every worker that died with it
\* (handle_content_extract).
PagePaidOnce == \A s \in Sources : paid[s] <= 1 + lost[s]
=============================================================================
