----------------------------- MODULE MCServices -----------------------------
(***************************************************************************)
(* Safety of the services around a proposal, explored by TLC one after the *)
(* other: an initial state chooses the part that runs, and every other     *)
(* part stays where it started.  The parts share workers and None, and     *)
(* nothing else: they meet in the code only through rows that each of the  *)
(* modules treats as its own.                                              *)
(***************************************************************************)
EXTENDS Research, TLC

CONSTANTS
    Parts,          \* the parts a run explores
    Limit, CacheSeconds, ReadTime, MaxSpend,                            \* LlmBudget
    Queries, Sources, CallCap, UnitCap, Retries, Refunds, Interval,     \* Discovery
    FailureCooldown, FetchLimit, MaxCallsLost,
    Docs, Feeds, Headline, Stale, CallLimit, MaxNaps,                   \* Events
    Conditions, Proposals, Window, MaxTime,                             \* Notices
    Offers, Hints, Aliases, Akin, MaxRefreshes                          \* Instruments

VARIABLES part,
    spend, cached, consumer, over,
    wait, fetched, sought, caller, used, bill, since, lost, paid,
    event, linked, impacts, classifying, resolving, feed, reader, awake, naps, deaths,
    now, firing, active, scan, notice, offered, sender, sent, dropped, told,
    universe, instrument, company, verdict, refresh, stamp

spending == <<spend, cached, consumer, over>>
discovery == <<wait, fetched, sought, caller, used, bill, since, lost, paid>>
events == <<event, linked, impacts, classifying, resolving, feed, reader, awake, naps, deaths>>
notices == <<now, firing, active, scan, notice, offered, sender, sent, dropped, told>>
instruments == <<universe, instrument, company, verdict, refresh, stamp>>

-----------------------------------------------------------------------------
(* The instances.                                                          *)

L == INSTANCE LlmBudget WITH worker <- consumer

\* With their theorems, which ServicesProofs cites.
D == INSTANCE DiscoveryProofs WITH MaxLosses <- MaxCallsLost, offered <- sought

E == INSTANCE Events WITH
    MaxPauses <- MaxNaps, job <- classifying, worker <- reader, allowed <- awake,
    pauses <- naps, losses <- deaths

N == INSTANCE Notices WITH row <- notice, worker <- sender, lost <- dropped

I == INSTANCE Instruments WITH
    Impacts <- Hints, Syncs <- Workers, MaxStamp <- MaxRefreshes,
    row <- instrument, fetched <- refresh

\* What the theorems take of the constants of the other parts.
ASSUME ServicesAssumption ==
    /\ D!Constants /\ None \notin N!Tasks
    /\ Limit \in [L!Windows -> [soft : Nat, hard : Nat]]
    /\ {CacheSeconds, ReadTime, MaxSpend, CallLimit, Stale} \subseteq Nat
    /\ None \notin Docs
    /\ \A i \in Hints : i = [name |-> i.name, symbol |-> i.symbol,
                             exchange |-> i.exchange, isin |-> i.isin]

-----------------------------------------------------------------------------

Start ==
    /\ part \in Parts
    /\ Init /\ L!Init /\ D!Init /\ E!Init /\ N!Init /\ I!Init

Step ==
    /\ UNCHANGED part
    /\ \/ part = "llm" /\ L!Next
          /\ UNCHANGED <<vars, discovery, events, notices, instruments>>
       \/ part = "searches" /\ D!Next /\ sought' \subseteq Queries
          /\ UNCHANGED <<vars, spending, events, notices, instruments>>
       \/ part = "pages" /\ D!Next /\ sought' \subseteq Sources
          /\ UNCHANGED <<vars, spending, events, notices, instruments>>
       \/ part = "events" /\ E!Next
          /\ UNCHANGED <<vars, spending, discovery, notices, instruments>>
       \/ part = "research" /\ Next
          /\ UNCHANGED <<spending, discovery, events, notices, instruments>>
       \/ part = "alerts" /\ N!Next /\ offered' \subseteq N!Alerts
          /\ UNCHANGED <<vars, spending, discovery, events, instruments>>
       \/ part = "notices" /\ N!Next /\ firing' = {}
          /\ UNCHANGED <<vars, spending, discovery, events, instruments>>
       \/ part = "instruments" /\ I!Next
          /\ UNCHANGED <<vars, spending, discovery, events, notices>>

Explored ==
    Start /\ [][Step]_<<part, vars, spending, discovery, events, notices, instruments>>

-----------------------------------------------------------------------------
(* The values of the run.                                                  *)

SpendLimit == "day" :> [soft |-> 1, hard |-> 2] @@ "month" :> [soft |-> 2, hard |-> 3]
Calls == "search" :> 3 @@ "scrape" :> 1
Units == "search" :> 2 @@ "scrape" :> 2
OneHeadline == [d \in Docs |-> 1]

\* Two securities of one symbol, an unsupported namesake of the first, and an alias.
Listing(t, i, s, n, x, good) ==
    [ticker |-> t, isin |-> i, symbol |-> s, name |-> n, exchange |-> x, supported |-> good]
Hint(n, s, x, i) == [name |-> n, symbol |-> s, exchange |-> x, isin |-> i]

Listings ==
    {Listing("ALPH", "US1", "AL", "alpha", "nyse", TRUE),
     Listing("ALPHl", "GB1", "AL", "alpha plc", "lse", TRUE),
     Listing("ALPW", "US2", "ALW", "alpha", "lse", FALSE)}
Guesses ==
    {Hint("alpha", None, "lse", None), Hint("alpha", "AL", "lse", None),
     Hint("alpha plc", None, None, "US2")}
Curated == {[key |-> "alpha plc", exchange |-> None, company |-> "GB1"]}
Prefixes == {<<"alpha", "alpha plc">>}

Alike == Permutations(Workers) \cup Permutations(Queries)

-----------------------------------------------------------------------------
(* The properties of the parts, by their names there; NoBlindRerun comes   *)
(* with Research.                                                          *)

CutOffInTime == L!CutOffInTime
BillWithinCaps == D!BillWithinCaps
PagePaidOnce == D!PagePaidOnce
SearchesArePaced == D!SearchesArePaced
JudgmentStands == E!JudgmentStands
ToldOnce == N!ToldOnce
HintsOnlyNarrow == part = "instruments" => I!HintsOnlyNarrow
=============================================================================
