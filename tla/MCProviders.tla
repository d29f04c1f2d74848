----------------------------- MODULE MCProviders -----------------------------
(***************************************************************************)
(* What the program makes of its providers' answers, one part after the    *)
(* other: an initial state chooses the part that runs, and the others stay *)
(* where they started.  "cases" are the decisions of MCDecisions,          *)
(* "pricing" is Pricing on one purchase of a listing in dollars from an    *)
(* account in pounds, "calls" are model calls and "memory" is the memory   *)
(* of two trades.                                                          *)
(***************************************************************************)
EXTENDS Pricing, MCDecisions, TLC

CONSTANTS
    Parts,          \* the parts a run explores
    Profile, Requests, Usages, Attempts, Cap, MaxCalls, MaxFaults       \* Completions

VARIABLES part,
    call, sent, rows, lost, calls, faults,
    day, closes, history, at, owned, held, status, fresh, graded, tick, losses

calling == <<call, sent, rows, lost, calls, faults>>
remembering ==
    <<day, closes, history, at, owned, held, status, fresh, graded, tick, losses>>

-----------------------------------------------------------------------------
(* The instances.                                                          *)

C == INSTANCE Completions

\* The dialects are those of profiles.py, and a prompt costs something.
ASSUME CallsAssumption ==
    /\ Profile \in [C!Tiers -> [cache : {"deepseek_split", "openai_details", "none"},
                                style : {"chat", "responses"}, structured : STRING,
                                keyword : BOOLEAN, capacity : BOOLEAN]]
    /\ Requests \subseteq [kind : {"classify", "research"}, schema : BOOLEAN, keyword : BOOLEAN]
    /\ Usages \subseteq [prompt : Nat, hit : Nat \cup {None}, miss : Nat \cup {None}]
    /\ IsFiniteSet(Usages) /\ \E u \in Usages : u.prompt > 0
    /\ Cap \in Nat /\ None \notin C!Calls

M == INSTANCE Memory WITH
    Trades <- {"bought", "sold"}, Entries <- {"bought"}, Unpriced <- {},
    Due <- "D1" :> 1 @@ "D5" :> 2, Tolerance <- 0, MaxBars <- 2, RowLimit <- 1,
    LastEntry <- 0, MaxLosses <- 1

-----------------------------------------------------------------------------

Start ==
    /\ part \in Parts
    /\ IF part = "cases" THEN case \in Cases ELSE case = None
    /\ Init /\ (part # "pricing" =>
           /\ covered = FALSE
           /\ book = CHOOSE q \in LatestBooks : ~TwoSided(q)
           /\ source = CHOOSE f \in Sources : TRUE)
    /\ C!Init /\ M!Init

Step ==
    /\ UNCHANGED part
    /\ \/ part = "pricing" /\ Next /\ UNCHANGED <<case, calling, remembering>>
       \/ part = "calls" /\ C!Next /\ UNCHANGED <<case, vars, remembering>>
       \/ part = "memory" /\ M!Next /\ UNCHANGED <<case, vars, calling>>

Explored ==
    /\ Start /\ [][Step]_<<part, case, vars, calling, remembering>>
    /\ part = "pricing" => Fairness
    /\ part = "memory" => M!Fairness

-----------------------------------------------------------------------------
(* The values of the run.                                                  *)

\* A purchase that is within its limits while the book has two sides.
TheTrade ==
    [action |-> "BUY", confidence |-> Percent(85),
     config |-> Config("cap", 8, FALSE, "BLOCK"), identity |-> Identity(None),
     account |-> Account([same |-> FALSE], <<600, 160>>, None),
     reserved |-> [count |-> 0, notional |-> Zero, same_instrument_count |-> 0,
                   same_instrument_sides |-> {}, blocked |-> FALSE],
     calibration |-> None, reduce_fraction |-> None, other_holding_weights |-> <<>>]

TheOrder == [side |-> "BUY", quantity |-> Whole(6), reference_price |-> <<19, 2>>,
             fx_required |-> TRUE, fx_rate |-> None, ttl |-> 1, policy_version |-> "v1"]

TheBooks == {[bid |-> Whole(q[1]), ask |-> Whole(10), age |-> q[2]] :
                q \in {<<9, 1>>, <<9, 16>>, <<0, 1>>}}
FiveFourths == <<5, 4>>

Endpoint(cache, style, structured, keyword, capacity) ==
    [cache |-> cache, style |-> style, structured |-> structured, keyword |-> keyword,
     capacity |-> capacity]
Usage(hit, miss) == [prompt |-> 2, hit |-> hit, miss |-> miss]

\* A primary that reports a split and asks for JSON by keyword, a fallback that
\* reports only what it had cached.
Profiles ==
    "primary" :> Endpoint("deepseek_split", "chat", "json_object", TRUE, TRUE) @@
    "fallback" :> Endpoint("openai_details", "responses", "json_schema", FALSE, FALSE)
Kinds == {[kind |-> k, schema |-> TRUE, keyword |-> TRUE] : k \in {"classify", "research"}}
Reported == {Usage(None, None), Usage(1, 0)}

-----------------------------------------------------------------------------
(* The properties of the parts; PricedByThisMoment comes with Pricing,     *)
(* OutageSparesProposal, StopsMatchFloors and RebalanceSettles with        *)
(* Decisions.                                                              *)

\* An entry that the rules admit, and one admitted again at authorization or at the
\* preflight, respects every limit of the account as the outcome shows it (the sizing of
\* risk/, its revalidation).
DecisionsWithinLimits == EntryWithinLimits /\ RecheckedWithinLimits

\* A model call leaves its row however it ends, and what the rows know of stops at the cap
\* (research_transport.py complete, record_call, check_budget).
CallsAreAccounted == C!AttemptsRecorded /\ C!SpendStopsAtCap
EveryOutcomeRetires == M!EveryOutcomeRetires
=============================================================================
