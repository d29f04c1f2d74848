------------------------------- MODULE Pricing -------------------------------
(***************************************************************************)
(* What an authorized order is priced on when it is about to be sent: the  *)
(* capability probe and the quote of market_data/alpaca.py, the session of *)
(* sessions.py, the rate of fx/alpaca.py or fx/frankfurter.py, judged by   *)
(* market_data/base.py, fx/base.py and fx/service.py, put together by      *)
(* proposals/quotes.py, and handed to Risk.                                *)
(*                                                                         *)
(* The exchange has four sessions a day and holidays.  A quote is a bid,   *)
(* an ask and an age, a rate a number, a pair and an age; Trade is the     *)
(* rest of what Risk asks, Order the row that is to be sent.               *)
(***************************************************************************)
EXTENDS Risk

CONSTANTS
    Trade, Order,
    US,             \* the listing trades in the US: the clock may stand in
    Feed,           \* alpaca_stock_feed
    LatestBooks,    \* [bid, ask, age]: what a latest quote may be
    Outages,        \* of "DOWN", "AUTH_FAILED", "ENTITLEMENT_MISSING": how it may refuse
    Rate,           \* the listing's currency for one unit of the account's
    RateAges, FxMaxAge, ReferenceMaxAge

\* One unit is worth one unit of the same currency.
ASSUME PricingAssumption ==
    /\ Merged([quote |-> None, fx |-> None], Trade) \in RiskInputs /\ Trade.account # None
    /\ Trade.account.currency = Trade.identity.currency => Same(Rate, One)
    /\ Rate \in PositiveFraction /\ Order \in Rows
    /\ LatestBooks \subseteq [bid : Fraction, ask : Fraction, age : Int]
    /\ None \notin LatestBooks

ExecutionGradeFeeds == {"iex", "sip"}
MappedFeeds == ExecutionGradeFeeds \cup {"delayed_sip"}

VARIABLES
    clock,      \* where New York's clock is in the day
    holiday,    \* the exchange is shut although the clock says otherwise
    covered,    \* the broker's schedule covers this moment
    service,    \* what market data answers: "up", or how it refuses
    book,       \* the latest quote of the listing and of the probe's symbol
    capability, \* the probe's result, kept until the next probe
    source,     \* fx_provider and fx_allow_reference_grade
    order,      \* the proposal: AUTHORIZED, SENT or RETIRED
    basis       \* what the order was sent or retired on

vars == <<clock, holiday, covered, service, book, capability, source, order, basis>>
market == <<clock, holiday, covered>>
provider == <<service, book>>

Sessions == <<"PRE_MARKET", "REGULAR", "AFTER_HOURS", "CLOSED">>

\* What Alpaca's forex answer says of a pair: absent, a mid or two sides, or
\* neither or no timestamp.  What Frankfurter's says is the pair it is about.
Entries == {None, "priced", "unusable"}
AlpacaAnswers == [direct : Entries, inverse : Entries, age : RateAges]
FrankfurterAnswers == [pair : {"direct", "inverse", "other", "unusable"}, age : RateAges]
Answers(s) == {None}
    \cup (CASE s.provider = "alpaca" -> AlpacaAnswers
            [] s.provider = "frankfurter" -> FrankfurterAnswers
            [] s.provider = "none" -> {})

Sources == {[provider |-> p, opted |-> o] : p \in {"none", "alpaca", "frankfurter"}, o \in BOOLEAN}

Init ==
    /\ clock = "CLOSED" /\ holiday = FALSE /\ covered \in BOOLEAN
    /\ service = "up" /\ book \in LatestBooks
    /\ capability = [state |-> "UNKNOWN", usable |-> FALSE]
    /\ source \in Sources
    /\ order = "AUTHORIZED" /\ basis = None

-----------------------------------------------------------------------------
(* The session: the broker's schedule, or the clock for a US listing.      *)

Open == ~holiday /\ clock = "REGULAR"

SessionFromSchedule == IF holiday THEN "CLOSED" ELSE clock
SessionVerdict ==
    IF covered THEN SessionFromSchedule ELSE IF US THEN clock ELSE "UNKNOWN"

-----------------------------------------------------------------------------
(* market_data: the probe, the quote, and what of it blocks an order.      *)

TwoSided(q) == Positive(q.bid) /\ Positive(q.ask)

\* The probe's quote is the listing's here.  One side is what is expected
\* when the clock is outside the regular session.
Probed ==
    IF Feed \notin MappedFeeds THEN [state |-> "DEGRADED", usable |-> FALSE]
    ELSE IF service # "up" THEN [state |-> service, usable |-> FALSE]
    ELSE IF TwoSided(book) THEN [state |-> "HEALTHY", usable |-> TRUE]
    ELSE [state |-> IF clock = "REGULAR" THEN "DEGRADED" ELSE "HEALTHY", usable |-> FALSE]

\* Mutant: the result of the first probe stands.
CapabilityOnce(refresh) == IF capability.state # "UNKNOWN" THEN capability ELSE Probed

Capability(refresh) ==
    IF ~refresh /\ capability.state # "UNKNOWN" THEN capability ELSE Probed

ProviderGradeBlocked(c) == c.state # "HEALTHY" \/ ~c.usable \/ Feed \notin ExecutionGradeFeeds

\* QuoteFetcher.fetch with the capability it found; None is no quote.
Fetched(c) ==
    IF service # "up" \/ Feed \notin MappedFeeds THEN None
    ELSE [bid |-> book.bid, ask |-> book.ask, age |-> book.age,
          currency |-> Trade.identity.currency, session |-> SessionVerdict,
          blocked |-> ProviderGradeBlocked(c)]

-----------------------------------------------------------------------------
(* fx: a rate measured one way or the other, and what of it blocks.        *)

Measured(pair, grade, age) ==
    [direct |-> pair = "direct", grade |-> grade, age |-> age,
     rate |-> IF pair = "direct" THEN Rate ELSE Over(One, Rate)]

\* AlpacaFxProvider.latest: both directions are asked for, the first that is
\* there is taken, and an unusable one is an error.
AlpacaLatest(a) ==
    LET pair == IF a.direct # None THEN "direct" ELSE "inverse"
    IN  IF a[pair] = "priced" THEN Measured(pair, "EXECUTION", a.age) ELSE None

\* Mutant: whatever pair comes is taken for the one that was asked.
FrankfurterAsAsked(a) ==
    IF a.pair = "unusable" THEN None ELSE [Measured(a.pair, "REFERENCE", a.age) EXCEPT !.direct = TRUE]

\* FrankfurterFxProvider.latest: the pair must be one of the two asked for, and
\* a date stands for the start of its day.
FrankfurterLatest(a) ==
    IF a.pair \in {"direct", "inverse"} THEN Measured(a.pair, "REFERENCE", a.age) ELSE None

\* None when the source refuses or is down.
Latest(rates) ==
    IF rates = None THEN None
    ELSE IF source.provider = "alpaca" THEN AlpacaLatest(rates) ELSE FrankfurterLatest(rates)

\* fx_blockers, for two currencies that differ.
FxBlockers(r) ==
    IF r = None THEN {"structural"}
    ELSE (IF r.grade = "REFERENCE" /\ ~source.opted THEN {"structural"} ELSE {})
         \cup (IF r.age > (IF r.grade = "REFERENCE" THEN ReferenceMaxAge ELSE FxMaxAge)
               THEN {"stale"} ELSE {})

\* FxService.resolve, as fx_snapshot of proposals/evaluation.py keeps it.
Snapshot(r) ==
    [same |-> FALSE, blockers |-> FxBlockers(r),
     rate |-> IF r = None THEN None ELSE r.rate,
     direct |-> IF r = None THEN TRUE ELSE r.direct]

Resolve(rates) ==
    IF Trade.account.currency = Trade.identity.currency
    THEN [same |-> TRUE, blockers |-> {}, rate |-> None, direct |-> TRUE]
    ELSE Snapshot(IF source.provider = "none" THEN None ELSE Latest(rates))

-----------------------------------------------------------------------------

Turn(t) == LET n == CHOOSE k \in 1..4 : Sessions[k] = t IN Sessions[(n % 4) + 1]

Clock ==
    /\ clock' = Turn(clock)
    /\ holiday' \in (IF clock = "CLOSED" THEN BOOLEAN ELSE {holiday})
    /\ covered' \in BOOLEAN             \* the schedule's window ends, or a sync renews it
    /\ UNCHANGED <<provider, capability, source, order, basis>>

Provider ==
    /\ service' \in {"up"} \cup Outages /\ book' \in LatestBooks
    /\ UNCHANGED <<market, capability, source, order, basis>>

\* check_market_data_capability, every 15 minutes with refresh.
Check ==
    /\ capability' = Capability(TRUE)
    /\ UNCHANGED <<market, provider, source, order, basis>>

\* The last look before an order is sent, with inputs of this moment only: a
\* first look probes, a later one finds the capability as it was.
Inputs(c, rates) == Merged([quote |-> Fetched(c), fx |-> Resolve(rates)], Trade)

Sent(i) == [book |-> book, cost |-> ToAccount(i, Times(Order.quantity, i.quote.ask))]

Judge(i, blocked, verdict) ==
    /\ order' = CASE verdict = "SEND" -> "SENT"
                  [] verdict = "DEFER" -> "AUTHORIZED"
                  [] verdict = "RETIRE" -> "RETIRED"
    /\ basis' = CASE verdict = "SEND" -> Sent(i)
                  [] verdict = "DEFER" -> None
                  [] verdict = "RETIRE" -> blocked

Preflight ==
    /\ order = "AUTHORIZED"
    /\ capability' = Capability(FALSE)
    /\ \E rates \in Answers(source) :
           LET Judged(i, blocked) == Judge(i, blocked, VerdictOf(i, Order, blocked))
               Seen(i) == Judged(i, Revalidation(i, Order))
           IN  Seen(Inputs(capability', rates))
    /\ UNCHANGED <<market, provider, source>>

Next == Clock \/ Provider \/ Check \/ Preflight

\* The scheduler calls the probe; nothing else has to happen.
Fairness == WF_vars(Check)

Spec == Init /\ [][Next]_vars /\ Fairness

-----------------------------------------------------------------------------

\* What an order costs at the exchange's own rate, whichever way the pair was
\* measured and whoever measured it.
TrueCost == Over(Times(Order.quantity, basis.book.ask), Rate)

\* An order is sent only on what its providers said at that moment: a book with two
\* sides, within its age, and a rate of the right pair, within the age of its grade, at
\* which the order is what it would cost at the rate of the market (QuoteFetcher.fetch,
\* FxService.resolve, FxRate.convert: no cache, no chain, no parity).
PricedByThisMoment ==
    order = "SENT" =>
        /\ TwoSided(basis.book) /\ basis.book.age <= Trade.config.max_quote_age
        /\ Same(basis.cost, TrueCost)

\* A probe that failed, or ran before the market opened, does not outlive its cause: once
\* the provider answers with two sides for good, an order is no longer held for the
\* capability (_refresh_market_data_capability).
GradeRecovers ==
    Feed \in ExecutionGradeFeeds =>
        (<>[](service = "up" /\ TwoSided(book)) => <>[]~ProviderGradeBlocked(capability))

\* preflight.py:58: "Failing every authorized proposal whenever a market-data provider
\* blinks would make an outage destructive rather than degrading."  An order is not
\* retired for the grade of the price source alone (_MISSING_INPUT_RULE_IDS).
OutageRetiresNothing == order = "RETIRED" => basis # {"price_source_execution_grade"}
=============================================================================
