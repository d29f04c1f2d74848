------------------------------ MODULE Decisions ------------------------------
(***************************************************************************)
(* The program's pure decisions, put to the question one input at a time:  *)
(* a behaviour holds one element of Cases and stays there, so an invariant *)
(* is a statement about every case, or asks nothing and holds None.  A     *)
(* case is a record whose kind says which decision it asks for:            *)
(*   "trade"   i, p       a candidate trade and a row proposed earlier     *)
(*   "book"    total, weights, config    a conviction-weighted book        *)
(*   "holding" o, config  an open position                                 *)
(*   "rebalance" b        a book an operator rebalances                    *)
(***************************************************************************)
EXTENDS Rebalance

CONSTANT Cases

VARIABLE case

Asks(kind) == case # None /\ case.kind = kind

E == INSTANCE Exits

\* A rate that is required is one between two currencies.
TypedTrade(c) ==
    /\ c.i \in RiskInputs /\ c.p \in Rows
    /\ FxRequired(c.i) /\ CurrenciesKnown(c.i) => CrossCurrency(c.i)

\* How many lots make a share.
Lots(config) == IF config.allow_fractional THEN TenTo[config.default_precision] ELSE 1

\* What StockBrain opened, it bought in whole lots.
TypedHolding(h, config) ==
    /\ h.quantity \in Fraction /\ Positive(h.quantity)
    /\ h.managed => (h.quantity[1] * Lots(config)) % h.quantity[2] = 0
    /\ h \in [managed : BOOLEAN, action : STRING, confidence : Fraction \cup {None},
              stale : BOOLEAN, quantity : {h.quantity}, price : PositiveFraction]

TypedBook(b) ==
    /\ b \in [cash : Fraction, config : {b.config}, holdings : {b.holdings}]
    /\ {b.config[f] : f \in {"max_position_pct", "min_move", "conviction_full_confidence",
                             "conviction_min_weight", "conviction_max_weight",
                             "min_research_confidence"}} \subseteq Fraction
    /\ Leq(Zero, b.config.max_position_pct)
    /\ {b.config.target_positions, b.config.default_precision} \subseteq Nat
    /\ IsFiniteSet(DOMAIN b.holdings)
    /\ \A t \in DOMAIN b.holdings : TypedHolding(b.holdings[t], b.config)

ASSUME CasesAssumption ==
    /\ None \notin Cases /\ \A n \in DOMAIN E!ExitPrecedence : E!ExitPrecedence[n] # None
    /\ \A c \in Cases : /\ c.kind = "trade" => TypedTrade(c)
                        /\ c.kind = "holding" => c.o \in E!Observations /\ c.config \in E!ExitConfigs
                        /\ c.kind = "rebalance" => TypedBook(c.b)

-----------------------------------------------------------------------------

\* What a quantity costs in the account's currency at the price it trades at,
\* from what the rate says: direct, one unit of account currency buys rate
\* units of the listing's.
Cost(i, quantity) ==
    LET spent == Times(quantity, i.quote.ask)
    IN  IF ~FxRequired(i) THEN spent
        ELSE IF i.fx.direct THEN Times(spent, <<i.fx.rate[2], i.fx.rate[1]>>)
        ELSE Times(spent, i.fx.rate)

\* Buying quantity keeps every limit of the configuration, with all that the
\* other live proposals may still spend already spent.
WithinLimits(i, quantity) ==
    LET cost == Cost(i, quantity)
        total == i.account.total
        Stays(used, pct) == Leq(Plus(used, cost), Times(total, pct))
    IN  /\ Leq(cost, i.config.max_notional_per_trade)
        /\ Stays(HeldValue(i), i.config.max_position_pct)
        /\ Stays(i.account.invested, i.config.max_aggregate_pct)
        /\ Stays(i.reserved.notional, i.config.max_active_exposure_pct)
        /\ Leq(Plus(Times(total, i.config.min_cash_reserve_pct),
                    Plus(i.reserved.notional, cost)), i.account.cash)
        /\ i.identity.max_open # None
               => Leq(Plus(Held(i), quantity), i.identity.max_open)

\* Whatever combination of caps, factors, rounding and currency conversion
\* RiskEngine.evaluate goes through, an order it allows breaches no limit when
\* it trades at the ask: not by a share rounded up, a limit in the wrong
\* currency, or a cap weighed without the others' reservations.
EntryWithinLimits ==
    LET Kept(decision) ==
            Allowed(decision) => WithinLimits(case.i, decision.sizing.quantity)
    IN  Asks("trade") /\ case.i.action = "BUY" => Kept(Decision(case.i))

\* revalidate compares a quantity chosen earlier with the fresh envelope instead
\* of sizing again.  A buy that passes is within today's limits, at today's
\* price, rate, cash and reservations.
RecheckedWithinLimits ==
    Asks("trade") /\ case.p.side = "BUY" /\ SendVerdict(case.i, case.p) = "SEND"
        => WithinLimits(case.i, case.p.quantity)

\* The same trade with every entry limit already used up.
Exhausted(i) ==
    [i EXCEPT !.confidence = Zero,
              !.account.cash = Zero,
              !.account.invested = i.account.total,
              !.reserved.count = i.config.max_active_proposals,
              !.reserved.notional = i.account.total,
              !.reserved.blocked = TRUE,
              !.config.max_notional_per_trade = Zero,
              !.config.min_trade_notional = i.account.total]

\* Entry limits never stop or shrink an exit: with the limits exhausted a SELL
\* or REDUCE is decided as before, and sized the same.
ExitsAreNotGated ==
    Asks("trade") /\ case.i.account # None /\ case.i.action \in RiskReducing
        => LET Alike(full, free) ==
                   /\ full.blocking = free.blocking
                   /\ full.sizing.executable = free.sizing.executable
                   /\ Same(full.sizing.quantity, free.sizing.quantity)
           IN  Alike(Decision(Exhausted(case.i)), Decision(case.i))

\* An input gone missing or late.
NoQuote(i) == [i EXCEPT !.quote = None]
LateQuote(i) == [i EXCEPT !.quote.age = i.config.max_quote_age + 1]
NoAccount(i) == [i EXCEPT !.account = None, !.fx = None]
LateAccount(i) == [i EXCEPT !.account.age = i.config.max_account_state_age + 1]
NoRate(i) == [i EXCEPT !.fx.rate = None, !.fx.blockers = {"structural"}]
LateRate(i) == [i EXCEPT !.fx.blockers = {"stale"}]

\* A provider that is down or behind says nothing about the trade: a proposal
\* that could be sent is refused, and kept, when its quote, its account state
\* or its rate is missing, or its quote or account state is late.
OutageSparesProposal ==
    Asks("trade") /\ SendVerdict(case.i, case.p) = "SEND"
        => \A j \in {NoQuote(case.i), LateQuote(case.i), NoAccount(case.i), LateAccount(case.i)}
                     \cup (IF FxRequired(case.i) THEN {NoRate(case.i)} ELSE {}) :
               SendVerdict(j, case.p) = "DEFER"

\* preflight.py:70 and docs/architecture.md:1559: a stale rate defers as a
\* stale quote does.
LateRateDefers ==
    Asks("trade") /\ SendVerdict(case.i, case.p) = "SEND" /\ FxRequired(case.i)
        => SendVerdict(LateRate(case.i), case.p) # "RETIRE"

\* conviction_targets shares the account fairly: one level of value per unit of
\* weight serves every holding that is not held at its cap, no capped holding
\* would get less at that level, and the whole account is given out unless
\* every holding is at its cap.
FairTargets ==
    Asks("book") =>
        LET targets == ConvictionTargets(case.total, case.weights, case.config)
            cap == Times(case.total, case.config.max_position_pct)
            names == {n \in DOMAIN case.weights : Positive(case.weights[n])}
            capped == {n \in names : Same(targets[n], cap)}
            open == names \ capped
        IN  /\ \A n \in DOMAIN targets : Leq(targets[n], cap) /\ ~Less(targets[n], Zero)
            /\ \A m \in open, n \in names :
                   Leq(Over(targets[n], case.weights[n]), Over(targets[m], case.weights[m]))
            /\ names # {} => Same(TotalOf(targets),
                    Smaller(case.total, Times(Whole(Cardinality(names)), cap)))

-----------------------------------------------------------------------------

PriceStops == {"hard_stop", "volatility_stop", "trailing_stop"}

\* evaluate_exit and exit_floors are written twice, one in gains and one in
\* prices.  A stop fires exactly when the price is under one of the stop levels
\* the operator is shown, and what fires is the first of the breached ones.
StopsMatchFloors ==
    Asks("holding") /\ E!Usable(case.o) =>
        LET levels == E!ExitFloors(case.o, case.config)
            breached == {rule \in PriceStops : E!Below(case.o.current, levels[rule])}
            fired == E!EvaluateExit(case.o, case.config)
        IN  /\ fired \in PriceStops <=> breached # {}
            /\ fired \in PriceStops =>
                   /\ fired \in breached
                   /\ "hard_stop" \in breached => fired = "hard_stop"

\* No tradable position outlives the horizon it is shown, and none is closed for
\* its age before it.
HorizonCloses ==
    Asks("holding") /\ E!Usable(case.o) =>
        LET fired == E!EvaluateExit(case.o, case.config)
            over == case.o.minutes >= E!HorizonEndsAt(case.o.horizon)
        IN  /\ over => fired # None /\ E!ExitAction(fired) = "SELL"
            /\ fired = "horizon_elapsed" => over

-----------------------------------------------------------------------------

\* What one lot of a holding is worth.
Lot(b, h) == Over(h.price, Whole(Lots(b.config)))

\* A rebalance settles.  Its trims, sized as shares of what is available and
\* rounded, leave every trimmed holding at its target or above it by less than a
\* lot, except one that all but vanishes and is sold whole; nothing is trimmed
\* a second time for more than a rounding, and no holding is trimmed because
\* another one was.
Settled(b, targets, trimmed, after) ==
    /\ \A t \in trimmed :
           IF Leq(FullExit, TrimFraction(b.holdings[t], targets[t]))
           THEN t \notin DOMAIN after.holdings
           ELSE /\ t \in DOMAIN after.holdings
                /\ Leq(targets[t], Worth(after.holdings[t]))
                /\ Less(Worth(after.holdings[t]), Plus(targets[t], Lot(b, b.holdings[t])))
    /\ \A t \in Trimmed(after, BookTargets(after)) :
           t \in trimmed /\ Leq(b.config.min_move, Lot(b, b.holdings[t]))

RebalanceSettles ==
    LET Checked(b, targets, trimmed) ==
            Settled(b, targets, trimmed, AfterTrims(b, trimmed, targets))
        Planned(b, targets) == Checked(b, targets, Trimmed(b, targets))
    IN  Asks("rebalance") => Planned(case.b, BookTargets(case.b))

=============================================================================
