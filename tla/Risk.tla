-------------------------------- MODULE Risk --------------------------------
(***************************************************************************)
(* The deterministic risk engine: risk/rules.py, risk/sizing.py,           *)
(* risk/engine.py, risk/spread.py and the conversions of risk/models.py.   *)
(*                                                                         *)
(* The engine is a function of one RiskInputs record.  Every rule is an    *)
(* operator of that record i giving its RuleOutcome; Decision(i) is        *)
(* RiskEngine.evaluate.  The text of a rule, its observed value and its    *)
(* threshold are left out.  An amount is a fraction of Decimals; a moment  *)
(* is an age in seconds.                                                   *)
(*                                                                         *)
(* Of an identity, problems is the set of facts the resolver could not     *)
(* vouch for.  Of an account, the position is the one on the listing at    *)
(* hand.  Of an FX snapshot, blockers is a set of "structural" (no rate,   *)
(* wrong pair, refused grade) and "stale".                                 *)
(***************************************************************************)
EXTENDS Decimals, FiniteSets, Sequences

CONSTANT None

ExposureIncreasing == {"BUY"}
RiskReducing == {"SELL", "REDUCE"}

\* ACTION_SIDES; the two conclusions have no side.
Side(action) == CASE action = "BUY" -> "BUY"
                  [] action \in RiskReducing -> "SELL"
                  [] OTHER -> None

Gate(ok) == IF ok THEN "PASS" ELSE "BLOCK"
\* _skipped: a rule that did not run has not passed.
Skipped == "WARN"

-----------------------------------------------------------------------------
(* models.py, config.py: what the engine may be asked about.               *)

Option(S) == S \cup {None}

\* The words the engine answers with.
Words == {"BUY", "SELL", "PASS", "WARN", "REDUCE", "BLOCK"}

\* None is the absence of any of these.
ASSUME NoneAssumption == None \notin Fraction \cup STRING \cup Int \cup Words

RiskConfigs ==
    [version : STRING, allowed_instrument_types : SUBSET STRING,
     allowed_sessions : SUBSET STRING, require_known_session : BOOLEAN,
     max_quote_age : Int, max_account_state_age : Int, max_spread_bps : Int,
     spread_policy : {"BLOCK", "REDUCE"}, wide_spread_size_factor : Fraction,
     require_same_currency : BOOLEAN,
     max_notional_per_trade : Fraction, max_trade_pct : Fraction,
     max_position_pct : Fraction, max_aggregate_pct : Fraction,
     min_cash_reserve_pct : Fraction, min_trade_notional : Fraction,
     max_active_proposals : Nat, max_active_exposure_pct : Fraction,
     sizing_mode : {"cap", "conviction"}, target_positions : Nat,
     conviction_full_confidence : Fraction, conviction_min_weight : Fraction,
     conviction_max_weight : Fraction, min_fill_fraction : Fraction,
     allow_fractional : BOOLEAN, default_precision : Nat,
     min_research_confidence : Fraction, confidence_modulates_size : BOOLEAN,
     min_confidence_factor : Fraction, calibration_modulates_size : BOOLEAN,
     calibration_min_samples : Nat, min_calibration_factor : Fraction,
     reduce_fraction : Fraction, max_price_drift : Fraction,
     max_exit_drift : Fraction, max_fx_drift : Fraction]

InstrumentIdentities ==
    [problems : SUBSET STRING, type : Option(STRING), currency : Option(STRING),
     max_open : Option(Fraction), precision : Option(Nat)]

PositionStates == [quantity : Fraction, available : Fraction, value : Option(Fraction)]

AccountStates ==
    [currency : STRING, cash : Fraction, total : Fraction, invested : Fraction,
     age : Int, position : Option(PositionStates)]

QuoteSnapshots ==
    [bid : Option(Fraction), ask : Option(Fraction), currency : Option(STRING),
     age : Int, session : STRING, blocked : BOOLEAN]

\* No conversion, a measured rate, or no rate and a blocker that says so.
FxSnapshots ==
    {fx \in [same : BOOLEAN, blockers : SUBSET {"structural", "stale"},
             rate : Option(PositiveFraction), direct : BOOLEAN] :
        fx.rate = None => fx.same \/ "structural" \in fx.blockers}

ReservedExposures ==
    [count : Nat, notional : Fraction, same_instrument_count : Nat,
     same_instrument_sides : SUBSET {"BUY", "SELL"}, blocked : BOOLEAN]

RiskInputs ==
    [action : {"BUY", "SELL", "REDUCE", "HOLD", "NO_ACTION"}, confidence : Fraction,
     config : RiskConfigs, identity : InstrumentIdentities,
     account : Option(AccountStates), quote : Option(QuoteSnapshots),
     reserved : ReservedExposures, fx : Option(FxSnapshots),
     calibration : Option([samples : Nat, hit_rate : Fraction]),
     reduce_fraction : Option(Fraction), other_holding_weights : Seq(Fraction)]

\* The row of a proposal.
Rows == [side : {"BUY", "SELL"}, quantity : PositiveFraction, reference_price : Fraction,
         fx_required : BOOLEAN, fx_rate : Option(PositiveFraction), ttl : Int,
         policy_version : Option(STRING)]

ASSUME AbsenceAssumption == None \notin QuoteSnapshots \cup AccountStates

-----------------------------------------------------------------------------
(* spread.py: the shape of a bid and an ask, None being an absent side.    *)

Mid(bid, ask) == Over(Plus(bid, ask), Whole(2))

AssessSpread(bid, ask, maxBps) ==
    IF bid = None \/ ask = None THEN "MISSING"
    ELSE IF ~Positive(bid) /\ ~Positive(ask) THEN "NON_POSITIVE"
    ELSE IF ~Positive(bid) \/ ~Positive(ask) THEN "ONE_SIDED"
    ELSE IF Less(ask, bid) THEN "CROSSED"
    ELSE IF Same(ask, bid) THEN "LOCKED"
    ELSE IF Less(Times(Whole(maxBps), Mid(bid, ask)),
                 Times(Whole(10000), Minus(ask, bid))) THEN "EXCESSIVE"
    ELSE "OK"

QuoteSpread(i) == AssessSpread(i.quote.bid, i.quote.ask, i.config.max_spread_bps)

-----------------------------------------------------------------------------
(* models.py: the FX snapshot.  rate is what one unit of the account       *)
(* currency is worth when direct, and what one unit of the instrument      *)
(* currency is worth when inverted.                                        *)

FxRequired(i) == i.fx # None /\ ~i.fx.same
FxUsable(i) == i.fx.blockers = {}

ToInstrument(i, amount) ==
    IF ~FxRequired(i) THEN amount
    ELSE IF i.fx.direct THEN Times(amount, i.fx.rate) ELSE Over(amount, i.fx.rate)

ToAccount(i, amount) ==
    IF ~FxRequired(i) THEN amount
    ELSE IF i.fx.direct THEN Over(amount, i.fx.rate) ELSE Times(amount, i.fx.rate)

Position(i) == IF i.account = None THEN None ELSE i.account.position
Held(i) == IF Position(i) = None THEN Zero ELSE Position(i).quantity
Available(i) == IF Position(i) = None THEN Zero ELSE Position(i).available
HeldValue(i) == IF Position(i) = None THEN Zero
                ELSE IF Position(i).value = None THEN Zero ELSE Position(i).value

-----------------------------------------------------------------------------
(* rules.py: the gates.                                                    *)

ActionIsExecutable(action) == Gate(action \notin {"HOLD", "NO_ACTION"})

InstrumentIdentity(i) == Gate(i.identity.problems = {})

InstrumentTypeSupported(i) ==
    Gate(i.identity.type \in i.config.allowed_instrument_types)

AccountStateAvailable(i) == Gate(i.account # None)

AccountStateFreshness(i) ==
    IF i.account = None THEN "BLOCK"
    ELSE Gate(i.account.age <= i.config.max_account_state_age)

QuoteAvailable(i) == Gate(i.quote # None)

PriceSourceExecutionGrade(i) ==
    IF i.quote = None THEN Skipped ELSE Gate(~i.quote.blocked)

QuoteFreshness(i) ==
    IF i.quote = None THEN Skipped ELSE Gate(i.quote.age <= i.config.max_quote_age)

QuoteTwoSided(i) ==
    IF i.quote = None THEN Skipped
    ELSE Gate(QuoteSpread(i) \notin {"MISSING", "NON_POSITIVE", "ONE_SIDED"})

\* Only a well-formed book that is merely too wide may be reduced for.
SpreadCeiling(i) ==
    IF i.quote = None THEN Skipped
    ELSE IF QuoteSpread(i) = "OK" THEN "PASS"
    ELSE IF /\ QuoteSpread(i) = "EXCESSIVE"
            /\ i.config.spread_policy = "REDUCE"
            /\ Positive(i.config.wide_spread_size_factor) THEN "REDUCE"
    ELSE "BLOCK"

MarketSession(i) ==
    IF i.quote = None THEN Skipped
    ELSE IF i.quote.session = "UNKNOWN" /\ i.config.require_known_session THEN "BLOCK"
    ELSE Gate(i.quote.session \in i.config.allowed_sessions)

AccountCurrency(i) == IF i.account = None THEN None ELSE i.account.currency
CurrenciesKnown(i) == AccountCurrency(i) # None /\ i.identity.currency # None
CrossCurrency(i) == AccountCurrency(i) # i.identity.currency

CurrencyAlignment(i) ==
    IF ~CurrenciesKnown(i) THEN "BLOCK"
    ELSE Gate(/\ i.quote # None => i.quote.currency \in {None, i.identity.currency}
              /\ CrossCurrency(i) => ~i.config.require_same_currency)

FxAvailable(i) ==
    IF ~CurrenciesKnown(i) THEN Skipped
    ELSE IF ~CrossCurrency(i) THEN "PASS"
    ELSE Gate(i.fx # None /\ "structural" \notin i.fx.blockers)

FxFreshness(i) ==
    IF ~CurrenciesKnown(i) THEN Skipped
    ELSE IF ~CrossCurrency(i) THEN "PASS"
    ELSE IF i.fx = None THEN Skipped
    ELSE IF "stale" \in i.fx.blockers THEN "BLOCK"
    ELSE IF i.fx.rate = None THEN Skipped ELSE "PASS"

CurrentPosition(i) ==
    IF i.account = None THEN Skipped
    ELSE IF i.action \in RiskReducing THEN Gate(Positive(Available(i)))
    ELSE Gate(Positive(Held(i)) => Position(i).value # None)

\* A live proposal for the same listing, or one that takes the other side.
DuplicateOrConflicting(i) ==
    Gate(/\ i.reserved.same_instrument_count = 0
         /\ Side(i.action) # None => i.reserved.same_instrument_sides \subseteq {Side(i.action)})

\* Mutant: the proposal count gates exits too.
MaxActiveForAll(i) == Gate(i.reserved.count < i.config.max_active_proposals)

MaxActiveProposals(i) ==
    IF i.action \in RiskReducing THEN Skipped
    ELSE Gate(i.reserved.count < i.config.max_active_proposals)

ReservationAccounting(i) ==
    Gate(i.action \in ExposureIncreasing => ~i.reserved.blocked)

ResearchConfidenceFloor(i) ==
    IF i.action \in RiskReducing THEN Skipped
    ELSE Gate(Leq(i.config.min_research_confidence, i.confidence))

\* gate_results, by the rule_id each result carries.
GateResults(i) ==
    [action_is_executable |-> ActionIsExecutable(i.action),
     instrument_identity |-> InstrumentIdentity(i),
     instrument_type_supported |-> InstrumentTypeSupported(i),
     account_state_available |-> AccountStateAvailable(i),
     account_state_freshness |-> AccountStateFreshness(i),
     quote_available |-> QuoteAvailable(i),
     price_source_execution_grade |-> PriceSourceExecutionGrade(i),
     quote_freshness |-> QuoteFreshness(i),
     quote_two_sided |-> QuoteTwoSided(i),
     spread_ceiling |-> SpreadCeiling(i),
     market_session |-> MarketSession(i),
     currency_alignment |-> CurrencyAlignment(i),
     fx_available |-> FxAvailable(i),
     fx_freshness |-> FxFreshness(i),
     current_position |-> CurrentPosition(i),
     duplicate_or_conflicting_proposal |-> DuplicateOrConflicting(i),
     max_active_proposals |-> MaxActiveProposals(i),
     reservation_accounting |-> ReservationAccounting(i),
     research_confidence_floor |-> ResearchConfidenceFloor(i)]

TransientRuleIds ==
    {"price_source_execution_grade", "quote_available", "quote_freshness",
     "quote_two_sided", "spread_ceiling", "market_session",
     "account_state_available", "account_state_freshness", "fx_available",
     "fx_freshness"}

-----------------------------------------------------------------------------
(* rules.py: the ceilings on an entry's notional, in account currency.     *)

Share(total, fraction) == Times(total, fraction)

\* How many equal shares a holding at this confidence targets.
ConvictionWeight(config, confidence) ==
    LET span == Minus(config.conviction_full_confidence, config.min_research_confidence)
        progress == IF ~Positive(span) THEN One
                    ELSE Between(Zero, Over(Minus(confidence, config.min_research_confidence),
                                            span), One)
    IN  Plus(config.conviction_min_weight,
             Times(Minus(config.conviction_max_weight, config.conviction_min_weight), progress))

\* Mutant: what a capped holding cannot take is not given to the others.
FillRoundOnce(cap, weights, s) ==
    IF s.open = {} \/ ~Positive(s.left) THEN s
    ELSE [s EXCEPT !.open = {},
             !.targets = [n \in DOMAIN weights |->
                 IF n \in s.open
                 THEN Smaller(cap, Over(Times(s.left, weights[n]), TotalOf(weights)))
                 ELSE s.targets[n]]]

\* One round of the water-filling: the holdings whose share reaches the cap
\* take the cap and leave; when none does, the shares are the targets.
FillRound(cap, weights, s) ==
    LET sum == TotalOf([n \in s.open |-> weights[n]])
        share == [n \in s.open |-> Over(Times(s.left, weights[n]), sum)]
        capped == {n \in s.open : Leq(cap, share[n])}
    IN  IF s.open = {} \/ ~Positive(s.left) THEN s
        ELSE IF capped = {}
             THEN [s EXCEPT !.open = {},
                            !.targets = [n \in DOMAIN weights |->
                                IF n \in s.open THEN share[n] ELSE s.targets[n]]]
             ELSE [open |-> s.open \ capped,
                   left |-> Minus(s.left, Times(Whole(Cardinality(capped)), cap)),
                   targets |-> [n \in DOMAIN weights |->
                       IF n \in capped THEN cap ELSE s.targets[n]]]

ConvictionTargets(total, weights, config) ==
    LET cap == Share(total, config.max_position_pct)
        rounds == Cardinality(DOMAIN weights)
        fill[k \in 0..rounds] ==
            IF k = 0 THEN [open |-> {n \in DOMAIN weights : Positive(weights[n])},
                           left |-> total,
                           targets |-> [n \in DOMAIN weights |-> Zero]]
            ELSE FillRound(cap, weights, fill[k - 1])
    IN  fill[rounds].targets

\* What a holding of this idea should be worth: its share of a book of
\* target_positions, or of the book as it stands when that is zero.
ConvictionTarget(i) ==
    LET weight == ConvictionWeight(i.config, i.confidence)
        others == DOMAIN i.other_holding_weights
    IN  IF i.config.target_positions = 0
        THEN ConvictionTargets(i.account.total,
                 [n \in others \cup {0} |->
                     IF n = 0 THEN weight ELSE i.other_holding_weights[n]], i.config)[0]
        ELSE Smaller(Times(Over(i.account.total, Whole(i.config.target_positions)), weight),
                     Share(i.account.total, i.config.max_position_pct))

\* What is left of a budget; no headroom is zero, never negative.
Headroom(budget, used) == Larger(Zero, Minus(budget, used))

\* The broker's maximum open quantity, valued at the mid.
MaxOpenNotional(i) ==
    ToAccount(i, Times(Headroom(i.identity.max_open, Held(i)),
                       Mid(i.quote.bid, i.quote.ask)))

HasMaxOpen(i) ==
    /\ i.identity.max_open # None /\ i.quote # None
    /\ i.quote.bid # None /\ i.quote.ask # None
    /\ Positive(Mid(i.quote.bid, i.quote.ask))
    /\ FxRequired(i) => FxUsable(i)

\* The rules that set the intended size; the others only trim it.
DefinesIntent == {"max_notional_per_trade", "conviction_target",
                  "max_trade_pct_of_portfolio"}

CapIds(i) ==
    IF i.action \notin ExposureIncreasing \/ i.account = None THEN {}
    ELSE {"max_notional_per_trade", "max_position_concentration",
          "max_aggregate_exposure", "active_proposal_exposure", "min_cash_reserve"}
         \cup {IF i.config.sizing_mode = "conviction" THEN "conviction_target"
               ELSE "max_trade_pct_of_portfolio"}
         \cup (IF HasMaxOpen(i) THEN {"broker_max_open_quantity"} ELSE {})

CapLimit(i, id) ==
    LET config == i.config
        total == i.account.total
    IN  CASE id = "max_notional_per_trade" -> config.max_notional_per_trade
          [] id = "conviction_target" -> Headroom(ConvictionTarget(i), HeldValue(i))
          [] id = "max_trade_pct_of_portfolio" -> Share(total, config.max_trade_pct)
          [] id = "max_position_concentration" ->
                 Headroom(Share(total, config.max_position_pct), HeldValue(i))
          [] id = "max_aggregate_exposure" ->
                 Headroom(Share(total, config.max_aggregate_pct), i.account.invested)
          [] id = "active_proposal_exposure" ->
                 Headroom(Share(total, config.max_active_exposure_pct), i.reserved.notional)
          [] id = "min_cash_reserve" ->
                 Headroom(Minus(i.account.cash, Share(total, config.min_cash_reserve_pct)),
                          i.reserved.notional)
          [] id = "broker_max_open_quantity" -> MaxOpenNotional(i)

NotionalCaps(i) == [id \in CapIds(i) |-> CapLimit(i, id)]

SmallestCap(caps, ids) == IF ids = {} THEN Zero ELSE Least({caps[id] : id \in ids})

CapRuleResults(caps) ==
    LET intended == SmallestCap(caps, DOMAIN caps \cap DefinesIntent)
    IN  [id \in DOMAIN caps |->
            IF ~Positive(caps[id]) THEN "BLOCK"
            ELSE IF id \notin DefinesIntent /\ Less(caps[id], intended) THEN "REDUCE"
            ELSE "PASS"]

\* The optional rules give None where the code returns none.
TargetFillRule(i, caps) ==
    IF /\ i.config.sizing_mode = "conviction"
       /\ "conviction_target" \in DOMAIN caps
       /\ Positive(caps["conviction_target"])
    THEN Gate(Leq(Times(caps["conviction_target"], i.config.min_fill_fraction),
                  SmallestCap(caps, DOMAIN caps)))
    ELSE None

-----------------------------------------------------------------------------
(* rules.py: the factors that may shrink a size, never grow it.            *)

ConfidenceApplies(i) == i.config.confidence_modulates_size
                        /\ i.config.sizing_mode # "conviction"

ConfidenceSizeFactor(i) ==
    LET floor == i.config.min_research_confidence
        low == i.config.min_confidence_factor
        span == Minus(One, floor)
    IN  IF ~Positive(span) THEN One
        ELSE Between(low, Plus(low, Times(Minus(One, low),
                                          Over(Minus(i.confidence, floor), span))), One)

CalibrationApplies(i) == i.config.calibration_modulates_size /\ i.calibration # None
CalibrationMeasured(i) == i.calibration.samples >= i.config.calibration_min_samples

CalibrationSizeFactor(i) ==
    Between(i.config.min_calibration_factor,
            Plus(<<1, 2>>, i.calibration.hit_rate), One)

FactorOutcome(factor) == IF Less(factor, One) THEN "REDUCE" ELSE "PASS"

\* The size factors the rules imposed, by rule_id.
SizeFactors(i) ==
    LET ids == {id \in {"spread_ceiling", "confidence_size_modulation",
                        "calibration_size_modulation"} :
                   CASE id = "spread_ceiling" -> SpreadCeiling(i) = "REDUCE"
                     [] id = "confidence_size_modulation" -> ConfidenceApplies(i)
                     [] OTHER -> CalibrationApplies(i) /\ CalibrationMeasured(i)}
    IN  [id \in ids |-> CASE id = "spread_ceiling" -> i.config.wide_spread_size_factor
                          [] id = "confidence_size_modulation" -> ConfidenceSizeFactor(i)
                          [] OTHER -> CalibrationSizeFactor(i)]

CombinedSizeFactor(factors) ==
    FoldFunction(LAMBDA factor, acc : Times(acc, Between(Zero, factor, One)), One, factors)

-----------------------------------------------------------------------------
(* sizing.py                                                               *)

\* Always down: to a whole share, or to the precision learned for the listing.
RoundQuantity(raw, i) ==
    LET precision == IF i.identity.precision = None THEN i.config.default_precision
                     ELSE i.identity.precision
    IN  IF ~Positive(raw) THEN Zero
        ELSE RoundDown(raw, IF i.config.allow_fractional THEN TenTo[precision] ELSE 1)

NoSize == [side |-> None, quantity |-> Zero, max_quantity |-> Zero,
           notional_account |-> Zero, executable |-> FALSE]

\* Mutant: an entry is priced at the side that flatters it.
ReferencePriceAtBid(i) == i.quote.bid

\* The side of the quote a market order trades against.
ReferencePrice(i) == IF Side(i.action) = "BUY" THEN i.quote.ask ELSE i.quote.bid

Sized(i, maxQuantity, quantity, ok) ==
    LET notional == ToAccount(i, Times(quantity, ReferencePrice(i)))
    IN  [side |-> Side(i.action), max_quantity |-> maxQuantity,
         notional_account |-> notional,
         quantity |-> IF ok /\ Positive(quantity) THEN quantity ELSE Zero,
         executable |-> ok /\ Positive(quantity)]

SizeBuy(i, maxNotional, factor) ==
    LET permitted == ToInstrument(i, maxNotional)
        Shares(notional) == RoundQuantity(Over(notional, ReferencePrice(i)), i)
        maxQuantity == Shares(permitted)
        quantity == Smaller(Shares(Times(permitted, factor)), maxQuantity)
        cost == ToAccount(i, Times(quantity, ReferencePrice(i)))
    IN  IF ~Positive(maxNotional) THEN [NoSize EXCEPT !.side = "BUY"]
        ELSE Sized(i, maxQuantity, quantity, Leq(i.config.min_trade_notional, cost))

\* Caps do not apply to an exit.  A REDUCE that would round to nothing is
\* refused rather than sold whole.
SizeSell(i) ==
    LET fraction == Smaller(One, IF i.reduce_fraction = None THEN i.config.reduce_fraction
                                 ELSE i.reduce_fraction)
        share == IF i.action = "SELL" THEN One ELSE fraction
    IN  IF ~Positive(Available(i)) THEN [NoSize EXCEPT !.side = "SELL"]
        ELSE Sized(i, RoundQuantity(Available(i), i),
                   RoundQuantity(Times(Available(i), share), i), TRUE)

SizeTrade(i, maxNotional, factor) ==
    IF Side(i.action) = None THEN NoSize
    ELSE IF \/ i.quote = None
            \/ i.quote.bid = None \/ i.quote.ask = None
            \/ ~Positive(ReferencePrice(i))
            \/ FxRequired(i) /\ ~FxUsable(i) THEN [NoSize EXCEPT !.side = Side(i.action)]
    ELSE IF Side(i.action) = "BUY" THEN SizeBuy(i, maxNotional, factor)
    ELSE SizeSell(i)

-----------------------------------------------------------------------------
(* engine.py                                                               *)

Merged(f, g) == [x \in DOMAIN f \cup DOMAIN g |-> IF x \in DOMAIN f THEN f[x] ELSE g[x]]

OptionalResults(i, caps) ==
    LET fill == TargetFillRule(i, caps)
        ids == {id \in {"target_fill", "confidence_size_modulation",
                        "calibration_size_modulation"} :
                   CASE id = "target_fill" -> fill # None
                     [] id = "confidence_size_modulation" -> ConfidenceApplies(i)
                     [] OTHER -> CalibrationApplies(i)}
    IN  [id \in ids |->
            CASE id = "target_fill" -> fill
              [] id = "confidence_size_modulation" -> FactorOutcome(ConfidenceSizeFactor(i))
              [] OTHER -> IF ~CalibrationMeasured(i) THEN Skipped
                          ELSE FactorOutcome(CalibrationSizeFactor(i))]

Rules(i, caps) == Merged(GateResults(i), Merged(CapRuleResults(caps), OptionalResults(i, caps)))

Blocking(rules) == {id \in DOMAIN rules : rules[id] = "BLOCK"}

\* A blocked decision carries no size at all.
Verdict(rules, size) ==
    IF Blocking(rules) # {}
    THEN [outcome |-> "BLOCK", blocking |-> Blocking(rules), sizing |-> NoSize]
    ELSE [outcome |-> IF \E id \in DOMAIN rules : rules[id] = "REDUCE" THEN "REDUCE_SIZE"
                      ELSE "ALLOW",
          blocking |-> {}, sizing |-> size]

DecisionUnder(i, caps) ==
    Verdict(Rules(i, caps), SizeTrade(i, SmallestCap(caps, DOMAIN caps),
                                      CombinedSizeFactor(SizeFactors(i))))

\* RiskEngine.evaluate.
Decision(i) == DecisionUnder(i, NotionalCaps(i))

\* RiskDecision.allowed: something to propose.
Allowed(decision) == decision.outcome # "BLOCK" /\ decision.sizing.executable

-----------------------------------------------------------------------------
(* proposals/evaluation.py: the rules a live proposal adds when it is      *)
(* judged again, at authorization and before it is sent.  p is the row.    *)

Drift(authorized, current) ==
    Over(IF Leq(authorized, current) THEN Minus(current, authorized)
         ELSE Minus(authorized, current), authorized)

ReferencePriceDrift(reference, current, limit) ==
    IF current = None \/ ~Positive(reference) THEN "BLOCK"
    ELSE Gate(Leq(Drift(reference, current), limit))

\* An exit is held to the wider of the two limits.
PriceDrift(i, p) ==
    ReferencePriceDrift(p.reference_price,
        IF i.quote = None \/ i.quote.bid = None \/ i.quote.ask = None THEN None
        ELSE Mid(i.quote.bid, i.quote.ask),
        IF p.side = "SELL" THEN Larger(i.config.max_price_drift, i.config.max_exit_drift)
        ELSE i.config.max_price_drift)

FxRateDrift(i, p) ==
    IF ~FxRequired(i) THEN "PASS"
    ELSE IF p.fx_rate = None THEN Skipped
    ELSE IF ~FxUsable(i) \/ i.fx.rate = None THEN "BLOCK"
    ELSE Gate(Leq(Drift(p.fx_rate, i.fx.rate), i.config.max_fx_drift))

ProposalTtl(p) == Gate(p.ttl > 0)

PolicyVersionUnchanged(i, p) == Gate(p.policy_version \in {None, i.config.version})

\* Mutants: only the side is compared; a blocked decision is compared too.
EnvelopeSideOnly(p, decision) ==
    IF decision.outcome = "BLOCK" THEN Skipped ELSE Gate(decision.sizing.side = p.side)
EnvelopeOfBlocked(p, decision) ==
    Gate(/\ decision.sizing.side = p.side
         /\ Leq(p.quantity, decision.sizing.max_quantity))

\* Not re-sized to what fits now.  A blocked decision has no envelope: the
\* rules that blocked are the verdict.
EnvelopeStillCovers(p, decision) ==
    IF decision.outcome = "BLOCK" THEN Skipped
    ELSE Gate(/\ decision.sizing.side = p.side
              /\ Leq(p.quantity, decision.sizing.max_quantity))

AuthorizationRules(i, p, decision) ==
    [proposal_ttl |-> ProposalTtl(p),
     reference_price_drift |-> PriceDrift(i, p),
     fx_rate_drift |-> FxRateDrift(i, p),
     risk_policy_version |-> PolicyVersionUnchanged(i, p),
     authorization_envelope |-> EnvelopeStillCovers(p, decision)]

\* Re-evaluating an existing trim: its envelope is the whole position.
ForProposal(i) == IF i.action = "REDUCE" THEN [i EXCEPT !.reduce_fraction = One] ELSE i

\* ProposalEvaluator.evaluate for a row; the proposal's own reservation is
\* not among i.reserved.
Revalidation(i, p) ==
    LET Judged(decision) == decision.blocking \cup Blocking(AuthorizationRules(i, p, decision))
    IN  Judged(Decision(ForProposal(i)))

\* preflight.py: whether a refusal to send leaves the proposal alone.  A missing
\* input always does; a late one only when nothing else blocked beside it.
MissingInputRuleIds == {"quote_available", "account_state_available", "fx_available"}
StaleInputRuleIds == {"quote_freshness", "account_state_freshness", "fx_freshness"}

IsTransient(blocked) ==
    /\ blocked # {}
    /\ blocked \cap MissingInputRuleIds # {} \/ blocked \subseteq StaleInputRuleIds

\* _position_reason: the shares a sale needs may have moved into a pie.
PositionMissing(i, p) ==
    p.side = "SELL" /\ i.account # None /\ Less(Available(i), p.quantity)

\* A refused proposal is retired unless the refusal is transient.
VerdictOf(i, p, blocked) ==
    IF blocked = {} /\ ~PositionMissing(i, p) THEN "SEND"
    ELSE IF IsTransient(blocked) THEN "DEFER" ELSE "RETIRE"

SendVerdict(i, p) == VerdictOf(i, p, Revalidation(i, p))

\* market_failure: a quote or a rate that did not arrive retires nothing.
MarketFailure(i, p) ==
    \/ p.fx_required /\ FxRequired(i) /\ FxUsable(i) /\ FxRateDrift(i, p) = "BLOCK"
    \/ i.quote # None /\ (QuoteSpread(i) # "OK" \/ PriceDrift(i, p) = "BLOCK")

=============================================================================
