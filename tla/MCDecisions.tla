---------------------------- MODULE MCDecisions ----------------------------
(***************************************************************************)
(* The inputs the decisions are checked on.  The account is worth 1000,    *)
(* prices are around 10, and the exchange rate is 5/4.                     *)
(***************************************************************************)
EXTENDS Decisions

Config(mode, positions, fractional, policy) ==
    [version |-> "v1", allowed_instrument_types |-> {"STOCK"},
     allowed_sessions |-> {"REGULAR"}, require_known_session |-> TRUE,
     max_quote_age |-> 15, max_account_state_age |-> 300, max_spread_bps |-> 2000,
     spread_policy |-> policy, wide_spread_size_factor |-> <<1, 2>>,
     require_same_currency |-> FALSE,
     max_notional_per_trade |-> Whole(150), max_trade_pct |-> <<1, 5>>,
     max_position_pct |-> <<3, 10>>, max_aggregate_pct |-> <<4, 5>>,
     min_cash_reserve_pct |-> <<1, 10>>, min_trade_notional |-> Whole(20),
     max_active_proposals |-> 3, max_active_exposure_pct |-> <<3, 10>>,
     sizing_mode |-> mode, target_positions |-> positions,
     conviction_full_confidence |-> <<9, 10>>, conviction_min_weight |-> <<3, 4>>,
     conviction_max_weight |-> Whole(2), min_fill_fraction |-> <<1, 2>>,
     allow_fractional |-> fractional, default_precision |-> 1,
     min_research_confidence |-> <<7, 10>>, confidence_modulates_size |-> TRUE,
     min_confidence_factor |-> <<1, 2>>, calibration_modulates_size |-> TRUE,
     calibration_min_samples |-> 10, min_calibration_factor |-> <<1, 2>>,
     reduce_fraction |-> <<1, 2>>, max_price_drift |-> <<1, 10>>,
     max_exit_drift |-> <<1, 5>>, max_fx_drift |-> <<1, 10>>]

Configs == {Config("cap", 8, FALSE, "BLOCK"), Config("cap", 8, TRUE, "REDUCE"),
            Config("conviction", 0, TRUE, "BLOCK"), Config("conviction", 4, FALSE, "BLOCK")}

Dollars == [same |-> TRUE, blockers |-> {}, rate |-> None, direct |-> TRUE]
Rates == {[same |-> FALSE, blockers |-> {}, rate |-> <<5, 4>>, direct |-> direct] :
              direct \in BOOLEAN}

Quotes == {[bid |-> Whole(b[1]), ask |-> Whole(b[2]), currency |-> "USD", age |-> 1,
            session |-> "REGULAR", blocked |-> FALSE] :
               b \in {<<9, 10>>, <<10, 11>>, <<10, 13>>, <<0, 11>>}}

Holding(available, value) ==
    [quantity |-> Whole(12), available |-> Whole(available), value |-> value]
Holdings == {None, Holding(12, Whole(240)), Holding(1, Whole(120))}

Funds == {<<200, 560>>, <<600, 160>>, <<600, 700>>}

Account(fx, funds, position) ==
    [currency |-> IF fx.same THEN "USD" ELSE "GBP", cash |-> Whole(funds[1]),
     total |-> Whole(1000), invested |-> Whole(funds[2]), age |-> 5,
     position |-> position]

Identity(maxOpen) == [problems |-> {}, type |-> "STOCK", currency |-> "USD",
                      max_open |-> maxOpen, precision |-> None]

Reservations ==
    {[count |-> n, notional |-> Whole(130 * n), same_instrument_count |-> 0,
      same_instrument_sides |-> {}, blocked |-> FALSE] : n \in 0..2}

Poor == [samples |-> 12, hit_rate |-> <<1, 5>>]

Candidates(actions, confidences, caps, holdings) ==
    {[action |-> action, confidence |-> confidence, config |-> config,
      identity |-> Identity(maxOpen), quote |-> quote,
      account |-> Account(fx, funds, position), reserved |-> reserved,
      fx |-> fx, calibration |-> IF config.spread_policy = "REDUCE" THEN Poor ELSE None,
      reduce_fraction |-> None,
      other_holding_weights |-> <<Whole(1), Whole(2)>>] :
        action \in actions, confidence \in confidences, config \in Configs,
        maxOpen \in caps, quote \in Quotes, fx \in {Dollars} \cup Rates,
        funds \in Funds, position \in holdings, reserved \in Reservations}

\* A row proposed earlier: on the same listing, at a price of 10 and, across
\* currencies, at the rate of then.
Row(i, side, quantity) ==
    [side |-> side, quantity |-> quantity, reference_price |-> Whole(10),
     fx_required |-> FxRequired(i),
     fx_rate |-> IF FxRequired(i) THEN <<6, 5>> ELSE None,
     ttl |-> 1, policy_version |-> "v1"]

Buys == Candidates({"BUY"}, {Percent(85)}, {Whole(16)}, Holdings)
Sells == Candidates({"SELL", "REDUCE"}, {Percent(70)}, {None},
                    {None, Holding(12, None), Holding(1, Whole(120))})

Trades == {[kind |-> "trade", i |-> i, p |-> Row(i, "BUY", Whole(6))] : i \in Buys}
          \cup {[kind |-> "trade", i |-> i, p |-> Row(i, "SELL", Whole(1))] : i \in Sells}

Books == {[kind |-> "book", total |-> Whole(1200), weights |-> weights,
           config |-> [max_position_pct |-> pct]] :
              weights \in [1..3 -> {Zero, <<3, 4>>, Whole(1), Whole(2)}],
              pct \in {<<1, 5>>, <<3, 10>>, <<1, 2>>, One}}

ExitPolicy(arm) ==
    [exit_hard_stop_pct |-> Percent(8), exit_trailing_pct |-> Percent(5),
     exit_trailing_arm_pct |-> Percent(arm), exit_min_peak_observations |-> 3,
     exit_atr_multiplier |-> Whole(3), exit_atr_max_age_days |-> 3]

Positions ==
    {[kind |-> "holding", config |-> ExitPolicy(10),
      o |-> [average |-> Whole(100), current |-> Whole(current), peak |-> peak,
             peak_observations |-> observations, minutes |-> minutes,
             horizon |-> horizon, superseded |-> superseded, atr |-> atr,
             atr_age |-> 3, available |-> Whole(1)]] :
        current \in {91, 92, 97, 103, 104, 106, 108, 115},
        peak \in {None, Whole(109), Whole(110), Whole(120)},
        observations \in {2, 3}, superseded \in BOOLEAN, atr \in {None, Whole(4)},
        horizon \in {"INTRADAY", "DAYS"}, minutes \in {0, 240, 480, 4319, 4320}}

BookConfig(positions, fractional) ==
    Merged([Config("conviction", positions, fractional, "BLOCK") EXCEPT
                !.max_position_pct = <<1, 2>>, !.conviction_min_weight = <<1, 100>>],
           [min_move |-> Whole(5)])

Owned(managed, action, confidence, quantity, price) ==
    [managed |-> managed, action |-> action, confidence |-> confidence, stale |-> FALSE,
     quantity |-> Whole(quantity), price |-> Whole(price)]

Rebalances ==
    {[kind |-> "rebalance",
      b |-> [cash |-> Whole(cash), config |-> BookConfig(positions, fractional),
             holdings |-> [t \in 1..3 |->
                 CASE t = 1 -> Owned(TRUE, action, confidence, first, 10)
                   [] t = 2 -> Owned(TRUE, "BUY", Percent(80), 30, 7)
                   [] OTHER -> Owned(managed, "BUY", Percent(75), second, 3)]]] :
        action \in {"BUY", "HOLD", "SELL"}, confidence \in {Percent(70), Percent(95)},
        first \in {1, 37, 55}, second \in {1, 120, 131}, managed \in BOOLEAN,
        cash \in {0, 900}, positions \in {0, 4}, fractional \in BOOLEAN}

AllCases == Trades \cup Books \cup Positions \cup Rebalances

=============================================================================
