-------------------------------- MODULE Exits --------------------------------
(***************************************************************************)
(* The exit rules of risk/exits.py: which rule, if any, closes or trims an *)
(* open position, and the price levels shown to the operator for it.       *)
(*                                                                         *)
(* An observation o is what the sweep found: average, current and peak     *)
(* price, the observations the peak is built from, the minutes held, the   *)
(* horizon of the thesis, whether newer research supersedes it, and the    *)
(* ATR with the age in days of its last bar.                               *)
(***************************************************************************)
EXTENDS Decimals, FiniteSetsExt, Sequences

CONSTANT None

Observations ==
    [average : Fraction, current : Fraction, available : Fraction,
     peak : Fraction \cup {None}, peak_observations : Nat, minutes : Nat,
     horizon : {"INTRADAY", "DAYS", "WEEKS", "MONTHS"}, superseded : BOOLEAN,
     atr : Fraction \cup {None}, atr_age : Int \cup {None}]

ExitConfigs ==
    [exit_hard_stop_pct : Fraction, exit_trailing_pct : Fraction,
     exit_trailing_arm_pct : Fraction, exit_min_peak_observations : Int,
     exit_atr_multiplier : Fraction, exit_atr_max_age_days : Int]

\* exit_roi_decay: the profit asked for, by minutes held; the 0 row ends it.
ExitRoiDecay ==
    [INTRADAY |-> {<<0, 4>>, <<240, 2>>, <<480, 0>>},
     DAYS     |-> {<<0, 6>>, <<1440, 3>>, <<4320, 0>>},
     WEEKS    |-> {<<0, 15>>, <<10080, 8>>, <<30240, 0>>},
     MONTHS   |-> {<<0, 30>>, <<43200, 15>>, <<129600, 0>>}]

Gain(o) == Over(Minus(o.current, o.average), o.average)

\* Mutant: a row applies only after its minute.
RoiTargetLate(horizon, minutes) ==
    LET passed == {row \in ExitRoiDecay[horizon] : row[1] < minutes}
        last == CHOOSE row \in passed : \A other \in passed : other[1] <= row[1]
    IN  IF passed = {} THEN Percent(100) ELSE Percent(last[2])

\* The last row whose threshold has been passed; no row asks for nothing.
RoiTargetFor(horizon, minutes) ==
    LET passed == {row \in ExitRoiDecay[horizon] : row[1] <= minutes}
        last == CHOOSE row \in passed : \A other \in passed : other[1] <= row[1]
    IN  IF passed = {} THEN Zero ELSE Percent(last[2])

PeakTrusted(o, config) ==
    o.peak # None /\ o.peak_observations >= config.exit_min_peak_observations

\* The Chandelier floor, None when the volatility rule would skip.
VolatilityFloor(o, config) ==
    IF /\ PeakTrusted(o, config)
       /\ o.atr # None /\ Positive(o.atr)
       /\ o.atr_age # None /\ o.atr_age <= config.exit_atr_max_age_days
    THEN Minus(o.peak, Times(config.exit_atr_multiplier, o.atr))
    ELSE None

\* The trailing floor, None until the position has run.
TrailingFloor(o, config) ==
    IF /\ PeakTrusted(o, config)
       /\ Leq(config.exit_trailing_arm_pct, Over(Minus(o.peak, o.average), o.average))
    THEN Times(o.peak, Minus(One, config.exit_trailing_pct))
    ELSE None

\* No cost basis, no price or no tradable share: nothing can be done.
Usable(o) == Positive(o.average) /\ Positive(o.current) /\ Positive(o.available)

Below(price, floor) == floor # None /\ Less(price, floor)

\* Mutant: the stop fires at its level, not below it.
HardStopAtLevel(o, config) == Leq(Gain(o), Minus(Zero, config.exit_hard_stop_pct))

HardStop(o, config) == Less(Gain(o), Minus(Zero, config.exit_hard_stop_pct))

\* EXIT_PRECEDENCE.
ExitPrecedence == <<"hard_stop", "volatility_stop", "trailing_stop",
                    "thesis_superseded", "roi_target", "horizon_elapsed">>

\* Whether a rule's own condition holds, apart from its place in the order.
ExitCondition(rule, o, config) ==
    LET target == RoiTargetFor(o.horizon, o.minutes)
    IN  CASE rule = "hard_stop" -> HardStop(o, config)
          [] rule = "volatility_stop" -> Below(o.current, VolatilityFloor(o, config))
          [] rule = "trailing_stop" -> Below(o.current, TrailingFloor(o, config))
          [] rule = "thesis_superseded" -> o.superseded
          [] rule = "roi_target" -> Positive(target) /\ Leq(target, Gain(o))
          [] rule = "horizon_elapsed" -> Same(target, Zero)

\* evaluate_exit: the first rule that fires, or None to hold.
EvaluateExit(o, config) ==
    LET firing == {n \in DOMAIN ExitPrecedence :
                      ExitCondition(ExitPrecedence[n], o, config)}
    IN  IF ~Usable(o) \/ firing = {} THEN None ELSE ExitPrecedence[Min(firing)]

\* Only the profit rule trims; the others close.
ExitAction(rule) == IF rule = "roi_target" THEN "REDUCE" ELSE "SELL"

\* _horizon_ends_at, in minutes after the position was opened.
HorizonEndsAt(horizon) == Min({row[1] : row \in {r \in ExitRoiDecay[horizon] : r[2] = 0}})

\* exit_floors: every level an exit rule would act on, None when unusable.
ExitFloors(o, config) ==
    LET target == RoiTargetFor(o.horizon, o.minutes)
        levels == [hard_stop |-> Times(o.average, Minus(One, config.exit_hard_stop_pct)),
                   volatility_stop |-> VolatilityFloor(o, config),
                   trailing_stop |-> TrailingFloor(o, config),
                   roi_target |-> IF Positive(target) THEN Times(o.average, Plus(One, target))
                                  ELSE None]
    IN  IF Usable(o) THEN levels ELSE None

\* The highest level; the first in precedence among equals.
NearestRule(levels) ==
    LET ranked == {n \in 1..Len(ExitPrecedence) :
                      ExitPrecedence[n] \in DOMAIN levels /\ levels[ExitPrecedence[n]] # None}
        Highest(n) == \A m \in ranked : Leq(levels[ExitPrecedence[m]], levels[ExitPrecedence[n]])
    IN  ExitPrecedence[Min({n \in ranked : Highest(n)})]

=============================================================================
