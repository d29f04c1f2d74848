------------------------------ MODULE Rebalance ------------------------------
(***************************************************************************)
(* proposals/rebalance.py and holdings.py: what an operator's rebalance    *)
(* makes of the book.  A holding is a record: whether StockBrain opened it *)
(* (managed), what the latest thesis of its lineage says (action,          *)
(* confidence, stale), how many shares there are and at what price.  A     *)
(* book is [holdings, cash, config], holdings a function of listings.      *)
(***************************************************************************)
EXTENDS Risk

\* Only a BUY argues for more than the least weight.
HoldingWeight(config, h) ==
    IF h.confidence = None \/ h.action # "BUY" THEN config.conviction_min_weight
    ELSE ConvictionWeight(config, h.confidence)

HoldingWeights(b) == [t \in DOMAIN b.holdings |-> HoldingWeight(b.config, b.holdings[t])]

Worth(h) == Times(h.quantity, h.price)
BookTotal(b) == Plus(b.cash, TotalOf([t \in DOMAIN b.holdings |-> Worth(b.holdings[t])]))

\* Every holding's share of the account, or of 1/N of it.
TargetsOf(b, total, weights) ==
    IF b.config.target_positions = 0 THEN ConvictionTargets(total, weights, b.config)
    ELSE [t \in DOMAIN b.holdings |->
             Smaller(Times(Over(total, Whole(b.config.target_positions)), weights[t]),
                     Share(total, b.config.max_position_pct))]
BookTargets(b) == TargetsOf(b, BookTotal(b), HoldingWeights(b))

Distance(a, b) == Larger(Minus(a, b), Minus(b, a))

Line(h, target, minMove) ==
    IF ~h.managed \/ h.action \notin {"BUY", "HOLD"} THEN "SKIP"
    ELSE IF h.stale THEN "REVIEW"
    ELSE IF Less(Distance(Worth(h), target), minMove) THEN "HOLD"
    ELSE IF Less(target, Worth(h)) THEN "TRIM"
    ELSE IF h.action = "HOLD" THEN "HOLD" ELSE "TOP_UP"

Plan(b, targets) ==
    [t \in DOMAIN b.holdings |-> Line(b.holdings[t], targets[t], b.config.min_move)]

\* Mutant: the surplus is taken as a share of what the holding should be.
TrimOfTarget(h, target) == Smaller(One, Over(Minus(Worth(h), target), target))
TrimFraction(h, target) == Smaller(One, Over(Minus(Worth(h), target), Worth(h)))

FullExit == Percent(98)

\* None is neither what is held nor the account it is sized on.
ASSUME HeldAssumption ==
    None \notin PositionStates \cup [currency : {"USD"}, position : PositionStates]

\* The trim as generate_exit sizes it, on the mark: a trim of nearly
\* everything is a sale.
Trim(b, h, fraction) ==
    LET full == Leq(FullExit, fraction)
    IN  [action |-> IF full THEN "SELL" ELSE "REDUCE",
         reduce_fraction |-> IF full THEN None ELSE fraction,
         config |-> b.config,
         identity |-> [precision |-> None, currency |-> "USD"],
         quote |-> [bid |-> h.price, ask |-> h.price, currency |-> "USD"],
         fx |-> None,
         account |-> [currency |-> "USD",
                      position |-> [available |-> h.quantity, quantity |-> h.quantity,
                                    value |-> Worth(h)]]]

Trimmed(b, targets) == {t \in DOMAIN b.holdings : Plan(b, targets)[t] = "TRIM"}
Sales(b, trimmed, targets) ==
    [t \in trimmed |->
        SizeSell(Trim(b, b.holdings[t], TrimFraction(b.holdings[t], targets[t]))).quantity]

\* The book with sales filled at the mark.
Filled(b, sold) ==
    LET Left(t) == IF t \in DOMAIN sold THEN Minus(b.holdings[t].quantity, sold[t])
                   ELSE b.holdings[t].quantity
    IN  [b EXCEPT !.cash = Plus(@, TotalOf([t \in DOMAIN sold |->
                                               Times(sold[t], b.holdings[t].price)])),
                  !.holdings = [t \in {s \in DOMAIN b.holdings : Positive(Left(s))} |->
                                   [b.holdings[t] EXCEPT !.quantity = Left(t)]]]
AfterTrims(b, trimmed, targets) == Filled(b, Sales(b, trimmed, targets))

=============================================================================
