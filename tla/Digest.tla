------------------------------- MODULE Digest -------------------------------
(***************************************************************************)
(* What the packet says of long answers: the observations of a rate        *)
(* (summarize_series), the outcomes of a prediction market (_distribution, *)
(* _trim), the daily bars (AlpacaResearchProvider, compute_indicators) and *)
(* the reaction to an event (PriceReactionCalculator).  They are functions *)
(* of an answer, and an initial state is one answer; days, minutes, prices *)
(* and per cents are small numbers.                                        *)
(***************************************************************************)
EXTENDS Integers, FiniteSetsExt, SequencesExt

CONSTANTS
    Length,         \* of the answers
    Values,         \* of a rate, or a bar
    Chances,        \* of an outcome, in per cent
    Spans,          \* 7, 30 and 90 days, over which a change is told
    MaxLevels,      \* MACRO_SERIES_LEVELS
    MaxOutcomes, AlwaysKept, MinChance,     \* POLYMARKET_*
    MinRows,        \* SNAPSHOT_MIN_ROWS
    BarsKept, MaxWindow, Lookback,
    None

VARIABLE answer

\* An observation may be missing; a bar is absent when nothing was traded.
Serieses == {[kind |-> "series", rows |-> f] : f \in [1 .. Length -> Values \cup {None}]}
Books == {[kind |-> "book", rows |-> f] : f \in UNION {[1 .. n -> Chances] : n \in 1 .. Length}}
Tapes == {[kind |-> "tape", rows |-> f, event |-> e, asOf |-> a] :
            f \in [1 .. Length -> Values \cup {None}], e, a \in 1 .. Length}

Init == answer \in Serieses \cup Books \cup Tapes

Kind(k) == answer.kind = k

-----------------------------------------------------------------------------
(* A rate: the last Length days, newest first.                             *)

Row(d) == [day |-> d, value |-> answer.rows[d]]
Dated(d) == Row(d).value # None
DatedRows == SelectSeq([i \in 1 .. Length |-> Row(Length + 1 - i)], LAMBDA r : r.value # None)

\* Mutant: a level that has been seen before is continued.
ContinuesAny(levels, row) == \E l \in Range(levels) : l.value = row.value
Continues(levels, row) == levels # <<>> /\ Last(levels).value = row.value

\* The levels with one more row.
With(levels, row) ==
    IF Continues(levels, row)
    THEN [levels EXCEPT ![Len(levels)].since = row.day]
    ELSE Append(levels, [day |-> row.day, since |-> row.day, value |-> row.value])

Collapsed ==
    LET newest[n \in 0 .. Length] ==       \* of the n newest days
            IF n = 0 THEN <<>>
            ELSE LET d == Length + 1 - n
                 IN  IF Dated(d) THEN With(newest[n - 1], Row(d)) ELSE newest[n - 1]
    IN  newest[Length]

ChangeOver(span) ==
    LET prior == SelectSeq(DatedRows, LAMBDA r : r.day <= Head(DatedRows).day - span)
    IN  IF prior = <<>> THEN None ELSE Head(DatedRows).value - Head(prior).value

SummarizeSeries ==
    IF DatedRows = <<>> THEN None
    ELSE [latest |-> Head(DatedRows), change |-> [s \in Spans |-> ChangeOver(s)],
          low |-> Min({r.value : r \in Range(DatedRows)}), high |-> Max({r.value : r \in Range(DatedRows)}),
          levels |-> SubSeq(Collapsed, 1, Min({MaxLevels, Len(Collapsed)})),
          truncated |-> Len(Collapsed) > MaxLevels]

-----------------------------------------------------------------------------
(* A prediction market: its outcomes with their chances.                   *)

Ranked(rows) ==
    {i \in DOMAIN rows :
        Cardinality({j \in DOMAIN rows : rows[j] > rows[i] \/ (rows[j] = rows[i] /\ j < i)}) < AlwaysKept}
Keeps(rows, i) == i \in Ranked(rows) \/ rows[i] >= MinChance

Chance(rows, is) ==
    LET upto[n \in 0 .. Len(rows)] ==
            IF n = 0 THEN 0 ELSE upto[n - 1] + IF n \in is THEN rows[n] ELSE 0
    IN  upto[Len(rows)]

\* Mutant: what is left out is counted and not added up.
OmittedUncounted(rows) == 0
OmittedMass(rows) == Chance(rows, {i \in DOMAIN rows : ~Keeps(rows, i)})

\* What is kept, in the order of the market.
Kept(rows) ==
    LET upto[n \in 0 .. Len(rows)] ==
            IF n = 0 THEN <<>>
            ELSE IF Keeps(rows, n) THEN Append(upto[n - 1], n) ELSE upto[n - 1]
    IN  upto[Len(rows)]

Trim(rows) ==
    [kept |-> Kept(rows),
     omitted |-> Cardinality({i \in DOMAIN rows : ~Keeps(rows, i)}),
     mass |-> OmittedMass(rows)]

Distribution(rows) == Trim(SubSeq(rows, 1, Min({MaxOutcomes, Len(rows)})))

-----------------------------------------------------------------------------
(* Bars: a tape of Length periods, the event and the moment asked about.   *)

Traded == {t \in 1 .. Length : answer.rows[t] # None}
Completed == {t \in Traded : t + 1 <= answer.asOf}

\* Indicators are computed on all completed bars, and the table is cut after.
\* Mutant: on the table.
ComputedOfTable == {n \in DOMAIN MinRows : MinRows[n] <= Min({BarsKept, Cardinality(Completed)})}
Computed == {n \in DOMAIN MinRows : MinRows[n] <= Cardinality(Completed)}
Snapshot ==
    IF Completed = {} THEN None
    ELSE [latest |-> Max(Completed), indicators |-> Computed,
          rows |-> {t \in Completed : Cardinality({u \in Completed : u > t}) < BarsKept}]

WindowEnd == Min({answer.asOf, answer.event + MaxWindow})
Window == {t \in Traded : answer.event - Lookback <= t /\ t + 1 <= WindowEnd}

\* Mutant: the first bar of the window.
AtOrAfterWindow == Window
AtOrAfter == {t \in Window : t >= answer.event}

Priced ==
    IF AtOrAfter # {} THEN [at |-> Min(AtOrAfter), basis |-> "first_bar_at_or_after_event"]
    ELSE [at |-> Max(Window), basis |-> "last_bar_before_event"]

Reaction ==
    IF answer.event > answer.asOf \/ Window = {} THEN [status |-> "NO_DATA"]
    ELSE [status |-> "OK", at |-> Priced.at, basis |-> Priced.basis, reference |-> Max(Window),
          move |-> answer.rows[Max(Window)] - answer.rows[Priced.at]]

-----------------------------------------------------------------------------

\* "Nothing a macro backdrop is read for is lost": the levels that are listed
\* give every observation its value back, down to where they were cut.
LevelsTellTheSeries ==
    Kind("series") /\ SummarizeSeries # None =>
        LET s == SummarizeSeries
        IN  \A d \in {x \in 1 .. Length : Dated(x)} :
                \/ \E l \in Range(s.levels) : l.since <= d /\ d <= l.day /\ l.value = Row(d).value
                \/ s.truncated /\ d < Last(s.levels).since

\* "Order is not disturbed and no bucket is silently dropped": what is listed
\* and what is summed up are the book (_trim).
TrimKeepsTheBook ==
    Kind("book") =>
        LET t == Trim(answer.rows)
        IN  /\ \A i, j \in DOMAIN t.kept : i < j => t.kept[i] < t.kept[j]
            /\ Len(t.kept) + t.omitted = Len(answer.rows)
            /\ Chance(answer.rows, Range(t.kept)) + t.mass = Chance(answer.rows, DOMAIN answer.rows)

\* A move that calls itself a reaction begins after the event and ends before
\* the moment it is told about (PriceReactionCalculator.compute).
ReactionFollowsEvent ==
    Kind("tape") /\ Reaction.status = "OK" =>
        /\ Reaction.basis = "first_bar_at_or_after_event" => answer.event <= Reaction.at
        /\ Reaction.at <= Reaction.reference /\ Reaction.reference < answer.asOf

\* An indicator that needs more rows than the table shows is there as long as
\* the history had them.
SnapshotIsFull ==
    Kind("tape") /\ Snapshot # None =>
        {n \in DOMAIN MinRows : MinRows[n] <= Cardinality({t \in Traded : t < answer.asOf})}
            \subseteq Snapshot.indicators

\* A digest says no more and no less than the answer it stands for.
DigestsAreFaithful ==
    LevelsTellTheSeries /\ TrimKeepsTheBook /\ ReactionFollowsEvent /\ SnapshotIsFull

\* "The whole outcome distribution, each bucket under its own label."
WholeDistribution ==
    Kind("book") =>
        LET t == Distribution(answer.rows) IN Len(t.kept) + t.omitted = Len(answer.rows)
=============================================================================
