------------------------------ MODULE Evidence ------------------------------
(***************************************************************************)
(* What a research run is told: the packet of research_service.py (packet, *)
(* request, _enrich and the part of run that surrounds it), and the        *)
(* supplemental sources of research_data.py and research_expectations.py.  *)
(*                                                                         *)
(* A packet is about one moment, asked.  Its documents are chosen then;    *)
(* the six sources are read when a worker comes to it, later, one after    *)
(* another, and again when the run is retried.  Time is in ticks, DayLength*)
(* of them a day, and a provider's date is the day of a tick.  A row of a  *)
(* provider has the date it is about and the tick it became public; an     *)
(* item of the packet is the source it came from and that tick.            *)
(***************************************************************************)
EXTENDS Integers, FiniteSetsExt, SequencesExt

CONSTANTS
    Documents,  \* of the event, [published, received]; published may be None
    Releases,   \* of the rates: [about, from, to], a vintage is what is in effect
    Reports,    \* periodic reports of the company: [about, public]
    Ratings, Insider, Earnings,     \* rows of the expectations: [about, public]
    Event,      \* the tick of the event
    Configured, \* sources with a key, or switched on
    DayLength, Chicago, LastTick,
    Tolerance,  \* LIVE_CUTOFF_TOLERANCE
    Timeout,    \* what a request may take
    MaxAttempts,
    None

VARIABLES
    now,
    asked,      \* as_of of the run
    documents,  \* evidence
    context,    \* market_context: what each fetch added, in its order
    degraded,   \* degradation: the sources named
    stage,      \* the sources already asked in this attempt
    waiting,    \* since when the current source is being read
    attempts

vars == <<now, asked, documents, context, degraded, stage, waiting, attempts>>

Day(t) == t \div DayLength
ChicagoDay(t) == (t - Chicago) \div DayLength

Sources == <<"fred", "alpaca", "sec", "finnhub", "yfinance", "polymarket">>

Init ==
    /\ now = Event /\ asked = None
    /\ documents = {} /\ context = <<>> /\ degraded = <<>>
    /\ stage = 0 /\ waiting = None /\ attempts = 0

\* The run is under a timeout of its own, and its requests have theirs.
Tick ==
    /\ now < LastTick
    /\ waiting # None => now < waiting + Timeout
    /\ now' = now + 1
    /\ UNCHANGED <<asked, documents, context, degraded, stage, waiting, attempts>>

-----------------------------------------------------------------------------
(* The request: the documents of the event that were out by then.          *)

Published(d) == IF d.published # None THEN d.published ELSE d.received

\* Without a document there is no packet.
Request ==
    /\ asked = None
    /\ documents' = {d \in Documents : d.received <= now /\ Published(d) <= now}
    /\ documents' # {}
    /\ asked' = now
    /\ UNCHANGED <<now, context, degraded, stage, waiting, attempts>>

-----------------------------------------------------------------------------
(* The sources.  Each answers a set of items, or None when it raises.      *)

Items(source, ticks) == {[source |-> source, public |-> t] : t \in ticks}
OrRaise(items) == IF items = {} THEN None ELSE items

\* What a provider can show of its rows.
Out(rows) == {r \in rows : r.public <= now}

\* Mutant: the analysis day itself.
VintageOfToday == ChicagoDay(Min({asked, now}))
Vintage == ChicagoDay(Min({asked, now})) - 1

InEffect == {r \in Releases :
    /\ r.about <= Vintage
    /\ ChicagoDay(r.from) <= Vintage /\ Vintage <= ChicagoDay(r.to)}
Fred == Items("fred", {r.from : r \in InEffect})

\* Daily bars start with the day, minute bars with the tick; the last of each
\* is still in progress when it is handed out.
DailyBars == {t \in 0 .. asked : t % DayLength = 0}
Completed == {t \in DailyBars : t + DayLength <= asked}
MinuteBars == {t \in (Event - 1) .. asked : t + 1 <= asked}

\* The reaction is measured on what there is: without minute bars it says so.
Alpaca(minutes) ==
    IF Completed = {} THEN None
    ELSE Items("alpaca", {t + DayLength : t \in Completed}
            \cup (IF minutes THEN {t + 1 : t \in MinuteBars} ELSE {}))

\* Mutant: a report is known from the end of its period.
FiledByPeriod(r) == r.about <= Day(asked)
FiledBy(r) == Day(r.public) <= Day(asked)

Sec == OrRaise(Items("sec", {r.public : r \in {x \in Out(Reports) : FiledBy(x)}}))

\* Of the three lists any may fail; a trade is known by its filing, the other
\* two go by the period they are about.
KnownOf(rows) == {r.public : r \in {x \in Out(rows) : x.about <= Day(asked)}}
FiledOf(rows) == {r.public : r \in {x \in Out(rows) : Day(x.public) <= Day(asked)}}
Finnhub(lists) ==
    OrRaise(Items("finnhub",
        UNION { IF "ratings" \in lists THEN KnownOf(Ratings) ELSE {},
                IF "insider" \in lists THEN FiledOf(Insider) ELSE {},
                IF "earnings" \in lists THEN KnownOf(Earnings) ELSE {} }))

YFinance == Items("yfinance", {now})
Polymarket == Items("polymarket", {now})

\* Mutant: whatever the cutoff.
LiveAlways == TRUE
Live == now - asked <= Tolerance
CurrentOnly == {"finnhub", "yfinance", "polymarket"}

Contexts(s) ==
    CASE s = "fred" -> {Fred}
      [] s = "alpaca" -> {Alpaca(b) : b \in BOOLEAN}
      [] s = "sec" -> {Sec}
      [] s = "finnhub" -> {Finnhub(l) : l \in SUBSET {"ratings", "insider", "earnings"}}
      [] s = "yfinance" -> {YFinance}
      [] s = "polymarket" -> {Polymarket}

-----------------------------------------------------------------------------
(* _enrich: one source after the other, and none of them ends the run.     *)

Enriching == asked # None /\ stage < Len(Sources) /\ attempts < MaxAttempts
Source == Sources[stage + 1]

Degrade ==
    /\ degraded' = Append(degraded, Source)
    /\ stage' = stage + 1 /\ waiting' = None
    /\ UNCHANGED context

Skip ==
    /\ Enriching /\ waiting = None /\ Source \notin Configured
    /\ Degrade
    /\ UNCHANGED <<now, asked, documents, attempts>>

\* A source that only knows the present is asked about the present.
Ask ==
    /\ Enriching /\ waiting = None /\ Source \in Configured
    /\ IF Source \in CurrentOnly /\ ~Live
       THEN Degrade
       ELSE waiting' = now /\ UNCHANGED <<context, degraded, stage>>
    /\ UNCHANGED <<now, asked, documents, attempts>>

Answer ==
    /\ Enriching /\ waiting # None
    /\ \/ \E c \in Contexts(Source) \ {None} :
            /\ context' = Append(context, [source |-> Source, items |-> c])
            /\ stage' = stage + 1 /\ waiting' = None
            /\ UNCHANGED degraded
       \/ Degrade
    /\ UNCHANGED <<now, asked, documents, attempts>>

\* The enriched packet is saved before it is analysed; a provider of models
\* without capacity sends the run back, and the next attempt enriches what
\* was saved.
Again ==
    /\ asked # None /\ stage = Len(Sources) /\ attempts + 1 < MaxAttempts
    /\ attempts' = attempts + 1 /\ stage' = 0
    /\ UNCHANGED <<now, asked, documents, context, degraded, waiting>>

Next == Tick \/ Request \/ Skip \/ Ask \/ Answer \/ Again
Spec == Init /\ [][Next]_vars

-----------------------------------------------------------------------------
(* What could have been known.  A source that is dated by day tells what   *)
(* its day told, one that knows the present is allowed to be a little late.*)

EndOfDay(t) == (Day(t) + 1) * DayLength - 1
Horizon(s) ==
    CASE s \in {"fred", "alpaca"} -> asked
      [] s = "sec" -> EndOfDay(asked)
      [] s \in CurrentOnly -> asked + Tolerance + Timeout

Told == UNION {c.items : c \in Range(context)}

\* However late the sources are read, a run reasons from what the moment it
\* is about could have known (require_live_cutoff, the FRED vintage, completed
\* bars, and facts by the day they were filed).
KnowableAtCutoff ==
    /\ \A d \in documents : Published(d) <= asked
    /\ \A i \in Told : i.public <= Horizon(i.source)

\* "A quarter that ended before the analysis instant but was reported after it
\* was not knowable at the cutoff" (SecXbrlFundamentalsProvider).
NothingFromLater == \A i \in Told : i.source = "sec" => i.public <= asked

\* A packet hears each source once, and does not also call it unavailable
\* (_enrich; ProviderDegradation).
HeardOnce ==
    /\ \A i, j \in DOMAIN context : context[i].source = context[j].source => i = j
    /\ \A c \in Range(context) : c.source \notin Range(degraded)
=============================================================================
