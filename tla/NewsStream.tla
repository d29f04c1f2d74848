----------------------------- MODULE NewsStream ------------------------------
(***************************************************************************)
(* The news stream: _run_news_stream, _backfill_news_gap and               *)
(* _record_news_watermark of services.py, AlpacaNewsClient of              *)
(* ingestion/alpaca_news.py and handle_alpaca_backfill.                    *)
(*                                                                         *)
(* An article is named by the tick it was published at (created_at), one a *)
(* tick, and appears at that tick or later: a wire is not in the order of  *)
(* publication.  What has appeared is on the wire and in the historical    *)
(* news.  Which articles repeat a known headline, and so create no event,  *)
(* and which come without a date, is given.                                *)
(***************************************************************************)
EXTENDS Integers, SequencesExt, FiniteSetsExt

CONSTANTS
    LastTick,       \* bound of the clock
    Brief,          \* the gap that is not backfilled: one minute
    MaxBackfill,    \* MAX_BACKFILL
    Limit,          \* articles of one backfill
    Repeats,        \* articles whose headline is that of a known event
    Undated,        \* articles that do not say when they were published
    MaxTries,       \* attempts of a job
    MaxRestarts, MaxFaults, \* bounds: ends of the process; lost connections and failed calls
    None

VARIABLES
    now,
    articles,       \* those that have appeared
    stored,         \* the articles that were ingested
    watermark,      \* last_seen_at, None before the first event
    stream,         \* "down", "starting", "connecting", "live", or "dead" until a restart
    inbox,          \* frames received and not yet consumed
    job,            \* the outstanding backfill, None without one
    restarts, faults,
    noted,          \* history: the times of the articles whose events moved the watermark
    missed,         \* history: what appeared or was dropped since the task ended
    cut,            \* history: what appeared or was dropped without a subscription
    owed            \* history: what was missed and a start has had to ask for

history == <<noted, missed, cut, owed>>
vars == <<now, articles, stored, watermark, stream, inbox, job, restarts, faults, history>>

Init ==
    /\ now = 0 /\ articles = {} /\ stored = {} /\ watermark = None
    /\ stream = "starting" /\ inbox = <<>> /\ job = None
    /\ restarts = 0 /\ faults = 0
    /\ noted = {} /\ missed = {} /\ cut = {} /\ owed = {}

Tick ==
    /\ now < LastTick /\ now' = now + 1
    /\ UNCHANGED <<articles, stored, watermark, stream, inbox, job, restarts, faults, history>>

\* An article of now or of an earlier tick appears, in any order: a live connection
\* receives it.
Appear(a) ==
    /\ a <= now /\ a \notin articles /\ articles' = articles \cup {a}
    /\ inbox' = IF stream = "live" THEN Append(inbox, a) ELSE inbox
    /\ missed' = IF stream \in {"down", "starting", "dead"} THEN missed \cup {a} ELSE missed
    /\ cut' = IF stream = "connecting" THEN cut \cup {a} ELSE cut
    /\ UNCHANGED <<now, stored, watermark, stream, job, restarts, faults, noted, owed>>

Fault == faults < MaxFaults /\ faults' = faults + 1

-----------------------------------------------------------------------------
(* The process.                                                            *)

\* A backfill of the articles from start to end, with those of a running attempt
\* that are still to be ingested.
Jobs == [start : Int, end : Int, tries : Nat, batch : {None} \cup SUBSET (1 .. LastTick)]

\* A running backfill whose process or call is gone: tried again within its budget.
Abandoned ==
    CASE job = None -> None
      [] job # None /\ job.batch # None /\ job.tries = MaxTries -> None
      [] OTHER -> [job EXCEPT !.batch = None]

\* The task ends: what it had received is lost, but for an article that is stored
\* and whose watermark was still to be written.
Dropped ==
    /\ inbox' = <<>> /\ missed' = missed \cup ToSet(inbox)
    /\ \/ UNCHANGED stored
       \/ inbox # <<>> /\ stored' = stored \cup {Head(inbox)}

Die ==
    /\ stream # "down" /\ restarts < MaxRestarts /\ restarts' = restarts + 1
    /\ stream' = "down" /\ Dropped /\ job' = Abandoned
    /\ UNCHANGED <<now, articles, watermark, faults, noted, cut, owed>>

Restart ==
    /\ stream = "down" /\ stream' = "starting"
    /\ UNCHANGED <<now, articles, stored, watermark, inbox, job, restarts, faults, history>>

\* The window a start asks for, None where there is no gap to close.
Window ==
    IF watermark = None \/ now - watermark <= Brief THEN None
    ELSE [start |-> Max({watermark, now - MaxBackfill}), end |-> now]

\* What a start has had to ask for, said of what was noted and not of the watermark:
\* what was missed, was published since the last of the noted and within MAX_BACKFILL,
\* when that gap is not brief and less than one backfill takes can come before it.
Due ==
    {a \in missed :
        /\ now - a <= MaxBackfill /\ \A b \in noted : b <= a /\ now - b > Brief
        /\ \E b \in noted : a - b < Limit \/ a - (now - MaxBackfill) < Limit}

\* _backfill_news_gap, before anything else: the dedupe key keeps one outstanding.
Start ==
    /\ stream = "starting" /\ stream' = "connecting"
    /\ job' = IF Window = None \/ job # None THEN job
              ELSE [start |-> Window.start, end |-> Window.end, tries |-> 0, batch |-> None]
    /\ owed' = owed \cup Due /\ missed' = {}
    /\ UNCHANGED <<now, articles, stored, watermark, inbox, restarts, faults, noted, cut>>

-----------------------------------------------------------------------------
(* The connection.                                                         *)

\* Connected, authenticated and subscribed.
Connect ==
    /\ stream = "connecting" /\ stream' = "live"
    /\ UNCHANGED <<now, articles, stored, watermark, inbox, job, restarts, faults, history>>

\* The credential or the plan is refused, or an article cannot be ingested: the
\* task ends until the process is started again.
Stop ==
    /\ stream \in {"connecting", "live"} /\ Fault /\ stream' = "dead" /\ Dropped
    /\ UNCHANGED <<now, articles, watermark, job, restarts, noted, cut, owed>>

\* The connection is lost, or a frame is not what is documented.
Disconnect ==
    /\ stream = "live" /\ Fault /\ stream' = "connecting" /\ inbox' = <<>>
    /\ cut' = cut \cup ToSet(inbox)
    /\ UNCHANGED <<now, articles, stored, watermark, job, restarts, noted, missed, owed>>

\* The last article received in the place of the latest.
Overwritten(seen) == seen

\* _record_news_watermark: only ever forward.
Advanced(seen) == IF watermark # None /\ watermark >= seen THEN watermark ELSE seen

\* Without a date it is as old as its receipt.
PublishedAt(a) == IF a \in Undated THEN now ELSE a

\* Only a document that creates an event moves the watermark.
Consume ==
    /\ stream = "live" /\ inbox # <<>>
    /\ LET a == Head(inbox) IN
       /\ stored' = stored \cup {a}
       /\ \/ a \in stored \cup Repeats /\ UNCHANGED <<watermark, noted>>
          \/ /\ a \notin stored \cup Repeats
             /\ watermark' = Advanced(PublishedAt(a)) /\ noted' = noted \cup {PublishedAt(a)}
    /\ inbox' = Tail(inbox)
    /\ UNCHANGED <<now, articles, stream, job, restarts, faults, missed, cut, owed>>

-----------------------------------------------------------------------------
(* The backfill.                                                           *)

Running == job # None /\ job.batch # None

\* The oldest of the window, up to the limit.
Fetched(w) ==
    LET inside == {a \in articles : a \in w.start..w.end}
    IN  {a \in inside : Cardinality({b \in inside : b < a}) < Limit}

Backfill ==
    /\ stream # "down" /\ job # None /\ ~Running
    /\ job' = [job EXCEPT !.tries = @ + 1, !.batch = Fetched(job)]
    /\ UNCHANGED <<now, articles, stored, watermark, stream, inbox, restarts, faults, history>>

BackfillIngests ==
    /\ Running /\ job.batch # {}
    /\ stored' = stored \cup {Min(job.batch)}
    /\ job' = [job EXCEPT !.batch = @ \ {Min(@)}]
    /\ UNCHANGED <<now, articles, watermark, stream, inbox, restarts, faults, history>>

\* A call fails; the last attempt gives the window up.
BackfillFails ==
    /\ Running /\ Fault
    /\ job' = IF job.tries < MaxTries THEN Abandoned ELSE None
    /\ UNCHANGED <<now, articles, stored, watermark, stream, inbox, restarts, history>>

BackfillEnds ==
    /\ Running /\ job.batch = {} /\ job' = None
    /\ UNCHANGED <<now, articles, stored, watermark, stream, inbox, restarts, faults, history>>

Next ==
    \/ Tick \/ \E a \in 1 .. LastTick : Appear(a)
    \/ Die \/ Restart \/ Start \/ Connect \/ Stop \/ Disconnect \/ Consume
    \/ Backfill \/ BackfillIngests \/ BackfillFails \/ BackfillEnds

Spec == Init /\ [][Next]_vars

-----------------------------------------------------------------------------
(* Properties.                                                             *)

\* _backfill_news_gap closes the gap since the last article seen, in whatever order
\* articles came: with no backfill outstanding, what a start had to ask for is stored.
DowntimeIsCovered ==
    job = None /\ stream \in {"connecting", "live", "dead"} => owed \subseteq stored

\* services.py, NEWS_WATERMARK_KEY: "so a restart backfills the gap rather than
\* silently losing whatever arrived while the process was down".  A start that asks at
\* all asks for whatever arrived; but an article that was published before the
\* watermark and appeared in the downtime is outside the window.
ArrivalsAreAsked ==
    [][stream = "starting" /\ stream' = "connecting" /\ Window # None
           => {a \in missed : now - a <= MaxBackfill} \subseteq Window.start .. Window.end]_vars

\* handle_alpaca_backfill closes a news gap after a WebSocket disconnect: a stream
\* that is live, with no backfill outstanding, has lost nothing to the time without
\* a subscription.
ReconnectIsCovered ==
    stream = "live" /\ job = None => cut \subseteq stored
=============================================================================
