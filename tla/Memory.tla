------------------------------- MODULE Memory --------------------------------
(***************************************************************************)
(* Thesis memory: intelligence/memory.py.  A tick records one outcome for  *)
(* every executed trade that came from a thesis (record), and grades what  *)
(* is pending against the daily closes (grade), at checkpoints and, for a  *)
(* purchase, when its position is gone.                                    *)
(*                                                                         *)
(* All trades are of one listing, whose position the broker holds (owned)  *)
(* and the last account sync mirrors (held).  A close is the day it is of; *)
(* what it says of the thesis is left out.                                 *)
(***************************************************************************)
EXTENDS Integers, Sequences, FiniteSetsExt

CONSTANTS
    Trades,
    Entries,        \* the trades that buy; the others sell, by research or as an exit
    Unpriced,       \* trades without a usable symbol or currency at the bar source
    Due,            \* CHECKPOINTS: the sessions after which a checkpoint is due
    Tolerance,      \* ENTRY_BAR_TOLERANCE_DAYS
    MaxBars,        \* MAX_BARS_DAYS
    RowLimit,       \* the limit of _load_pending
    LastEntry, MaxLosses,   \* bounds: the last day of a trade, dead ticks
    None

LastDay == LastEntry + MaxBars + 1     \* from here on every outcome is beyond the window

VARIABLES
    day,
    closes,     \* the sessions the source has a close of
    history,    \* executed trades, oldest first
    at,         \* the day of a trade
    owned, held,
    status,     \* ThesisOutcome.status, ABSENT before record
    fresh,      \* outcomes tried less than _MIN_REFRESH_INTERVAL ago
    graded,     \* the checkpoints of an outcome that have a grade
    tick,       \* what a running grade has loaded and fetched, None without one
    losses

vars == <<day, closes, history, at, owned, held, status, fresh, graded, tick, losses>>
trade == <<history, at, owned>>
outcomes == <<status, fresh, graded>>

Init ==
    /\ day = 0 /\ closes = {} /\ history = <<>> /\ at = [t \in Trades |-> None]
    /\ owned = FALSE /\ held = FALSE
    /\ status = [t \in Trades |-> "ABSENT"] /\ fresh = {}
    /\ graded = [t \in Trades |-> {}]
    /\ tick = None /\ losses = 0

-----------------------------------------------------------------------------
(* The world.                                                              *)

\* A purchase opens the position; a sale may leave some of it.
Execute(t) ==
    /\ t \notin Range(history) /\ day <= LastEntry /\ (t \in Entries \/ owned)
    /\ history' = Append(history, t) /\ at' = [at EXCEPT ![t] = day]
    /\ owned' \in (IF t \in Entries THEN {TRUE} ELSE BOOLEAN)
    /\ UNCHANGED <<day, closes, held, outcomes, tick, losses>>

\* The operator sells in the broker's own app.
SoldElsewhere ==
    /\ owned /\ owned' = FALSE
    /\ UNCHANGED <<day, closes, history, at, held, outcomes, tick, losses>>

SyncAccount ==
    /\ held # owned /\ held' = owned
    /\ UNCHANGED <<day, closes, trade, outcomes, tick, losses>>

Session ==
    /\ day \notin closes /\ closes' = closes \cup {day}
    /\ UNCHANGED <<day, trade, held, outcomes, tick, losses>>

\* Beyond LastDay nothing but the time since an attempt changes.
NextDay ==
    /\ day' = IF day < LastDay THEN day + 1 ELSE day
    /\ fresh' = {}
    /\ UNCHANGED <<closes, trade, held, status, graded, tick, losses>>

-----------------------------------------------------------------------------
(* What the bars say.                                                      *)

EntryBar(bars, d) ==
    LET from == {b \in bars : b >= d} IN IF from = {} THEN None ELSE Min(from)

BarOnOrBefore(bars, d) ==
    LET upto == {b \in bars : b <= d} IN IF upto = {} THEN None ELSE Max(upto)

TradingDaysAfter(bars, d) == Cardinality({b \in bars : b > d})

\* The latest executed sale after an entry; the day it settled on.
SoldAt(t) ==
    LET later == {i \in DOMAIN history :
                    /\ history[i] \notin Entries
                    /\ \E j \in 1 .. (i - 1) : history[j] = t}
    IN  IF later = {} THEN None ELSE at[history[Max(later)]]

-----------------------------------------------------------------------------
(* tick: record, then grade.                                               *)

Pending == {t \in Trades : status[t] = "PENDING"}
Older(t) == {u \in Pending : \E i, j \in DOMAIN history : i < j /\ history[i] = u /\ history[j] = t}

Record ==
    /\ \E t \in Range(history) : status[t] = "ABSENT"
    /\ status' = [t \in Trades |->
                    IF t \in Range(history) /\ status[t] = "ABSENT" THEN "PENDING" ELSE status[t]]
    /\ UNCHANGED <<day, closes, trade, held, fresh, graded, tick, losses>>

\* The rows are cut to the oldest before the fresh ones are skipped.
Considered == {t \in Pending : Cardinality(Older(t)) < RowLimit} \ fresh

Load ==
    /\ tick = None /\ Considered # {}
    /\ \E got \in {None, closes} :      \* None: the source failed
        tick' = [todo |-> Considered, bars |-> got, held |-> held,
                 sold |-> [t \in Considered |-> SoldAt(t)]]
    /\ UNCHANGED <<day, closes, trade, held, outcomes, losses>>

Turn(t) ==      \* the outcomes in their order, the last one ends the tick
    /\ tick # None /\ t \in tick.todo /\ Older(t) \cap tick.todo = {}
    /\ tick' = IF tick.todo = {t} THEN None ELSE [tick EXCEPT !.todo = @ \ {t}]
    /\ fresh' = fresh \cup {t}
    /\ UNCHANGED <<day, closes, trade, held, losses>>

\* Mutant: an outcome that never finds its bar is tried for ever.
OutOfReachUnpriced(t) == t \in Unpriced

OutOfReach(t) == day - at[t] > MaxBars \/ t \in Unpriced

Abandon(t) ==
    /\ Turn(t) /\ OutOfReach(t)
    /\ status' = [status EXCEPT ![t] = "ABANDONED"]
    /\ UNCHANGED graded

\* The fetch succeeded, with a bar of the entry or of a session soon after it.
HasEntry(t) ==
    /\ tick.bars # None
    /\ LET entry == EntryBar(tick.bars, at[t]) IN entry # None /\ entry - at[t] <= Tolerance

StampAttempt(t) ==
    /\ Turn(t) /\ ~OutOfReach(t)
    /\ ~HasEntry(t)
    /\ UNCHANGED <<status, graded>>

NowDue(t) == {k \in DOMAIN Due : TradingDaysAfter(tick.bars, at[t]) >= Due[k]}

\* A purchase ends with its position, at the sale or else today.
Ends(t) == t \in Entries /\ ~tick.held
CloseOf(t) == BarOnOrBefore(tick.bars, IF tick.sold[t] # None THEN tick.sold[t] ELSE day)

\* Everything else after its last checkpoint.
Complete(t, grades) == t \notin Entries /\ DOMAIN Due \subseteq grades

GradeOne(t) ==
    /\ Turn(t) /\ ~OutOfReach(t)
    /\ HasEntry(t)
    /\ LET closing == Ends(t) /\ CloseOf(t) # None
           grades == graded[t] \cup NowDue(t) \cup (IF closing THEN {"CLOSE"} ELSE {})
       IN  /\ graded' = [graded EXCEPT ![t] = grades]
           /\ status' = [status EXCEPT ![t] =
                            IF closing \/ Complete(t, grades) THEN "CLOSED" ELSE @]

\* The process dies in the middle of a tick.
Die ==
    /\ tick # None /\ losses < MaxLosses /\ losses' = losses + 1
    /\ tick' = None
    /\ UNCHANGED <<day, closes, trade, held, outcomes>>

Grade == \E t \in Trades : Abandon(t) \/ StampAttempt(t) \/ GradeOne(t)

Next ==
    \/ \E t \in Trades : Execute(t) \/ Abandon(t) \/ StampAttempt(t) \/ GradeOne(t)
    \/ SoldElsewhere \/ SyncAccount \/ Session \/ NextDay
    \/ Record \/ Load \/ Die

\* The scheduler runs the tick, and days pass; sessions, trades and syncs may fail to come.
Fairness == WF_vars(NextDay) /\ WF_vars(Record) /\ WF_vars(Load) /\ WF_vars(Grade)

Spec == Init /\ [][Next]_vars /\ Fairness

-----------------------------------------------------------------------------

\* Every recorded outcome leaves the pending rows, whatever the bar source, the account
\* and the process do: the loop would otherwise fetch its symbol for ever (the sweep of
\* grade with _abandon, _stamp_attempt and _grade_one).
EveryOutcomeRetires == \A t \in Trades :
    status[t] = "PENDING" ~> status[t] \in {"CLOSED", "ABANDONED"}
=============================================================================
