------------------------------ MODULE MCIntake ------------------------------
(***************************************************************************)
(* What enters the program and what it shows of itself, one part after the *)
(* other: an initial state chooses the part that runs, and the others stay *)
(* where they started, each in one state.  "feeds" are the polls of one    *)
(* wire and of one company's filings, "news" is the stream through one     *)
(* restart, "readiness" and "board" are Health asked by requests, and      *)
(* written by the startup sweep and the schedule, "preferences" are savers *)
(* and readers, "evidence" is one research run and its retries, and        *)
(* "digest" are the answers it shortens.                                   *)
(***************************************************************************)
EXTENDS Integers, FiniteSets, TLC

CONSTANTS
    Parts,          \* the parts a run explores
    Pollers, None,
    LastNews, Brief, MaxBackfill, Limit, Repeats, Undated, \* NewsStream
    MaxTries, MaxRestarts, MaxFaults,
    Requests, Deployed, Plan, MaxAge, ProbeTimeout, LastSecond, MaxRecords,      \* Health
    Categories, Locked, Default, Savers, Readers, Changes, TTL, LastLook,       \* Preferences
    MaxSaves,
    EventDocuments, Releases, Reports, Ratings, Insider, Earnings, Event,            \* Evidence
    Configured, DayLength, Chicago, LastTick, Tolerance, Timeout, MaxAttempts,
    Length, Values, Chances, Spans, MaxLevels, MaxOutcomes, AlwaysKept, MinChance,   \* Digest
    MinRows, BarsKept, MaxWindow, Lookback

VARIABLES
    part,
    feed, published, sources, events, archived, of, claim, poll, failures,
    clock, articles, stored, watermark, stream, inbox, job, restarts, faults,
    noted, missed, cut, owed,
    second, up, lastUp, status, checked, records, sweep, request, ready, lock, mirror,
    time, row, cache, queue, reading, saver, asker, saves,
    versions, wrote, saved,
    now, asked, documents, context, degraded, stage, waiting, attempts,
    answer

feeding == <<feed, published, sources, events, archived, of, claim, poll, failures>>
streaming ==
    <<clock, articles, stored, watermark, stream, inbox, job, restarts, faults,
      noted, missed, cut, owed>>
showing ==
    <<second, up, lastUp, status, checked, records, sweep, request, ready, lock, mirror>>
preferring == <<time, row, cache, queue, reading, saver, asker, saves, versions, wrote, saved>>
enriching == <<now, asked, documents, context, degraded, stage, waiting, attempts>>

-----------------------------------------------------------------------------
(* The instances.                                                          *)

\* Two languages of one release, a headline that recurs, and one that is routine and unsound.
Item(release, language, category, headline, routine) ==
    [release |-> release, language |-> language, category |-> category,
     headline |-> headline, routine |-> routine, sound |-> ~routine]
Filing(release, form, primary, wanted) ==
    [release |-> release, form |-> form, primary |-> primary, wanted |-> wanted]

F == INSTANCE Feeds WITH
    Wire <- <<Item("r1", "fr", "regulatory", "h1", FALSE),
              Item("r1", "en", "regulatory", "h1en", FALSE),
              Item("r2", "en", "regulatory", "h1", FALSE),
              Item("r3", "en", "other", "h1", FALSE),
              Item("r4", "es", "other", "h3", TRUE)>>,
    Filings <- <<Filing("a1", "8-K", TRUE, TRUE), Filing("a2", "4", FALSE, TRUE),
                 Filing("a3", "4", FALSE, TRUE), Filing("a4", "8-K", TRUE, TRUE),
                 Filing("a5", "3", TRUE, FALSE)>>,
    Wires <- {"investegate", "cnmv_ip", "globenewswire", "sec"},
    MaxPages <- 2, PageSize <- 2, SecLimit <- 3, MaxFaults <- 1,
    job <- claim, faults <- failures

N == INSTANCE NewsStream WITH
    LastTick <- LastNews, now <- clock

H == INSTANCE Health WITH
    Configured <- Deployed, Timeout <- ProbeTimeout, now <- second

P == INSTANCE Preferences WITH LastTick <- LastLook, now <- time

E == INSTANCE Evidence WITH Documents <- EventDocuments

D == INSTANCE Digest

\* What the theorems take of the constants.
ASSUME IntakeAssumption ==
    /\ {LastNews, Brief, MaxBackfill, Limit, MaxTries, MaxRestarts, MaxFaults} \subseteq Nat
    /\ None \notin N!Jobs \cup [start : Int, end : Int] /\ \A batch \in SUBSET (1 .. LastNews) : batch # None
    /\ {Length, MaxLevels} \subseteq Nat \ {0} /\ {MaxWindow, Lookback} \subseteq Nat
    /\ Values \subseteq Int /\ Chances \subseteq Nat /\ None \notin Values
    /\ None \notin D!Serieses \cup D!Books \cup D!Tapes
    /\ {MaxAge, ProbeTimeout, Event, DayLength, Tolerance, Timeout} \subseteq Nat
    /\ MaxAge > 0 /\ DayLength > 0 /\ Chicago \in Int
    /\ None \notin H!Statuses \cup {"ask", "lock", "refresh"} /\ None \notin Nat
    /\ IsFiniteSet(Plan) /\ "postgres" \notin Plan
    /\ Savers \cap Readers = {}
    /\ None \notin [step : {"current", "write", "forget", "refresh"}, changes : Changes,
                    merged : {None} \cup [Categories -> BOOLEAN]]
    /\ \A r \in Releases : {r.about, r.from, r.to} \subseteq Int
    /\ \A r \in Reports \cup Ratings \cup Insider \cup Earnings :
          {r.about, r.public} \subseteq Int

-----------------------------------------------------------------------------

Start ==
    /\ part \in Parts
    /\ F!Init /\ (part # "feeds" => feed = CHOOSE f \in F!Feeds : TRUE)
    /\ N!Init
    /\ H!Init /\ (part \notin {"readiness", "board"} => up)
    /\ P!Init /\ E!Init
    /\ IF part = "digest" THEN D!Init ELSE answer = None

\* What is on the board but for the database.
measured == [p \in Deployed \ {"postgres"} |-> status[p]]

Step ==
    /\ UNCHANGED <<part, answer>>
    /\ \/ part = "feeds" /\ F!Next /\ UNCHANGED <<streaming, showing, preferring, enriching>>
       \/ part = "news" /\ N!Next /\ UNCHANGED <<feeding, showing, preferring, enriching>>
       \/ part = "readiness" /\ H!Next /\ UNCHANGED <<sweep, measured>>
          /\ UNCHANGED <<feeding, streaming, preferring, enriching>>
       \/ part = "board" /\ H!Next /\ UNCHANGED <<request, ready>> /\ second' <= 1
          /\ UNCHANGED <<feeding, streaming, preferring, enriching>>
       \/ part = "preferences" /\ P!Next /\ UNCHANGED <<feeding, streaming, showing, enriching>>
       \/ part = "evidence" /\ E!Next /\ UNCHANGED <<feeding, streaming, showing, preferring>>

Explored ==
    /\ Start
    /\ [][Step]_<<part, answer, feeding, streaming, showing, preferring, enriching>>

-----------------------------------------------------------------------------
(* The values of the run.                                                  *)

Switches == [proposal |-> TRUE, execution_critical |-> TRUE, summary |-> FALSE]
Updates == {[proposal |-> FALSE], [summary |-> TRUE, execution_critical |-> FALSE]}

Document(told, received) == [published |-> told, received |-> received]
Report(about, public) == [about |-> about, public |-> public]
Rate(about, from, to) == [about |-> about, from |-> from, to |-> to]

Papers == {Document(5, 5), Document(None, 6), Document(7, 6)}
Rates == {Rate(0, 3, 5), Rate(0, 6, 99), Rate(1, 9, 99)}
Periodic == {Report(0, 2), Report(1, 6), Report(1, 8)}
Trades == {Report(1, 6), Report(0, 8)}
Results == {Report(1, 7)}

Indicators == [sma2 |-> 2, sma4 |-> 4]

-----------------------------------------------------------------------------
(* The properties of the parts, by their names there.                      *)

ReadIsStored == F!ReadIsStored
DowntimeIsCovered == N!DowntimeIsCovered
ReadyIsRecent == H!ReadyIsRecent
MirrorNeverGoesBack == H!MirrorNeverGoesBack
SavedIsServed == P!SavedIsServed
KnowableAtCutoff == E!KnowableAtCutoff
DigestsAreFaithful == part = "digest" => D!DigestsAreFaithful
=============================================================================
