-------------------------------- MODULE Feeds --------------------------------
(***************************************************************************)
(* What is read from the disclosure wires and from EDGAR, and what becomes *)
(* of it: jobs/disclosure.py, handle_sec_refresh of jobs/handlers.py and   *)
(* the identity layers of ingestion/.                                      *)
(*                                                                         *)
(* A wire publishes its releases in the order of Wire, the newest first on *)
(* its list; a poll walks the pages of the list back to what it knows.  A  *)
(* release is one row, in one language.  Two transactions that ingest the  *)
(* same release at once are Events' matter.                                *)
(***************************************************************************)
EXTENDS Integers, SequencesExt, FiniteSetsExt

CONSTANTS
    Wire,           \* Seq([release, language, category, headline, routine, sound])
    Filings,        \* the filings of one company: Seq([release, form, primary, wanted])
    Wires,          \* the feeds that are configured
    MaxPages,       \* investegate_max_pages
    PageSize,       \* rows of a page
    SecLimit,       \* filings a refresh takes of a company
    Pollers, MaxFaults,     \* bound: failures, deaths and lapsed claims
    None

-----------------------------------------------------------------------------
(* The feeds.                                                              *)

Investegate == [name |-> "investegate", pages |-> MaxPages, allow_empty |-> FALSE, native |-> "en"]
EQS == [name |-> "eqs", pages |-> 1, allow_empty |-> FALSE, native |-> "en"]
CNMV(kind) ==
    [name |-> "cnmv_" \o kind, pages |-> 1, allow_empty |-> kind = "ip", native |-> "es"]
GlobeNewswire == [name |-> "globenewswire", pages |-> 1, allow_empty |-> FALSE, native |-> "fr"]
ActusNews == [name |-> "actusnews", pages |-> 1, allow_empty |-> FALSE, native |-> "en"]
Sec == [name |-> "sec"]

Feeds == {f \in {Investegate, EQS, CNMV("ip"), CNMV("oir"), GlobeNewswire, ActusNews, Sec} :
              f.name \in Wires}

\* A release that is its own primary record, and no report of something else.
Regulatory(f, i) ==
    CASE f = Sec -> TRUE
      [] f \in {CNMV("ip"), CNMV("oir")} -> TRUE
      [] f \in {Investegate, EQS} -> i.category = "regulatory"
      [] OTHER -> FALSE

IsBoilerplate(f, i) == i.routine /\ f \notin {CNMV("ip"), ActusNews}

-----------------------------------------------------------------------------

VARIABLES
    feed,
    published,    \* how many releases the source has out
    sources,    \* the documents stored
    events,     \* the documents that created an event, oldest first
    archived,   \* the events among them that are closed or out of the match window
    of,         \* the event of a document
    job,        \* "none", "pending", or the poller that holds the claim
    poll,       \* what each poller has in hand, None when idle
    faults

vars == <<feed, published, sources, events, archived, of, job, poll, faults>>
stored == <<sources, events, archived, of>>

Issue == IF feed = Sec THEN Filings ELSE Wire

Init ==
    /\ feed \in Feeds /\ published = 0
    /\ sources = {} /\ events = <<>> /\ archived = {} /\ of = <<>>
    /\ job = "none" /\ poll = [w \in Pollers |-> None] /\ faults = 0

Publish ==
    /\ published < Len(Issue) /\ published' = published + 1
    /\ UNCHANGED <<feed, stored, job, poll, faults>>

\* The event was classified away, or DEFAULT_EVENT_MATCH_WINDOW has passed.
Close(e) ==
    /\ e \in ToSet(events) \ archived /\ archived' = archived \cup {e}
    /\ UNCHANGED <<feed, published, sources, events, of, job, poll, faults>>

-----------------------------------------------------------------------------
(* Identity.                                                               *)

\* canonicalize_url: a filing without a primary document has the address of the
\* company's filings of its form.
Url(i) == IF feed = Sec /\ ~i.primary THEN <<"form", i.form>> ELSE <<"page", i>>

\* No wire delivers a body, a filing's names its accession number.
ContentHash(i) == IF feed = Sec THEN <<"filing", i.release>> ELSE <<"headline", i.headline>>
TitleHash(i) == IF feed = Sec THEN <<"form", i.form>> ELSE <<"headline", i.headline>>

KnownReleases == {s.release : s \in sources}

IsDuplicate(i) ==
    \/ i.release \in KnownReleases
    \/ \E s \in sources : Url(s) = Url(i)
    \/ ~Regulatory(feed, i) /\ \E s \in sources : ContentHash(s) = ContentHash(i)

\* Headlines are compared for every document.
MatchingForAll(i) ==
    LET alike == SelectSeq(events, LAMBDA e : e \notin archived /\ TitleHash(e) = TitleHash(i))
    IN  IF alike = <<>> THEN None ELSE Last(alike)

\* The newest open event of the same headline, None for what is its own event.
MatchingEvent(i) ==
    LET alike == SelectSeq(events, LAMBDA e : e \notin archived /\ TitleHash(e) = TitleHash(i))
    IN  IF Regulatory(feed, i) \/ alike = <<>> THEN None ELSE Last(alike)

\* A document that is stored, on its event.
Placed(i, event) ==
    /\ sources' = sources \cup {i}
    /\ events' = IF event = None THEN Append(events, i) ELSE events
    /\ of' = [s \in sources' |-> IF s # i THEN of[s] ELSE IF event = None THEN i ELSE event]
    /\ UNCHANGED archived

IngestDocument(i) ==
    IF IsDuplicate(i) THEN UNCHANGED stored ELSE Placed(i, MatchingEvent(i))

-----------------------------------------------------------------------------
(* A poll.                                                                 *)

\* At most one job of a feed is outstanding.
Enqueue ==
    /\ job = "none" /\ job' = "pending"
    /\ UNCHANGED <<feed, published, stored, poll, faults>>

Hand(w, p) == poll' = [poll EXCEPT ![w] = p]

Claim(w) ==
    /\ job = "pending" /\ poll[w] = None /\ job' = w
    /\ Hand(w, [stage |-> "fetch", page |-> 1, rows |-> <<>>, read |-> {}, batch |-> <<>>])
    /\ UNCHANGED <<feed, published, stored, faults>>

\* A failed job is tried again, or given up until the schedule offers the next.
Fails(w) ==
    /\ Hand(w, None) /\ job' \in (IF job = w THEN {"pending", "none"} ELSE {job})
    /\ UNCHANGED <<feed, published, stored>>

\* One transaction a document: those before the failure stay.
Failure(w) ==
    /\ poll[w] # None /\ faults < MaxFaults /\ faults' = faults + 1 /\ Fails(w)

\* The page as it is now: every release since the page before has moved it on.
PageOf(n) ==
    LET first == (n - 1) * PageSize
        rows == Min({published - first, PageSize})
    IN  [k \in 1..rows |-> Wire[published - first - k + 1]]

\* group_releases: a release once, English before the feed's own language.
Preferred(variants) ==
    LET In(l) == SelectSeq(variants, LAMBDA i : i.language = l)
    IN  CASE In("en") # <<>> -> Head(In("en"))
          [] In("en") = <<>> /\ In(feed.native) # <<>> -> Head(In(feed.native))
          [] OTHER -> Head(variants)

Grouped(items) ==
    LET Variants(r) == SelectSeq(items, LAMBDA i : i.release = r)
        once == SelectSeq(items, LAMBDA i : Head(Variants(i.release)) = i)
    IN  [k \in DOMAIN once |-> Preferred(Variants(once[k].release))]

\* The survivors that make a document.
Documents(items) == SelectSeq(Grouped(items), LAMBDA i : i.sound)

FetchPage(w) ==
    /\ poll[w] # None /\ poll[w].stage = "fetch" /\ feed # Sec
    /\ LET rows == PageOf(poll[w].page) IN
       IF rows # <<>>
       THEN /\ Hand(w, [poll[w] EXCEPT !.stage = "known", !.rows = rows,
                                       !.read = @ \cup ToSet(rows)])
            /\ UNCHANGED <<feed, published, stored, job, faults>>
       ELSE /\ UNCHANGED faults
            /\ IF feed.allow_empty
               THEN /\ Hand(w, [poll[w] EXCEPT !.stage = "ingest", !.batch = Documents(@)])
                    /\ UNCHANGED <<feed, published, stored, job>>
               ELSE Fails(w)

\* The walk stops at the first release it knows, not on the page that shows it.
FreshUntilKnown(rows) ==
    LET known == {k \in DOMAIN rows : rows[k].release \in KnownReleases}
    IN  IF known = {} THEN rows ELSE SubSeq(rows, 1, Min(known) - 1)

Fresh(rows) == SelectSeq(rows, LAMBDA i : i.release \notin KnownReleases)

\* The walk ends on the page that shows a known release, or on the last one.
Known(w) ==
    /\ poll[w] # None /\ poll[w].stage = "known"
    /\ LET fresh == Fresh(poll[w].rows)
           collected == poll[w].batch \o SelectSeq(fresh, LAMBDA i : ~IsBoilerplate(feed, i))
       IN  Hand(w, IF Len(fresh) < Len(poll[w].rows) \/ poll[w].page = feed.pages
                   THEN [poll[w] EXCEPT !.stage = "ingest", !.batch = Documents(collected)]
                   ELSE [poll[w] EXCEPT !.stage = "fetch", !.page = @ + 1, !.batch = collected])
    /\ UNCHANGED <<feed, published, stored, job, faults>>

\* recent_for_cik: the newest of the wanted forms.
RecentForCik ==
    LET newest == SelectSeq(Reverse(SubSeq(Filings, 1, published)), LAMBDA i : i.wanted)
    IN  SubSeq(newest, 1, Min({Len(newest), SecLimit}))

SecRefresh(w) ==
    /\ poll[w] # None /\ poll[w].stage = "fetch" /\ feed = Sec
    /\ Hand(w, [poll[w] EXCEPT !.stage = "ingest", !.batch = RecentForCik,
                               !.read = ToSet(RecentForCik)])
    /\ UNCHANGED <<feed, published, stored, job, faults>>

Ingest(w) ==
    /\ poll[w] # None /\ poll[w].stage = "ingest" /\ poll[w].batch # <<>>
    /\ IngestDocument(Head(poll[w].batch))
    /\ Hand(w, [poll[w] EXCEPT !.batch = Tail(@)])
    /\ UNCHANGED <<feed, published, job, faults>>

Complete(w) ==
    /\ poll[w] # None /\ poll[w].stage = "ingest" /\ poll[w].batch = <<>>
    /\ Hand(w, None) /\ job' = IF job = w THEN "none" ELSE job
    /\ UNCHANGED <<feed, published, stored, faults>>

\* The claim lapses while its poller goes on; the process dies with all of them.
Lapse ==
    /\ job \in Pollers /\ faults < MaxFaults /\ faults' = faults + 1
    /\ job' = "pending" /\ UNCHANGED <<feed, published, stored, poll>>

Die ==
    /\ faults < MaxFaults /\ faults' = faults + 1
    /\ poll' = [w \in Pollers |-> None]
    /\ job' = IF job \in Pollers THEN "pending" ELSE job
    /\ UNCHANGED <<feed, published, stored>>

Next ==
    \/ Publish \/ Enqueue \/ Lapse \/ Die
    \/ \E e \in ToSet(events) : Close(e)
    \/ \E w \in Pollers :
           \/ Claim(w) \/ Failure(w) \/ FetchPage(w) \/ Known(w) \/ SecRefresh(w)
           \/ Ingest(w) \/ Complete(w)

Spec == Init /\ [][Next]_vars

-----------------------------------------------------------------------------
(* Properties.                                                             *)

Ends(w) ==
    /\ poll[w] # None /\ poll[w].stage = "ingest" /\ poll[w].batch = <<>>
    /\ poll'[w] = None /\ UNCHANGED faults

Readable(i) == IF feed = Sec THEN TRUE ELSE i.sound /\ ~IsBoilerplate(feed, i)

\* What a poll that ends well has read is stored, itself or as what it repeats,
\* although an earlier poll of the same page stored a part of it and failed.
ReadIsStored ==
    [][\A w \in Pollers :
           Ends(w) => \A i \in poll[w].read : Readable(i) => IsDuplicate(i)]_vars

\* ingestion/base.py: two filings are never the same event however similar
\* their titles look.
FilingsAreApart ==
    \A i, j \in sources :
        i # j /\ Regulatory(feed, i) /\ Regulatory(feed, j) => of[i] # of[j]

\* The docstring of jobs/disclosure.py: a poll walks pages until it reaches a
\* release that is known.  When a poll has ended well, nothing on the pages it may
\* read is older than what it read and yet not stored.
WalkReachesKnown ==
    [][\A w \in Pollers :
           Ends(w) /\ feed # Sec
           => \A k, j \in 1..published :
                  /\ k < j /\ k > published - feed.pages * PageSize
                  /\ Wire[j] \in poll[w].read /\ Readable(Wire[k])
                  => IsDuplicate(Wire[k])]_vars

\* base.py and sec_edgar.py: each accession number is a distinct event.
EveryFilingKept ==
    [][\A w \in Pollers :
           Ends(w) /\ feed = Sec => \A i \in poll[w].read : i.release \in KnownReleases]_vars

\* dedupe.py: a headline that recurs after its event has been closed out starts
\* a fresh event.
RecurrenceIsNews ==
    [][\A w \in Pollers :
           poll[w] # None /\ poll[w].stage = "ingest" /\ poll[w].batch # <<>>
               /\ poll'[w] # None /\ feed # Sec
           => LET i == Head(poll[w].batch) IN
              /\ i.release \notin KnownReleases
              /\ \A e \in ToSet(events) : TitleHash(e) = TitleHash(i) => e \in archived
              => i \in ToSet(events')]_vars

=============================================================================
