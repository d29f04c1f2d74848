----------------------------- MODULE Instruments -----------------------------
(***************************************************************************)
(* From a company named in an event to the listing an order would name:    *)
(* broker/instrument_sync.py keeps the broker's universe, and              *)
(* instruments/resolver.py and service.py decide which of its listings an  *)
(* impact means, if any.                                                   *)
(*                                                                         *)
(* A name, a symbol and an ISIN are already normalised.  A company with an *)
(* ISIN is known by it, a curated one without an ISIN does not occur.  One *)
(* resolution is one transaction, and its reads see one state; a fetch of  *)
(* the universe and the transaction that stores it are two steps, so that  *)
(* a stalled refresh and the next one may store in either order.           *)
(***************************************************************************)
EXTENDS Integers, FiniteSets

CONSTANTS
    Offers,     \* what the broker may offer: [ticker, isin, symbol, name, exchange, supported]
    Impacts,    \* the hints of an impact: [name, symbol, exchange, isin]
    Aliases,    \* curated: [key, exchange, company]
    Akin,       \* <<key, longer key it is a prefix of>>
    Syncs,
    MaxStamp,   \* bound: refreshes
    None

Tickers == {o.ticker : o \in Offers}
Isins == {o.isin : o \in Offers} \ {None}

VARIABLES
    universe,   \* what the broker offers now, one listing for a ticker
    row,        \* broker_instruments by broker ticker
    company,    \* companies by ISIN: their primary symbol and name
    verdict,    \* the resolution columns of event_company_impacts
    fetched,    \* what a refresh holds between its fetch and its transaction
    stamp

vars == <<universe, row, company, verdict, fetched, stamp>>

Unresolved == [status |-> "PENDING", ticker |-> None, company |-> None]

Init ==
    /\ universe = {}
    /\ row = [t \in Tickers |-> None]
    /\ company = [c \in Isins |-> IF \E a \in Aliases : a.company = c
                                  THEN [symbol |-> None, name |-> None] ELSE None]
    /\ verdict = [i \in Impacts |-> Unresolved]
    /\ fetched = [s \in Syncs |-> None]
    /\ stamp = 0

-----------------------------------------------------------------------------
(* InstrumentSyncService.                                                  *)

\* The broker starts to offer a listing, maybe under a ticker that meant another.
Lists(o) ==
    /\ o \notin universe
    /\ universe' = {u \in universe : u.ticker # o.ticker} \cup {o}
    /\ UNCHANGED <<row, company, verdict, fetched, stamp>>

Delists(o) ==
    /\ o \in universe
    /\ universe' = universe \ {o}
    /\ UNCHANGED <<row, company, verdict, fetched, stamp>>

Fetch(s) ==
    /\ fetched[s] = None /\ stamp < MaxStamp
    /\ stamp' = stamp + 1
    /\ fetched' = [fetched EXCEPT ![s] = [offers |-> universe, now |-> stamp']]
    /\ UNCHANGED <<universe, row, company, verdict>>

\* The upsert leaves company_id alone; what this fetch did not bring and no later
\* one has seen is deactivated.  An empty answer is a fault of the provider.
Stored(t, sync) ==
    LET brought == {o \in sync.offers : o.ticker = t} IN
    IF brought # {}
    THEN [listing |-> CHOOSE o \in brought : TRUE, active |-> TRUE, seen |-> sync.now,
          company |-> IF row[t] = None THEN None ELSE row[t].company]
    ELSE IF row[t] # None /\ row[t].seen < sync.now
         THEN [row[t] EXCEPT !.active = FALSE]
         ELSE row[t]

Store(s) ==
    /\ fetched[s] # None
    /\ row' = IF fetched[s].offers = {} THEN row ELSE [t \in Tickers |-> Stored(t, fetched[s])]
    /\ fetched' = [fetched EXCEPT ![s] = None]
    /\ UNCHANGED <<universe, company, verdict, stamp>>

-----------------------------------------------------------------------------
(* InstrumentResolver: each rung is a set of active listings, and the first  *)
(* rung that has any decides.                                                *)

Active == {t \in Tickers : row[t] # None /\ row[t].active}
Matching(Field(_), key) == {t \in Active : key # None /\ Field(row[t].listing) = key}
ByIsin(isin) == Matching(LAMBDA o : o.isin, isin)
BySymbol(symbol) == Matching(LAMBDA o : o.symbol, symbol)
ByName(name) == Matching(LAMBDA o : o.name, name)

ForCompany(c) ==
    {t \in Active : row[t].company = c} \cup ByIsin(c) \cup BySymbol(company[c].symbol)

\* A company is looked up by its ticker, never by its name, and must be alone in it.
IsinFromCompany(i) ==
    LET known == {c \in Isins : i.symbol # None /\ company[c] # None /\ company[c].symbol = i.symbol}
    IN  IF Cardinality(known) = 1 THEN CHOOSE c \in known : TRUE ELSE None

IsinOf(i) == IF i.isin # None THEN i.isin ELSE IsinFromCompany(i)

\* An alias scoped to the hinted exchange goes before those without a scope.
Aliased(i) ==
    LET rows == {a \in Aliases : a.key \in {i.name, i.symbol} \ {None}}
        scoped == {a \in rows : a.exchange # None /\ a.exchange = i.exchange}
        chosen == IF scoped # {} THEN scoped ELSE {a \in rows : a.exchange = None}
    IN  IF Cardinality(chosen) = 1 THEN (CHOOSE a \in chosen : TRUE).company ELSE None

\* Mutant: a hint the broker contradicts rejects the match.
NarrowAlways(i, matches) ==
    IF i.exchange = None THEN matches
    ELSE {t \in matches : row[t].listing.exchange = i.exchange}

\* A hint chooses between listings the evidence admits, and rejects none of them all.
Narrow(i, matches) ==
    LET here == {t \in matches : row[t].listing.exchange = i.exchange} IN
    IF i.exchange # None /\ Cardinality(matches) > 1 /\ here # {} THEN here ELSE matches

Answer(status, ticker) == [status |-> status, ticker |-> ticker]

Decide(i, matches) ==
    LET narrowed == Narrow(i, matches)
        supported == {t \in narrowed : row[t].listing.supported}
    IN  CASE Cardinality(narrowed) = 1 ->
                Answer(IF supported # {} THEN "RESOLVED" ELSE "UNSUPPORTED",
                       CHOOSE t \in narrowed : TRUE)
          [] OTHER -> Answer(IF supported # {} THEN "AMBIGUOUS" ELSE "UNSUPPORTED", None)

\* Listings whose name or symbol begins with the hint explain a refusal.
Plausible(i) ==
    {t \in Active : \E a \in Akin :
        \/ a[1] = i.name /\ a[2] = row[t].listing.name
        \/ a[1] = i.symbol /\ a[2] = row[t].listing.symbol}

Ladder(i) ==
    LET rungs == <<ByIsin(IsinOf(i)),
                   IF Aliased(i) # None THEN ForCompany(Aliased(i)) ELSE {},
                   BySymbol(i.symbol),
                   ByName(i.name)>>
        \* a rung that narrows to nothing does not answer
        telling == {n \in DOMAIN rungs : Narrow(i, rungs[n]) # {}}
    IN  IF telling # {}
        THEN Decide(i, rungs[CHOOSE n \in telling : \A m \in telling : n <= m])
        ELSE Answer(IF Plausible(i) # {} THEN "AMBIGUOUS" ELSE "NOT_FOUND", None)

-----------------------------------------------------------------------------
(* ResolutionService.resolve_impact: the verdict, and for a resolved impact  *)
(* the listing's company, created from its ISIN when there is none.          *)

LinkedCompany(t) == IF row[t].company # None THEN row[t].company ELSE row[t].listing.isin

Resolve(i) ==
    LET answer == Ladder(i)
        listing == row[answer.ticker].listing
        linked == LinkedCompany(answer.ticker)
    IN  IF answer.status = "RESOLVED"
        THEN /\ verdict' = [verdict EXCEPT ![i] =
                   [status |-> "RESOLVED", ticker |-> answer.ticker, company |-> linked]]
             /\ row' = [row EXCEPT ![answer.ticker].company = linked]
             /\ company' = IF linked # None /\ company[linked] = None
                           THEN [company EXCEPT ![linked] =
                                    [symbol |-> listing.symbol, name |-> listing.name]]
                           ELSE company
             /\ UNCHANGED <<universe, fetched, stamp>>
        ELSE /\ verdict' = [verdict EXCEPT ![i] =
                   [status |-> answer.status, ticker |-> None, company |-> None]]
             /\ UNCHANGED <<universe, row, company, fetched, stamp>>

Next ==
    \/ \E o \in Offers : Lists(o) \/ Delists(o)
    \/ \E s \in Syncs : Fetch(s) \/ Store(s)
    \/ \E i \in Impacts : Resolve(i)

Spec == Init /\ [][Next]_vars

-----------------------------------------------------------------------------

TypeOK ==
    /\ universe \in SUBSET Offers
    /\ \A t \in Tickers : row[t] # None =>
          /\ row[t].listing \in Offers /\ row[t].listing.ticker = t
          /\ row[t].active \in BOOLEAN
          /\ row[t].seen \in 1 .. stamp
          /\ row[t].company \in Isins \cup {None}
    /\ DOMAIN company = Isins
    /\ verdict \in [Impacts ->
          [status : {"PENDING", "RESOLVED", "AMBIGUOUS", "UNSUPPORTED", "NOT_FOUND"},
           ticker : Tickers \cup {None}, company : Isins \cup {None}]]
    /\ stamp \in 0 .. MaxStamp

Scoped(i) == \E a \in Aliases : a.exchange # None /\ a.key \in {i.name, i.symbol}

\* "A hint only ever chooses between listings the evidence already admits"
\* (_decide): whatever the syncs and the resolutions so far have left behind, a
\* model's guess of the exchange never moves an answer from one listing to
\* another, and settles only what was ambiguous without it.
HintsOnlyNarrow ==
    \A i \in Impacts : i.exchange # None /\ ~Scoped(i) =>
        LET with == Ladder(i) without == Ladder([i EXCEPT !.exchange = None]) IN
        \/ with = without
        \/ without = Answer("AMBIGUOUS", None)
        \/ with.status = "UNSUPPORTED" /\ without = Answer("UNSUPPORTED", None)

\* "The ticker is a discriminator in its own right and rung 3 would use it anyway"
\* (_isin_from_company): what an earlier resolution left behind resolves nothing
\* that the impact's own hints and the broker's listings do not.
PastIsNotEvidence ==
    \A i \in Impacts :
        i.isin = None /\ Aliased(i) = None /\ Ladder(i).status = "RESOLVED" =>
            LET own == IF BySymbol(i.symbol) # {} THEN BySymbol(i.symbol) ELSE ByName(i.name)
            IN  own # {} /\ Decide(i, own) = Ladder(i)
=============================================================================
