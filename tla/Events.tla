------------------------------- MODULE Events --------------------------------
(***************************************************************************)
(* From a document to a judged, deduplicated and resolved event:           *)
(* ingestion/service.py (ingest), ingestion/dedupe.py,                     *)
(* intelligence/service.py (classify_event and everything it calls),       *)
(* intelligence/semantic_dedupe.py, instruments/service.py                 *)
(* (resolve_event), their handlers in jobs/handlers.py and their sweeps in *)
(* services.py.                                                            *)
(*                                                                         *)
(* An event carries the name of the document it was created from.  Every   *)
(* await between two transactions of a call ends a step; a merge reads its *)
(* target and links in one and writes them in another, as two of them run  *)
(* side by side under read committed.  Of the job only the attempts count: *)
(* JobQueue has the rest.  What a model answers is any answer.             *)
(***************************************************************************)
EXTENDS Integers, FiniteSetsExt

CONSTANTS
    Docs, Feeds, Workers,
    Headline,           \* [Docs -> headlines]: title_hash
    MaxAttempts,        \* of a CLASSIFY_EVENT job
    Stale,              \* STALE_CLASSIFYING_SECONDS, in ticks
    CallLimit,          \* ticks a worker needs from its claim to its last write
    MaxLosses, MaxPauses,   \* bounds on the environment
    None

VARIABLES
    event,      \* events: status, merged_into_event_id, age of updated_at
    linked,     \* the events a source is linked to
    impacts,    \* the resolution of an event's company impacts
    job,        \* attempts of the active CLASSIFY_EVENT job, None without one
    resolving,  \* events with an active RESOLVE_CANDIDATES job
    feed,       \* the document a feed is ingesting, and the event it matched
    worker,     \* the classification a worker is in
    allowed, pauses,    \* what the language-model budget says
    losses

vars == <<event, linked, impacts, job, resolving, feed, worker, allowed, pauses, losses>>

Judged == {"CANDIDATE", "CLASSIFIED", "IRRELEVANT", "ARCHIVED"}
Settled == Judged \cup {"CLASSIFICATION_FAILED"}
Exists(e) == event[e].status # "ABSENT"

Init ==
    /\ event = [e \in Docs |-> [status |-> "ABSENT", into |-> None, age |-> 0]]
    /\ linked = [d \in Docs |-> {}]
    /\ impacts = [e \in Docs |-> "NONE"]
    /\ job = [e \in Docs |-> None]
    /\ resolving = {}
    /\ feed = [f \in Feeds |-> None]
    /\ worker = [w \in Workers |-> None]
    /\ allowed = TRUE /\ pauses = 0 /\ losses = 0

\* onupdate of updated_at, from which a stalled classification is dated.
Moved(e, status) == [event EXCEPT ![e].status = status, ![e].age = 0]

-----------------------------------------------------------------------------
(* Ingestion: one transaction, which looks before it inserts.              *)

Matching(d) ==
    {e \in Docs : Exists(e) /\ Headline[e] = Headline[d] /\ event[e].status # "ARCHIVED"}

Ingest(f, d) ==
    /\ feed[f] = None /\ linked[d] = {}
    /\ \E match \in IF Matching(d) = {} THEN {None} ELSE Matching(d) :
          feed' = [feed EXCEPT ![f] = [doc |-> d, match |-> match]]
    /\ UNCHANGED <<event, linked, impacts, job, resolving, worker, allowed, pauses, losses>>

\* The unique index on the source settles a race; nothing does on the event.
Store(f) ==
    /\ feed[f] # None
    /\ LET d == feed[f].doc
           match == feed[f].match
       IN  IF linked[d] # {} THEN UNCHANGED <<event, linked, job>>
           ELSE IF match # None
           THEN /\ linked' = [linked EXCEPT ![d] = {match}]
                /\ event' = [event EXCEPT ![match].age = 0]
                /\ UNCHANGED job
           ELSE /\ linked' = [linked EXCEPT ![d] = {d}]
                /\ event' = Moved(d, "NEW")
                /\ job' = [job EXCEPT ![d] = 0]
    /\ feed' = [feed EXCEPT ![f] = None]
    /\ UNCHANGED <<impacts, resolving, worker, allowed, pauses, losses>>

-----------------------------------------------------------------------------
(* The sweeps.                                                             *)

EnqueuePendingClassification(e) ==
    /\ event[e].status = "NEW" /\ job[e] = None
    /\ job' = [job EXCEPT ![e] = 0]
    /\ UNCHANGED <<event, linked, impacts, resolving, feed, worker, allowed, pauses, losses>>

\* Mutant: whatever is being classified is released.
StalledAtOnce(e) == event[e].status = "CLASSIFYING"
Stalled(e) == event[e].status = "CLASSIFYING" /\ event[e].age >= Stale

ReleaseStalled(e) ==
    /\ Stalled(e)
    /\ event' = Moved(e, "NEW")
    /\ UNCHANGED <<linked, impacts, job, resolving, feed, worker, allowed, pauses, losses>>

\* Mutant: only the classification's own job leads to a resolution.
NeverDue(e) == FALSE
ResolutionDue(e) == impacts[e] = "PENDING" /\ e \notin resolving

EnqueuePendingResolution(e) ==
    /\ ResolutionDue(e)
    /\ resolving' = resolving \cup {e}
    /\ UNCHANGED <<event, linked, impacts, job, feed, worker, allowed, pauses, losses>>

ResolveCandidates(e) ==
    /\ e \in resolving
    /\ impacts' = [impacts EXCEPT ![e] = IF @ = "PENDING" THEN "RESOLVED" ELSE @]
    /\ resolving' = resolving \ {e}
    /\ UNCHANGED <<event, linked, job, feed, worker, allowed, pauses, losses>>

-----------------------------------------------------------------------------
(* classify_event.                                                         *)

\* The worker's job ends, unless it is not the worker's any more.
Ended(w) ==
    /\ job' = IF worker[w].owner THEN [job EXCEPT ![worker[w].event] = None] ELSE job
    /\ worker' = [worker EXCEPT ![w] = None]

To(w, phase) == worker' = [worker EXCEPT ![w].phase = phase]

Begin(w, e) ==
    /\ worker[w] = None /\ job[e] # None
    /\ \A v \in Workers : worker[v] # None => ~(worker[v].event = e /\ worker[v].owner)
    /\ IF event[e].status = "NEW" /\ allowed
       THEN /\ job' = [job EXCEPT ![e] = @ + 1]
            /\ worker' = [worker EXCEPT ![w] =
                  [event |-> e, phase |-> "claim", owner |-> TRUE, spent |-> 0,
                   final |-> job[e] + 1 = MaxAttempts, target |-> None, links |-> {}]]
       ELSE job' = [job EXCEPT ![e] = None] /\ UNCHANGED worker   \* skipped
    /\ UNCHANGED <<event, linked, impacts, resolving, feed, allowed, pauses, losses>>

In(w, phase) == worker[w] # None /\ worker[w].phase = phase

Claim(w) ==
    /\ In(w, "claim")
    /\ LET e == worker[w].event IN
          IF event[e].status = "NEW"
          THEN event' = Moved(e, "CLASSIFYING") /\ To(w, "ask") /\ UNCHANGED job
          ELSE Ended(w) /\ UNCHANGED event
    /\ UNCHANGED <<linked, impacts, resolving, feed, allowed, pauses, losses>>

\* _record_failure: whatever the event has become meanwhile.
AskFailed(w) ==
    /\ In(w, "ask")
    /\ LET c == worker[w] IN
          /\ event' = Moved(c.event, IF c.final THEN "CLASSIFICATION_FAILED" ELSE "NEW")
          /\ IF c.final THEN Ended(w)
             ELSE worker' = [worker EXCEPT ![w] = None] /\ UNCHANGED job
    /\ UNCHANGED <<linked, impacts, resolving, feed, allowed, pauses, losses>>

\* An answer, and the verdict of the semantic layer on the events it is offered;
\* without budget, candidates or a verdict there is no target.
Candidates(e) ==
    {t \in Docs \ {e} : Exists(t) /\ event[t].status \notin {"ARCHIVED", "IRRELEVANT"}}

Asked(w) ==
    /\ In(w, "ask")
    /\ \/ To(w, "apply")
       \/ \E t \in Candidates(worker[w].event) :
             worker' = [worker EXCEPT ![w].phase = "merge", ![w].target = t]
    /\ UNCHANGED <<event, linked, impacts, job, resolving, feed, allowed, pauses, losses>>

\* _merge_into, what it reads.
MergeRead(w) ==
    /\ In(w, "merge")
    /\ IF event[worker[w].target].status = "ARCHIVED" THEN To(w, "apply")
       ELSE worker' = [worker EXCEPT ![w].phase = "fold",
                          ![w].links = {d \in Docs : worker[w].event \in linked[d]}]
    /\ UNCHANGED <<event, linked, impacts, job, resolving, feed, allowed, pauses, losses>>

\* ... and what it writes.
MergeWrite(w) ==
    /\ In(w, "fold")
    /\ LET c == worker[w] IN
          /\ linked' = [d \in Docs |-> IF d \in c.links
                                       THEN (linked[d] \ {c.event}) \cup {c.target}
                                       ELSE linked[d]]
          /\ event' = [Moved(c.event, "ARCHIVED") EXCEPT ![c.event].into = c.target,
                                                         ![c.target].age = 0]
    /\ Ended(w)
    /\ UNCHANGED <<impacts, resolving, feed, allowed, pauses, losses>>

Apply(w) ==
    /\ In(w, "apply")
    /\ LET e == worker[w].event IN
          /\ \E status \in {"CANDIDATE", "CLASSIFIED", "IRRELEVANT"} : event' = Moved(e, status)
          /\ impacts' = [impacts EXCEPT ![e] = IF @ = "NONE" THEN "PENDING" ELSE @]
    /\ To(w, "chain")
    /\ UNCHANGED <<linked, job, resolving, feed, allowed, pauses, losses>>

\* handle_classify_event goes on, in a transaction of its own.
Chain(w) ==
    /\ In(w, "chain")
    /\ resolving' = resolving \cup {worker[w].event}
    /\ Ended(w)
    /\ UNCHANGED <<event, linked, impacts, feed, allowed, pauses, losses>>

\* The lease of the job runs out, with its worker or without: the queue delivers
\* it again while it has attempts left.
Lapsed(e) == job' = [job EXCEPT ![e] = IF @ >= MaxAttempts THEN None ELSE @]

Die(w) ==
    /\ worker[w] # None /\ losses < MaxLosses
    /\ losses' = losses + 1
    /\ IF worker[w].owner THEN Lapsed(worker[w].event) ELSE UNCHANGED job
    /\ worker' = [worker EXCEPT ![w] = None]
    /\ UNCHANGED <<event, linked, impacts, resolving, feed, allowed, pauses>>

LoseLease(w) ==
    /\ worker[w] # None /\ worker[w].owner /\ losses < MaxLosses
    /\ losses' = losses + 1
    /\ Lapsed(worker[w].event)
    /\ worker' = [worker EXCEPT ![w].owner = FALSE]
    /\ UNCHANGED <<event, linked, impacts, resolving, feed, allowed, pauses>>

-----------------------------------------------------------------------------

Writing(w) == worker[w] # None /\ worker[w].phase \in {"ask", "merge", "fold", "apply"}

Tick ==
    /\ \A w \in Workers : Writing(w) => worker[w].spent < CallLimit
    /\ event' = [e \in Docs |-> IF event[e].status = "CLASSIFYING"
                                THEN [event[e] EXCEPT !.age = Min({@ + 1, Stale})] ELSE event[e]]
    /\ worker' = [w \in Workers |-> IF Writing(w) THEN [worker[w] EXCEPT !.spent = @ + 1]
                                    ELSE worker[w]]
    /\ UNCHANGED <<linked, impacts, job, resolving, feed, allowed, pauses, losses>>

\* The budget is used up, or rolls over.
Pause ==
    /\ ~allowed \/ pauses < MaxPauses
    /\ allowed' = ~allowed
    /\ pauses' = IF allowed THEN pauses + 1 ELSE pauses
    /\ UNCHANGED <<event, linked, impacts, job, resolving, feed, worker, losses>>

Classify(w) ==
    \/ Claim(w) \/ AskFailed(w) \/ Asked(w) \/ MergeRead(w) \/ MergeWrite(w)
    \/ Apply(w) \/ Chain(w)

Next ==
    \/ \E f \in Feeds : Store(f) \/ \E d \in Docs : Ingest(f, d)
    \/ \E e \in Docs :
          \/ EnqueuePendingClassification(e) \/ ReleaseStalled(e)
          \/ EnqueuePendingResolution(e) \/ ResolveCandidates(e)
    \/ \E w \in Workers :
          Classify(w) \/ Die(w) \/ LoseLease(w) \/ \E e \in Docs : Begin(w, e)
    \/ Tick \/ Pause

Spec == Init /\ [][Next]_vars

\* Workers and sweeps keep running, time passes, and a budget that is used up
\* rolls over.
Fairness ==
    /\ \A w \in Workers : WF_vars(Classify(w))
    /\ \A e \in Docs :
          /\ WF_vars(EnqueuePendingClassification(e)) /\ WF_vars(ReleaseStalled(e))
          /\ WF_vars(EnqueuePendingResolution(e)) /\ WF_vars(ResolveCandidates(e))
          /\ SF_vars(\E w \in Workers : Begin(w, e))
    /\ WF_vars(Tick) /\ WF_vars(~allowed /\ Pause)

-----------------------------------------------------------------------------

TypeOK ==
    /\ event \in [Docs -> [status : Settled \cup {"ABSENT", "NEW", "CLASSIFYING"},
                           into : Docs \cup {None}, age : 0 .. Stale]]
    /\ linked \in [Docs -> SUBSET Docs]
    /\ impacts \in [Docs -> {"NONE", "PENDING", "RESOLVED"}]
    /\ job \in [Docs -> {None} \cup 0 .. MaxAttempts]
    /\ resolving \in SUBSET Docs

\* A judgment stands: no failure or release of an earlier attempt throws an event
\* that has been judged back, and a merged one stays merged, although
\* _record_failure and _apply_classification do not look at the status.
JudgmentStands ==
    [][\A e \in Docs : event[e].status \in Judged =>
          /\ event'[e].status \in Judged
          /\ event[e].status = "ARCHIVED" => event'[e].into = event[e].into]_vars

\* Every event is judged or given up, and its companies looked up, whatever
\* worker dies between two transactions on the way.
EveryEventSettles ==
    \A e \in Docs : Exists(e) ~> (event[e].status \in Settled /\ impacts[e] # "PENDING")

\* An ingested document belongs to an event that is still followed, directly or
\* through the events its own were merged into: nothing is erased (_merge_into).
Buried(e) ==
    \E ring \in SUBSET Docs : e \in ring
        /\ \A x \in ring : event[x].status = "ARCHIVED" /\ event[x].into \in ring
StoryNotLost == \A d \in Docs : linked[d] # {} => \E e \in linked[d] : ~Buried(e)
=============================================================================
