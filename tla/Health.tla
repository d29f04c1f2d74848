------------------------------- MODULE Health -------------------------------
(***************************************************************************)
(* The health board: observability/health.py, the database probe and the   *)
(* startup sweep of startup.py, observability/probes.py and the readiness  *)
(* endpoint of api/routes/health.py.                                       *)
(*                                                                         *)
(* Time is counted in seconds of the database probe.  An asyncio timeout   *)
(* ends what it bounds when its time has come: the event loop is not late. *)
(***************************************************************************)
EXTENDS Integers, SequencesExt, FiniteSetsExt

CONSTANTS
    Configured,     \* the providers this deployment is configured for
    Plan,           \* those of them the startup sweep probes
    MaxAge,         \* DATABASE_HEALTH_MAX_AGE_SECONDS
    Timeout,        \* DATABASE_PROBE_TIMEOUT_SECONDS
    Requests,       \* readiness requests in flight
    LastSecond, MaxRecords,     \* bounds of the clock and of the records made
    None

Discovery == {"alpaca_news", "brave", "exa", "firecrawl", "sec"}
Subsystems ==
    [discovery |-> Discovery, research |-> {"llm", "tradingagents"},
     execution |-> {"trading212"}, notifications |-> {"telegram"}]
Providers == {"postgres"} \cup UNION {Subsystems[s] : s \in DOMAIN Subsystems}

Severity ==
    [HEALTHY |-> 0, DISABLED |-> 0, UNKNOWN |-> 1, BUDGET_EXHAUSTED |-> 2, DEGRADED |-> 3, DOWN |-> 4]
Statuses == DOMAIN Severity

-----------------------------------------------------------------------------
(* What the board makes of its statuses.                                   *)

\* aggregate_status of a redundant subsystem.
Aggregate(of, members) ==
    LET considered == {p \in members : of[p] # "DISABLED"}
        All(s) == \A p \in considered : of[p] = s
        Some(ss) == \E p \in considered : of[p] \in ss
    IN  CASE considered = {} -> "DISABLED"
          [] considered # {} /\ All("HEALTHY") -> "HEALTHY"
          [] Some({"HEALTHY"}) /\ ~All("HEALTHY") -> "DEGRADED"
          [] considered # {} /\ All("DOWN") -> "DOWN"
          [] ~Some({"HEALTHY"}) /\ ~All("DOWN") ->
                 IF Some({"DOWN", "DEGRADED", "BUDGET_EXHAUSTED"}) THEN "DEGRADED" ELSE "UNKNOWN"

\* A status nobody has measured counts for nothing.
OverallOfKnown(of) ==
    IF of.postgres # "HEALTHY" THEN "DOWN"
    ELSE IF \E s \in DOMAIN Subsystems :
                Aggregate(of, Subsystems[s]) \in {"DOWN", "DEGRADED"}
    THEN "DEGRADED" ELSE "HEALTHY"

\* overall_status: only the database can force DOWN.
Overall(of) ==
    IF of.postgres # "HEALTHY" THEN "DOWN"
    ELSE IF \E s \in DOMAIN Subsystems :
                Aggregate(of, Subsystems[s]) \in {"DOWN", "DEGRADED", "UNKNOWN"}
    THEN "DEGRADED" ELSE "HEALTHY"

-----------------------------------------------------------------------------

VARIABLES
    now,
    up,             \* whether PostgreSQL answers
    lastUp,         \* history: the last second in which it did
    status, checked,    \* the board; when PostgreSQL was last recorded
    records,        \* how many records have been made
    sweep,          \* the outcomes of the startup probes, None before and after it
    request,        \* the database probe of each request, None without one
    ready,          \* the answers given this second
    lock,           \* who holds or awaits the registry's lock, with the rows it writes
    mirror          \* provider_health, as the count of records it shows

vars == <<now, up, lastUp, status, checked, records, sweep, request, ready, lock, mirror>>
world == <<now, up, lastUp>>
board == <<status, checked, records>>
mirroring == <<lock, mirror>>

\* register_static_provider_states, then check_database.
Init ==
    /\ now = 0 /\ up \in BOOLEAN /\ lastUp = 0
    /\ status = [p \in Providers |->
                     CASE p = "postgres" -> IF up THEN "HEALTHY" ELSE "DOWN"
                       [] p \in Configured \ {"postgres"} -> "UNKNOWN"
                       [] OTHER -> "DISABLED"]
    /\ checked = 0 /\ records = 0
    /\ sweep = IF up THEN [p \in Plan |-> None] ELSE None
    /\ request = [r \in Requests |-> None] /\ ready = {}
    /\ lock = <<>> /\ mirror = 0

Record(p, s) ==
    /\ records < MaxRecords /\ records' = records + 1
    /\ status' = [status EXCEPT ![p] = s]
    /\ checked' = IF p = "postgres" THEN now ELSE checked

\* A database probe that has run out of time is over before the clock moves.
Tick ==
    /\ now < LastSecond /\ now' = now + 1 /\ ready' = {}
    /\ \A r \in Requests : request[r] # None => now < request[r].since + Timeout
    /\ up' \in BOOLEAN /\ lastUp' = IF up' THEN now' ELSE lastUp
    /\ UNCHANGED <<board, sweep, request, mirroring>>

\* A handler or a sweep has asked a provider and records what came of it.
Work(p) ==
    /\ p \in Configured \ {"postgres"}
    /\ \E s \in {"HEALTHY", "BUDGET_EXHAUSTED", "DEGRADED", "DOWN"} : s # status[p] /\ Record(p, s)
    /\ UNCHANGED <<world, sweep, request, ready, mirroring>>

-----------------------------------------------------------------------------
(* The startup sweep.                                                      *)

\* run_probe: every end is an outcome.
Outcomes == {"HEALTHY", "DEGRADED", "DOWN"}

Probe(p) ==
    /\ sweep # None /\ p \in Plan /\ sweep[p] = None
    /\ \E s \in Outcomes : sweep' = [sweep EXCEPT ![p] = s]
    /\ UNCHANGED <<world, board, request, ready, mirroring>>

\* gather returns when the last probe has, and what each found is recorded then.
ProbeEnabledProviders ==
    /\ sweep # None /\ \A p \in Plan : sweep[p] # None
    /\ records + Cardinality(Plan) <= MaxRecords /\ records' = records + Cardinality(Plan)
    /\ status' = [p \in Providers |-> IF p \in Plan THEN sweep[p] ELSE status[p]]
    /\ sweep' = None
    /\ lock' = Append(lock, records')
    /\ UNCHANGED <<world, checked, request, ready, mirror>>

-----------------------------------------------------------------------------
(* Readiness.                                                              *)

\* refresh_database_health without a look at the age of what is on record.
FreshWhileHealthy == status.postgres = "HEALTHY"

Fresh == now - checked < MaxAge

Answer(healthy) == ready' = IF healthy THEN ready \cup {now} ELSE ready

\* A recent record is the answer; otherwise the database is asked.
Ask(r) ==
    /\ request[r] = None
    /\ IF Fresh
       THEN Answer(status.postgres = "HEALTHY") /\ UNCHANGED request
       ELSE /\ request' = [request EXCEPT ![r] = [since |-> now, answer |-> None]]
            /\ UNCHANGED ready
    /\ UNCHANGED <<world, board, sweep, mirroring>>

\* PostgreSQL answers SELECT 1, or refuses the connection.
Select(r) ==
    /\ request[r] # None /\ request[r].answer = None
    /\ request' = [request EXCEPT ![r].answer = IF up THEN "HEALTHY" ELSE "DOWN"]
    /\ UNCHANGED <<world, board, sweep, ready, mirroring>>

\* check_database: the answer, or that there was none in time.
CheckDatabase(r) ==
    /\ request[r] # None
    /\ \/ request[r].answer # None /\ Record("postgres", request[r].answer)
       \/ request[r].answer = None /\ now = request[r].since + Timeout /\ Record("postgres", "DOWN")
    /\ request' = [request EXCEPT ![r] = None]
    /\ Answer(status'.postgres = "HEALTHY")
    /\ UNCHANGED <<world, sweep, mirroring>>

-----------------------------------------------------------------------------
(* The mirror.                                                             *)

\* persist builds its rows and waits for the registry's lock.
Persist ==
    /\ Len(lock) < 2 /\ lock' = Append(lock, records)
    /\ UNCHANGED <<world, board, sweep, request, ready, mirror>>

\* Without the lock, whichever transaction commits.
CommitsAnyOrder == DOMAIN lock

\* asyncio.Lock is fair: the first to wait is the first to write.
Commits == {i \in DOMAIN lock : i = 1}

\* A transaction that fails is logged and forgotten.
Upsert ==
    /\ \E i \in Commits :
           /\ lock' = RemoveAt(lock, i)
           /\ mirror' \in (IF up THEN {lock[i], mirror} ELSE {mirror})
    /\ UNCHANGED <<world, board, sweep, request, ready>>

Next ==
    \/ Tick \/ ProbeEnabledProviders \/ Persist \/ Upsert
    \/ \E p \in Providers : Work(p) \/ Probe(p)
    \/ \E r \in Requests : Ask(r) \/ Select(r) \/ CheckDatabase(r)

Spec == Init /\ [][Next]_vars

-----------------------------------------------------------------------------
(* Properties.                                                             *)

\* The readiness endpoint probes rather than trusts: whoever is told that the
\* application is ready, PostgreSQL has answered within the probe's timeout and
\* the age a result may have, whatever probes were in flight meanwhile.
ReadyIsRecent == \A at \in ready : at - lastUp < Timeout + MaxAge

\* What provider_health shows never goes back in time, although the startup sweep
\* and the schedule write it concurrently.
MirrorNeverGoesBack == [][mirror' >= mirror]_vars

\* A provider that gets worse never makes the application look better.
WorseNeverLooksBetter ==
    \A p \in Configured : \A s \in Statuses \ {"DISABLED"} :
        Severity[s] >= Severity[status[p]] /\ status[p] # "DISABLED"
        => Severity[Overall([status EXCEPT ![p] = s])] >= Severity[Overall(status)]

=============================================================================
