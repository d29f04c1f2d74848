------------------------------ MODULE Research -------------------------------
(***************************************************************************)
(* A paid research run: intelligence/research_service.py (request, run,    *)
(* sweep, enqueue_event) and handle_run_research in jobs/handlers.py.      *)
(*                                                                         *)
(* A run is identified by its impact, the configuration it was requested   *)
(* under and the operator's rerun.  A worker's steps are its transactions; *)
(* what the models answer, and when, is any answer at any time.  Which     *)
(* impacts are worth a run is a policy of thresholds: any that has no run  *)
(* under the current configuration may be chosen.  interrupted only        *)
(* records which runs were claimed by a worker that cannot say what it     *)
(* spent.                                                                  *)
(***************************************************************************)
EXTENDS Integers, FiniteSetsExt

CONSTANTS
    Impacts, Workers,
    MaxDeploys, MaxReruns, MaxLosses, MaxPauses,    \* bounds on the environment
    MaxAttempts,    \* RESEARCH_JOB_MAX_ATTEMPTS
    Lease,          \* research_timeout_seconds + 30, in ticks
    None

ASSUME ResearchAssumption ==
    /\ {MaxDeploys, MaxReruns, MaxLosses, MaxPauses, MaxAttempts, Lease} \subseteq Nat
    /\ None \notin Workers

Keys == Impacts \X (0 .. MaxDeploys) \X (0 .. MaxReruns)
ConfigOf(r) == r[2]

VARIABLES
    run,        \* research_runs: status, lease_token, what is left of the lease
    config,     \* config_version of the deployment
    job,        \* attempts of the active RUN_RESEARCH job, None without one
    worker,     \* the run a worker's handler is on
    announced,  \* runs whose completion has been announced
    interrupted,
    allowed, pauses,    \* what the language-model budget says to optional work
    losses

vars == <<run, config, job, worker, announced, interrupted, allowed, pauses, losses>>

Ended == {"SUCCEEDED", "FAILED", "TIMED_OUT", "CANCELLED"}

Init ==
    /\ run = [r \in Keys |-> [status |-> "ABSENT", token |-> None, left |-> 0]]
    /\ config = 0
    /\ job = [r \in Keys |-> None]
    /\ worker = [w \in Workers |-> None]
    /\ announced = {} /\ interrupted = {}
    /\ allowed = TRUE /\ pauses = 0 /\ losses = 0

Offered(rs) == job' = [r \in Keys |-> IF r \in rs /\ job[r] = None THEN 0 ELSE job[r]]

\* One row and one job whoever asks, and again; nothing once the run has begun.
Request(r) ==
    /\ ConfigOf(r) = config
    /\ \/ run[r].status = "PENDING" /\ job[r] = None /\ UNCHANGED run
       \/ /\ run[r].status = "ABSENT"
          /\ run' = [run EXCEPT ![r].status = "PENDING"]
    /\ Offered({r})
    /\ UNCHANGED <<config, worker, announced, interrupted, allowed, pauses, losses>>

\* Mutant: a run whose lease is over may be tried again.
ExpiredAgain == "PENDING"
Expired == "TIMED_OUT"

Swept(r) ==
    CASE run[r].status = "RUNNING" /\ run[r].left = 0 ->
            [status |-> Expired, token |-> None, left |-> 0]
      [] run[r].status = "PENDING" /\ ConfigOf(r) # config ->
            [run[r] EXCEPT !.status = "CANCELLED"]
      [] OTHER -> run[r]

Sweep ==
    /\ run' = [r \in Keys |-> Swept(r)]
    /\ Offered({r \in Keys : Swept(r).status = "PENDING"})
    /\ UNCHANGED <<config, worker, announced, interrupted, allowed, pauses, losses>>

-----------------------------------------------------------------------------
(* handle_run_research.                                                    *)

In(w, phase) == worker[w] # None /\ worker[w].phase = phase
To(w, phase) == worker' = [worker EXCEPT ![w].phase = phase]
Holds(w, r) == run[r].token = w

\* Mutant: the attempt is never the last.
FinalNever(r) == FALSE
Final(r) == job[r] + 1 >= MaxAttempts

Begin(w, r) ==
    /\ worker[w] = None /\ job[r] # None
    /\ \A v \in Workers : worker[v] # None => ~(worker[v].run = r /\ worker[v].owner)
    /\ job' = [job EXCEPT ![r] = @ + 1]
    /\ worker' = [worker EXCEPT ![w] = [run |-> r, phase |-> IF allowed THEN "claim" ELSE "announce",
                                        owner |-> TRUE, final |-> Final(r)]]
    /\ UNCHANGED <<run, config, announced, interrupted, allowed, pauses, losses>>

Claim(w) ==
    /\ In(w, "claim")
    /\ LET r == worker[w].run IN
          IF run[r].status = "PENDING" /\ ConfigOf(r) = config
          THEN /\ run' = [run EXCEPT ![r] = [status |-> "RUNNING", token |-> w, left |-> Lease]]
               /\ To(w, "analyse")
          ELSE To(w, "announce") /\ UNCHANGED run
    /\ UNCHANGED <<config, job, announced, interrupted, allowed, pauses, losses>>

\* Mutant: the row is not compared with the lease.
PublishesAnyway(w, r) == TRUE
Publishes(w, r) == run[r].status = "RUNNING" /\ Holds(w, r)

\* Without the lease it raises, and has nothing to write either.
Publish(w) ==
    /\ In(w, "analyse")
    /\ LET r == worker[w].run IN
          IF Publishes(w, r)
          THEN /\ run' = [run EXCEPT ![r] = [status |-> "SUCCEEDED", token |-> None, left |-> 0]]
               /\ To(w, "announce")
          ELSE To(w, "raise") /\ UNCHANGED run
    /\ UNCHANGED <<config, job, announced, interrupted, allowed, pauses, losses>>

\* What raised, and what becomes of the run: only a provider that could not
\* answer is asked again, and not after the last attempt.
Outcomes == {"capacity", "TIMED_OUT", "CANCELLED", "FAILED"}
After(w, outcome) ==
    IF outcome # "capacity" THEN outcome
    ELSE IF worker[w].final THEN "FAILED" ELSE "PENDING"

Fail(w) ==
    /\ In(w, "analyse")
    /\ LET r == worker[w].run IN
          \E outcome \in Outcomes :
             /\ run' = IF Holds(w, r)
                       THEN [run EXCEPT ![r] = [status |-> After(w, outcome), token |-> None, left |-> 0]]
                       ELSE run
             /\ interrupted' = IF outcome \in {"TIMED_OUT", "CANCELLED"} THEN interrupted \cup {r}
                               ELSE interrupted
             /\ To(w, IF After(w, outcome) = "PENDING" THEN "retry" ELSE "raise")
    /\ UNCHANGED <<config, job, announced, allowed, pauses, losses>>

\* The job is the worker's to end, unless its claim has lapsed; one that failed
\* is tried again while it has attempts.
Done(w) == IF worker[w].owner THEN [job EXCEPT ![worker[w].run] = None] ELSE job
Tried(r) == IF job[r] >= MaxAttempts THEN [job EXCEPT ![r] = None] ELSE job
Failed(w) == IF worker[w].owner THEN Tried(worker[w].run) ELSE job
Freed(w) == [worker EXCEPT ![w] = None]

Announce(w) ==
    /\ \/ In(w, "announce") /\ job' = Done(w)
       \/ In(w, "raise") /\ job' = Failed(w)
    /\ announced' = announced \cup {worker[w].run}
    /\ worker' = Freed(w)
    /\ UNCHANGED <<run, config, interrupted, allowed, pauses, losses>>

Retry(w) ==
    /\ In(w, "retry") /\ job' = Failed(w)
    /\ worker' = Freed(w)
    /\ UNCHANGED <<run, config, announced, interrupted, allowed, pauses, losses>>

-----------------------------------------------------------------------------
(* Workers that die, claims of the queue that lapse, deployments.          *)

Broken(ws) ==
    interrupted \cup {worker[w].run : w \in {v \in ws : In(v, "analyse")}}

Die(w) ==
    /\ worker[w] # None /\ losses < MaxLosses
    /\ losses' = losses + 1
    /\ job' = Failed(w)
    /\ interrupted' = Broken({w})
    /\ worker' = Freed(w)
    /\ UNCHANGED <<run, config, announced, allowed, pauses>>

LoseClaim(w) ==
    /\ worker[w] # None /\ worker[w].owner /\ losses < MaxLosses
    /\ losses' = losses + 1
    /\ job' = Failed(w)
    /\ worker' = [worker EXCEPT ![w].owner = FALSE]
    /\ UNCHANGED <<run, config, announced, interrupted, allowed, pauses>>

\* A deployment with another configuration; every worker dies with the old one.
Deploy ==
    /\ config < MaxDeploys
    /\ config' = config + 1
    /\ interrupted' = Broken(Workers)
    /\ worker' = [w \in Workers |-> None]
    /\ job' = [r \in Keys |->
          IF \E w \in Workers : worker[w] # None /\ worker[w].run = r /\ worker[w].owner
          THEN Tried(r)[r] ELSE job[r]]
    /\ UNCHANGED <<run, announced, allowed, pauses, losses>>

Tick ==
    /\ \E r \in Keys : run[r].left > 0
    /\ run' = [r \in Keys |-> [run[r] EXCEPT !.left = Max({@ - 1, 0})]]
    /\ UNCHANGED <<config, job, worker, announced, interrupted, allowed, pauses, losses>>

Pause ==
    /\ ~allowed \/ pauses < MaxPauses
    /\ allowed' = ~allowed
    /\ pauses' = IF allowed THEN pauses + 1 ELSE pauses
    /\ UNCHANGED <<run, config, job, worker, announced, interrupted, losses>>

Run(w) == Claim(w) \/ Publish(w) \/ Fail(w) \/ Announce(w) \/ Retry(w)

Next ==
    \/ Sweep \/ Deploy \/ Tick \/ Pause
    \/ \E r \in Keys : Request(r)
    \/ \E w \in Workers : Run(w) \/ Die(w) \/ LoseClaim(w) \/ \E r \in Keys : Begin(w, r)

Spec == Init /\ [][Next]_vars

\* Workers and the sweep keep running, a claimable job is claimed, leases run
\* out, and a budget that is used up rolls over.
Fairness ==
    /\ \A w \in Workers : WF_vars(Run(w))
    /\ WF_vars(Sweep) /\ WF_vars(Tick) /\ WF_vars(~allowed /\ Pause)
    /\ \A r \in Keys : SF_vars(\E w \in Workers : Begin(w, r))

-----------------------------------------------------------------------------

TypeOK ==
    /\ run \in [Keys -> [status : Ended \cup {"ABSENT", "PENDING", "RUNNING"},
                         token : Workers \cup {None}, left : 0 .. Lease]]
    /\ config \in 0 .. MaxDeploys
    /\ job \in [Keys -> {None} \cup Nat]
    /\ worker \in [Workers -> {None} \cup
          [run : Keys, phase : {"claim", "analyse", "announce", "raise", "retry"},
           owner : BOOLEAN, final : BOOLEAN]]
    /\ announced \in SUBSET Keys /\ interrupted \in SUBSET Keys
    /\ allowed \in BOOLEAN

\* A run whose worker died, was cancelled or ran out of time is never begun
\* again, whatever lapses, is swept, redelivered or redeployed: what it spent is
\* unknown (module docstring); and one that has ended stays as it ended, although
\* a worker whose lease is over may still come back with an answer.
NoBlindRerun ==
    [][\A r \in Keys :
          /\ run[r].status \in Ended => run'[r].status = run[r].status
          /\ r \in interrupted /\ run[r].status = "PENDING" => run'[r].status # "RUNNING"]_vars

\* Every requested run ends, through budget pauses, retries, deaths and a
\* deployment that changes the configuration under it.
EveryRunEnds ==
    \A r \in Keys : run[r].status # "ABSENT" ~> run[r].status \in Ended

\* handle_run_research: "announcing completion now would report a run that has
\* not finished".
AnnouncedWhenDone == \A r \in announced : run[r].status \in Ended
=============================================================================
