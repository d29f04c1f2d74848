------------------------------ MODULE JobQueue ------------------------------
(***************************************************************************)
(* The durable job queue: jobs/queue.py over the jobs table, and the       *)
(* worker loop and reaper of jobs/runner.py.                               *)
(*                                                                         *)
(* A worker claims a row in one transaction, runs its handler outside any, *)
(* and writes the result in a second one.  Between the two it may die, or  *)
(* take so long that the reaper gives its row to somebody else: complete   *)
(* and fail name the row only, not the claim they belong to.  fail reads   *)
(* the row without a lock and then updates the columns it has changed.     *)
(***************************************************************************)
EXTENDS Integers, FiniteSets

CONSTANTS
    Jobs,          \* identities of jobs rows, numbered in order of creation
    KeyOf,         \* the dedupe key a row is enqueued with, or None
    Priority,      \* the priority a row is enqueued with; lower runs first
    Workers,       \* worker tasks, of one or several processes
    MaxAttempts,   \* jobs.max_attempts
    ClaimTimeout,  \* job_claim_timeout_seconds, in ticks
    HandlerMax,    \* longest time from a claim to its recorded result, in ticks
    BackoffMax,    \* longest retry delay, in ticks
    MaxCrashes,    \* bound: how often a worker dies
    None

ASSUME QueueAssumption ==
    /\ Jobs \subseteq Nat
    /\ Priority \in [Jobs -> Nat]
    /\ MaxAttempts \in Nat \ {0}
    /\ ClaimTimeout \in Nat
    /\ HandlerMax \in Nat
    /\ BackoffMax \in Nat
    /\ MaxCrashes \in Nat
    /\ None \notin Jobs /\ None \notin Workers

VARIABLES
    jstatus,    \* jobs.status, or "ABSENT" before the row exists
    attempts,   \* jobs.attempts
    lockedBy,   \* jobs.locked_by
    lockAge,    \* ticks since locked_at
    delay,      \* ticks until run_after
    task,       \* the row a worker is on
    phase,      \* the worker: waiting, in the handler, or recording its end
    taskAge,    \* ticks since the worker's claim
    seen,       \* the row as fail() has read it
    crashes

rowVars == <<jstatus, attempts, lockedBy, lockAge, delay>>
taskVars == <<task, phase, taskAge, seen>>
vars == <<rowVars, taskVars, crashes>>

JobStatus == {"PENDING", "RUNNING", "SUCCEEDED", "FAILED"}

Active == {"PENDING", "RUNNING"}

LockCap == ClaimTimeout + 1

Row(j) == [status |-> jstatus[j], attempts |-> attempts[j], locker |-> lockedBy[j]]

Rows == [status : JobStatus \cup {"ABSENT"}, attempts : Nat, locker : Workers \cup {None}]

NoRow == [status |-> "ABSENT", attempts |-> 0, locker |-> None]

RowTypes ==
    /\ jstatus \in [Jobs -> JobStatus \cup {"ABSENT"}]
    /\ attempts \in [Jobs -> Nat]
    /\ lockedBy \in [Jobs -> Workers \cup {None}]
    /\ lockAge \in [Jobs -> 0..LockCap]
    /\ delay \in [Jobs -> 0..BackoffMax]

TaskTypes ==
    /\ task \in [Workers -> Jobs \cup {None}]
    /\ phase \in [Workers -> {"waiting", "handling", "done", "failed", "read"}]
    /\ taskAge \in [Workers -> 0..HandlerMax]
    /\ seen \in [Workers -> Rows]
    /\ \A w \in Workers : phase[w] = "waiting" \/ task[w] \in Jobs

\* The columns of the jobs table and the state of the workers keep their ranges
\* (claim, complete, fail, reclaim_abandoned).
TypeOK ==
    /\ RowTypes
    /\ TaskTypes
    /\ crashes \in 0..MaxCrashes

Init ==
    /\ jstatus = [j \in Jobs |-> "ABSENT"]
    /\ attempts = [j \in Jobs |-> 0]
    /\ lockedBy = [j \in Jobs |-> None]
    /\ lockAge = [j \in Jobs |-> 0]
    /\ delay = [j \in Jobs |-> 0]
    /\ task = [w \in Workers |-> None]
    /\ phase = [w \in Workers |-> "waiting"]
    /\ taskAge = [w \in Workers |-> 0]
    /\ seen = [w \in Workers |-> NoRow]
    /\ crashes = 0

-----------------------------------------------------------------------------
(* The queue *)

\* Mutant of KeyFree: the index covers waiting rows only.
KeyFreeOfPending(j) ==
    KeyOf[j] = None \/ \A i \in Jobs : KeyOf[i] = KeyOf[j] /\ i # j =>
                                          jstatus[i] # "PENDING"

\* uq_jobs_dedupe_key_active: one active row per key.
KeyFree(j) ==
    KeyOf[j] = None \/ \A i \in Jobs : KeyOf[i] = KeyOf[j] /\ i # j =>
                                          jstatus[i] \notin Active

\* enqueue; a suppressed insert changes nothing.  Rows are created in the order
\* of their numbers.
Enqueue(j) ==
    /\ jstatus[j] = "ABSENT"
    /\ \A i \in Jobs : i < j => jstatus[i] # "ABSENT"
    /\ KeyFree(j)
    /\ jstatus' = [jstatus EXCEPT ![j] = "PENDING"]
    /\ UNCHANGED <<attempts, lockedBy, lockAge, delay, taskVars, crashes>>

Claimable == {j \in Jobs : jstatus[j] = "PENDING" /\ delay[j] = 0}

\* ORDER BY priority, created_at LIMIT 1.
IsNext(j) ==
    /\ j \in Claimable
    /\ \A i \in Claimable : \/ Priority[j] < Priority[i]
                            \/ Priority[j] = Priority[i] /\ j <= i

Claim(w, j) ==
    /\ phase[w] = "waiting"
    /\ IsNext(j)
    /\ jstatus' = [jstatus EXCEPT ![j] = "RUNNING"]
    /\ attempts' = [attempts EXCEPT ![j] = @ + 1]
    /\ lockedBy' = [lockedBy EXCEPT ![j] = w]
    /\ lockAge' = [lockAge EXCEPT ![j] = 0]
    /\ task' = [task EXCEPT ![w] = j]
    /\ phase' = [phase EXCEPT ![w] = "handling"]
    /\ taskAge' = [taskAge EXCEPT ![w] = 0]
    /\ UNCHANGED <<delay, seen, crashes>>

\* The handler returns or raises; an unknown job type raises too.
HandlerEnds(w) ==
    /\ phase[w] = "handling"
    /\ \E end \in {"done", "failed"} : phase' = [phase EXCEPT ![w] = end]
    /\ UNCHANGED <<rowVars, task, taskAge, seen, crashes>>

Unlock(j) ==
    /\ lockedBy' = [lockedBy EXCEPT ![j] = None]
    /\ lockAge' = [lockAge EXCEPT ![j] = 0]

FreeWorker(w) ==
    /\ task' = [task EXCEPT ![w] = None]
    /\ phase' = [phase EXCEPT ![w] = "waiting"]
    /\ taskAge' = [taskAge EXCEPT ![w] = 0]
    /\ seen' = [seen EXCEPT ![w] = NoRow]

Complete(w) ==
    LET j == task[w]
    IN  /\ phase[w] = "done"
        /\ jstatus' = [jstatus EXCEPT ![j] = "SUCCEEDED"]
        /\ Unlock(j)
        /\ FreeWorker(w)
        /\ UNCHANGED <<attempts, delay, crashes>>

\* Mutant of Retryable: one attempt too many.
RetryableOnceMore(n) == n <= MaxAttempts

Retryable(n) == n < MaxAttempts

\* fail, the SELECT: session.get takes no lock.
FailRead(w) ==
    /\ phase[w] = "failed"
    /\ seen' = [seen EXCEPT ![w] = Row(task[w])]
    /\ phase' = [phase EXCEPT ![w] = "read"]
    /\ UNCHANGED <<rowVars, task, taskAge, crashes>>

\* Mutant of Verdict: a spent job gets a status the enum does not have.
VerdictDead(row) == IF Retryable(row.attempts) THEN "PENDING" ELSE "DEAD"

\* What fail decides from the row it has read.
Verdict(row) == IF Retryable(row.attempts) THEN "PENDING" ELSE "FAILED"

\* The UPDATE would bring back a row whose key another row now holds.
Collides(j, status) == status \in Active /\ jstatus[j] \notin Active /\ ~KeyFree(j)

\* fail, the UPDATE: the columns that differ from the row it has read, and
\* run_after, an SQL expression, whenever the job is rescheduled.  A collision
\* rolls the transaction back and the worker loop goes on.
FailWrite(w) ==
    LET j == task[w]
        row == seen[w]
        written == IF Verdict(row) # row.status THEN Verdict(row) ELSE jstatus[j]
    IN  /\ phase[w] = "read"
        /\ \/ /\ ~Collides(j, written)
              /\ jstatus' = [jstatus EXCEPT ![j] = written]
              /\ IF row.locker # None THEN Unlock(j) ELSE UNCHANGED <<lockedBy, lockAge>>
              /\ IF Retryable(row.attempts)
                 THEN \E d \in 0..BackoffMax : delay' = [delay EXCEPT ![j] = d]
                 ELSE UNCHANGED delay
           \/ /\ Collides(j, written)
              /\ UNCHANGED <<jstatus, delay, lockedBy, lockAge>>
        /\ FreeWorker(w)
        /\ UNCHANGED <<attempts, crashes>>

\* The process dies, or stop() cancels the task.
Crash(w) ==
    /\ phase[w] # "waiting"
    /\ crashes < MaxCrashes
    /\ crashes' = crashes + 1
    /\ FreeWorker(w)
    /\ UNCHANGED rowVars

\* Mutant of TimedOut: locked_at is not compared with the cutoff.
TimedOutEarly(j) == jstatus[j] = "RUNNING" /\ lockedBy[j] # None

\* Mutant of TimedOut: the update for rows without attempts left is missing.
TimedOutWithBudget(j) ==
    /\ jstatus[j] = "RUNNING" /\ lockedBy[j] # None /\ lockAge[j] > ClaimTimeout
    /\ Retryable(attempts[j])

TimedOut(j) ==
    jstatus[j] = "RUNNING" /\ lockedBy[j] # None /\ lockAge[j] > ClaimTimeout

\* reclaim_abandoned: both updates in the reaper's one transaction.
Reclaim ==
    /\ \E j \in Jobs : TimedOut(j)
    /\ jstatus' = [j \in Jobs |->
                     IF TimedOut(j) THEN IF Retryable(attempts[j]) THEN "PENDING" ELSE "FAILED"
                                    ELSE jstatus[j]]
    /\ lockedBy' = [j \in Jobs |-> IF TimedOut(j) THEN None ELSE lockedBy[j]]
    /\ lockAge' = [j \in Jobs |-> IF TimedOut(j) THEN 0 ELSE lockAge[j]]
    /\ delay' = [j \in Jobs |-> IF TimedOut(j) /\ Retryable(attempts[j]) THEN 0 ELSE delay[j]]
    /\ UNCHANGED <<attempts, taskVars, crashes>>

\* Time passes while every running handler stays within HandlerMax.
Tick ==
    /\ \A w \in Workers : phase[w] # "waiting" => taskAge[w] < HandlerMax
    /\ lockAge' = [j \in Jobs |-> IF lockedBy[j] # None /\ lockAge[j] < LockCap
                                  THEN lockAge[j] + 1 ELSE lockAge[j]]
    /\ delay' = [j \in Jobs |-> IF delay[j] > 0 THEN delay[j] - 1 ELSE 0]
    /\ taskAge' = [w \in Workers |-> IF phase[w] # "waiting" THEN taskAge[w] + 1
                                                             ELSE taskAge[w]]
    /\ UNCHANGED <<jstatus, attempts, lockedBy, task, phase, seen, crashes>>

-----------------------------------------------------------------------------
WorkerStep(w) == HandlerEnds(w) \/ Complete(w) \/ FailRead(w) \/ FailWrite(w)

Next ==
    \/ \E j \in Jobs : Enqueue(j)
    \/ \E w \in Workers : \/ \E j \in Jobs : Claim(w, j)
                          \/ WorkerStep(w)
                          \/ Crash(w)
    \/ Reclaim
    \/ Tick

Spec == Init /\ [][Next]_vars

\* Workers poll, the reaper runs every thirty seconds, handlers end and time
\* passes.  Nobody has to enqueue anything.
Fairness ==
    /\ \A w \in Workers : /\ WF_vars(\E j \in Jobs : Claim(w, j))
                          /\ WF_vars(WorkerStep(w))
    /\ WF_vars(Reclaim)
    /\ WF_vars(Tick)

FairSpec == Spec /\ Fairness

-----------------------------------------------------------------------------
(* Properties *)

\* While no handler outlasts the claim timeout, no two workers are ever on the
\* same row, across crashes, retries and reclaims (claim: "without ever handing
\* out the same row twice").
OneWorkerPerJob ==
    \A v, w \in Workers : task[v] = task[w] /\ v # w => task[v] = None

\* A row that can be claimed has attempts left, so a job that kills its worker
\* cannot loop: it is handed out at most max_attempts times (reclaim_abandoned).
PendingHasBudget ==
    \A j \in Jobs : /\ jstatus[j] = "PENDING" => attempts[j] < MaxAttempts
                    /\ attempts[j] <= MaxAttempts

\* A finished job stays finished: no late result of an earlier claim revives it
\* or rewrites it.
FinishedStays ==
    [][\A j \in Jobs : jstatus[j] \in {"SUCCEEDED", "FAILED"} =>
                           jstatus'[j] = jstatus[j]]_vars

\* One active row per dedupe key (enqueue: "a database guarantee rather than a
\* hopeful check"), also when an old result brings a row back.
OneActivePerKey ==
    \A i, j \in Jobs :
        (/\ KeyOf[i] = KeyOf[j] /\ KeyOf[i] # None
         /\ jstatus[i] \in Active /\ jstatus[j] \in Active) => i = j

\* Whatever dies, every job enqueued is eventually done or dead: no row stays
\* RUNNING for ever (reclaim_abandoned: "A worker that crashes mid-job leaves
\* the row RUNNING forever").
JobsEnd == \A j \in Jobs : (jstatus[j] \in Active) ~> (jstatus[j] \notin Active)

=============================================================================
