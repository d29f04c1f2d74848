------------------------------ MODULE Execution ------------------------------
(***************************************************************************)
(* Order execution and reconciliation: execution/service.py,               *)
(* execution/preflight.py, execution/reconciliation.py, with the broker's  *)
(* order book as the external party they talk to.                          *)
(*                                                                         *)
(* A worker runs ExecutionService.execute for one proposal.  Its awaits    *)
(* (database sessions, market data, the POST) are where other actors get   *)
(* in, so execute is one action per transaction or network call.  A        *)
(* reconciler runs ReconciliationService.reconcile for one attempt, split  *)
(* the same way.  Either may die anywhere, losing its local state only.    *)
(*                                                                         *)
(* Time is kept as ages: every timestamp of the code is compared only with *)
(* "now", so an attempt carries the ticks since its sent_at and a proposal *)
(* the ticks left before its expires_at; Tick advances all of them.        *)
(*                                                                         *)
(* The proposal's version column is compared with the one a worker read    *)
(* before its preflight; only "has it changed since" matters, which is     *)
(* what moved records, for the workers that will compare.                  *)
(***************************************************************************)
EXTENDS Integers, FiniteSets, ProposalStates

CONSTANTS
    Proposals,
    Attempts,      \* identities of execution_attempts rows, numbered
    Owner,         \* the proposal each row belongs to
    Listing,       \* the broker ticker (and signed quantity) of a proposal
    Workers,       \* job workers and scheduler ticks of the execution service
    Reconcilers,   \* running calls of reconcile
    TTL,           \* proposal lifetime, in ticks
    PreMax,        \* longest time from the start of execute to the send claim
    LandMax,       \* longest time from the send claim until the broker lists
                   \* the order or provably never will
    MinAge,        \* execution_reconcile_min_age_seconds
    RecoverAge,    \* twice t212_order_timeout_seconds
    MaxPasses,     \* execution_reconcile_max_attempts
    MaxCrashes,    \* bound: how often a worker or reconciler dies
    MaxFailures,   \* bound: how often a broker read fails
    None

ASSUME ConstantsAssumption ==
    /\ Attempts \subseteq Nat
    /\ Owner \in [Attempts -> Proposals]
    /\ {TTL, PreMax, LandMax, MinAge, RecoverAge, MaxPasses, MaxCrashes,
        MaxFailures} \subseteq Nat
    /\ None \notin Proposals /\ None \notin Attempts

VARIABLES
    status,    \* trade_proposals.status, or "ABSENT" before the row exists
    ttl,       \* ticks left until expires_at
    halted,    \* ControlSnapshot.trading_halted
    execJob,   \* a PENDING or RUNNING execute:{id} job row exists
    sent,      \* execution_attempts.sent_to_broker (sent_at is set exactly then)
    outcome,   \* execution_attempts.outcome, or "NONE" before the row exists
    orderId,   \* execution_attempts.broker_order_id
    age,       \* ticks since sent_at
    passes,    \* execution_attempts.reconciliation_attempts
    mirror,    \* broker_orders: the attempt an order is recorded against
    remote,    \* what became of the attempt's POST at the broker
    land,      \* ticks since the attempt was claimed
    \* A worker: its next step, proposal and attempt; whether a job row stands
    \* behind it; whether the TTL had run out when it began and the ticks since;
    \* the order status it was answered.
    pc, prop, att, job, late, elapsed, ack,
    moved,     \* workers whose proposal row has changed since they read it
    \* A reconciler: its next step and attempt; the order id it started from;
    \* whether finding nothing would prove absence; what each list showed; the
    \* order it settled on and the status it saw.
    rpc, subject, known, conclusive, pend, hist, order, seen,
    crashes, failures

proposalVars == <<status, ttl, halted, execJob>>
attemptVars == <<sent, outcome, orderId, age, passes, mirror>>
brokerVars == <<remote, land>>
heldVars == <<prop, att, job, late, elapsed, ack>>
workerVars == <<pc, heldVars, moved>>
recVars == <<rpc, subject, known, conclusive, pend, hist, order, seen>>
bounds == <<crashes, failures>>
vars == <<proposalVars, attemptVars, brokerVars, workerVars, recVars, bounds>>

Outcomes == {"NONE", "PENDING", "FAILED_BEFORE_SEND", "SUBMITTED",
             "REJECTED_BY_BROKER", "AMBIGUOUS", "RECONCILED_FILLED",
             "RECONCILED_NOT_PLACED"}

UnresolvedOutcomes == {"PENDING", "AMBIGUOUS", "SUBMITTED"}

\* An order's life at the broker, for the one POST an attempt can make: not
\* transmitted, on the wire, lost there, refused, accepted but not yet listed
\* by any read, working, filled, or ended unfilled.
Remote == {"none", "wire", "lost", "refused", "hidden", "NEW", "FILLED", "DEAD"}

Placed == {"hidden", "NEW", "FILLED", "DEAD"}

AttemptsOf(p) == {a \in Attempts : Owner[a] = p}

SentAttempts(p) == {a \in AttemptsOf(p) : sent[a]}

\* The next step of execute.  refuse and retire are the two ways a refusal is
\* recorded; the last group is where the result of the POST is.
WorkerSteps == {"idle", "begin", "checking", "claim", "refuse", "retire", "post",
                "await", "retract", "success", "rejected", "ambiguous", "recover"}

\* Before the send claim: execute's preflight and its broker reads.
PreClaimSteps == {"begin", "checking", "claim"}

\* The next step of reconcile; the last three record its conclusion.
RecSteps == {"idle", "byid", "pending", "history", "decide",
             "found", "notplaced", "unknown"}

ProposalTypes ==
    /\ status \in [Proposals -> ProposalStatus \cup {"ABSENT"}]
    /\ ttl \in [Proposals -> 0..TTL]
    /\ halted \in BOOLEAN
    /\ execJob \in [Proposals -> BOOLEAN]

AttemptTypes ==
    /\ sent \in [Attempts -> BOOLEAN]
    /\ outcome \in [Attempts -> Outcomes]
    /\ orderId \in [Attempts -> Attempts \cup {None}]
    /\ age \in [Attempts -> Nat]
    /\ passes \in [Attempts -> 0..MaxPasses]
    /\ mirror \in [Attempts -> Attempts \cup {None}]
    /\ remote \in [Attempts -> Remote]
    /\ land \in [Attempts -> 0..LandMax]

WorkerTypes ==
    /\ pc \in [Workers -> WorkerSteps]
    /\ prop \in [Workers -> Proposals \cup {None}]
    /\ att \in [Workers -> Attempts \cup {None}]
    /\ job \in [Workers -> BOOLEAN]
    /\ late \in [Workers -> BOOLEAN]
    /\ elapsed \in [Workers -> 0..PreMax]
    /\ ack \in [Workers -> Remote]
    /\ moved \subseteq Workers

ReconcilerTypes ==
    /\ rpc \in [Reconcilers -> RecSteps]
    /\ subject \in [Reconcilers -> Attempts \cup {None}]
    /\ known \in [Reconcilers -> Attempts \cup {None}]
    /\ conclusive \in [Reconcilers -> BOOLEAN]
    /\ pend \in [Reconcilers -> SUBSET Attempts]
    /\ hist \in [Reconcilers -> SUBSET Attempts]
    /\ order \in [Reconcilers -> Attempts \cup {None}]
    /\ seen \in [Reconcilers -> Remote]

BoundTypes == crashes \in 0..MaxCrashes /\ failures \in 0..MaxFailures

\* Every column and every local of a call keeps the range its schema gives it
\* (db/models/proposals.py); in particular no action invents an outcome or a
\* status the enums do not have.
TypeOK ==
    /\ ProposalTypes
    /\ AttemptTypes
    /\ WorkerTypes
    /\ ReconcilerTypes
    /\ BoundTypes

Init ==
    /\ status = [p \in Proposals |-> "ABSENT"]
    /\ ttl = [p \in Proposals |-> TTL]
    /\ halted = FALSE
    /\ execJob = [p \in Proposals |-> FALSE]
    /\ sent = [a \in Attempts |-> FALSE]
    /\ outcome = [a \in Attempts |-> "NONE"]
    /\ orderId = [a \in Attempts |-> None]
    /\ age = [a \in Attempts |-> 0]
    /\ passes = [a \in Attempts |-> 0]
    /\ mirror = [a \in Attempts |-> None]
    /\ remote = [a \in Attempts |-> "none"]
    /\ land = [a \in Attempts |-> 0]
    /\ pc = [w \in Workers |-> "idle"]
    /\ prop = [w \in Workers |-> None]
    /\ att = [w \in Workers |-> None]
    /\ job = [w \in Workers |-> FALSE]
    /\ late = [w \in Workers |-> FALSE]
    /\ elapsed = [w \in Workers |-> 0]
    /\ ack = [w \in Workers |-> "none"]
    /\ moved = {}
    /\ rpc = [r \in Reconcilers |-> "idle"]
    /\ subject = [r \in Reconcilers |-> None]
    /\ known = [r \in Reconcilers |-> None]
    /\ conclusive = [r \in Reconcilers |-> FALSE]
    /\ pend = [r \in Reconcilers |-> {}]
    /\ hist = [r \in Reconcilers |-> {}]
    /\ order = [r \in Reconcilers |-> None]
    /\ seen = [r \in Reconcilers |-> "none"]
    /\ crashes = 0
    /\ failures = 0

-----------------------------------------------------------------------------
(* Writes to a proposal row *)

\* Every flush of a changed row raises its version, which any worker that has
\* read the row before will notice.
Readers(p) == {w \in Workers : pc[w] \in PreClaimSteps /\ prop[w] = p}

Bump(p) == moved' = moved \cup Readers(p)

BumpBy(w, p) == moved' = (moved \cup Readers(p)) \ {w}

SetStatus(p, s) == status' = [status EXCEPT ![p] = s]

\* What the rest of the system does to a proposal, as far as execution can see
\* it.  generate inserts the row under uq_trade_proposals_active_instrument.
Generate(p) ==
    /\ status[p] = "ABSENT"
    /\ \A q \in Proposals :
         Listing[q] = Listing[p] => status[q] \notin ActiveStatuses
    /\ SetStatus(p, "READY")
    /\ UNCHANGED <<ttl, halted, execJob, attemptVars, brokerVars, workerVars,
                   recVars, bounds>>

Authorize(p) ==
    /\ status[p] \in AuthorizableStatuses
    /\ ttl[p] > 0
    /\ SetStatus(p, "APPROVED")
    /\ Bump(p)
    /\ UNCHANGED <<ttl, halted, execJob, attemptVars, brokerVars, pc, heldVars,
                   recVars, bounds>>

Expire(p) ==
    /\ status[p] \in SweepableStatuses
    /\ ttl[p] = 0
    /\ SetStatus(p, "EXPIRED")
    /\ Bump(p)
    /\ UNCHANGED <<ttl, halted, execJob, attemptVars, brokerVars, pc, heldVars,
                   recVars, bounds>>

\* _invalidate_stale_preconditions: policy, listing, thesis or position moved.
InvalidateStale(p) ==
    /\ status[p] \in ActiveStatuses
    /\ CanTransition(status[p], "INVALIDATED")
    /\ SetStatus(p, "INVALIDATED")
    /\ Bump(p)
    /\ UNCHANGED <<ttl, halted, execJob, attemptVars, brokerVars, pc, heldVars,
                   recVars, bounds>>

\* The operator withdraws the proposal, wherever the table lets him.
Cancel(p) ==
    /\ CanTransition(status[p], "CANCELLED")
    /\ SetStatus(p, "CANCELLED")
    /\ Bump(p)
    /\ UNCHANGED <<ttl, halted, execJob, attemptVars, brokerVars, pc, heldVars,
                   recVars, bounds>>

\* Pause, resume and the kill switch; execution only asks for trading_halted.
SetHalted ==
    /\ halted' = ~halted
    /\ UNCHANGED <<status, ttl, execJob, attemptVars, brokerVars, workerVars,
                   recVars, bounds>>

EnqueueReady(p) ==
    /\ status[p] \in ExecutableStatuses
    /\ ttl[p] > 0
    /\ SentAttempts(p) = {}
    /\ ~halted
    /\ ~execJob[p]
    /\ execJob' = [execJob EXCEPT ![p] = TRUE]
    /\ UNCHANGED <<status, ttl, halted, attemptVars, brokerVars, workerVars,
                   recVars, bounds>>

-----------------------------------------------------------------------------
(* Workers *)

Idle(w) ==
    /\ pc' = [pc EXCEPT ![w] = "idle"]
    /\ prop' = [prop EXCEPT ![w] = None]
    /\ att' = [att EXCEPT ![w] = None]
    /\ job' = [job EXCEPT ![w] = FALSE]
    /\ late' = [late EXCEPT ![w] = FALSE]
    /\ elapsed' = [elapsed EXCEPT ![w] = 0]
    /\ ack' = [ack EXCEPT ![w] = "none"]

\* The handler returned: the runner completes the job row.
Finish(w) ==
    /\ Idle(w)
    /\ execJob' = IF job[w] THEN [execJob EXCEPT ![prop[w]] = FALSE]
                            ELSE execJob

\* The handler raised or its worker died: the row is rescheduled while it has
\* attempts left, and dead afterwards.
Abandon(w) ==
    /\ Idle(w)
    /\ \/ execJob' = execJob
       \/ job[w] /\ execJob' = [execJob EXCEPT ![prop[w]] = FALSE]

Goto(w, step) == pc' = [pc EXCEPT ![w] = step]

\* A transition the table forbids raises inside the transaction: nothing is
\* written.
Rollback(w) ==
    /\ Abandon(w)
    /\ UNCHANGED <<status, ttl, halted, attemptVars, brokerVars, moved, recVars,
                   bounds>>

\* execute, its first session: an attempt already recorded as sent is
\* recovered, a proposal that is not executable ends the job.
ExecuteStart(w, p) ==
    /\ pc[w] = "idle"
    /\ execJob[p]
    /\ \/ \E a \in SentAttempts(p) :
            /\ Goto(w, "recover")
            /\ att' = [att EXCEPT ![w] = a]
       \/ /\ SentAttempts(p) = {}
          /\ status[p] \in ExecutableStatuses
          /\ Goto(w, "begin")
          /\ UNCHANGED att
    /\ prop' = [prop EXCEPT ![w] = p]
    /\ job' = [job EXCEPT ![w] = TRUE]
    /\ late' = [late EXCEPT ![w] = (ttl[p] = 0)]
    /\ UNCHANGED <<proposalVars, attemptVars, brokerVars, elapsed, ack, moved,
                   recVars, bounds>>

ExecuteNothing(p) ==
    /\ execJob[p]
    /\ SentAttempts(p) = {}
    /\ status[p] \notin ExecutableStatuses
    /\ execJob' = [execJob EXCEPT ![p] = FALSE]
    /\ UNCHANGED <<status, ttl, halted, attemptVars, brokerVars, workerVars,
                   recVars, bounds>>

\* preflight.run up to its first network read.  Its refusals here are about
\* the deployment or the moment and never retire the proposal.
PreflightBegin(w) ==
    /\ pc[w] = "begin"
    /\ moved' = moved \ {w}
    /\ LET p == prop[w]
           refused == \/ halted
                      \/ status[p] \notin ExecutableStatuses
                      \/ late[w]
       IN  Goto(w, IF refused THEN "refuse" ELSE "checking")
    /\ UNCHANGED <<proposalVars, attemptVars, brokerVars, heldVars, recVars,
                   bounds>>

\* The rest of the preflight, the pending-order count and the local rate
\* limiter: the order goes on, is refused for the moment, or is retired because
\* a risk rule that is not transient blocked it.
PreflightEnd(w) ==
    /\ pc[w] = "checking"
    /\ \E step \in {"claim", "refuse", "retire"} : Goto(w, step)
    /\ UNCHANGED <<proposalVars, attemptVars, brokerVars, heldVars, moved,
                   recVars, bounds>>

\* Mutant of Retires: the status is not looked at again under the lock.
RetiresUnchecked(w) == pc[w] = "retire"

Retires(w) == pc[w] = "retire" /\ status[prop[w]] \in ExecutableStatuses

\* _record_refusal.  The attempt row it adds is never sent and nothing reads
\* it, so only its effect on the proposal is kept.
RecordRefusal(w) ==
    /\ pc[w] \in {"refuse", "retire"}
    /\ LET p == prop[w]
       IN  IF Retires(w)
           THEN SetStatus(p, "INVALIDATED") /\ BumpBy(w, p)
           ELSE UNCHANGED status /\ moved' = moved \ {w}
    /\ Finish(w)
    /\ UNCHANGED <<ttl, halted, attemptVars, brokerVars, recVars, bounds>>

\* The checks of _claim_and_mark_sent, all made under the proposal's lock.
\* expires_at is compared with the moment execute began.
ClaimAllowed(w) ==
    LET p == prop[w]
    IN  /\ w \notin moved
        /\ status[p] \in ExecutableStatuses
        /\ ~late[w]
        /\ SentAttempts(p) = {}
        /\ ~halted

\* _claim_and_mark_sent: sent_to_broker is committed before the request, with
\* sent_at the moment execute began.
ClaimAndMarkSent(w) ==
    /\ pc[w] = "claim"
    /\ ClaimAllowed(w)
    /\ \E a \in AttemptsOf(prop[w]) :
         /\ outcome[a] = "NONE"
         /\ \A b \in AttemptsOf(prop[w]) : outcome[b] = "NONE" => a <= b
         /\ sent' = [sent EXCEPT ![a] = TRUE]
         /\ outcome' = [outcome EXCEPT ![a] = "PENDING"]
         /\ age' = [age EXCEPT ![a] = elapsed[w]]
         /\ att' = [att EXCEPT ![w] = a]
    /\ SetStatus(prop[w], "EXECUTING")
    /\ BumpBy(w, prop[w])
    /\ Goto(w, "post")
    /\ UNCHANGED <<ttl, halted, execJob, orderId, passes, mirror, brokerVars,
                   prop, job, late, elapsed, ack, recVars, bounds>>

ClaimLost(w) ==
    /\ pc[w] = "claim"
    /\ ~ClaimAllowed(w)
    /\ Finish(w)
    /\ moved' = moved \ {w}
    /\ UNCHANGED <<status, ttl, halted, attemptVars, brokerVars, recVars, bounds>>

\* provider.submit: the request is written to the socket ...
Transmit(w) ==
    /\ pc[w] = "post"
    /\ remote' = [remote EXCEPT ![att[w]] = "wire"]
    /\ Goto(w, "await")
    /\ UNCHANGED <<proposalVars, attemptVars, land, heldVars, moved,
                   recVars, bounds>>

\* ... or the transport fails before it can be (DefinitePreSendFailure).  Bound:
\* this happens only while the proposal has an attempt identity left to retry
\* with.
PreSendFailure(w) ==
    /\ pc[w] = "post"
    /\ \E a \in AttemptsOf(prop[w]) : outcome[a] = "NONE"
    /\ Goto(w, "retract")
    /\ UNCHANGED <<proposalVars, attemptVars, brokerVars, heldVars, moved,
                   recVars, bounds>>

\* A complete answer: an acknowledgement carrying the order's status, or one of
\* the documented refusals.
Answered(w) ==
    /\ pc[w] = "await"
    /\ LET r == remote[att[w]]
       IN  \/ /\ r \in Placed
              /\ Goto(w, "success")
              /\ ack' = [ack EXCEPT ![w] = IF r = "hidden" THEN "NEW" ELSE r]
           \/ /\ r = "refused"
              /\ Goto(w, "rejected")
              /\ UNCHANGED ack
    /\ UNCHANGED <<proposalVars, attemptVars, brokerVars, prop, att, job, late,
                   elapsed, moved, recVars, bounds>>

\* Mutant of Unanswered: a timeout is taken for a failure before the send.
UnansweredRetracts(w) ==
    /\ pc[w] = "await"
    /\ Goto(w, "retract")
    /\ UNCHANGED <<proposalVars, attemptVars, brokerVars, heldVars, moved,
                   recVars, bounds>>

\* A timeout, a broken connection, 408, 429, 5xx or a 2xx nobody can parse.
Unanswered(w) ==
    /\ pc[w] = "await"
    /\ Goto(w, "ambiguous")
    /\ UNCHANGED <<proposalVars, attemptVars, brokerVars, heldVars, moved,
                   recVars, bounds>>

\* _retract_unsent: the only place sent_to_broker is set back.
RetractUnsent(w) ==
    /\ pc[w] = "retract"
    /\ LET p == prop[w]
           a == att[w]
       IN  \/ /\ CanTransition(status[p], "APPROVED")
              /\ sent' = [sent EXCEPT ![a] = FALSE]
              /\ outcome' = [outcome EXCEPT ![a] = "FAILED_BEFORE_SEND"]
              /\ SetStatus(p, "APPROVED")
              /\ Bump(p)
              /\ Finish(w)
              /\ UNCHANGED <<ttl, halted, orderId, age, passes, mirror,
                             brokerVars, recVars, bounds>>
           \/ ~CanTransition(status[p], "APPROVED") /\ Rollback(w)

\* Mutant of SuccessStatus: every order that is not filled fails the proposal.
SuccessOrFailed(p, view) == IF view = "FILLED" THEN "EXECUTED" ELSE "FAILED"

\* _record_success: a filled order ends the proposal, a dead one fails it, and
\* a working one leaves it where it is, still reserving.
SuccessStatus(p, view) ==
    IF view = "FILLED" THEN "EXECUTED"
    ELSE IF view = "DEAD" THEN "FAILED" ELSE status[p]

RecordSuccess(w) ==
    /\ pc[w] = "success"
    /\ LET p == prop[w]
           a == att[w]
           s == SuccessStatus(p, ack[w])
           legal == ack[w] \in {"FILLED", "DEAD"} => CanTransition(status[p], s)
       IN  \/ /\ legal
              /\ outcome' = [outcome EXCEPT ![a] = "SUBMITTED"]
              /\ orderId' = [orderId EXCEPT ![a] = a]
              /\ mirror' = [mirror EXCEPT ![a] = a]
              /\ SetStatus(p, s)
              /\ Bump(p)
              /\ Finish(w)
              /\ UNCHANGED <<ttl, halted, sent, age, passes, brokerVars, recVars,
                             bounds>>
           \/ ~legal /\ Rollback(w)

\* _record_rejection: the broker answered and refused.
RecordRejection(w) ==
    /\ pc[w] = "rejected"
    /\ LET p == prop[w]
       IN  \/ /\ CanTransition(status[p], "FAILED")
              /\ outcome' = [outcome EXCEPT ![att[w]] = "REJECTED_BY_BROKER"]
              /\ SetStatus(p, "FAILED")
              /\ Bump(p)
              /\ Finish(w)
              /\ UNCHANGED <<ttl, halted, sent, orderId, age, passes, mirror,
                             brokerVars, recVars, bounds>>
           \/ ~CanTransition(status[p], "FAILED") /\ Rollback(w)

\* _record_ambiguous: reached from an unanswered POST and from both recovery
\* paths, whose reading of the attempt may be stale by now.
AmbiguousAllowed(p) ==
    \/ status[p] = "EXECUTION_AMBIGUOUS"
    \/ CanTransition(status[p], "EXECUTION_AMBIGUOUS")

RecordAmbiguous(w) ==
    /\ pc[w] = "ambiguous"
    /\ LET p == prop[w]
       IN  \/ /\ AmbiguousAllowed(p)
              /\ outcome' = [outcome EXCEPT ![att[w]] = "AMBIGUOUS"]
              /\ SetStatus(p, "EXECUTION_AMBIGUOUS")
              /\ Bump(p)
              /\ Finish(w)
              /\ UNCHANGED <<ttl, halted, sent, orderId, age, passes, mirror,
                             brokerVars, recVars, bounds>>
           \/ ~AmbiguousAllowed(p) /\ Rollback(w)

\* _recover_sent_attempt reads the outcome in a session of its own.
RecoverSentAttempt(w) ==
    /\ pc[w] = "recover"
    /\ \/ /\ outcome[att[w]] = "PENDING"
          /\ Goto(w, "ambiguous")
          /\ UNCHANGED <<execJob, heldVars>>
       \/ /\ outcome[att[w]] # "PENDING"
          /\ Finish(w)
    /\ UNCHANGED <<status, ttl, halted, attemptVars, brokerVars, moved, recVars,
                   bounds>>

\* Mutant of Stranded: the comparison with the cutoff is turned round.
StrandedYoung(a) == sent[a] /\ outcome[a] = "PENDING" /\ age[a] < RecoverAge

\* recover_incomplete, the scheduler's sweep for attempts stranded by a crash.
Stranded(a) == sent[a] /\ outcome[a] = "PENDING" /\ age[a] > RecoverAge

RecoverIncomplete(w, a) ==
    /\ pc[w] = "idle"
    /\ Stranded(a)
    /\ Goto(w, "ambiguous")
    /\ prop' = [prop EXCEPT ![w] = Owner[a]]
    /\ att' = [att EXCEPT ![w] = a]
    /\ UNCHANGED <<proposalVars, attemptVars, brokerVars, job, late, elapsed, ack,
                   moved, recVars, bounds>>

Crash(w) ==
    /\ pc[w] # "idle"
    /\ crashes < MaxCrashes
    /\ crashes' = crashes + 1
    /\ Abandon(w)
    /\ moved' = moved \ {w}
    /\ UNCHANGED <<status, ttl, halted, attemptVars, brokerVars, recVars, failures>>

-----------------------------------------------------------------------------
(* Reconcilers *)

\* Orders the broker's two read paths return for the attempt's listing.
Working(a) == {o \in Attempts : /\ Listing[Owner[o]] = Listing[Owner[a]]
                                /\ remote[o] = "NEW"}

Ended(a) == {o \in Attempts : /\ Listing[Owner[o]] = Listing[Owner[a]]
                              /\ remote[o] \in {"FILLED", "DEAD"}}

\* Mutant of Settled: the order timeout is used for the settle window.
SettledByTimeout(a) == ~sent[a] \/ age[a] > RecoverAge

\* The settle window of _search_for_order; an attempt without a sent_at has
\* none.
Settled(a) == ~sent[a] \/ age[a] >= MinAge

RecGoto(r, step) == rpc' = [rpc EXCEPT ![r] = step]

RecIdle(r) ==
    /\ RecGoto(r, "idle")
    /\ subject' = [subject EXCEPT ![r] = None]
    /\ known' = [known EXCEPT ![r] = None]
    /\ conclusive' = [conclusive EXCEPT ![r] = FALSE]
    /\ pend' = [pend EXCEPT ![r] = {}]
    /\ hist' = [hist EXCEPT ![r] = {}]
    /\ order' = [order EXCEPT ![r] = None]
    /\ seen' = [seen EXCEPT ![r] = "none"]

\* A reconciler's own steps read and decide; they write nothing shared.
OnlyReconciler ==
    UNCHANGED <<proposalVars, attemptVars, brokerVars, workerVars, bounds>>

\* reconcile: called by its job, by sweep and by the operator's route, the last
\* of which takes any attempt at any time.
ReconcileStart(r, a) ==
    /\ rpc[r] = "idle"
    /\ outcome[a] \in UnresolvedOutcomes
    /\ RecGoto(r, IF orderId[a] = None THEN "pending" ELSE "byid")
    /\ subject' = [subject EXCEPT ![r] = a]
    /\ known' = [known EXCEPT ![r] = orderId[a]]
    /\ conclusive' = [conclusive EXCEPT ![r] = Settled(a)]
    /\ UNCHANGED <<pend, hist, order, seen>>
    /\ OnlyReconciler

\* fetch_order: an order that is no longer working is looked up in the lists.
FetchOrder(r) ==
    /\ rpc[r] = "byid"
    /\ IF remote[known[r]] = "NEW"
       THEN /\ RecGoto(r, "found")
            /\ order' = [order EXCEPT ![r] = known[r]]
            /\ seen' = [seen EXCEPT ![r] = "NEW"]
       ELSE /\ RecGoto(r, "pending")
            /\ UNCHANGED <<order, seen>>
    /\ UNCHANGED <<subject, known, conclusive, pend, hist>>
    /\ OnlyReconciler

\* find_candidates reads the working orders first and the history second.
ReadPending(r) ==
    /\ rpc[r] = "pending"
    /\ RecGoto(r, "history")
    /\ pend' = [pend EXCEPT ![r] = Working(subject[r])]
    /\ UNCHANGED <<subject, known, conclusive, hist, order, seen>>
    /\ OnlyReconciler

ReadHistory(r) ==
    /\ rpc[r] = "history"
    /\ RecGoto(r, "decide")
    /\ hist' = [hist EXCEPT ![r] = Ended(subject[r])]
    /\ UNCHANGED <<subject, known, conclusive, pend, order, seen>>
    /\ OnlyReconciler

\* Any of the three reads may fail.  A failed lookup by id ends the pass; a
\* failed list leaves a search from which absence cannot be concluded.
ReadFails(r) ==
    /\ failures < MaxFailures
    /\ failures' = failures + 1
    /\ \/ rpc[r] = "byid" /\ RecGoto(r, "unknown")
       \/ rpc[r] = "pending" /\ RecGoto(r, "history")
       \/ rpc[r] = "history" /\ RecGoto(r, "decide")
    /\ conclusive' = [conclusive EXCEPT ![r] = FALSE]
    /\ UNCHANGED <<subject, known, pend, hist, order, seen>>
    /\ UNCHANGED <<proposalVars, attemptVars, brokerVars, workerVars, crashes>>

\* A known order is taken from the lists by its id.  Otherwise the candidates
\* are the listed orders no other attempt has claimed.
Matches(r) ==
    IF known[r] # None THEN (pend[r] \cup hist[r]) \cap {known[r]}
    ELSE {o \in pend[r] \cup hist[r] : mirror[o] \in {None, subject[r]}}

\* One match is the order; none proves absence only for an unknown order and a
\* complete search past the settle window; the rest stays unknown.
Decide(r) ==
    /\ rpc[r] = "decide"
    /\ \/ \E o \in Attempts :
            /\ Matches(r) = {o}
            /\ RecGoto(r, "found")
            /\ order' = [order EXCEPT ![r] = o]
            /\ seen' = [seen EXCEPT ![r] = IF o \in pend[r] THEN "NEW"
                                                            ELSE remote[o]]
       \/ /\ \A o \in Attempts : Matches(r) # {o}
          /\ RecGoto(r, IF known[r] = None /\ Matches(r) = {} /\ conclusive[r]
                        THEN "notplaced" ELSE "unknown")
          /\ UNCHANGED <<order, seen>>
    /\ UNCHANGED <<subject, known, conclusive, pend, hist>>
    /\ OnlyReconciler

CountPass(a) ==
    passes' = [passes EXCEPT ![a] = IF @ < MaxPasses THEN @ + 1 ELSE @]

\* Mutant of AdvanceForOrder: an order that exists counts as executed.
AdvanceOnExistence(p, view) ==
    SetStatus(p, IF view # "DEAD" /\ CanTransition(status[p], "EXECUTED")
                 THEN "EXECUTED"
                 ELSE IF view = "DEAD" /\ CanTransition(status[p], "FAILED")
                 THEN "FAILED" ELSE status[p])

\* Mutant of AdvanceForOrder: the broker's word is stored as the status.
AdvanceVerbatim(p, view) == SetStatus(p, IF view = "NEW" THEN status[p] ELSE view)

\* _advance_for_order: move only where the table allows it.
AdvanceForOrder(p, view) ==
    SetStatus(p, IF view = "FILLED" /\ CanTransition(status[p], "EXECUTED")
                 THEN "EXECUTED"
                 ELSE IF view = "DEAD" /\ CanTransition(status[p], "FAILED")
                 THEN "FAILED" ELSE status[p])

\* Mutant of OrderIdAllowed: the table has no such constraint.
OrderIdUnchecked(a) == TRUE

\* ck_broker_order_requires_send: no order id on an attempt that is not, or no
\* longer, recorded as sent.
OrderIdAllowed(a) == sent[a]

\* _record.  It locks the rows but does not look again at the attempt's outcome
\* or at who has claimed the order.
RecordFound(r) ==
    LET a == subject[r]
        p == Owner[a]
    IN  /\ rpc[r] = "found"
        /\ IF OrderIdAllowed(a)
           THEN /\ CountPass(a)
                /\ orderId' = [orderId EXCEPT ![a] = order[r]]
                /\ mirror' = [mirror EXCEPT ![order[r]] = a]
                /\ outcome' = [outcome EXCEPT
                     ![a] = IF seen[r] = "FILLED" THEN "RECONCILED_FILLED"
                                                  ELSE "SUBMITTED"]
                /\ AdvanceForOrder(p, seen[r])
                /\ Bump(p)
           ELSE UNCHANGED <<passes, orderId, mirror, outcome, status, moved>>
        /\ RecIdle(r)
        /\ UNCHANGED <<ttl, halted, execJob, sent, age, brokerVars, pc, heldVars,
                       bounds>>

RecordNotPlaced(r) ==
    LET a == subject[r]
        p == Owner[a]
    IN  /\ rpc[r] = "notplaced"
        /\ CountPass(a)
        /\ outcome' = [outcome EXCEPT ![a] = "RECONCILED_NOT_PLACED"]
        /\ IF CanTransition(status[p], "FAILED")
           THEN SetStatus(p, "FAILED") /\ Bump(p)
           ELSE UNCHANGED <<status, moved>>
        /\ RecIdle(r)
        /\ UNCHANGED <<ttl, halted, execJob, sent, orderId, age, mirror,
                       brokerVars, pc, heldVars, bounds>>

RecordUnknown(r) ==
    /\ rpc[r] = "unknown"
    /\ CountPass(subject[r])
    /\ RecIdle(r)
    /\ UNCHANGED <<proposalVars, sent, outcome, orderId, age, mirror, brokerVars,
                   workerVars, bounds>>

ReconcilerCrash(r) ==
    /\ rpc[r] # "idle"
    /\ crashes < MaxCrashes
    /\ crashes' = crashes + 1
    /\ RecIdle(r)
    /\ UNCHANGED <<proposalVars, attemptVars, brokerVars, workerVars, failures>>

-----------------------------------------------------------------------------
(* The broker, and time *)

\* A request on the wire is accepted, refused or lost; an accepted order is
\* listed some time later, and then works until it fills or ends.
BrokerSteps == {<<"wire", "hidden">>, <<"wire", "refused">>, <<"wire", "lost">>,
                <<"hidden", "NEW">>, <<"NEW", "FILLED">>, <<"NEW", "DEAD">>}

Broker(a) ==
    /\ \E s \in Remote : /\ <<remote[a], s>> \in BrokerSteps
                         /\ remote' = [remote EXCEPT ![a] = s]
    /\ UNCHANGED <<proposalVars, attemptVars, land, workerVars, recVars, bounds>>

\* The broker may still come to hold an order it does not list now.
Unsettled(a) ==
    \/ remote[a] \in {"wire", "hidden"}
    \/ \E w \in Workers : pc[w] = "post" /\ att[w] = a

AgeCap == IF MinAge > RecoverAge THEN MinAge ELSE RecoverAge + 1

\* Time passes unless something that is bounded would take longer than its
\* bound.
Tick ==
    /\ \A w \in Workers : pc[w] \in PreClaimSteps => elapsed[w] < PreMax
    /\ \A a \in Attempts : Unsettled(a) => land[a] < LandMax
    /\ ttl' = [p \in Proposals |->
                 IF status[p] # "ABSENT" /\ ttl[p] > 0 THEN ttl[p] - 1
                                                       ELSE ttl[p]]
    /\ elapsed' = [w \in Workers |->
                     IF pc[w] \in PreClaimSteps THEN elapsed[w] + 1
                                                ELSE elapsed[w]]
    /\ age' = [a \in Attempts |->
                 IF outcome[a] # "NONE" /\ age[a] < AgeCap THEN age[a] + 1
                                                           ELSE age[a]]
    /\ land' = [a \in Attempts |->
                  IF outcome[a] # "NONE" /\ land[a] < LandMax THEN land[a] + 1
                                                              ELSE land[a]]
    /\ UNCHANGED <<status, halted, execJob, sent, outcome, orderId, passes,
                   mirror, remote, pc, prop, att, job, late, ack, moved, recVars,
                   bounds>>

-----------------------------------------------------------------------------
Environment ==
    \/ \E p \in Proposals : \/ Generate(p) \/ Authorize(p) \/ Expire(p)
                            \/ InvalidateStale(p) \/ Cancel(p)
    \/ SetHalted
    \/ \E a \in Attempts : Broker(a)
    \/ Tick

WorkerStep(w) ==
    \/ PreflightBegin(w) \/ PreflightEnd(w) \/ RecordRefusal(w)
    \/ ClaimAndMarkSent(w) \/ ClaimLost(w)
    \/ Transmit(w) \/ PreSendFailure(w) \/ Answered(w) \/ Unanswered(w)
    \/ RetractUnsent(w) \/ RecordSuccess(w) \/ RecordRejection(w)
    \/ RecordAmbiguous(w) \/ RecoverSentAttempt(w)

ReconcilerStep(r) ==
    \/ FetchOrder(r) \/ ReadPending(r) \/ ReadHistory(r) \/ ReadFails(r)
    \/ Decide(r) \/ RecordFound(r) \/ RecordNotPlaced(r) \/ RecordUnknown(r)

Next ==
    \/ Environment
    \/ \E p \in Proposals : EnqueueReady(p) \/ ExecuteNothing(p)
    \/ \E w \in Workers :
         \/ \E p \in Proposals : ExecuteStart(w, p)
         \/ \E a \in Attempts : RecoverIncomplete(w, a)
         \/ WorkerStep(w)
         \/ Crash(w)
    \/ \E r \in Reconcilers :
         \/ \E a \in Attempts : ReconcileStart(r, a)
         \/ ReconcilerStep(r)
         \/ ReconcilerCrash(r)

Spec == Init /\ [][Next]_vars

\* ReconciliationService.sweep, the scheduler's way into reconcile: attempts
\* with no result yet that have been looked at fewer than MaxPasses times.
Sweep(r, a) ==
    /\ sent[a]
    /\ outcome[a] \in {"AMBIGUOUS", "SUBMITTED"}
    /\ passes[a] < MaxPasses
    /\ ReconcileStart(r, a)

\* Scheduler ticks recur, started calls go on unless they die, time passes, and
\* a request on the wire reaches the broker or is lost.  Nobody has to fill an
\* order, and no operator has to do anything.
Fairness ==
    /\ WF_vars(Tick)
    /\ \A w \in Workers : /\ WF_vars(WorkerStep(w))
                          /\ WF_vars(\E a \in Attempts : RecoverIncomplete(w, a))
    /\ \A r \in Reconcilers : /\ WF_vars(ReconcilerStep(r))
                              /\ WF_vars(\E a \in Attempts : Sweep(r, a))
    /\ \A a \in Attempts : WF_vars(remote[a] \in {"wire", "hidden"} /\ Broker(a))

FairSpec == Spec /\ Fairness

-----------------------------------------------------------------------------
(* Properties *)

\* The order endpoint is not idempotent, so whatever workers, redelivered jobs
\* and crashes do, at most one attempt of a proposal ever has its request
\* written to the socket (handle_execute_proposal: "at most one broker
\* transmission").
AtMostOneTransmission ==
    \A a, b \in Attempts :
        Owner[a] = Owner[b] /\ remote[a] # "none" /\ remote[b] # "none" => a = b

\* A proposal returns from EXECUTING to APPROVED only when none of its attempts
\* has ever put a byte on the wire (_retract_unsent).
RetractOnlyUnsent ==
    [][\A p \in Proposals :
         status[p] = "EXECUTING" /\ status'[p] = "APPROVED" =>
           \A a \in AttemptsOf(p) : remote'[a] = "none"]_vars

\* Reconciliation's "not placed" is a proof: the attempt's request did not
\* become an order and no longer can (_search_for_order's settle window and
\* two-list search).
NotPlacedIsProof ==
    \A a \in Attempts :
        outcome[a] = "RECONCILED_NOT_PLACED" =>
            remote[a] \in {"none", "lost", "refused"} /\ ~Unsettled(a)

\* While the broker holds a working order of a proposal, or may yet hold one,
\* the proposal is active: it keeps its instrument and its reservation, unless
\* the operator himself has cancelled it (_record_ambiguous: "the proposal keeps
\* reserving its exposure").
ReservationHeld ==
    \A a \in Attempts :
        remote[a] \in {"wire", "hidden", "NEW"} =>
            status[Owner[a]] \in ActiveStatuses \cup {"CANCELLED"}

\* A proposal reported EXECUTED has a filled order of its own.
ExecutedMeansFilled ==
    \A p \in Proposals :
        status[p] = "EXECUTED" => \E a \in AttemptsOf(p) : remote[a] = "FILLED"

\* Among the attempts of a proposal, an order is credited to the one that placed
\* it, in its own row and in the mirror, also when an earlier attempt was
\* retracted and is reconciled late (_record, _mirror_order).
OrdersAttributed ==
    \A a, b \in Attempts :
        Owner[a] = Owner[b] /\ (orderId[a] = b \/ mirror[a] = b) => a = b

\* An attempt recorded as sent whose result is not known belongs to a proposal
\* that still says an order may exist; otherwise recover_incomplete could never
\* record it as ambiguous.
PendingIsInFlight ==
    \A a \in Attempts :
        sent[a] /\ outcome[a] = "PENDING" => status[Owner[a]] \in InFlightStatuses

\* What reconciliation's exclusion of claimed orders is for: no two attempts
\* hold the same broker order (_claimed_order_ids: "Without this, two attempts
\* on the same listing could both claim the same order").
OneClaimPerOrder ==
    \A a, b \in Attempts : orderId[a] = orderId[b] /\ a # b => orderId[a] = None

\* An attempt without a known result is never forgotten, whatever crashes: it
\* gets a result, or it has been looked at as often as the sweep looks
\* (recover_incomplete, then sweep).
NeverForgotten ==
    \A a \in Attempts :
        (sent[a] /\ outcome[a] \in {"PENDING", "AMBIGUOUS"}) ~>
            (outcome[a] \notin {"PENDING", "AMBIGUOUS"} \/ passes[a] = MaxPasses)

\* The proposal follows its order: once an acknowledged order has filled, the
\* proposal is eventually EXECUTED (the operations guide's ORDER_FOUND row).
ProposalFollowsOrder ==
    \A a \in Attempts :
        (outcome[a] = "SUBMITTED" /\ remote[a] = "FILLED") ~>
            (status[Owner[a]] = "EXECUTED")

=============================================================================
