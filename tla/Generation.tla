----------------------------- MODULE Generation -----------------------------
(***************************************************************************)
(* From published theses and held positions to proposals:                  *)
(* proposals/service.py (generate, generate_exit), proposals/evaluation.py *)
(* (load, _reserved_exposure), proposals/lifecycle.py (enqueue_pending),   *)
(* proposals/exits.py, rebalance.py, rotation.py and the account snapshot  *)
(* of broker/account_state.py.                                             *)
(*                                                                         *)
(* A generator is a job worker or a sweep in one generate call.  It loads  *)
(* its facts, account and session, before it takes the account's           *)
(* lock, and reads the reservations of the other proposals under it.       *)
(* Risk says what a decision is; here a buy has any of Sizes that keeps    *)
(* within the caps, which is what the runs of Decisions show of it.        *)
(*                                                                         *)
(* A row is keyed by the thesis it was generated for, or by the listing    *)
(* when an exit or a top-up of a holding generated it: the first key is    *)
(* unique for ever (dedupe_key), a terminal row of the second kind is one  *)
(* that nothing here reads, and is dropped.  A task (a job, the exit sweep *)
(* or a rebalance, the rotation sweep) makes one call at a time.  Money    *)
(* and holdings are in units of account currency, ages in ticks and        *)
(* saturating.  Deciding and executing a proposal are one step each:       *)
(* Approvals and Execution have them in full.                              *)
(***************************************************************************)
EXTENDS Integers, FiniteSetsExt

CONSTANTS
    Theses, Listings, Generators,
    ListingOf,          \* [Theses -> Listings]
    Confidence,         \* [Theses -> Nat]
    ConfidenceFloor,    \* risk_min_research_confidence
    CandidateFloor,     \* portfolio_rotation_min_candidate_confidence
    MinAdvantage,       \* portfolio_rotation_min_confidence_advantage
    Scores,             \* what a reassessment may score a holding
    Sizes,              \* notionals a sizing may reach
    ExposureBudget,     \* risk_max_active_proposal_exposure_pct of the account
    CashReserve,        \* risk_min_cash_reserve_pct of the account
    Deposit,            \* the cash the account starts with
    SnapshotMaxAge,     \* risk_max_account_state_age_seconds
    Ttl,                \* risk_proposal_ttl_minutes
    DeferralMax,        \* proposal_deferral_max_hours
    Managing,           \* the listings whose holdings are resized and rotated
    MaxHalts, MaxCrashes,   \* bounds on the environment
    None

ASSUME GenerationAssumption ==
    /\ IsFiniteSet(Theses) /\ IsFiniteSet(Listings)
    /\ ListingOf \in [Theses -> Listings]
    /\ Sizes \subseteq Nat \ {0}
    /\ {ExposureBudget, Deposit, SnapshotMaxAge} \subseteq Nat

Keys == Theses \cup Listings

VARIABLES
    thesis,     \* age of a published thesis, None before
    evaluation, \* what the generation evaluations of a thesis say
    job,        \* theses with an active GENERATE_PROPOSAL job
    row,        \* trade_proposals
    origin,     \* origin_proposal: the thesis of a listing's last executed buy
    gen,        \* the generate call a generator is in, None when idle
    account,    \* the newest portfolio snapshot and the positions
    broker,     \* cash and holdings as they are
    open,       \* whether the market has its regular session
    halted, halts, crashes,
    review      \* per candidate: the holding under reassessment and its score

vars == <<thesis, evaluation, job, row, origin, gen, account, broker, open,
          halted, halts, crashes, review>>

Active == {"READY", "APPROVED", "EXECUTION_PENDING"}
NoRow == [status |-> "NONE", side |-> None, amount |-> 0]
Live(k) == row[k].status \in Active

ListingFor(k) == IF k \in Theses THEN ListingOf[k] ELSE k
ActiveOn(l) == {k \in Keys : ListingFor(k) = l /\ Live(k)}

\* What a row claims of the budget: a live buy its notional, a sale nothing.
Claim(k) == IF Live(k) /\ row[k].side = "BUY" THEN row[k].amount ELSE 0
Reserved(others) == MapThenSumSet(Claim, others)

NoEvaluation == [terminal |-> FALSE, capacity |-> FALSE, deferred |-> None, session |-> FALSE]

Init ==
    /\ thesis = [t \in Theses |-> None]
    /\ evaluation = [t \in Theses |-> NoEvaluation]
    /\ job = {}
    /\ row = [k \in Keys |-> NoRow]
    /\ origin = [l \in Listings |-> None]
    /\ gen = [g \in Generators |-> None]
    /\ account = None
    /\ broker = [cash |-> Deposit, held |-> [l \in Listings |-> 0]]
    /\ open \in BOOLEAN
    /\ halted = FALSE /\ halts = 0 /\ crashes = 0
    /\ review = [t \in Theses |-> None]

-----------------------------------------------------------------------------
(* Theses and their jobs.                                                  *)

Publish(t) ==
    /\ thesis[t] = None
    /\ thesis' = [thesis EXCEPT ![t] = 0]
    /\ UNCHANGED <<evaluation, job, row, origin, gen, account, broker, open, halted,
                   halts, crashes, review>>

\* A deferred refusal is asked again once per time to live, and one caused by
\* the session not before the next session.
RetryDue(t) ==
    evaluation[t].deferred # None =>
        evaluation[t].deferred >= Ttl /\ (evaluation[t].session => open)

\* Mutant: only a proposal is an answer.
AnsweredByRow(t) == row[t].status # "NONE"
Answered(t) == row[t].status # "NONE" \/ evaluation[t].terminal

EnqueuePending(t) ==
    /\ ~halted
    /\ thesis[t] # None /\ ~Answered(t)
    /\ RetryDue(t)
    /\ t \notin job                         \* the job's dedupe key
    /\ job' = job \cup {t}
    /\ UNCHANGED <<thesis, evaluation, row, origin, gen, account, broker, open, halted,
                   halts, crashes, review>>

-----------------------------------------------------------------------------
(* Facts, and the judgment under the account's lock.                       *)

\* AccountStateService.load; a snapshot that is too old is no snapshot.
Loaded == IF account # None /\ account.age <= SnapshotMaxAge THEN account ELSE None

\* ProposalEvaluator.load: what a call goes on with from here.  A quote that
\* does not arrive defers as an account that does not.
Call(task, k, side) ==
    [task |-> task, key |-> k, side |-> side,
     account |-> IF Loaded = None THEN None
                 ELSE [cash |-> Loaded.cash, held |-> Loaded.held[ListingFor(k)]],
     late |-> k \in Theses /\ thesis[k] > DeferralMax,
     transient |-> (IF Loaded = None THEN {"account_state_available"} ELSE {})
                   \cup (IF open THEN {} ELSE {"market_session"})]

\* Mutant: a proposal reserves from its authorization on.
ReservedOnceApproved(c) == Reserved({k \in Keys : row[k].status # "READY"})
ReservedUnderLock(c) == Reserved(Keys)

\* The notionals active_proposal_exposure and min_cash_reserve leave room for.
Fitting(c) ==
    {s \in Sizes : /\ ReservedUnderLock(c) + s <= ExposureBudget
                   /\ ReservedUnderLock(c) + s + CashReserve <= c.account.cash}

\* The rules that are a judgment on the trade, not on the state of the market.
Judgment(c) ==
    (IF ActiveOn(ListingFor(c.key)) = {} THEN {} ELSE {"duplicate_or_conflicting_proposal"})
    \cup (IF c.side = "BUY" /\ c.key \in Theses /\ Confidence[c.key] < ConfidenceFloor
          THEN {"research_confidence_floor"} ELSE {})
    \cup (IF c.side = "BUY" /\ c.account # None /\ Fitting(c) = {}
          THEN {"min_cash_reserve"} ELSE {})
    \cup (IF c.side = "SELL" /\ c.account # None /\ c.account.held = 0
          THEN {"current_position"} ELSE {})

Blocks(c) == c.transient \cup Judgment(c)

\* Mutant: a refusal on market state is deferred however old the thesis is.
DeferredForEver(c) == Judgment(c) = {}
Deferred(c) == Judgment(c) = {} /\ ~c.late

Refused(c) ==
    IF Deferred(c)
    THEN [evaluation[c.key] EXCEPT !.deferred = 0,
                                   !.session = "market_session" \in c.transient]
    ELSE [evaluation[c.key] EXCEPT !.terminal = TRUE,
                                   !.capacity = @ \/ "min_cash_reserve" \in Judgment(c)]

\* The row a permitted call inserts; a thesis that has one already, or a listing
\* that has a live one, rolls everything back.
Insert(c, amount) ==
    row' = IF row[c.key].status # "NONE" \/ ActiveOn(ListingFor(c.key)) # {} THEN row
           ELSE [row EXCEPT ![c.key] = [status |-> "READY", side |-> c.side, amount |-> amount]]

-----------------------------------------------------------------------------
(* generate, from a job or from the rotation sweep.                        *)

Start(g, c) ==
    /\ gen[g] = None /\ ~halted
    /\ c.task # "job" => \A h \in Generators : gen[h] # None => gen[h].task # c.task
    /\ gen' = [gen EXCEPT ![g] = c]
    /\ UNCHANGED <<thesis, evaluation, row, origin, account, broker, open, halted, halts,
                   crashes, review>>

\* JobQueue: one worker per job.
Generate(g, t) ==
    /\ t \in job /\ \A h \in Generators : gen[h] # None => gen[h].key # t
    /\ Start(g, Call("job", t, "BUY"))
    /\ UNCHANGED job

\* A halted generate is a success that did nothing.
GenerateHalted(t) ==
    /\ halted /\ t \in job
    /\ job' = job \ {t}
    /\ UNCHANGED <<thesis, evaluation, row, origin, gen, account, broker, open, halted,
                   halts, crashes, review>>

\* One transaction under the advisory lock.
Commit(g) ==
    /\ gen[g] # None
    /\ LET c == gen[g] IN
          IF Blocks(c) = {}
          THEN /\ \E amount \in IF c.side = "BUY" THEN Fitting(c) ELSE {c.account.held} :
                      Insert(c, amount)
               /\ UNCHANGED evaluation
          ELSE /\ evaluation' = IF c.key \in Theses
                                THEN [evaluation EXCEPT ![c.key] = Refused(c)] ELSE evaluation
               /\ UNCHANGED row
    /\ job' = job \ {gen[g].key}
    /\ gen' = [gen EXCEPT ![g] = None]
    /\ UNCHANGED <<thesis, origin, account, broker, open, halted, halts, crashes, review>>

\* The process dies before its commit; the job is delivered again.
Crash(g) ==
    /\ gen[g] # None /\ crashes < MaxCrashes
    /\ crashes' = crashes + 1
    /\ gen' = [gen EXCEPT ![g] = None]
    /\ UNCHANGED <<thesis, evaluation, job, row, origin, account, broker, open,
                   halted, halts, review>>

-----------------------------------------------------------------------------
(* generate_exit: exits, trims and top-ups of a holding.                   *)

\* A holding StockBrain opened itself, as the positions table has it.
Managed(l) ==
    /\ account # None /\ account.held[l] > 0
    /\ origin[l] # None

\* ExitSweepService.sweep finds a rule fired; RebalanceService a target missed.
Resize(g, l, side) ==
    /\ l \in Managing /\ Managed(l)
    /\ side = "SELL" => ActiveOn(l) = {}
    /\ Start(g, Call("exits", l, side))
    /\ UNCHANGED job

-----------------------------------------------------------------------------
(* PortfolioRotationService: a holding is reassessed for a candidate that  *)
(* only lack of room kept out, sold if it still trails, and the candidate  *)
(* generated again when it is gone.                                        *)

\* The holding opened on the lowest confidence.
Weakest(l) ==
    Managed(l) /\ \A m \in Listings :
        Managed(m) => Confidence[origin[l]] <= Confidence[origin[m]]

RequestReview(t, l) ==
    /\ l \in Managing /\ review[t] = None
    /\ evaluation[t].terminal /\ evaluation[t].capacity
    /\ row[t].status = "NONE" /\ Confidence[t] >= CandidateFloor
    /\ Weakest(l) /\ Confidence[t] - Confidence[origin[l]] >= MinAdvantage
    /\ review' = [review EXCEPT ![t] = [listing |-> l, score |-> None]]
    /\ UNCHANGED <<thesis, evaluation, job, row, origin, gen, account, broker, open,
                   halted, halts, crashes>>

ReviewDone(t) ==
    /\ review[t] # None /\ review[t].score = None
    /\ \E s \in Scores : review' = [review EXCEPT ![t].score = s]
    /\ UNCHANGED <<thesis, evaluation, job, row, origin, gen, account, broker, open,
                   halted, halts, crashes>>

Reviewed(t) == review[t] # None /\ review[t].score # None

\* _process_reviews: the candidate is still without a proposal, the holding
\* still there and still behind.
SaleWanted(t) ==
    /\ Reviewed(t) /\ row[t].status = "NONE"
    /\ Managed(review[t].listing) /\ ActiveOn(review[t].listing) = {}
    /\ Confidence[t] - review[t].score >= MinAdvantage

ProcessReview(g, t) ==
    /\ SaleWanted(t)
    /\ Start(g, Call("rotation", review[t].listing, "SELL"))
    /\ UNCHANGED job

\* Asked at every sweep, whatever the last answer was.
RetryAfterSale(g, t) ==
    /\ Reviewed(t) /\ row[t].status = "NONE"
    /\ account # None => account.held[review[t].listing] = 0
    /\ Start(g, Call("rotation", t, "BUY"))
    /\ UNCHANGED job

-----------------------------------------------------------------------------
(* What happens to a proposal next, and the account behind it.             *)

SetStatus(k, status) ==
    row' = [row EXCEPT ![k] = IF k \in Listings /\ status \notin Active THEN NoRow
                              ELSE [@ EXCEPT !.status = status]]

\* Authorization and preflight judge the row again, its own claim left out.
StillPermitted(k) ==
    /\ open /\ Loaded # None
    /\ IF row[k].side = "BUY"
       THEN /\ Reserved(Keys) <= ExposureBudget
            /\ Reserved(Keys) + CashReserve <= Loaded.cash
       ELSE row[k].amount <= Loaded.held[ListingFor(k)]

Authorize(k) ==
    /\ ~halted
    /\ row[k].status = "READY" /\ StillPermitted(k)
    /\ SetStatus(k, "APPROVED")
    /\ UNCHANGED <<thesis, evaluation, job, origin, gen, account, broker, open, halted,
                   halts, crashes, review>>

\* Expired, rejected, invalidated, cancelled or failed.
Retire(k) ==
    /\ row[k].status \in {"READY", "APPROVED"}
    /\ SetStatus(k, "ENDED")
    /\ UNCHANGED <<thesis, evaluation, job, origin, gen, account, broker, open, halted,
                   halts, crashes, review>>

\* Sent, and filled by the broker, which sells no more than there is.
Send(k) ==
    /\ ~halted
    /\ row[k].status = "APPROVED" /\ StillPermitted(k)
    /\ LET l == ListingFor(k)
           sold == Min({row[k].amount, broker.held[l]})
       IN  broker' = IF row[k].side = "BUY"
                     THEN [cash |-> broker.cash - row[k].amount,
                           held |-> [broker.held EXCEPT ![l] = @ + row[k].amount]]
                     ELSE [cash |-> broker.cash + sold,
                           held |-> [broker.held EXCEPT ![l] = @ - sold]]
    /\ SetStatus(k, "EXECUTION_PENDING")
    /\ UNCHANGED <<thesis, evaluation, job, origin, gen, account, open, halted, halts,
                   crashes, review>>

Record(k) ==
    /\ row[k].status = "EXECUTION_PENDING"
    /\ SetStatus(k, "EXECUTED")
    /\ origin' = IF k \in Theses /\ row[k].side = "BUY"
                 THEN [origin EXCEPT ![ListingOf[k]] = k] ELSE origin
    /\ UNCHANGED <<thesis, evaluation, job, gen, account, broker, open, halted,
                   halts, crashes, review>>

\* AccountStateService.sync: one snapshot replaces the positions of before.
Refresh ==
    /\ account' = [cash |-> broker.cash, age |-> 0, held |-> broker.held]
    /\ UNCHANGED <<thesis, evaluation, job, row, origin, gen, broker, open, halted, halts,
                   crashes, review>>

-----------------------------------------------------------------------------

Later(age, most) == IF age = None THEN None ELSE Min({age + 1, most + 1})

Aged(r) == IF r = None THEN None ELSE [r EXCEPT !.age = Later(@, SnapshotMaxAge)]

Tick ==
    /\ thesis' = [t \in Theses |-> Later(thesis[t], DeferralMax)]
    /\ evaluation' = [t \in Theses |->
                         [evaluation[t] EXCEPT !.deferred = Later(@, Ttl - 1)]]
    /\ account' = Aged(account)
    /\ UNCHANGED <<job, row, origin, gen, broker, open, halted, halts, crashes, review>>

OpenOrClose ==
    /\ open' = ~open
    /\ UNCHANGED <<thesis, evaluation, job, row, origin, gen, account, broker, halted,
                   halts, crashes, review>>

SetHalted ==
    /\ halted \/ halts < MaxHalts
    /\ halted' = ~halted
    /\ halts' = IF halted THEN halts ELSE halts + 1
    /\ UNCHANGED <<thesis, evaluation, job, row, origin, gen, account, broker, open,
                   crashes, review>>

GeneratorNext(g) ==
    \/ Commit(g) \/ Crash(g)
    \/ \E t \in Theses : Generate(g, t) \/ ProcessReview(g, t) \/ RetryAfterSale(g, t)
    \/ \E l \in Listings, side \in {"BUY", "SELL"} : Resize(g, l, side)

ThesisNext(t) ==
    Publish(t) \/ EnqueuePending(t) \/ GenerateHalted(t) \/ ReviewDone(t)
    \/ \E l \in Listings : RequestReview(t, l)

RowNext(k) == Authorize(k) \/ Retire(k) \/ Send(k) \/ Record(k)

Next ==
    \/ \E g \in Generators : GeneratorNext(g)
    \/ \E t \in Theses : ThesisNext(t)
    \/ \E k \in Keys : RowNext(k)
    \/ Refresh \/ Tick \/ OpenOrClose \/ SetHalted

Spec == Init /\ [][Next]_vars

\* The sweeps and the workers keep running, an account is refreshed now and
\* then, a market opens again and an operator releases what he has halted.
\* The queue hands every job to some worker.
Fairness ==
    /\ \A t \in Theses : /\ SF_vars(EnqueuePending(t)) /\ WF_vars(GenerateHalted(t))
                          /\ SF_vars(\E g \in Generators : Generate(g, t))
    /\ \A g \in Generators : WF_vars(Commit(g))
    /\ WF_vars(Refresh)
    /\ WF_vars(Tick) /\ WF_vars(OpenOrClose) /\ WF_vars(halted /\ SetHalted)

FairSpec == Spec /\ Fairness

-----------------------------------------------------------------------------

\* What live buys hold of the proposal exposure budget.
Ledger == INSTANCE Budget WITH
    Holders <- Keys, Limit <- ExposureBudget,
    claims <- [k \in Keys |-> IF Live(k) /\ row[k].side = "BUY" THEN row[k].amount ELSE 0]

\* Generators that judge their theses at the same time, from facts of before,
\* never reserve more of the budget together than there is: generate and
\* generate_exit keep a reserve-before-you-spend ledger.
KeepsLedger == Ledger!Spec

\* A published thesis gets its proposal or a refusal that stands, whatever
\* outages, closed sessions, crashes and halts it meets: no deferral without end.
EveryThesisAnswered ==
    \A t \in Theses : thesis[t] # None ~> Answered(t)

\* A refusal stands.  What lack of room, or any other judgment, has kept out is
\* proposed after all only when the holding reassessed for it has left the
\* account, whatever jobs are queued, running or delivered again meanwhile.
RefusalStands ==
    [][\A t \in Theses :
          evaluation[t].terminal /\ row[t].status = "NONE" /\ row'[t].status # "NONE"
          => Reviewed(t) /\ account.held[review[t].listing] = 0]_vars

\* The proposals together leave the reserve, each having respected it alone.
SpendsCashOnce == broker.cash >= CashReserve
=============================================================================
