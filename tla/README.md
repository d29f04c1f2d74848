# StockBrain: TLA+ models

StockBrain reads news, has language models judge it, drafts trade proposals,
lets a person (or a deployment policy) authorize them, and sends one market
order per authorized proposal to Trading 212. This directory holds TLA+ models
of it, the TLC configurations that check them on small instances, and proofs of
their central theorems for every value of their constants.

Paths below are relative to `src/backend/stockbrain/`.

## 1. The system

All state that matters is in PostgreSQL. A process runs the web API, a Telegram
bot, a scheduler and a pool of job workers, all `asyncio`; several processes
may run on one database. They interact through tables only: a producer inserts
rows (a document, an event, a thesis, a proposal, a job), a worker or a sweep
finds them later. An `await` (a transaction, an HTTP call) is where other tasks
get in, so a handler is a sequence of atomic steps, and between any two of them
the process may die.

The way of a trade: feeds and the news stream are ingested as documents; a
document makes an event; a model classifies it and its companies are resolved
to listings; an impact is researched and becomes a thesis; a thesis, a held
position or an operator's rebalance becomes a proposal, sized by the risk
engine against the account; somebody decides it; an authorized one is checked
again and sent; reconciliation finds out what became of an order whose answer
was lost.

| Component | State | Operations | What makes it hard | What makes it correct | Module |
|---|---|---|---|---|---|
| Proposal state machine (`proposals/state_machine.py`) | `trade_proposals.status` | the table of transitions | every service writes it | nothing leaves the table; terminal is final | `ProposalStates` |
| Execution and reconciliation (`execution/`) | `execution_attempts`, `broker_orders` | execute, recover_incomplete, enqueue_ready, reconcile, sweep | the POST is not idempotent, jobs are delivered at least once, processes die, reads race with the broker | one transmission per proposal; a reservation is released on proof only | `Execution` |
| Authorization, lifecycle, tokens, coordinator (`proposals/service.py`, `lifecycle.py`, `telegram/tokens.py`, `approvals.py`) | proposals, `approval_actions` | authorize, reject, cancel, expire, invalidate, mint, redeem, announce | network reads between an unlocked read and a locked commit; double taps | two taps of one person; a decision stands; an undecided proposal ends | `Approvals` |
| Job queue and runner (`jobs/queue.py`, `runner.py`) | `jobs` | enqueue, claim, complete, fail, reclaim | dead and slow workers | one worker per row; every job ends | `JobQueue` |
| Generation, rotation, exits (`proposals/`) | proposals, snapshots | generate, generate_exit, enqueue_pending, the exit and rotation sweeps | concurrent generation on one account, deferral | reservations within the account; every thesis answered | `Generation`, `Budget` |
| Risk engine, exit rules, rebalancing (`risk/`, `proposals/rebalance.py`) | none | evaluate, size, revalidate, trim | decimals at boundaries, data that is missing | no limit is breached; an outage does not destroy a proposal | `Decimals`, `Risk`, `Exits`, `Rebalance`, `Decisions` |
| Market data and FX (`market_data/`, `fx/`, `sessions.py`) | probe results, caches | probe, quote, rate | each answer is of another moment | what prices an order is of the moment it is sent | `Pricing` |
| Broker account and instruments (`broker/`, `instruments/`) | instruments, companies | sync, resolve | partial and late answers, symbols shared by securities | a guess never picks the listing | `Instruments` |
| Paid discovery (`ingestion/provider_budget.py`, two handlers) | budget ledger, search schedule | reserve, settle, search, extract | concurrent callers, failures after a reservation | the bill stays in the caps, a page is paid for once | `Discovery` |
| Feeds and news (`jobs/disclosure.py`, `ingestion/`) | sources, watermark | poll, walk, stream, backfill | failing pages, restarts, articles that come late and out of order | what was read is stored; what a start has to ask for is stored | `Feeds`, `NewsStream` |
| Events (`ingestion/service.py`, `intelligence/service.py`) | events, sources, links | ingest, classify, merge, resolve | claims whose owner dies | each event is judged, and stays so | `Events` |
| Research (`intelligence/research_service.py`) | research runs | request, claim, publish, sweep | a lease and a worker that outlives it | what was paid for blindly is never repeated; every run ends | `Research` |
| Evidence and digests (`intelligence/research_data.py` and neighbours) | packets | fetch, cut off, shorten | dates, revisions, retries | nothing later than the cutoff; a digest says what the data says | `Evidence`, `Digest` |
| Thesis memory (`intelligence/memory.py`) | outcomes | record, grade | prices that never come | every outcome retires | `Memory` |
| Model calls (`llm/`, `research_transport.py`) | `llm_calls`, a cached sum | check, call, fall back, record | spend that is known late or never | every call has its row; work stops at the cap | `LlmBudget`, `Completions` |
| Notices and preferences (`telegram/notifier.py`, `preferences.py`, `observability/alerts.py`) | `notifications`, `app_settings` | scan, enqueue, deliver, save | claim first, send afterwards; a cache; reads and commits that fail | told once; what is served is no older than an answered save | `Notices`, `Preferences` |
| Bot runtime (`telegram/runtime.py`) | the application, health facts | start, launch, watch, tear down | the network and the token come and go | the bot comes back | `TelegramRuntime` |
| Health board (`observability/health.py`, `startup.py`) | records, `provider_health` | record, persist, probe | several writers | readiness is recent; the mirror never goes back | `Health` |

`PROJECT.json` lists every component with what is modelled of it, the lines
every definition stands for, and the hazards of this code at their lines.

## 2. Modules

The component modules are in the table above. Each has its state as VARIABLES,
an action per transaction, network call or handler, and its properties at its
end. They are views of one system that meet in rows:

- `JobQueue` shows which deliveries a handler must expect (at least once, a
  second one while the first is still running, none after `MaxAttempts`). Every
  other module takes that as given: a worker may start a job whose row is
  active at any time, also twice.
- `Generation` ends where a proposal is inserted; `Approvals` has generation as
  one step and ends at APPROVED; `Execution` has decision, expiry and
  invalidation as single steps of `ProposalStates` and follows an order to its
  end. `Generation` has the latter two as one step each.
- `Generation` takes a size out of `Sizes` within the caps; that sizing does
  keep within the caps is what `Decisions` states of `Risk` on every case, and
  what `ProvidersProofs` proves of every input.
- `Pricing` hands what the providers said to `Risk`, whose revalidation decides.
- `Budget` is the abstract specification of a ledger that reserves before it
  spends. `Generation` is shown to implement it (`KeepsLedger`, `Ledger ==
  INSTANCE Budget WITH ...`).

Modules of instances: `MCExecution`, `MCApprovals`, `MCJobQueue`,
`MCGeneration`, `MCDecisions` and `MCEvents` give one module its values.
`MCProposalsLive`, `MCProviders`, `MCServices`, `MCServicesLive` and `MCIntake` put several modules into one run: an initial state chooses the part
that runs and the others stay where they started, so that one run asks the
same question of all of them. Nothing is gained or lost by it: the reachable
states are the sum, not the product, of those of the parts. `MCProviders`,
`MCServices` and `MCIntake` have the constants of the parts they prove something
about as constants of their own, so that their theorems hold for every value of
them.
In `MCIntake` the health board runs twice: "readiness" has the requests and no
startup sweep, "board" has the sweep and the schedule for two seconds and no
requests. Each of the two is every behaviour of `Health` that leaves the other
half alone, and no property relates the halves.

The modules whose names end in `Proofs` are described in section 5.

An operator next to another one with a suffix (`TimedOutEarly`,
`RefusedByClosedRows`) is the original as a plausible bug would have it. It is
used by no specification; put in the original's place it makes TLC find the
property violated that `PROJECT.json` names, which shows that the property says
something about the code.

### Execution

A worker (`pc`) goes through `ExecutionService.execute`: first session,
preflight up to its first network read, the rest of preflight, the send claim
(`ClaimAndMarkSent`, one transaction under the row lock), the POST, the answer,
and the transaction that records it. A reconciler (`rpc`) goes through
`reconcile`: its read of the attempt, the lookup by id, the two lists, the
decision, the record. Either may die anywhere; only its locals are lost. The
order at the broker is `remote`: on the wire, lost, refused, accepted but not
listed, working, filled or dead.

Timestamps are kept as ages, because the code compares each of them with "now"
only. The version column of a proposal is kept as the set `moved` of workers
whose copy of the row is out of date. `age` starts at the time the worker has
already spent (`elapsed`), because `sent_at` is the moment `execute` began.

Abstractions: what preflight and the risk rules compute is a choice, as is any
answer of the broker; a refusal's attempt row, never sent and read by nothing,
is left out; an attempt's identity stands for its number and its order's id;
matching is by listing. The environment (generate, authorize, expire,
invalidate, cancel, halt) is as free as the transition table allows.

### Approvals

A session is one running Telegram update, web request or job; a holder is a
Telegram user in one chat. `Tap` is the redemption in `handle`, followed by the
transactions of the stage it stands for; `Authorize`, `AuthorizeRead` and
`AuthorizeCommit` are the three points at which `authorize` touches shared
state. `moment` and `view` are what a session has read and still uses. `stale`
stands for the version column, again. `Announce` to `MarkNotified` follow
`deliver` for a manual proposal and one private chat.

DRAFT and APPROVAL_PENDING are in the enum but written by nothing, so the
behaviours have neither. Market and precondition invalidation are one action.
`taps`, `tapper`, `authBy` and `authVia` record history for `TwoTaps`.

### JobQueue

`Claim`, `Complete` and `Reclaim` are one transaction each. `fail` is two
steps, `FailRead` and `FailWrite`: `session.get` takes no lock and the ORM
updates the columns that differ from what it has read. `HandlerMax` bounds the
time from a claim to its recorded result: at most `ClaimTimeout` says that
handlers are in time, more lets zombies write their results.

### Generation and the decisions

A generator is a job or a sweep in one `generate` call: it loads account and
session, takes the account's lock, reads what others have reserved and inserts
a row, or remembers a refusal or a deferral. `Risk`, `Exits` and `Rebalance`
are functions, without state; `Decisions` puts one case to them, which a
behaviour of `MCProviders` chooses and keeps, so that an invariant is a
statement about every case.
`Decimals` are exact fractions: a rounding appears where the code rounds.

### The services

`Discovery`, `Events`, `Research`, `Notices`, `Memory`, `Evidence` and
`Preferences` have workers whose steps are the awaits of their handlers and who
may be lost between any two of them; a claim column (status, lease, ledger row)
is what stays. What a model, a page or a provider answers is any answer.
`LlmBudget` has the guard's cache with the age of what it caches. `Health`
counts time in seconds of the database probe. `NewsStream` names an article by
the tick it was published at, one a tick; it appears at that tick or at any later
one, in any order, with or without a date, and whoever is subscribed when it
appears receives it. So the watermark is offered older times after newer ones, as
`services.py:1655` says it is, and what appears late may be older than all that
was seen. In `Preferences` a coroutine may be cancelled or raised upon wherever it
awaits: in the line for the lock, at either read of a save, before its commit or
at the answer to it; the history `versions` holds the switches as the row has
shown them, and `saved` the latest of them whose save was answered.
`TelegramRuntime` has the supervisor's loop around an application whose poller
goes on by itself. Variables such as `paid`, `told`, `over`, `interrupted`,
`noted` and `owed` only record history for a property.

## 3. Runs

| Run | Question | Answer |
|---|---|---|
| `exec_race` | two workers, a reconciler, a crash, a failed read, halts, cancels: does absence stay a proof, a live order its reservation, an open claim its proposal? | yes |
| `exec_resend` | two workers and a second attempt: is anything sent twice, taken back once sent, credited to the wrong attempt or called executed without a fill? | no |
| `proposals_live` | does every undecided proposal end, and is an attempt without result ever forgotten? | it ends; no |
| `exec_slow_preflight` | as `exec_race`, with `PreMax + LandMax = MinAge` | `NotPlacedIsProof` fails |
| `approvals_race` | who can decide a proposal, and does the decision stand? | two taps of one person; yes |
| `providers` | are decisions within the limits, stops what they are shown to be, orders priced by the moment, calls accounted, outcomes retired, whatever providers answer? | yes |
| `generation` | do concurrent generations keep the account's ledger (refinement of `Budget`)? | yes |
| `generation_ends` | is every thesis answered? | yes |
| `services` | caps, pages paid once, pacing, judgments, notices, hints, the model budget and blind reruns, with workers that die? | hold |
| `services_live` | one worker per job, and does every job, event and research run end and the bot come back? | yes |
| `intake` | is what was read stored, what a start has to ask for stored, readiness recent, the mirror monotone, an answered save never undone, evidence knowable and a digest faithful? | yes |
| `events_merge` | two classifications that merge into each other: does the story stay in a live event? | `StoryNotLost` fails |

### Bounds

- Execution: one proposal, one or two attempts, one or two workers, one
  reconciler. One proposal is a real restriction: the broker
  takes no client reference, so identical orders of two proposals on one listing
  cannot be told apart, as `reconciliation.py` says itself. With two proposals
  an order that nobody has claimed yet can be found by the wrong attempt, and
  then `NotPlacedIsProof`, `ReservationHeld` and `ExecutedMeansFilled` fail as
  `OneClaimPerOrder` does. (The shortest way: an ambiguous proposal is cancelled
  by the operator, its order fills, a second proposal is sent on the same
  listing, and a reconciliation of the second finds the order of the first.)
  What these three promise, they promise for a listing on which no other
  proposal has an order within the matching window. `ReservationHeld` and
  `PendingIsInFlight` also need one attempt per proposal: with a second one,
  `_recover_sent_attempt` can mark an attempt ambiguous that was taken back, and
  its reconciliation then fails the proposal under the live order of the other. Two workers are enough for
  every pairwise race at the row lock, the second attempt for a retry after a
  retraction. `MaxCrashes` and `MaxFailures` are 1 where one crash or one failed
  read is enough for the property to be at stake and 0 in `exec_resend`, which
  spends its states on the second attempt. `TTL` 1 lets a proposal expire in
  every phase. `MinAge` 3 with `PreMax` 1 and `LandMax` 1 is the smallest settle
  window longer than preflight and landing together.
- JobQueue: three jobs, two of which share a key; two workers; two attempts, so
  that a row is retried and then dies; `ClaimTimeout` 2.
- Approvals: one proposal (every row belongs to one proposal and nothing relates
  two), two holders, one bot session (the bot handles its updates one after the
  other), one web request, one job, five buttons: a keyboard and the
  confirmation it leads to. `MaxTime` 1 with all times to live 1 lets every
  deadline pass at any point. Liveness has a longer clock and fewer buttons.
- Decisions: an account of some hundred units with and without a holding,
  quotes at, above and below every limit, rates that are present, late or
  missing; each cap binds in some case. Pricing: three books, three ages of a
  rate, four sessions and a holiday. Completions: two endpoints of different
  dialects, two attempts, a cap of two units. Memory: two trades, two horizons.
- Generation: two theses on two listings, an exposure budget that one purchase
  and a half fills, so that the second generator must see the first.
- Services: two workers or fewer per part, two documents of one headline, two
  queries, one page beyond the cap, three listings two of which share a symbol.
  Caches and leases of two ticks: one in which they are read and one in which
  they lapse.
- Intake: five releases with a translation, a recurring headline and a routine
  item, on pages of two; five filings of three forms; five ticks of news around
  one restart, with one article that repeats a headline and one without a date, a
  window of three ticks and a backfill of two articles, so that the limit cuts a
  window off; two requests, two savers, two readers.

Every bound is a constant of its module or a `Max...` of its instance. None
stops the program's own progress except bounds on what the environment begins
(buttons, switches, faults, restarts, the clock), after which the models stop
as the program idles: hence `CHECK_DEADLOCK FALSE` in most configurations.

`NotPlacedIsProof` depends on an assumption the code does not make:
`MinAge > PreMax + LandMax`. `execution_reconcile_min_age_seconds` is 60 by
default and may be configured down to 5, `t212_order_timeout_seconds` is 30,
and nothing relates the two to each other or to the length of a preflight.
`exec_race` shows the property under the assumption, `exec_slow_preflight`
that it is needed. `DowntimeIsCovered` is checked with one restart; see section 6. It is about
what a start has to ask for (`Due`): what was missed since the task ended, was
published no earlier than everything that moved the watermark and within
`MAX_BACKFILL`, after a gap longer than the minute the code lets pass, and is near
enough to the start of the window for one backfill to reach it. `Due` is said of
the times that moved the watermark and not of the watermark, so that a watermark
that went back, or stood at anything but the latest of them, would show. It leaves
out, on purpose, what the code does lose: an article published before the
watermark (`ArrivalsAreAsked`, section 6) and what the 200 items of a backfill cut off.

### Fairness

The scheduler calls its sweeps on intervals, workers poll, the reaper runs every
thirty seconds and a running call goes on unless it dies: weak fairness of those
steps and of time. Strong fairness stands for a step that is enabled again and
again between outages, where the code tries on an interval for as long as it
takes: the claim of a job that is offered repeatedly while the budget pauses,
the generation of a thesis while sessions open and close, the research of a
requested run. An order on the wire arrives or is lost: the HTTP timeout bounds
it. Halts and pauses are taken to end (`halted /\ SetHalted`, `~allowed /\
Pause`): a system that is halted for ever owes nobody an answer. Nothing is
assumed of people, of orders filling, of enqueueing, of providers or of the
network; `BotReturns` holds because outages are bounded in number, not in time.

## 4. What the properties say

Each module states its properties at its end, with the behaviour of the code
they are about. In one sentence each:

- Execution. `AtMostOneTransmission`: no proposal has two orders at the broker.
  `RetractOnlyUnsent`: a claim is taken back only before its request was
  written. `OrdersAttributed`: no attempt is credited with the order of another
  attempt of its proposal. `ExecutedMeansFilled`, `NotPlacedIsProof`: what is
  reported of an order is so, and stays so. `ReservationHeld`,
  `PendingIsInFlight`: a live order keeps its proposal active unless an operator
  cancelled it, an attempt without a result keeps it in flight.
- Approvals. `TwoTaps`: what was authorized through the bot took a button and
  its confirmation, both redeemed by the same holder. `DecisionStands`: a
  terminal proposal is not moved again, an approved one only on to execution.
- JobQueue. `OneWorkerPerJob`: two workers never hold one row, if handlers are
  in time. Its liveness counterparts: every job ends, through retry, reaper and
  dead letter.
- Generation. `KeepsLedger`: every behaviour is one of `Budget`.
- Decisions, Pricing. The sizing and the revalidation keep the account within
  each limit; an outage is no evidence against a proposal; the stop a person
  sees is the stop that sells; a rebalancing settles; the quote, rate and
  session that price an order are those of its own moment.
- Services. What is billed, searched, paid, judged, told and rerun
  (`BillWithinCaps`, `SearchesArePaced`, `PagePaidOnce`, `JudgmentStands`,
  `ToldOnce`, `NoBlindRerun`), and how late a spend over the limit is noticed
  (`CutOffInTime`). A search keeps the shorter of the query's interval and its
  failure cooldown from the one before: the configuration allows either to be
  the shorter one.
- Intake. As the run's question says.

## 5. Proofs

All theorems are proved by TLAPS for every value of the constants, under the
assumptions the modules name (`ConstantsAssumption`, `GenerationAssumption`,
`IntakeAssumption`, ...): ranges of numbers, finiteness of the sets that are
counted, `None` being none of the values it is compared with. A few theorems
take a hypothesis of their own; each of these is needed, and TLC shows it.
`PROJECT.json` lists the theorems; the argument of each module is this.

**`ExecutionProofs`.** `AtMostOneTransmission` is not inductive. `SendInv` adds
who may still transmit: of the attempts of a proposal at most one is marked as
sent (`OneSent`), and what is at the broker is marked (`TransmittedIsSent`); a
worker between its send claim and its record owns the marked attempt
(`HolderOwns`), alone (`HoldersDiffer`), and before the POST nothing of it is at
the broker (`HolderUntransmitted`). The claim is the only step that makes such a
worker, and its guard excludes another. `RetractOnlyUnsent` follows from the
same invariant.
`Evidence` is about knowledge: what a column (`ColumnsTrue`), a worker
(`AnswerTrue`) or a reconciler (`ReadingTrue`) believes of an order is never
ahead of what the broker has. It gives `OrdersAttributed` and, if no two
proposals share a listing (`OwnListing`), `ExecutedMeansFilled`.
`AbsenceInv` is about time: an order that may still land is younger than
preflight and landing together (`Windowed`), and a search that may conclude
absence began after that and has seen the order if there is one
(`SearchSound`). With `OwnListing` and `SettleWindow` (`PreMax + LandMax <
MinAge`) it gives `NotPlacedIsProof`. `PendingExecuting` and `LiveReserved` say
where the proposal stands meanwhile: with one attempt per proposal (`NoRetry`)
they give `PendingIsInFlight` and, with all three hypotheses, `ReservationHeld`.
The hypotheses are needed: `exec_slow_preflight` violates the property without
the second, and section 3 describes what happens without the other two.

**`JobQueueProofs`.** `QueueInv` says that the row a worker is on is RUNNING,
locked by that worker and as old as its claim, and that what `fail` has read of
it is still true (`Owned`). Under `HandlerMax <= ClaimTimeout` the reaper then
only takes rows of dead workers, so that two workers are never on one row, a
claimable row has attempts left and a finished row stays finished. Without the
hypothesis a second worker starts, which is the delivery every other module
expects; only type correctness is proved there.

**`ApprovalsProofs`.** Every step is legal in the table of transitions
(`StepLegal`), which gives `DecisionStands`. `TapInv` relates buttons, sessions
and the history of taps: a confirmation button exists only because its holder
tapped the first one (`RowTrue`), and a session that authorizes for a holder
goes back to a confirmation he has tapped (`SessionTrue`, `AuthorizationTrue`).
Steps are sorted by what they do to the buttons (`RowKinds`) and to the sessions
(`SessionMoves`), so that the invariant is preserved kind by kind.

**`GenerationProofs`.** First sums: that `MapThenSumSet` over a finite set adds
up one by one, in any order. The library's induction theorems cannot be
instantiated, so these lemmas argue by the least element of a set of naturals,
which is well-founded. Then `LedgerInv` (a live buy is of a size, a call that
nothing defers has read an account), and `RowsMove`, which sorts the steps:
no row changes, a sale is inserted, a row moves on, or a buy is inserted that
together with everything reserved stays within the budget. `Within` shows that
the sum stays there, and `LedgerKept` maps every step to a step of `Budget` or a
stutter.

**`DiscoveryProofs`.** An item somebody works on has its job and nobody else's
attention (`Attended`). The row of a reservation covers what its request may
still be billed and what is still to be given back (`Covered`, which counts the
callers that owe); before its fetch is asked for, a page is paid for by dead
workers only (`Pages`); a query nobody searches waits out its cooldown before it
is offered (`Rested`).

**`ProvidersProofs`.** A fraction is a pair of integers and stands for the same
number as any pair of the same ratio, so the first half is arithmetic: that
reducing, adding, scaling and rounding respect `Same` and `Leq`, that the greatest
common divisor, a power of ten and a fold over a finite set are what they are
for any argument. Induction over data is not to be had, so each of these takes
the least argument at which it would fail. On it rest six results.
*Limits* (`WithinEveryLimit`): the size of an entry is at most each of its
ceilings, rounding never goes up, and the conversion to the account's currency is
undone by the conversion back; what `revalidate` admits later is within the
ceilings of that later moment. It is proved of any input of the right types that
knows the rate it requires, not only of the cases of the run.
*Stops* (`StopsFire`): the floor shown and the rule that fires compare the same
price with the same product, over every stop a configuration may switch on.
*Prices* (`PricedNow`): with what is possible as the source and the book, what was
sent was sent on the quote and the rate of that step (`PricedInv`).
*Outages* (`OutageKeeps`): an input that is only later than another (`Retimed`)
passes every other rule as the other does; if it is so late that its freshness
blocks, the answer is to defer, and it is never another rule that retires the
proposal.
*Calls* (`CallsKept`): `CallsInv` says what the rows know of is what was billed
for it (`LedgerInv`), that the attempt that has an answer and no row yet is the
last one and unlike all rows (`EndingInv`, without which a row could count an
attempt twice), and that a call past its check found the sum below the cap,
which is why one attempt at most goes over it. The sum of a set of rows needs
lemmas of its own, by its least element.
*Rebalancing* (`Settles`): a trim is rounded down to lots, so it leaves the target
or less than a lot above it, or nothing (`SaleTrims`, `SaleEmpties`), and what is
sold is in the cash, so that the total stays (`TotalKept`). The targets of a
conviction book are one level of value per unit of weight, cut off at the cap
(`WaterFills`): each round of the filling takes out holdings that are above the
cap at its level, which raises the level of the rest (`CappedLeave`). Fewer
holdings that share the same total then have no lower level (`LevelRises`), so no
target falls when others are closed (`TargetsRise`), and what is trimmed a second
time was trimmed the first time and is less than a lot above its target
(`TrimsEnd`). Two hypotheses of `CasesAssumption` are about books: the cap is not
negative, and what StockBrain opened is held in whole lots of
`default_quantity_precision`, to which `risk/sizing.py:420` rounds every order it
sizes for an instrument whose own precision is not known. A position split by the
broker into smaller parts keeps the part below a lot after it is sold, and is not
covered.
The assumptions are on what a run may choose: `None` is no value
(`NoneAssumption`, `AbsenceAssumption`), the trade of `Pricing` and the cases have
the types of the engine's inputs (`PricingAssumption`, `CasesAssumption`), usages
are finitely many (`CallsAssumption`).

**`ServicesProofs`.** `EachPart`: a run of several parts is a behaviour of each
part's specification, so that the theorems of `DiscoveryProofs` hold of it. Then
five parts.
*Notices*: nobody else delivers what a worker delivers (`Deliveries`), a notice
is sent by whoever claimed its row and claimed once (`Claimed`), an alert still
to be announced has reached the chat only through workers that died
(`Counted`), and what is marked sent has been, its opening before it (`Opened`).
*LlmBudget*: a read of the spend that has ended has seen what was over the limit
before it began (`ReadSees`), the cache shows what some read has seen
(`CacheSees`), and a spend that is over for longer than a read and the cache
last is therefore seen (`OverSpent`).
*Events*: whoever may still write a classification has its claim, which is
younger than his call, and he alone (`Claimants`). It needs `InTime`: a
classification ends before its claim counts as stale. The code does not relate
the two (section 6), so `JudgmentStands` is proved of deployments whose calls
end within fifteen minutes; without that a classifier that was taken over
overwrites the judgment of another.
*Research*: a worker that analyses holds its run's lease, or the run is over
(`Analyses`), and nobody is at a run that was interrupted who could give it back
(`Interrupted`). These two theorems are about Research's own specification.
*Instruments*: `HintsOnlyNarrow` needs no invariant at all: it is a statement
about the resolver's ladder that holds of every state. The rungs do not look at
the hint (`SameRungs`), a hint keeps all candidates or some of several
(`Narrowed`), and a verdict about some of several is never a different listing
(`Decided`).

**`IntakeProofs`.** Five parts, composed as in `ServicesProofs`.
*Preferences*: the lock is a queue in which each stands once, wherever in it one
of them fails (`InTurn`, `LeftOut`), and whoever has read the row still stands at
its head with a version no older than the latest answered save and, if it is a
saver that reads for the second time, than the one it wrote (`ReadingInv`). That
is why `update` forgets the cache and reads again under the lock before it answers:
a save that was answered is never undone in the cache, whichever other request
fails. A save that fails after its commit promises nothing, and the invariant does
not speak of it (section 6).
*Health*: rows await the registry's lock in the order they were taken and are no
older than what is written (`LockInv`); a healthy record is no older than its
probe was long (`ReadyInv`), so that a record of age below `MaxAge` is at most
`Timeout + MaxAge` behind the database.
*Evidence*: a source that knows only the present is asked while the present is
the moment of the run, within the tolerance, and answers within its timeout
(`Asking`); the sources that are dated by day need two facts about `\div`
(`DayEnds`, `DayBefore`). With the invariant nothing in a packet is later than
its source's horizon, whichever documents, vintages, reports and retries.
*News*: the watermark is the latest of the times that moved it, in whatever order
and however late articles appear (`WireInv`, `ForwardOnly`): this is what the
guard of `_record_news_watermark` is for. Each attempt of a backfill that is
behind it cost a fault (`TriesInv`), and what is owed but not stored lies in the
window of the outstanding backfill, near enough to its start to be among those it
takes, and, once it has been fetched, in its batch (`OwedInv`, `FetchedAll`).
Nothing is assumed of the order of the articles, of their number or of the length
of a window: how much one backfill reaches is part of `Due`. One hypothesis is
about constants: `Patient`, a backfill has more attempts than there are faults.
The other is about the run: `Quiet`, a start finds no backfill of an earlier start.
`DowntimesAreCovered` is for any number of restarts that are quiet;
`RestartIsQuiet` shows that the one restart of a run always is, since nothing was
watched before it, and `DowntimeCovered` then needs no more than the constants.
Restarts that are not quiet do lose news (section 6), so the hypothesis is what
the code needs and not the proof alone. The run `intake` satisfies both.
*Digest*: the recursions of `Digest` are recursive functions, and such a function
is solved by a least counterexample (`LeastNumber`, `Recursion`), which needs no
induction theorem. Then: the levels tell every observation down to where they
were cut (`Tells`), the kept rows and the omitted ones are the book, in order and
in sum (`Listed`, `ChanceSplits`), a reaction begins after its event, and an
indicator with bars enough for it is told.

Writing a proof corrected the model once: the CASE of `LlmBudget` did not say
which branch is meant when the soft limit is above the hard one, which TLC
settled by its order of evaluation. It is an IF now, in the order of the code.

**What only TLC checks.** Everything under fairness (`proposals_live`,
`generation_ends`, `services_live`, `EveryOutcomeRetires`): TLAPS cannot reason
about ENABLED. `ReadIsStored` depends on what `SelectSeq` and the walk over
pages compute, both recursive definitions of the library that the provers cannot
open.

## 6. Where the code does other than it says

Two runs end in a violation, of what a comment says:

- `exec_slow_preflight`: `sent_at` is the moment `execute` began
  (`execution/service.py:337`, `:149`), before the network reads of preflight;
  reconciliation measures its settle window from it and can therefore declare an
  order absent that has just been written.
- `events_merge`: `_merge_into` (`intelligence/service.py:467`) reads its target
  without a lock; two workers merging A into B and B into A archive both.

These are stated by a property in a module but given no run of their own, since
the path to them is known; the instance in parentheses finds them.

- `AuthorizedInTime`, `HaltStopsAuthorization` (Approvals, one of everything,
  times to live 1): the TTL is compared with a clock read before the network
  reads (`proposals/service.py:907`, `:130`), the halt is not read again under
  the lock (`:862`). `docs/architecture.md:991` and `docs/operations.md:652` say
  otherwise. The send claim of `execute` has the same stale clock.
- `OneClaimPerOrder` (two proposals on one listing): two attempts can claim one
  order when neither is claimed yet (`reconciliation.py:286`, `:532`).
- `ProposalFollowsOrder` (fairness, `MaxPasses` 2): the sweep looks at an attempt
  a limited number of times (`reconciliation.py:333`), so that an order that fills
  later leaves its proposal behind (`docs/operations.md:751`).
- `LateRateDefers` (Decisions): a stale rate blocks `fx_rate_drift` along with
  `fx_freshness`, and only the second is in the set that defers
  (`preflight.py:78`, against its comment at 70 and `docs/architecture.md:1557`).
- `AnnouncedWhenDone` (Research): a job that ends without having run, because
  another worker holds the lease, announces the completion of a run that goes on
  (`handlers.py:1135`, against its comment at 1148).
- `ChannelIsCurrent` (Notices, `alerts.py:29`), `PastIsNotEvidence`
  (Instruments, `_isin_from_company`), `SpendsCashOnce` (Generation,
  `risk/models.py:390`), `OutageRetiresNothing` (Pricing, `quotes.py:84`),
  `OthersUntouched` (Preferences: two partial updates lose one another),
  `ReconnectIsCovered` (NewsStream: no gap is backfilled on a reconnect),
  `RecurrenceIsNews`, `EveryFilingKept`, `WalkReachesKnown` (Feeds).
- `StoredIsServed` (Preferences): a save that fails once its row is written, at
  the answer to its commit or in the second read (`preferences.py:361`, called from
  `:415`), leaves in the cache what a reader that had read the row before it puts
  there. With no save under way the old switches are then served until the
  snapshot is 15 seconds old. What holds in spite of it is `SavedIsServed`: the
  request was not answered, and no answered save is ever undone.
- `ArrivalsAreAsked` (NewsStream, one restart, no fault): the backfill of a restart
  begins at the watermark (`services.py:1617`), a publication time. An article that
  was published before it and appears while the process is down is neither
  delivered nor asked for: it is lost. `services.py:130` promises a backfill
  "rather than silently losing whatever arrived while the process was down", while
  `:1655` says that articles do not come in published order.
- `DowntimeIsCovered` with two restarts: the backfill's dedupe key is constant
  (`services.py:1608`), so the second gap finds the job of the first.

Seen while reading, at their places in the models:

- Execution: `cancel` is legal from EXECUTION_AMBIGUOUS and releases the
  reservation of an order that may be live.
- Queue: `fail` writes what it has read without a lock and can put a row back to
  PENDING that another worker has completed or used up.
- Approvals: old keyboards keep live buttons, which are refused; marking a
  proposal as notified makes an authorization in progress fail on the version.
- Market data: `session_from_schedule` extrapolates past the right edge although
  its docstring calls that a guess; a quote's age is taken at receipt, before the
  rate and the account lock.
- Budget: an answer of 200 that cannot be read is refunded; a retry after a
  timeout may be billed twice; a crash between a paid fetch and its mark pays
  again; `BudgetGuard.state` caches after an await, so that an invalidation in
  between is lost, which `CutOffInTime` bounds.
- Events: nothing relates `STALE_CLASSIFYING_SECONDS` (900) to how long a
  classification may take (`llm_timeout` is configurable up to 3600); a
  classifier that outlives its claim writes without looking at the status.
  Ingesting one story twice at once makes two events.
- Research: a budget block in the middle of a run fails it for good; a retried
  run enriches an already enriched packet; the cooldown of a company is read
  without a lock.
- Notices: a crash between sending and marking an alert sends it twice; a
  follow-up is suppressed while its opening is sent and not yet marked.
- News: gaps are not backfilled on reconnect; an exception in ingestion ends the
  stream's task until a restart; a backfill is cut to six hours and to the oldest
  200 items of its window. An article without a date moves the watermark to its
  receipt (`services.py:1590`), so that an older one that is still to come is
  before it. The model takes an article that has appeared to be in the historical
  news at once; if it is later there than the backfill asks, it is lost too.
- Generation: a refused sale is generated again by every sweep; a stale snapshot
  lets the exit sweep propose a second sale.
- Calls: a truncated or invalid answer is recorded without its cost, and a
  failed fallback under the primary's name.
- Memory: a buy executed after the last sync of positions may be graded as gone.
- Bot: any good `getMe` resets the count of polling errors, so that a broken
  polling loop beside a working API is never rebuilt; a rebuild drops updates.
- Health: what the startup probes found is recorded when the last of them ends
  and overwrites what work has found meanwhile.
- Configuration: a query's interval may be shorter than its failure cooldown.

## 7. What is not modelled

- Requests and their parsing: the bodies of HTTP calls, the dialects of model
  endpoints beyond their usage fields, HTML, RSS, XBRL. Their results are any
  value the properties tell apart.
- The fingerprint of a request, which is compared and never computed with; the
  token bucket of the HTTP clients, which delays and decides nothing.
- The graph of research analysts: a research run has a start, any result, and
  the ways in which it ends.
- Rendering, wording, logging, metrics, the frontend, migrations, deployment.
- The web API beyond the operations of services it calls; configuration beyond
  the values that become constants.
- PostgreSQL: a transaction is one step, or as many as it has points where
  another may get in between an unlocked read and a write; isolation is read
  committed; a unique constraint refuses the second writer.
