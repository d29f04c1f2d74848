----------------------------- MODULE Approvals -----------------------------
(***************************************************************************)
(* Deciding a proposal: the single-use Telegram buttons                    *)
(* (telegram/tokens.py, telegram/approvals.py), the shared authorization   *)
(* function (proposals/service.py authorize), the web routes, the          *)
(* announcement that draws the first keyboard (telegram/notifier.py), and  *)
(* the sweep (proposals/lifecycle.py).                                     *)
(*                                                                         *)
(* A session is one running call: a Telegram update, a web request or a    *)
(* job.  Every transaction is one step; whatever a call reads in one       *)
(* transaction and uses in a later one is kept in the session and may be   *)
(* out of date by then, the clock reading `moment` included.               *)
(***************************************************************************)
EXTENDS Integers, Sequences, ProposalStates

CONSTANTS
    Proposals,
    Holders,      \* a Telegram user in one chat: what a token is bound to
    User,         \* the user of a holder
    Bots,         \* concurrent Telegram updates
    Requests,     \* concurrent web approvals
    Runners,      \* concurrent generation and notification jobs
    MaxActions,   \* bound: rows of approval_actions
    MaxTime,      \* bound: the clock stops here
    MaxSwitches,  \* bound: how often trading is halted or resumed
    TTL,          \* a proposal's time to live
    ActionTTL,    \* telegram_action_ttl_seconds
    ConfirmTTL,   \* telegram_confirm_ttl_seconds
    Web, System,  \* the sources HUMAN_WEB and SYSTEM_AUTOMATIC
    None

Sessions == Bots \cup Requests \cup Runners

Actions == 1..MaxActions

ASSUME ApprovalsAssumption ==
    /\ {MaxActions, MaxTime, MaxSwitches, TTL, ActionTTL, ConfirmTTL} \subseteq Nat
    /\ TTL > 0
    /\ Web # System
    /\ {Web, System, None} \cap Holders = {}
    /\ None \notin Proposals \cup Actions \cup {Web, System}
    /\ Bots \cap Requests = {} /\ Bots \cap Runners = {} /\ Requests \cap Runners = {}

VARIABLES
    status,     \* trade_proposals.status, or "ABSENT"
    policy,     \* trade_proposals.execution_policy
    expires,    \* trade_proposals.expires_at
    announced,  \* the PROPOSAL_MANUAL notification: none, queued, or claimed
    halted,     \* a pause or the kill switch is engaged
    switches,   \* how often halted has changed (bound)
    now,        \* the clock
    minted,     \* rows of approval_actions so far
    stage,      \* their columns: stage, proposal_id, holder, parent, expiry,
    about,
    holder,
    parent,
    until,
    open,       \*   and consumed_at IS NULL
    taps,       \* how often a row was redeemed, and by whom last (history)
    tapper,
    authBy,     \* source of an authorization, and the button behind it (history)
    authVia,
    pc,         \* a session's next step
    prop,       \* its proposal
    source,     \* who acts: a holder, Web or System
    action,     \* the button that started it
    view,       \* the status it has read
    moment,     \* the clock it has read
    stale       \* sessions whose proposal changed version since they read it

control == <<halted, switches>>
propVars == <<status, policy, expires, announced>>
tokenVars == <<minted, stage, about, holder, parent, until, open>>
historyVars == <<taps, tapper, authBy, authVia>>
sessionVars == <<pc, prop, source, action, view, moment, stale>>
vars == <<propVars, control, now, tokenVars, historyVars, sessionVars>>

Stages == {"NONE", "APPROVE", "REJECT", "DETAILS", "CONFIRM"}

Steps ==
    {"idle", "details_read", "details_retire", "keyboard", "begin_read", "preflight",
     "confirm_mint", "reject", "authorize", "auth_read", "auth_commit", "retire",
     "announce_claim", "announce_mint", "mark"}

Status == ProposalStatus \cup {"ABSENT"}

ProposalTypes ==
    /\ status \in [Proposals -> Status]
    /\ policy \in [Proposals -> {"MANUAL", "AUTOMATIC"}]
    /\ expires \in [Proposals -> 0..MaxTime]
    /\ announced \in [Proposals -> {"none", "queued", "claimed"}]
    /\ authBy \in [Proposals -> Holders \cup {Web, System, None}]
    /\ authVia \in [Proposals -> Actions \cup {None}]

ActionTypes ==
    /\ minted \in 0..MaxActions
    /\ stage \in [Actions -> Stages]
    /\ about \in [Actions -> Proposals \cup {None}]
    /\ holder \in [Actions -> Holders \cup {None}]
    /\ parent \in [Actions -> Actions \cup {None}]
    /\ until \in [Actions -> 0..MaxTime]
    /\ open \in [Actions -> BOOLEAN]

SessionTypes ==
    /\ pc \in [Sessions -> Steps]
    /\ prop \in [Sessions -> Proposals \cup {None}]
    /\ source \in [Sessions -> Holders \cup {Web, System, None}]
    /\ action \in [Sessions -> Actions \cup {None}]
    /\ view \in [Sessions -> Status]
    /\ moment \in [Sessions -> 0..MaxTime]
    /\ stale \subseteq Sessions

\* The rows and the sessions keep their ranges; in particular every status is
\* one of the enum's, whoever writes it.
TypeOK ==
    /\ ProposalTypes
    /\ ActionTypes
    /\ SessionTypes
    /\ taps \in [Actions -> Nat]
    /\ tapper \in [Actions -> Holders \cup {None}]
    /\ halted \in BOOLEAN
    /\ switches \in 0..MaxSwitches
    /\ now \in 0..MaxTime

Init ==
    /\ status = [p \in Proposals |-> "ABSENT"]
    /\ policy = [p \in Proposals |-> "MANUAL"]
    /\ expires = [p \in Proposals |-> 0]
    /\ announced = [p \in Proposals |-> "none"]
    /\ halted = FALSE
    /\ switches = 0
    /\ now = 0
    /\ minted = 0
    /\ stage = [t \in Actions |-> "NONE"]
    /\ about = [t \in Actions |-> None]
    /\ holder = [t \in Actions |-> None]
    /\ parent = [t \in Actions |-> None]
    /\ until = [t \in Actions |-> 0]
    /\ open = [t \in Actions |-> FALSE]
    /\ taps = [t \in Actions |-> 0]
    /\ tapper = [t \in Actions |-> None]
    /\ authBy = [p \in Proposals |-> None]
    /\ authVia = [p \in Proposals |-> None]
    /\ pc = [c \in Sessions |-> "idle"]
    /\ prop = [c \in Sessions |-> None]
    /\ source = [c \in Sessions |-> None]
    /\ action = [c \in Sessions |-> None]
    /\ view = [c \in Sessions |-> "ABSENT"]
    /\ moment = [c \in Sessions |-> 0]
    /\ stale = {}

-----------------------------------------------------------------------------
(* Sessions and rows *)

Goto(c, step) == pc' = [pc EXCEPT ![c] = step]

\* The call returns, or its process dies: its locals are gone.
Clear(c) ==
    /\ Goto(c, "idle")
    /\ prop' = [prop EXCEPT ![c] = None]
    /\ source' = [source EXCEPT ![c] = None]
    /\ action' = [action EXCEPT ![c] = None]
    /\ view' = [view EXCEPT ![c] = "ABSENT"]
    /\ moment' = [moment EXCEPT ![c] = 0]

Begin(c, p, who, t, step) ==
    /\ pc[c] = "idle"
    /\ Goto(c, step)
    /\ prop' = [prop EXCEPT ![c] = p]
    /\ source' = [source EXCEPT ![c] = who]
    /\ action' = [action EXCEPT ![c] = t]
    /\ moment' = [moment EXCEPT ![c] = now]

\* TelegramService.proposal: the row as of now.
Look(c, p) == view' = [view EXCEPT ![c] = status[p]]

Keep == UNCHANGED <<prop, source, action, view, moment>>

\* A write of the row moves its version on, past what an authorization in
\* progress has read.
Write(p, new) ==
    /\ status' = [status EXCEPT ![p] = new]
    /\ stale' = stale \cup {c \in Sessions : prop[c] = p /\ pc[c] = "auth_commit"}

\* retire_open_actions, retire_approval_actions.
OpenOf(P) == {t \in Actions : open[t] /\ about[t] \in P}

Consume(T) == open' = [t \in Actions |-> open[t] /\ t \notin T]

\* TokenService.mint, for a list of stages; all rows of one call share holder,
\* expiry and parent.
MintAll(stages, p, h, t, deadline) ==
    LET n == Len(stages)
        new == (minted + 1)..(minted + n)
    IN  /\ minted + n <= MaxActions
        /\ minted' = minted + n
        /\ stage' = [x \in Actions |-> IF x \in new THEN stages[x - minted] ELSE stage[x]]
        /\ about' = [x \in Actions |-> IF x \in new THEN p ELSE about[x]]
        /\ holder' = [x \in Actions |-> IF x \in new THEN h ELSE holder[x]]
        /\ parent' = [x \in Actions |-> IF x \in new /\ stages[x - minted] = "CONFIRM"
                                        THEN t ELSE parent[x]]
        /\ until' = [x \in Actions |-> IF x \in new THEN deadline ELSE until[x]]
        /\ open' = [x \in Actions |-> x \in new \/ open[x]]

\* Mutant of Lesser: a button outlives its proposal.
LesserIgnored(m, n) == m

\* A button expires with its proposal at the latest.
Lesser(m, n) == IF m <= n THEN m ELSE n

-----------------------------------------------------------------------------
(* Generation and announcement *)

\* generate commits a READY proposal; under AUTOMATIC the same job goes on to
\* authorize it when automation is permitted.  The halt was checked earlier.
\* The bound on the clock leaves every proposal the time to expire.
Generate(c, p) ==
    /\ pc[c] = "idle"
    /\ status[p] = "ABSENT"
    /\ now + TTL <= MaxTime
    /\ status' = [status EXCEPT ![p] = "READY"]
    /\ expires' = [expires EXCEPT ![p] = now + TTL]
    /\ \/ /\ announced' = [announced EXCEPT ![p] = "queued"]
          /\ UNCHANGED <<policy, pc, prop, source, action, view, moment>>
       \/ /\ policy' = [policy EXCEPT ![p] = "AUTOMATIC"]
          /\ \/ Begin(c, p, System, None, "authorize") /\ UNCHANGED view
             \/ UNCHANGED <<pc, prop, source, action, view, moment>>
          /\ UNCHANGED announced
    /\ UNCHANGED <<stale, control, now, tokenVars, historyVars>>

\* deliver reads the proposal first.
Announce(c, p) ==
    /\ announced[p] = "queued"
    /\ Begin(c, p, None, None, "announce_claim")
    /\ Look(c, p)
    /\ UNCHANGED <<propVars, stale, control, now, tokenVars, historyVars>>

\* _claim: the unique dedupe key lets one delivery through.  It may then be
\* suppressed.
AnnounceClaim(c) ==
    /\ pc[c] = "announce_claim"
    /\ \/ announced[prop[c]] = "queued" /\ Goto(c, "announce_mint") /\ Keep
       \/ Clear(c)
    /\ announced' = [announced EXCEPT ![prop[c]] = "claimed"]
    /\ UNCHANGED <<status, policy, expires, stale, control, now, tokenVars, historyVars>>

KeyboardStages(p) ==
    IF policy[p] = "MANUAL" THEN <<"APPROVE", "REJECT", "DETAILS">> ELSE <<"DETAILS">>

\* issue_proposal_keyboard, from the view and the moment of the caller.
IssueKeyboard(c, h) ==
    LET p == prop[c]
        deadline == Lesser(moment[c] + ActionTTL, expires[p])
    IN  IF view[c] \in AuthorizableStatuses /\ deadline > moment[c]
        THEN MintAll(KeyboardStages(p), p, h, None, deadline)
        ELSE UNCHANGED tokenVars

\* _send to one private chat.
AnnounceSend(c, h) ==
    /\ pc[c] = "announce_mint"
    /\ IssueKeyboard(c, h)
    /\ Goto(c, "mark")
    /\ Keep
    /\ UNCHANGED <<propVars, stale, control, now, historyVars>>

\* _mark_notified once the send went through; a failed send leaves the row alone.
MarkNotified(c) ==
    /\ pc[c] = "mark"
    /\ \/ CanTransition(status[prop[c]], "NOTIFIED") /\ Write(prop[c], "NOTIFIED")
       \/ UNCHANGED <<status, stale>>
    /\ Clear(c)
    /\ UNCHANGED <<policy, expires, announced, control, now, tokenVars, historyVars>>

-----------------------------------------------------------------------------
(* Telegram *)

\* /proposals: a keyboard for a proposal that was open when the list was read.
ListProposals(c, p, h) ==
    /\ status[p] \in AuthorizableStatuses /\ policy[p] = "MANUAL"
    /\ Begin(c, p, h, None, "keyboard")
    /\ Look(c, p)
    /\ UNCHANGED <<propVars, stale, control, now, tokenVars, historyVars>>

Keyboard(c) ==
    /\ pc[c] = "keyboard"
    /\ IssueKeyboard(c, source[c])
    /\ Clear(c)
    /\ UNCHANGED <<propVars, stale, control, now, historyVars>>

\* Mutant of Redeemable: consumed_at is not looked at.
RedeemableTwice(t, h) == holder[t] = h /\ until[t] > now

\* resolve_and_consume: right user and chat, not consumed, not expired.
Redeemable(t, h) == holder[t] = h /\ open[t] /\ until[t] > now

\* _parent_is_valid.
ParentIsValid(t) ==
    stage[t] = "CONFIRM" =>
        /\ parent[t] # None
        /\ stage[parent[t]] = "APPROVE"
        /\ about[parent[t]] = about[t]
        /\ holder[parent[t]] = holder[t]

Handler == [DETAILS |-> "details_read", APPROVE |-> "begin_read",
            REJECT |-> "reject", CONFIRM |-> "authorize"]

\* handle: redeem the row, then do what its stage says.  A tap that is not
\* redeemed changes nothing; a CONFIRM without its APPROVE is spent for nothing.
Tap(c, t, h) ==
    /\ t <= minted
    /\ pc[c] = "idle"
    /\ Redeemable(t, h)
    /\ Consume({t})
    /\ taps' = [taps EXCEPT ![t] = @ + 1]
    /\ tapper' = [tapper EXCEPT ![t] = h]
    /\ IF ParentIsValid(t) THEN Begin(c, about[t], h, t, Handler[stage[t]])
                           ELSE UNCHANGED <<pc, prop, source, action, moment>>
    /\ UNCHANGED <<propVars, control, now, minted, stage, about, holder, parent, until,
                   authBy, authVia, view, stale>>

\* _details and _begin_confirmation read the proposal.
ReadProposal(c) ==
    /\ \/ pc[c] = "details_read" /\ Goto(c, "details_retire")
       \/ pc[c] = "begin_read" /\ Goto(c, "preflight")
    /\ Look(c, prop[c])
    /\ UNCHANGED <<propVars, prop, source, action, moment, stale, control, now, tokenVars,
                   historyVars>>

\* _details: backing out consumes the user's confirmations, then a new keyboard
\* is drawn.
DetailsRetire(c) ==
    /\ pc[c] = "details_retire"
    /\ Consume({t \in OpenOf({prop[c]}) :
                  stage[t] = "CONFIRM" /\ User[holder[t]] = User[source[c]]})
    /\ Goto(c, "keyboard")
    /\ Keep
    /\ UNCHANGED <<propVars, stale, control, now, minted, stage, about, holder, parent,
                   until, historyVars>>

\* _preflight, on the view; only the halt is read again.
Preflight(c) ==
    LET passes == /\ ~halted
                  /\ policy[prop[c]] = "MANUAL"
                  /\ view[c] \in AuthorizableStatuses
                  /\ expires[prop[c]] > moment[c]
    IN  /\ pc[c] = "preflight"
        /\ \/ passes /\ Goto(c, "confirm_mint") /\ Keep
           \/ ~passes /\ Clear(c)
        /\ UNCHANGED <<propVars, stale, control, now, tokenVars, historyVars>>

ConfirmMint(c) ==
    /\ pc[c] = "confirm_mint"
    /\ MintAll(<<"CONFIRM", "DETAILS">>, prop[c], source[c], action[c],
               Lesser(moment[c] + ConfirmTTL, expires[prop[c]]))
    /\ Clear(c)
    /\ UNCHANGED <<propVars, stale, control, now, historyVars>>

\* Mutant of MayTerminate: the table is not consulted.
MayTerminateAny(p, target) == status[p] # "ABSENT"

MayTerminate(p, target) == CanTransition(status[p], target)

\* _terminate, for reject and cancel.
Terminate(p, target) ==
    /\ MayTerminate(p, target)
    /\ Write(p, target)
    /\ Consume(OpenOf({p}))

\* _reject; a refusal (somebody else has decided) retires the buttons too.
RejectTap(c) ==
    /\ pc[c] = "reject"
    /\ \/ Terminate(prop[c], "REJECTED")
       \/ ~MayTerminate(prop[c], "REJECTED") /\ UNCHANGED <<status, stale, open>>
    /\ Goto(c, "retire")
    /\ Keep
    /\ UNCHANGED <<policy, expires, announced, control, now, minted, stage, about, holder,
                   parent, until, historyVars>>

\* The end of _reject, _authorize and _refusal: every button is consumed again.
Retire(c) ==
    /\ pc[c] = "retire"
    /\ Consume(OpenOf({prop[c]}))
    /\ Clear(c)
    /\ UNCHANGED <<propVars, stale, control, now, minted, stage, about, holder, parent,
                   until, historyVars>>

-----------------------------------------------------------------------------
(* authorize, shared by Telegram, the web and the automatic policy *)

WebApprove(c, p) ==
    /\ status[p] # "ABSENT"
    /\ Begin(c, p, Web, None, "authorize")
    /\ UNCHANGED <<propVars, view, stale, control, now, tokenVars, historyVars>>

\* authorize returns or refuses: a Telegram caller goes on to retire the buttons
\* either way, the others just report it.
Return(c) == IF c \in Bots THEN Goto(c, "retire") /\ Keep ELSE Clear(c)

\* The clock and the control flags are read once, here.
Authorize(c) ==
    /\ pc[c] = "authorize"
    /\ \/ halted /\ Return(c)
       \/ /\ ~halted
          /\ Goto(c, "auth_read")
          /\ moment' = [moment EXCEPT ![c] = now]
          /\ UNCHANGED <<prop, source, action, view>>
    /\ UNCHANGED <<propVars, stale, control, now, tokenVars, historyVars>>

\* _assert_authorizable, against the moment of the call.
MayAuthorize(c) ==
    /\ status[prop[c]] \in AuthorizableStatuses
    /\ expires[prop[c]] > moment[c]
    /\ source[c] = System => policy[prop[c]] = "AUTOMATIC"

\* The unlocked read: the version is noted, and the network reads follow.
AuthorizeRead(c) ==
    /\ pc[c] = "auth_read"
    /\ \/ MayAuthorize(c) /\ Goto(c, "auth_commit") /\ Keep
       \/ ~MayAuthorize(c) /\ Return(c)
    /\ stale' = stale \ {c}
    /\ UNCHANGED <<propVars, control, now, tokenVars, historyVars>>

\* Mutant of StillAuthorizable: nothing is checked again under the lock.
StillAuthorizableAsRead(c) == TRUE

\* Under the row lock: the version is the one that was read, and the proposal is
\* still authorizable.
StillAuthorizable(c) == c \notin stale /\ MayAuthorize(c)

\* Under the row lock.  Risk may block, which invalidates the proposal; either
\* way every button is consumed in the same transaction.
AuthorizeCommit(c) ==
    LET p == prop[c]
    IN  /\ pc[c] = "auth_commit"
        /\ \/ /\ ~StillAuthorizable(c)
              /\ Return(c)
              /\ stale' = stale \ {c}
              /\ UNCHANGED <<status, open, authBy, authVia>>
           \/ /\ StillAuthorizable(c)
              /\ \E verdict \in {"APPROVED", "INVALIDATED"} :
                    /\ Write(p, verdict)
                    /\ IF verdict = "APPROVED"
                       THEN /\ authBy' = [authBy EXCEPT ![p] = source[c]]
                            /\ authVia' = [authVia EXCEPT ![p] = action[c]]
                       ELSE UNCHANGED <<authBy, authVia>>
              /\ Consume(OpenOf({p}))
              /\ Return(c)
        /\ UNCHANGED <<policy, expires, announced, control, now, minted, stage, about,
                       holder, parent, until, taps, tapper>>

-----------------------------------------------------------------------------
(* The web, the sweep, the executor and the operator's switches *)

WebTerminate(p) ==
    /\ \E target \in {"REJECTED", "CANCELLED"} : Terminate(p, target)
    /\ UNCHANGED <<policy, expires, announced, control, now, minted, stage, about, holder,
                   parent, until, historyVars, pc, prop, source, action, view, moment>>

\* Mutant of Due: the sweep forgets proposals that were announced.
DueUnannounced(p) == status[p] = "READY" /\ expires[p] <= now

Due(p) == status[p] \in SweepableStatuses /\ expires[p] <= now

\* _expire: one UPDATE for every row that is due.
Expire ==
    LET due == {p \in Proposals : Due(p)}
    IN  /\ due # {}
        /\ status' = [p \in Proposals |-> IF p \in due THEN "EXPIRED" ELSE status[p]]
        /\ stale' = stale \cup {c \in Sessions : prop[c] \in due /\ pc[c] = "auth_commit"}
        /\ Consume(OpenOf(due))
        /\ UNCHANGED <<policy, expires, announced, control, now, minted, stage, about,
                       holder, parent, until, historyVars, pc, prop, source, action, view,
                       moment>>

\* _invalidate_stale_preconditions reaches every active proposal the table lets
\* go, _revalidate_market the sweepable ones.
Invalidate(p) ==
    /\ \/ status[p] \in ActiveStatuses /\ CanTransition(status[p], "INVALIDATED")
       \/ status[p] \in SweepableStatuses
    /\ Write(p, "INVALIDATED")
    /\ Consume(OpenOf({p}))
    /\ UNCHANGED <<policy, expires, announced, control, now, minted, stage, about, holder,
                   parent, until, historyVars, pc, prop, source, action, view, moment>>

\* Execution, seen from here: what module Execution does to an APPROVED proposal.
ExecutionMoves(p) ==
    /\ status[p] \in {"APPROVED"} \cup InFlightStatuses
    /\ \E target \in {"EXECUTING", "EXECUTED", "FAILED", "EXECUTION_AMBIGUOUS", "APPROVED"} :
          CanTransition(status[p], target) /\ Write(p, target)
    /\ UNCHANGED <<policy, expires, announced, control, now, tokenVars, historyVars, pc, prop,
                   source, action, view, moment>>

\* pause, resume, engage_kill_switch, release_kill_switch.
SetControl ==
    /\ switches < MaxSwitches
    /\ switches' = switches + 1
    /\ halted' = ~halted
    /\ UNCHANGED <<propVars, now, tokenVars, historyVars, sessionVars>>

Crash(c) ==
    /\ pc[c] # "idle"
    /\ Clear(c)
    /\ stale' = stale \ {c}
    /\ UNCHANGED <<propVars, control, now, tokenVars, historyVars>>

Tick ==
    /\ now < MaxTime
    /\ now' = now + 1
    /\ UNCHANGED <<propVars, control, tokenVars, historyVars, sessionVars>>

-----------------------------------------------------------------------------
TelegramStep(c) ==
    \/ Keyboard(c) \/ ReadProposal(c) \/ DetailsRetire(c) \/ Preflight(c)
    \/ ConfirmMint(c) \/ RejectTap(c) \/ Retire(c)

AuthorizeStep(c) == Authorize(c) \/ AuthorizeRead(c) \/ AuthorizeCommit(c)

Next ==
    \/ \E c \in Bots : \/ \E h \in Holders : \/ \E p \in Proposals : ListProposals(c, p, h)
                                             \/ \E t \in Actions : Tap(c, t, h)
                       \/ TelegramStep(c)
    \/ \E c \in Requests, p \in Proposals : WebApprove(c, p)
    \/ \E c \in Runners : \/ \E p \in Proposals : Generate(c, p) \/ Announce(c, p)
                          \/ AnnounceClaim(c)
                          \/ \E h \in Holders : AnnounceSend(c, h)
                          \/ MarkNotified(c)
    \/ \E c \in Sessions : AuthorizeStep(c) \/ Crash(c)
    \/ \E p \in Proposals : WebTerminate(p) \/ Invalidate(p) \/ ExecutionMoves(p)
    \/ Expire
    \/ SetControl
    \/ Tick

Spec == Init /\ [][Next]_vars

\* The clock runs and the scheduler calls the sweep every minute; nobody has to
\* tap, approve or generate anything.
Fairness == WF_vars(Tick) /\ WF_vars(Expire)
FairSpec == Spec /\ Fairness

-----------------------------------------------------------------------------
(* Properties *)

\* A Telegram authorization took two taps of one person on one proposal: a
\* CONFIRM that descends from an APPROVE, each redeemed exactly once by the
\* holder it was minted for (handle, resolve_and_consume, _parent_is_valid).
TwoTaps ==
    \A p \in Proposals :
        authBy[p] \in Holders =>
            LET t == authVia[p]
                s == parent[t]
            IN  /\ stage[t] = "CONFIRM" /\ stage[s] = "APPROVE"
                /\ about[t] = p /\ about[s] = p
                /\ tapper[t] = authBy[p] /\ tapper[s] = authBy[p]
                /\ taps[t] = 1 /\ taps[s] = 1

Terminal == ProposalStatus \ ActiveStatuses

\* A decision stands: a terminal status is final, an authorized proposal is
\* never rejected, expired or authorizable again, and only execution or a
\* withdrawal follows, whoever raced whom (authorize, _terminate, sweep).
DecisionStands ==
    [][\A p \in Proposals :
          /\ status[p] \in Terminal => status'[p] = status[p]
          /\ status[p] \in {"APPROVED"} \cup InFlightStatuses =>
                status'[p] \notin AuthorizableStatuses \cup {"REJECTED", "EXPIRED"}]_vars

\* A proposal nobody decides is expired: it does not occupy its instrument for
\* ever (_expire).
ProposalsClose ==
    \A p \in Proposals : (status[p] \in AuthorizableStatuses)
                             ~> (status[p] \notin AuthorizableStatuses)

\* A proposal is authorized before it expires (authorize refuses under lock).
AuthorizedInTime ==
    [][\A p \in Proposals :
          (status[p] \in AuthorizableStatuses /\ status'[p] = "APPROVED")
              => expires[p] > now]_vars

\* While trading is halted nothing is authorized (_preflight, operations.md).
HaltStopsAuthorization ==
    [][\A p \in Proposals :
          (status[p] \in AuthorizableStatuses /\ status'[p] = "APPROVED")
              => ~halted]_vars

=============================================================================
