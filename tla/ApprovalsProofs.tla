-------------------------- MODULE ApprovalsProofs --------------------------
(***************************************************************************)
(* Theorems about Approvals, for every set of proposals, people and        *)
(* concurrent calls and every time to live.                                *)
(***************************************************************************)
EXTENDS Approvals, TLAPS

StatusTyped == status \in [Proposals -> Status]

\* What a step may do to the status of one proposal: nothing, its creation, one
\* move of the table, or the expiry of a proposal nobody has decided.  (The table
\* also lets an APPROVED proposal expire; no code takes that move.)
Moves(p) ==
    \/ status'[p] = status[p]
    \/ status[p] = "ABSENT" /\ status'[p] = "READY"
    \/ CanTransition(status[p], status'[p]) /\ status'[p] # "EXPIRED"
    \/ status[p] \in AuthorizableStatuses /\ status'[p] = "EXPIRED"

\* What a step may do to the whole column.
Legal == StatusTyped' /\ \A p \in Proposals : Moves(p)

\* The targets of the table are statuses of the enum.
LEMMA TargetsAreStatuses ==
  ASSUME NEW current, NEW target, CanTransition(current, target)
  PROVE  target \in ProposalStatus
  BY DEF CanTransition, AllowedTransitions, ProposalStatus

\* A locked write of the row that the table allows is legal.
LEMMA WriteLegal ==
  ASSUME StatusTyped, NEW q, NEW new, Write(q, new), CanTransition(status[q], new),
         new # "EXPIRED"
  PROVE  Legal
<1>1. new \in Status
  BY TargetsAreStatuses DEF Status
<1>2. QED
  BY <1>1 DEF StatusTyped, Write, Moves, Legal

\* Everything that may be authorized may also be approved or invalidated.
LEMMA OpenMayEnd ==
  ASSUME NEW s \in AuthorizableStatuses
  PROVE  /\ CanTransition(s, "APPROVED")
         /\ CanTransition(s, "INVALIDATED")
  BY DEF AuthorizableStatuses, CanTransition, AllowedTransitions

\* Nothing writes DRAFT, which the expiry sweep would take although the table
\* does not let it expire.
NoDraft == \A p \in Proposals : status[p] # "DRAFT"

StatusInv == StatusTyped /\ NoDraft

\* Every step moves every proposal along the table: the locked writes check it,
\* and the bulk UPDATE of the expiry sweep, which does not, only meets statuses
\* that may expire.
LEMMA StepLegal ==
  ASSUME StatusInv, [Next]_vars
  PROVE  Legal
<1> USE DEF StatusInv
<1>1. ASSUME NEW c \in Runners, NEW q \in Proposals, Generate(c, q) PROVE Legal
  BY <1>1 DEF Generate, StatusTyped, Moves, Legal, Status, ProposalStatus
<1>2. ASSUME NEW c \in Runners, MarkNotified(c) PROVE Legal
  <2>1. CASE CanTransition(status[prop[c]], "NOTIFIED") /\ Write(prop[c], "NOTIFIED")
    BY <2>1, WriteLegal
  <2>2. CASE UNCHANGED <<status, stale>>
    BY <2>2 DEF Legal, Moves, StatusTyped
  <2>3. QED
    BY <1>2, <2>1, <2>2 DEF MarkNotified
<1>3. ASSUME NEW c \in Bots, RejectTap(c) PROVE Legal
  <2>1. CASE Terminate(prop[c], "REJECTED")
    BY <2>1, WriteLegal DEF Terminate, MayTerminate
  <2>2. CASE UNCHANGED <<status, stale, open>>
    BY <2>2 DEF Legal, Moves, StatusTyped
  <2>3. QED
    BY <1>3, <2>1, <2>2 DEF RejectTap
<1>4. ASSUME NEW c \in Sessions, AuthorizeCommit(c) PROVE Legal
  <2>1. CASE ~StillAuthorizable(c)
    BY <1>4, <2>1 DEF AuthorizeCommit, Legal, Moves, StatusTyped
  <2>2. CASE StillAuthorizable(c)
    <3>1. status[prop[c]] \in AuthorizableStatuses
      BY <2>2 DEF StillAuthorizable, MayAuthorize
    <3>2. PICK verdict \in {"APPROVED", "INVALIDATED"} : Write(prop[c], verdict)
      BY <1>4, <2>2 DEF AuthorizeCommit
    <3>3. CanTransition(status[prop[c]], verdict)
      BY <3>1, <3>2, OpenMayEnd
    <3>4. QED
      BY <3>2, <3>3, WriteLegal
  <2>3. QED
    BY <2>1, <2>2
<1>5. ASSUME NEW q \in Proposals, WebTerminate(q) PROVE Legal
  BY <1>5, WriteLegal DEF WebTerminate, Terminate, MayTerminate
<1>6. ASSUME NEW q \in Proposals, Invalidate(q) PROVE Legal
  <2>1. CanTransition(status[q], "INVALIDATED")
    BY <1>6 DEF Invalidate, SweepableStatuses, PreExecutionStatuses, CanTransition,
                AllowedTransitions
  <2>2. QED
    BY <1>6, <2>1, WriteLegal DEF Invalidate
<1>7. ASSUME NEW q \in Proposals, ExecutionMoves(q) PROVE Legal
  BY <1>7, WriteLegal DEF ExecutionMoves
<1>8. ASSUME Expire PROVE Legal
  <2>1. status' = [p \in Proposals |-> IF Due(p) THEN "EXPIRED" ELSE status[p]]
    BY <1>8 DEF Expire
  <2>2. ASSUME NEW p \in Proposals, Due(p) PROVE status[p] \in AuthorizableStatuses
    BY <2>2 DEF Due, SweepableStatuses, PreExecutionStatuses, AuthorizableStatuses, NoDraft
  <2>3. QED
    BY <2>1, <2>2 DEF Legal, Moves, StatusTyped, Status, ProposalStatus
<1>9. CASE UNCHANGED status
  BY <1>9 DEF Legal, Moves, StatusTyped
<1>10. ASSUME NEW c \in Sessions, TelegramStep(c), ~RejectTap(c) PROVE UNCHANGED status
  BY <1>10 DEF TelegramStep, Keyboard, ReadProposal, DetailsRetire, Preflight, ConfirmMint,
               Retire, propVars
<1>11. ASSUME NEW c \in Sessions, Authorize(c) \/ AuthorizeRead(c) \/ Crash(c)
       PROVE  UNCHANGED status
  BY <1>11 DEF Authorize, AuthorizeRead, Crash, propVars
<1>12. ASSUME NEW c \in Bots, NEW h \in Holders,
              (\E q \in Proposals : ListProposals(c, q, h)) \/ (\E t \in Actions : Tap(c, t, h))
       PROVE  UNCHANGED status
  BY <1>12 DEF ListProposals, Tap, propVars
<1>13. ASSUME NEW c \in Runners,
              \/ \E q \in Proposals : Announce(c, q)
              \/ AnnounceClaim(c)
              \/ \E h \in Holders : AnnounceSend(c, h)
       PROVE  UNCHANGED status
  BY <1>13 DEF Announce, AnnounceClaim, AnnounceSend, propVars
<1>14. ASSUME (\E c \in Requests, q \in Proposals : WebApprove(c, q)) \/ SetControl \/ Tick
       PROVE  UNCHANGED status
  BY <1>14 DEF WebApprove, SetControl, Tick, propVars
<1>15. CASE UNCHANGED vars
  BY <1>9, <1>15 DEF vars, propVars
<1>16. QED
  BY <1>1, <1>2, <1>3, <1>4, <1>5, <1>6, <1>7, <1>8, <1>9, <1>10, <1>11, <1>12, <1>13,
     <1>14, <1>15 DEF Next, AuthorizeStep, Sessions

\* A step leaves the status column a total function over the enum, without
\* DRAFT: no move of the table ends there.
LEMMA StatusStep ==
  ASSUME StatusInv, [Next]_vars
  PROVE  StatusInv'
<1>1. Legal
  BY StepLegal
<1>2. ASSUME NEW p \in Proposals PROVE status'[p] # "DRAFT"
  <2>1. Moves(p) /\ status[p] # "DRAFT"
    BY <1>1 DEF Legal, StatusInv, NoDraft
  <2>2. QED
    BY <2>1 DEF Moves, CanTransition, AllowedTransitions
<1>3. QED
  BY <1>1, <1>2 DEF Legal, StatusInv, NoDraft

\* Every status a proposal ever has is one of the enum's, DRAFT excepted, which
\* no code writes.
THEOREM StatusInvariant == Spec => []StatusInv
<1>1. Init => StatusInv
  BY DEF Init, StatusInv, StatusTyped, NoDraft, Status
<1>2. StatusInv /\ [Next]_vars => StatusInv'
  BY StatusStep
<1>3. QED
  BY <1>1, <1>2, PTL DEF Spec

\* Whatever races - two taps, a tap and a web request, an automatic
\* authorization, the sweep, the executor - a decision stands: a terminal status
\* is final, and an authorized proposal is neither rejected nor expired nor made
\* authorizable again (authorize, _terminate, sweep).
THEOREM Decided == Spec => DecisionStands
<1> DEFINE Stands(p) ==
      /\ status[p] \in Terminal => status'[p] = status[p]
      /\ status[p] \in {"APPROVED"} \cup InFlightStatuses =>
            status'[p] \notin AuthorizableStatuses \cup {"REJECTED", "EXPIRED"}
<1>1. ASSUME StatusInv, [Next]_vars, NEW p \in Proposals PROVE Stands(p)
  <2>1. Moves(p)
    BY <1>1, StepLegal DEF Legal
  <2>2. CASE status[p] \in Terminal
    <3>1. status[p] \in {"EXECUTED", "REJECTED", "EXPIRED", "FAILED", "CANCELLED",
                         "INVALIDATED"}
      BY <2>2 DEF Terminal, ProposalStatus, ActiveStatuses, PreExecutionStatuses,
                  InFlightStatuses
    <3>2. status'[p] = status[p]
      BY <2>1, <3>1 DEF Moves, CanTransition, AllowedTransitions, AuthorizableStatuses
    <3>3. QED
      BY <3>1, <3>2 DEF InFlightStatuses
  <2>3. CASE status[p] \in {"APPROVED"} \cup InFlightStatuses
    <3>1. status[p] \in {"APPROVED", "EXECUTING", "EXECUTION_AMBIGUOUS"}
      BY <2>3 DEF InFlightStatuses
    <3>2. status'[p] \notin AuthorizableStatuses \cup {"REJECTED", "EXPIRED"}
      BY <2>1, <3>1 DEF Moves, CanTransition, AllowedTransitions, AuthorizableStatuses
    <3>3. status[p] \notin Terminal
      BY <3>1 DEF Terminal, ActiveStatuses, PreExecutionStatuses, InFlightStatuses
    <3>4. QED
      BY <3>2, <3>3
  <2>4. QED
    BY <2>2, <2>3
<1>2. StatusInv /\ [Next]_vars => [\A p \in Proposals : Stands(p)]_vars
  BY <1>1
<1>3. QED
  BY <1>2, StatusInvariant, PTL DEF Spec, DecisionStands

-----------------------------------------------------------------------------
(* Two taps.  A tap is a fact for good: its row was redeemed once, by the holder *)
(* it was minted for, and no later step rewrites it.  The invariant follows the  *)
(* fact from the APPROVE row to the CONFIRM row it minted, and from there to the *)
(* authorization.                                                                *)

Tapped(x, p, h) ==
    /\ x \in Actions /\ taps[x] = 1 /\ tapper[x] = h
    /\ about[x] = p /\ holder[x] = h

\* A confirmation was minted by a tap on an APPROVE row of the same holder.
Descends(x) == stage[parent[x]] = "APPROVE" /\ Tapped(parent[x], about[x], holder[x])

RowTrue(x) ==
    /\ taps[x] \in {0, 1}
    /\ taps[x] = 1 => x <= minted /\ tapper[x] = holder[x]
    /\ open[x] => x <= minted /\ taps[x] = 0
    /\ x <= minted =>
           stage[x] # "NONE" /\ about[x] \in Proposals /\ holder[x] \in Holders
    /\ x > minted => stage[x] = "NONE"
    /\ stage[x] = "CONFIRM" => Descends(x)

ConfirmingSteps == {"begin_read", "preflight", "confirm_mint"}
AuthorizingSteps == {"authorize", "auth_read", "auth_commit"}
TelegramSteps == ConfirmingSteps \cup {"details_read", "details_retire", "keyboard"}

\* What started a session.
SessionTrue(c) ==
    /\ pc[c] # "idle" => prop[c] \in Proposals
    /\ pc[c] \in TelegramSteps => source[c] \in Holders
    /\ pc[c] \in ConfirmingSteps =>
           stage[action[c]] = "APPROVE" /\ Tapped(action[c], prop[c], source[c])
    /\ pc[c] \in AuthorizingSteps /\ source[c] \in Holders =>
           stage[action[c]] = "CONFIRM" /\ Tapped(action[c], prop[c], source[c])

AuthorizationTrue(p) ==
    authBy[p] \in Holders =>
        stage[authVia[p]] = "CONFIRM" /\ Tapped(authVia[p], p, authBy[p])

TapInv ==
    /\ TypeOK
    /\ \A x \in Actions : RowTrue(x)
    /\ \A c \in Sessions : SessionTrue(c)
    /\ \A p \in Proposals : AuthorizationTrue(p)

LEMMA TapInit == Init => TapInv
<1> SUFFICES ASSUME Init PROVE TapInv
  OBVIOUS
<1> USE ApprovalsAssumption
<1>1. ProposalTypes
  BY DEF Init, ProposalTypes, Status
<1>2. ActionTypes /\ taps \in [Actions -> Nat] /\ tapper \in [Actions -> Holders \cup {None}]
  BY DEF Init, ActionTypes, Stages
<1>3. SessionTypes
  BY DEF Init, SessionTypes, Steps, Status
<1>4. halted \in BOOLEAN /\ switches \in 0..MaxSwitches /\ now \in 0..MaxTime
  <2>1. halted \in BOOLEAN
    BY DEF Init
  <2>2. switches = 0 /\ now = 0 /\ MaxSwitches \in Nat /\ MaxTime \in Nat
    BY DEF Init
  <2>3. QED
    BY <2>1, <2>2
<1>5. \A x \in Actions : RowTrue(x)
  BY DEF Init, RowTrue, Actions
<1>6. (\A c \in Sessions : SessionTrue(c)) /\ (\A p \in Proposals : AuthorizationTrue(p))
  BY DEF Init, SessionTrue, AuthorizationTrue, TelegramSteps, ConfirmingSteps,
     AuthorizingSteps
<1>7. QED
  BY <1>1, <1>2, <1>3, <1>4, <1>5, <1>6 DEF TapInv, TypeOK

\* Buttons are consumed, nothing else happens to the rows.
RowsKept ==
    /\ UNCHANGED <<minted, stage, about, holder, parent, until, taps, tapper>>
    /\ open' \in [Actions -> BOOLEAN]
    /\ \A x \in Actions : open'[x] => open[x]

\* A row is added for every stage; only a tap on an APPROVE row mints a CONFIRM.
Mints(p, h, t) ==
    /\ UNCHANGED <<taps, tapper>>
    /\ \E deadline \in 0..MaxTime :
          \/ MintAll(<<"APPROVE", "REJECT", "DETAILS">>, p, h, None, deadline)
          \/ MintAll(<<"DETAILS">>, p, h, None, deadline)
          \/ /\ stage[t] = "APPROVE" /\ Tapped(t, p, h)
             /\ MintAll(<<"CONFIRM", "DETAILS">>, p, h, t, deadline)

LEMMA ConsumeKeeps ==
  ASSUME TypeOK, NEW T, Consume(T),
         UNCHANGED <<minted, stage, about, holder, parent, until, taps, tapper>>
  PROVE  RowsKept
  BY DEF TypeOK, ActionTypes, Consume, RowsKept

LEMMA UnchangedKeeps ==
  ASSUME TypeOK, UNCHANGED tokenVars, UNCHANGED <<taps, tapper>>
  PROVE  RowsKept
  BY DEF TypeOK, ActionTypes, tokenVars, RowsKept

\* A button never outlives its proposal, whose expiry is on the clock.
LEMMA LesserInRange ==
  ASSUME NEW m \in Nat, NEW n \in 0..MaxTime
  PROVE  Lesser(m, n) \in 0..MaxTime
  BY ApprovalsAssumption DEF Lesser

LEMMA KeyboardMints ==
  ASSUME TypeOK, NEW c \in Sessions, NEW h, prop[c] \in Proposals, IssueKeyboard(c, h),
         UNCHANGED <<taps, tapper>>
  PROVE  RowsKept \/ Mints(prop[c], h, None)
<1>1. moment[c] + ActionTTL \in Nat /\ expires[prop[c]] \in 0..MaxTime
  BY ApprovalsAssumption DEF TypeOK, SessionTypes, ProposalTypes
<1>2. Lesser(moment[c] + ActionTTL, expires[prop[c]]) \in 0..MaxTime
  BY <1>1, LesserInRange
<1>3. QED
  BY <1>2, UnchangedKeeps DEF IssueKeyboard, KeyboardStages, Mints

LEMMA RowKinds ==
  ASSUME TapInv, [Next]_vars
  PROVE  \/ RowsKept
         \/ \E p \in Proposals, h \in Holders, t \in Actions \cup {None} : Mints(p, h, t)
         \/ \E c \in Bots, t \in Actions, h \in Holders : Tap(c, t, h)
<1> USE DEF TapInv, historyVars
<1>1. ASSUME NEW c \in Bots, Keyboard(c)
      PROVE  RowsKept \/ Mints(prop[c], source[c], None)
  BY <1>1, KeyboardMints DEF Keyboard, SessionTrue, Sessions
<1>2. ASSUME NEW c \in Bots, Keyboard(c) PROVE prop[c] \in Proposals /\ source[c] \in Holders
  BY <1>2 DEF Keyboard, SessionTrue, Sessions, TelegramSteps
<1>3. ASSUME NEW c \in Runners, NEW h \in Holders, AnnounceSend(c, h)
      PROVE  prop[c] \in Proposals /\ (RowsKept \/ Mints(prop[c], h, None))
  BY <1>3, KeyboardMints DEF AnnounceSend, SessionTrue, Sessions
<1>4. ASSUME NEW c \in Bots, ConfirmMint(c)
      PROVE  /\ prop[c] \in Proposals /\ source[c] \in Holders
             /\ action[c] \in Actions \cup {None}
             /\ Mints(prop[c], source[c], action[c])
  <2>1. /\ prop[c] \in Proposals /\ source[c] \in Holders /\ stage[action[c]] = "APPROVE"
        /\ Tapped(action[c], prop[c], source[c])
    BY <1>4 DEF ConfirmMint, SessionTrue, Sessions, TelegramSteps, ConfirmingSteps
  <2>2. moment[c] + ConfirmTTL \in Nat /\ expires[prop[c]] \in 0..MaxTime
    BY <2>1, ApprovalsAssumption DEF TypeOK, SessionTypes, ProposalTypes, Sessions
  <2>3. Lesser(moment[c] + ConfirmTTL, expires[prop[c]]) \in 0..MaxTime
    BY <2>2, LesserInRange
  <2>4. QED
    BY <1>4, <2>1, <2>3 DEF ConfirmMint, Mints, Tapped
<1>5. ASSUME NEW c \in Bots, \/ ReadProposal(c) \/ DetailsRetire(c) \/ Preflight(c)
                             \/ RejectTap(c) \/ Retire(c)
      PROVE  RowsKept
  BY <1>5, ConsumeKeeps, UnchangedKeeps DEF ReadProposal, DetailsRetire, Preflight,
     RejectTap, Terminate, Retire, tokenVars
<1>6. ASSUME NEW c \in Sessions, AuthorizeStep(c) \/ Crash(c) PROVE RowsKept
  <2>1. CASE Authorize(c) \/ AuthorizeRead(c) \/ Crash(c)
    BY <2>1, UnchangedKeeps DEF Authorize, AuthorizeRead, Crash
  <2>2. CASE AuthorizeCommit(c)
    <3>1. /\ UNCHANGED <<minted, stage, about, holder, parent, until, taps, tapper>>
          /\ UNCHANGED open \/ Consume(OpenOf({prop[c]}))
      BY <2>2 DEF AuthorizeCommit
    <3>2. QED
      BY <3>1, ConsumeKeeps, UnchangedKeeps DEF tokenVars
  <2>3. QED
    BY <1>6, <2>1, <2>2 DEF AuthorizeStep
<1>7. ASSUME NEW c \in Bots, NEW h \in Holders, NEW p \in Proposals, ListProposals(c, p, h)
      PROVE  RowsKept
  BY <1>7, UnchangedKeeps DEF ListProposals
<1>8. ASSUME NEW c \in Runners, \/ \E p \in Proposals : Generate(c, p) \/ Announce(c, p)
                                \/ AnnounceClaim(c) \/ MarkNotified(c)
      PROVE  RowsKept
  BY <1>8, UnchangedKeeps DEF Generate, Announce, AnnounceClaim, MarkNotified
<1>9. ASSUME NEW p \in Proposals, WebTerminate(p) \/ Invalidate(p) \/ ExecutionMoves(p)
      PROVE  RowsKept
  BY <1>9, ConsumeKeeps, UnchangedKeeps DEF WebTerminate, Terminate, Invalidate,
     ExecutionMoves
<1>10. CASE Expire
  BY <1>10, ConsumeKeeps DEF Expire
<1>11. CASE (\E c \in Requests, p \in Proposals : WebApprove(c, p)) \/ SetControl \/ Tick
            \/ UNCHANGED vars
  BY <1>11, UnchangedKeeps DEF WebApprove, SetControl, Tick, vars
<1>12. QED
  BY <1>1, <1>2, <1>3, <1>4, <1>5, <1>6, <1>7, <1>8, <1>9, <1>10, <1>11
     DEF Next, TelegramStep


\* A tap that was made stays made.
LEMMA TappedStays ==
  ASSUME TapInv, [Next]_vars, NEW x \in Actions, taps[x] = 1
  PROVE  /\ taps'[x] = 1 /\ tapper'[x] = tapper[x] /\ stage'[x] = stage[x]
         /\ about'[x] = about[x] /\ holder'[x] = holder[x]
<1> USE DEF TapInv, TypeOK, ActionTypes, RowTrue
<1>1. CASE RowsKept
  BY <1>1 DEF RowsKept
<1>2. ASSUME NEW p \in Proposals, NEW h \in Holders, NEW t \in Actions \cup {None},
             Mints(p, h, t)
      PROVE  /\ taps'[x] = 1 /\ tapper'[x] = tapper[x] /\ stage'[x] = stage[x]
             /\ about'[x] = about[x] /\ holder'[x] = holder[x]
  <2>1. x <= minted /\ x \in Nat /\ minted \in Nat
    BY DEF Actions
  <2>2. \A n : x \notin (minted + 1)..n
    BY <2>1
  <2>3. QED
    BY <1>2, <2>2 DEF Mints, MintAll
<1>3. ASSUME NEW c \in Bots, NEW t \in Actions, NEW h \in Holders, Tap(c, t, h)
      PROVE  /\ taps'[x] = 1 /\ tapper'[x] = tapper[x] /\ stage'[x] = stage[x]
             /\ about'[x] = about[x] /\ holder'[x] = holder[x]
  BY <1>3 DEF Tap, Redeemable
<1>4. QED
  BY <1>1, <1>2, <1>3, RowKinds

\* What minting does to the rows.
LEMMA MintRows ==
  ASSUME TapInv, NEW p \in Proposals, NEW h \in Holders, NEW t \in Actions \cup {None},
         Mints(p, h, t)
  PROVE  /\ ActionTypes' /\ UNCHANGED <<taps, tapper>>
         /\ minted' >= minted
         /\ \A x \in Actions \ ((minted + 1)..minted') :
              /\ stage'[x] = stage[x] /\ about'[x] = about[x] /\ holder'[x] = holder[x]
              /\ parent'[x] = parent[x] /\ open'[x] = open[x]
         /\ \A x \in (minted + 1)..minted' :
              /\ stage'[x] # "NONE" /\ about'[x] = p /\ holder'[x] = h
              /\ stage'[x] = "CONFIRM" =>
                     /\ parent'[x] = t /\ stage[t] = "APPROVE" /\ Tapped(t, p, h)
<1> USE DEF TapInv, TypeOK
<1>0. minted \in Nat /\ MaxActions \in Nat
  BY ApprovalsAssumption DEF ActionTypes
<1> DEFINE Kept(x) == /\ stage'[x] = stage[x] /\ about'[x] = about[x]
                      /\ holder'[x] = holder[x] /\ parent'[x] = parent[x]
                      /\ open'[x] = open[x]
           Made(x) == stage'[x] # "NONE" /\ about'[x] = p /\ holder'[x] = h
<1>1. ASSUME NEW stages, NEW d \in 0..MaxTime, Len(stages) \in Nat,
             \A i \in 1..Len(stages) : stages[i] \in Stages \ {"NONE"},
             NEW s \in Actions \cup {None}, MintAll(stages, p, h, s, d)
      PROVE  /\ ActionTypes' /\ minted' = minted + Len(stages)
             /\ \A x \in Actions \ ((minted + 1)..(minted + Len(stages))) : Kept(x)
             /\ \A x \in (minted + 1)..(minted + Len(stages)) :
                  /\ Made(x) /\ stage'[x] = stages[x - minted]
                  /\ stage'[x] = "CONFIRM" => parent'[x] = s
  <2> DEFINE n == Len(stages)
             new == (minted + 1)..(minted + n)
  <2>1. minted' = minted + n /\ minted + n <= MaxActions
    BY <1>1 DEF MintAll
  <2>2. /\ stage' = [x \in Actions |-> IF x \in new THEN stages[x - minted] ELSE stage[x]]
        /\ about' = [x \in Actions |-> IF x \in new THEN p ELSE about[x]]
        /\ holder' = [x \in Actions |-> IF x \in new THEN h ELSE holder[x]]
        /\ parent' = [x \in Actions |-> IF x \in new /\ stages[x - minted] = "CONFIRM"
                                        THEN s ELSE parent[x]]
        /\ until' = [x \in Actions |-> IF x \in new THEN d ELSE until[x]]
        /\ open' = [x \in Actions |-> x \in new \/ open[x]]
    BY <1>1 DEF MintAll
  <2>3. new \subseteq Actions /\ \A x \in new : x - minted \in 1..n
    BY <1>0, <1>1, <2>1 DEF Actions
  <2>4. \A x \in new : stages[x - minted] \in Stages \ {"NONE"}
    BY <1>1, <2>3
  <2> HIDE DEF new, n
  <2>5. (stage \in [Actions -> Stages])'
    BY <2>2, <2>4 DEF ActionTypes
  <2>6. /\ (about \in [Actions -> Proposals \cup {None}])'
        /\ (holder \in [Actions -> Holders \cup {None}])'
        /\ (parent \in [Actions -> Actions \cup {None}])'
        /\ (until \in [Actions -> 0..MaxTime])'
    BY <1>1, <2>2 DEF ActionTypes
  <2>7. (open \in [Actions -> BOOLEAN])'
    BY <2>2 DEF ActionTypes
  <2>8. (minted \in 0..MaxActions)'
    BY <1>0, <1>1, <2>1 DEF n
  <2>9. ActionTypes'
    BY <2>5, <2>6, <2>7, <2>8 DEF ActionTypes
  <2>10. \A x \in Actions \ new : Kept(x)
    <3>1. SUFFICES ASSUME NEW x \in Actions, x \notin new PROVE Kept(x)
      OBVIOUS
    <3>2. open'[x] = open[x]
      BY <2>2, <3>1 DEF ActionTypes
    <3>3. QED
      BY <2>2, <3>1, <3>2
  <2>11. \A x \in new : /\ Made(x) /\ stage'[x] = stages[x - minted]
                        /\ stage'[x] = "CONFIRM" => parent'[x] = s
    BY <2>2, <2>3, <2>4
  <2>12. QED
    BY <2>1, <2>9, <2>10, <2>11 DEF new, n
<1> HIDE DEF Kept, Made
<1>2. UNCHANGED <<taps, tapper>>
  BY DEF Mints
<1> DEFINE Done ==
             /\ ActionTypes' /\ UNCHANGED <<taps, tapper>>
             /\ minted' >= minted
             /\ \A x \in Actions \ ((minted + 1)..minted') : Kept(x)
             /\ \A x \in (minted + 1)..minted' :
                  /\ Made(x)
                  /\ stage'[x] = "CONFIRM" =>
                         /\ parent'[x] = t /\ stage[t] = "APPROVE" /\ Tapped(t, p, h)
<1>3. \A n \in Nat : minted' = minted + n => minted' >= minted
  BY <1>0
<1>4. ASSUME NEW d \in 0..MaxTime,
             MintAll(<<"APPROVE", "REJECT", "DETAILS">>, p, h, None, d)
      PROVE  Done
  <2>1. PICK stages : stages = <<"APPROVE", "REJECT", "DETAILS">>
    OBVIOUS
  <2>2. Len(stages) = 3 /\ \A i \in 1..3 : stages[i] \in Stages \ {"NONE", "CONFIRM"}
    BY <2>1 DEF Stages
  <2>3. MintAll(stages, p, h, None, d)
    BY <1>4, <2>1
  <2>4. /\ Len(stages) \in Nat
        /\ \A i \in 1..Len(stages) : stages[i] \in Stages \ {"NONE"}
        /\ None \in Actions \cup {None}
    BY <2>2
  <2>5. /\ ActionTypes' /\ minted' = minted + Len(stages)
        /\ \A x \in Actions \ ((minted + 1)..(minted + Len(stages))) : Kept(x)
        /\ \A x \in (minted + 1)..(minted + Len(stages)) :
             /\ Made(x) /\ stage'[x] = stages[x - minted]
             /\ stage'[x] = "CONFIRM" => parent'[x] = None
    BY ONLY <1>1, <2>3, <2>4
  <2>6. \A x \in (minted + 1)..(minted + Len(stages)) : stage'[x] # "CONFIRM"
    BY <1>0, <2>2, <2>5
  <2>7. QED
    BY <1>2, <1>3, <2>4, <2>5, <2>6
<1>5. ASSUME NEW d \in 0..MaxTime, MintAll(<<"DETAILS">>, p, h, None, d)
      PROVE  Done
  <2>1. PICK stages : stages = <<"DETAILS">>
    OBVIOUS
  <2>2. Len(stages) = 1 /\ \A i \in 1..1 : stages[i] \in Stages \ {"NONE", "CONFIRM"}
    BY <2>1 DEF Stages
  <2>3. MintAll(stages, p, h, None, d)
    BY <1>5, <2>1
  <2>4. /\ Len(stages) \in Nat
        /\ \A i \in 1..Len(stages) : stages[i] \in Stages \ {"NONE"}
        /\ None \in Actions \cup {None}
    BY <2>2
  <2>5. /\ ActionTypes' /\ minted' = minted + Len(stages)
        /\ \A x \in Actions \ ((minted + 1)..(minted + Len(stages))) : Kept(x)
        /\ \A x \in (minted + 1)..(minted + Len(stages)) :
             /\ Made(x) /\ stage'[x] = stages[x - minted]
             /\ stage'[x] = "CONFIRM" => parent'[x] = None
    BY ONLY <1>1, <2>3, <2>4
  <2>6. \A x \in (minted + 1)..(minted + Len(stages)) : stage'[x] # "CONFIRM"
    BY <1>0, <2>2, <2>5
  <2>7. QED
    BY <1>2, <1>3, <2>4, <2>5, <2>6
<1>6. ASSUME NEW d \in 0..MaxTime, stage[t] = "APPROVE", Tapped(t, p, h),
             MintAll(<<"CONFIRM", "DETAILS">>, p, h, t, d)
      PROVE  Done
  <2>1. PICK stages : stages = <<"CONFIRM", "DETAILS">>
    OBVIOUS
  <2>2. Len(stages) = 2 /\ \A i \in 1..2 : stages[i] \in Stages \ {"NONE"}
    BY <2>1 DEF Stages
  <2>3. MintAll(stages, p, h, t, d)
    BY <1>6, <2>1
  <2>4. /\ Len(stages) \in Nat
        /\ \A i \in 1..Len(stages) : stages[i] \in Stages \ {"NONE"}
        /\ t \in Actions \cup {None}
    BY <2>2
  <2>5. /\ ActionTypes' /\ minted' = minted + Len(stages)
        /\ \A x \in Actions \ ((minted + 1)..(minted + Len(stages))) : Kept(x)
        /\ \A x \in (minted + 1)..(minted + Len(stages)) :
             /\ Made(x) /\ stage'[x] = stages[x - minted]
             /\ stage'[x] = "CONFIRM" => parent'[x] = t
    BY ONLY <1>1, <2>3, <2>4
  <2>6. QED
    BY <1>2, <1>3, <1>6, <2>4, <2>5
<1>7. QED
  BY <1>4, <1>5, <1>6 DEF Mints, Kept, Made

\* The rows stay typed and true.
LEMMA RowStep ==
  ASSUME TapInv, [Next]_vars
  PROVE  /\ ActionTypes'
         /\ (taps \in [Actions -> Nat])' /\ (tapper \in [Actions -> Holders \cup {None}])'
         /\ \A x \in Actions : RowTrue(x)'
<1> USE DEF TapInv, TypeOK
<1>1. minted \in Nat /\ \A x \in Actions : x \in Nat
  BY DEF ActionTypes, Actions
<1>2. ASSUME NEW x \in Actions, Descends(x),
             parent'[x] = parent[x], about'[x] = about[x], holder'[x] = holder[x]
      PROVE  Descends(x)'
  BY <1>2, TappedStays DEF Descends, Tapped
<1>3. CASE RowsKept
  <2>1. ActionTypes' /\ UNCHANGED <<taps, tapper>>
    BY <1>3 DEF RowsKept, ActionTypes
  <2>2. ASSUME NEW x \in Actions PROVE RowTrue(x)'
    BY <1>2, <1>3 DEF RowsKept, RowTrue
  <2>3. QED
    BY <2>1, <2>2
<1>4. ASSUME NEW p \in Proposals, NEW h \in Holders, NEW t \in Actions \cup {None},
             Mints(p, h, t)
      PROVE  /\ ActionTypes'
             /\ (taps \in [Actions -> Nat])'
             /\ (tapper \in [Actions -> Holders \cup {None}])'
             /\ \A x \in Actions : RowTrue(x)'
  <2>1. ActionTypes' /\ UNCHANGED <<taps, tapper>> /\ minted' >= minted
    BY <1>4, MintRows
  <2>2. minted' \in Nat
    BY <2>1 DEF ActionTypes
  <2>3. ASSUME NEW x \in Actions \ ((minted + 1)..minted') PROVE RowTrue(x)'
    <3>1. /\ stage'[x] = stage[x] /\ about'[x] = about[x] /\ holder'[x] = holder[x]
          /\ parent'[x] = parent[x] /\ open'[x] = open[x]
      BY <1>4, MintRows
    <3>2. (x <= minted) <=> (x <= minted')
      BY <1>1, <2>1, <2>2, <2>3
    <3>3. (x > minted) <=> (x > minted')
      BY <1>1, <2>1, <2>2, <2>3
    <3>4. QED
      BY <1>2, <2>1, <3>1, <3>2, <3>3 DEF RowTrue
  <2>4. ASSUME NEW x \in (minted + 1)..minted' PROVE RowTrue(x)'
    <3>1. x \in Actions
      BY <1>1, <2>1, <2>2, ApprovalsAssumption DEF Actions, ActionTypes
    <3>2. /\ stage'[x] # "NONE" /\ about'[x] = p /\ holder'[x] = h
          /\ stage'[x] = "CONFIRM" =>
                 /\ parent'[x] = t /\ stage[t] = "APPROVE" /\ Tapped(t, p, h)
      BY <1>4, MintRows
    <3>3. taps'[x] = 0
      <4>1. ~(x <= minted)
        BY <1>1, <2>2
      <4>2. QED
        BY <2>1, <3>1, <4>1 DEF RowTrue
    <3>4. stage'[x] = "CONFIRM" => Descends(x)'
      BY <3>2, TappedStays DEF Descends, Tapped
    <3>5. x <= minted' /\ ~(x > minted')
      BY <1>1, <2>2
    <3>6. QED
      BY <3>2, <3>3, <3>4, <3>5 DEF RowTrue
  <2>5. QED
    BY <2>1, <2>3, <2>4
<1>5. ASSUME NEW c \in Bots, NEW t \in Actions, NEW h \in Holders, Tap(c, t, h)
      PROVE  /\ ActionTypes'
             /\ (taps \in [Actions -> Nat])'
             /\ (tapper \in [Actions -> Holders \cup {None}])'
             /\ \A x \in Actions : RowTrue(x)'
  <2>1. /\ UNCHANGED <<minted, stage, about, holder, parent, until>>
        /\ taps' = [taps EXCEPT ![t] = @ + 1] /\ tapper' = [tapper EXCEPT ![t] = h]
        /\ open' = [x \in Actions |-> open[x] /\ x \notin {t}]
        /\ t <= minted /\ holder[t] = h /\ open[t]
    BY <1>5 DEF Tap, Redeemable, Consume
  <2>2. ActionTypes'
    BY <2>1 DEF ActionTypes
  <2>3. taps[t] = 0
    BY <2>1 DEF RowTrue
  <2>4. (taps \in [Actions -> Nat])' /\ (tapper \in [Actions -> Holders \cup {None}])'
    BY <2>1
  <2>5. ASSUME NEW x \in Actions PROVE RowTrue(x)'
    <3>1. /\ stage'[x] = stage[x] /\ about'[x] = about[x] /\ holder'[x] = holder[x]
          /\ parent'[x] = parent[x] /\ minted' = minted
      BY <2>1
    <3>2. CASE x = t
      <4>1. taps'[x] = 1 /\ tapper'[x] = holder[x]
        BY <2>1, <2>3, <3>2
      <4>2. ~open'[x]
        BY <2>1, <3>2
      <4>3. QED
        BY <1>2, <2>1, <3>1, <3>2, <4>1, <4>2 DEF RowTrue
    <3>3. CASE x # t
      <4>1. taps'[x] = taps[x] /\ tapper'[x] = tapper[x] /\ (open'[x] => open[x])
        BY <2>1, <3>3
      <4>2. QED
        BY <1>2, <3>1, <4>1 DEF RowTrue
    <3>4. QED
      BY <3>2, <3>3
  <2>6. QED
    BY <2>2, <2>4, <2>5
<1>6. QED
  BY <1>3, <1>4, <1>5, RowKinds

\* A session goes on: it keeps what started it, and stays among the steps of its
\* kind.
Continues(c) ==
    /\ prop'[c] = prop[c] /\ source'[c] = source[c] /\ action'[c] = action[c]
    /\ pc'[c] # "idle" => pc[c] # "idle"
    /\ pc'[c] \in TelegramSteps => pc[c] \in TelegramSteps
    /\ pc'[c] \in ConfirmingSteps => pc[c] \in ConfirmingSteps
    /\ pc'[c] \in AuthorizingSteps => pc[c] \in AuthorizingSteps

SessionMoves ==
    SessionTypes' /\ \A c \in Sessions : Continues(c) \/ SessionTrue(c)'

LEMMA GotoMoves ==
  ASSUME SessionTypes, NEW c \in Sessions, NEW step \in Steps, Goto(c, step),
         UNCHANGED <<prop, source, action>>, pc[c] # "idle",
         step \in TelegramSteps => pc[c] \in TelegramSteps,
         step \in ConfirmingSteps => pc[c] \in ConfirmingSteps,
         step \in AuthorizingSteps => pc[c] \in AuthorizingSteps,
         view' \in [Sessions -> Status], moment' \in [Sessions -> 0..MaxTime],
         stale' \subseteq Sessions
  PROVE  SessionMoves
  BY DEF SessionTypes, Goto, SessionMoves, Continues

LEMMA ClearMoves ==
  ASSUME SessionTypes, NEW c \in Sessions, Clear(c), stale' \subseteq Sessions
  PROVE  SessionMoves
<1>1. 0 \in 0..MaxTime
  BY ApprovalsAssumption
<1>2. SessionTypes'
  BY <1>1 DEF SessionTypes, Clear, Goto, Steps, Status
<1>3. SessionTrue(c)'
  BY DEF SessionTypes, Clear, Goto, SessionTrue, TelegramSteps, ConfirmingSteps,
     AuthorizingSteps
<1>4. \A d \in Sessions \ {c} : Continues(d)
  BY DEF SessionTypes, Clear, Goto, Continues
<1>5. QED
  BY <1>2, <1>3, <1>4 DEF SessionMoves

LEMMA BeginMoves ==
  ASSUME SessionTypes, now \in 0..MaxTime, NEW c \in Sessions, NEW p \in Proposals,
         NEW who \in Holders \cup {Web, System, None}, NEW t \in Actions \cup {None},
         NEW step \in Steps, Begin(c, p, who, t, step),
         step \in TelegramSteps => who \in Holders,
         step \in ConfirmingSteps => stage'[t] = "APPROVE" /\ Tapped(t, p, who)',
         step \in AuthorizingSteps /\ who \in Holders =>
             stage'[t] = "CONFIRM" /\ Tapped(t, p, who)',
         view' \in [Sessions -> Status], stale' \subseteq Sessions
  PROVE  SessionMoves
<1>1. SessionTypes'
  BY DEF SessionTypes, Begin, Goto
<1>2. pc'[c] = step /\ prop'[c] = p /\ source'[c] = who /\ action'[c] = t
  BY DEF SessionTypes, Begin, Goto
<1>3. SessionTrue(c)'
  BY <1>2 DEF SessionTrue
<1>4. \A d \in Sessions \ {c} : Continues(d)
  BY DEF SessionTypes, Begin, Goto, Continues
<1>5. QED
  BY <1>1, <1>3, <1>4 DEF SessionMoves

\* No session moves.
LEMMA StayMoves ==
  ASSUME SessionTypes, UNCHANGED <<pc, prop, source, action, view, moment>>,
         stale' \subseteq Sessions
  PROVE  SessionMoves
  BY DEF SessionTypes, SessionMoves, Continues

LEMMA LookTyped ==
  ASSUME TypeOK, NEW c \in Sessions, NEW p \in Proposals, Look(c, p)
  PROVE  view' \in [Sessions -> Status]
  BY DEF TypeOK, SessionTypes, ProposalTypes, Look

LEMMA ReturnMoves ==
  ASSUME SessionTypes, NEW c \in Sessions, pc[c] # "idle", Return(c),
         stale' \subseteq Sessions
  PROVE  SessionMoves
<1>1. CASE Goto(c, "retire") /\ Keep
  <2>1. view' \in [Sessions -> Status] /\ moment' \in [Sessions -> 0..MaxTime]
    BY <1>1 DEF Keep, SessionTypes
  <2>2. UNCHANGED <<prop, source, action>>
    BY <1>1 DEF Keep
  <2>3. /\ "retire" \in Steps /\ "retire" \notin TelegramSteps
        /\ "retire" \notin ConfirmingSteps /\ "retire" \notin AuthorizingSteps
    BY DEF Steps, TelegramSteps, ConfirmingSteps, AuthorizingSteps
  <2>4. QED
    BY <1>1, <2>1, <2>2, <2>3, GotoMoves
<1>2. CASE Clear(c)
  BY <1>2, ClearMoves
<1>3. QED
  BY <1>1, <1>2 DEF Return

\* Every step moves the sessions so.
LEMMA SessionStep ==
  ASSUME TapInv, [Next]_vars
  PROVE  SessionMoves
<1>1. TypeOK /\ SessionTypes /\ now \in 0..MaxTime
  BY DEF TapInv, TypeOK
<1>2. \A c \in Sessions : pc[c] # "idle" => prop[c] \in Proposals
  BY DEF TapInv, SessionTrue
<1>3. stale \subseteq Sessions /\ \A c : stale \ {c} \subseteq Sessions
  BY <1>1 DEF SessionTypes
<1>4. ASSUME NEW q, NEW new, Write(q, new) PROVE stale' \subseteq Sessions
  BY <1>3, <1>4 DEF Write
<1>5. view \in [Sessions -> Status] /\ moment \in [Sessions -> 0..MaxTime]
  BY <1>1 DEF SessionTypes
<1>6. /\ "authorize" \in Steps \ (TelegramSteps \cup ConfirmingSteps)
      /\ "announce_claim" \in Steps \ (TelegramSteps \cup ConfirmingSteps \cup AuthorizingSteps)
      /\ "keyboard" \in Steps \ (ConfirmingSteps \cup AuthorizingSteps)
  BY DEF Steps, TelegramSteps, ConfirmingSteps, AuthorizingSteps
<1>7. /\ System \notin Holders /\ Web \notin Holders /\ None \notin Holders
  BY ApprovalsAssumption
<1>8. ASSUME NEW c \in Runners, NEW p \in Proposals, Generate(c, p) PROVE SessionMoves
  <2>1. c \in Sessions /\ stale' \subseteq Sessions
    BY <1>3, <1>8 DEF Generate, Sessions
  <2>2. CASE Begin(c, p, System, None, "authorize") /\ UNCHANGED view
    BY <1>1, <1>5, <1>6, <1>7, <2>1, <2>2, BeginMoves
  <2>3. CASE UNCHANGED <<pc, prop, source, action, view, moment>>
    BY <1>1, <2>1, <2>3, StayMoves
  <2>4. QED
    BY <1>8, <2>2, <2>3 DEF Generate
<1>9. ASSUME NEW c \in Runners, NEW p \in Proposals, Announce(c, p) PROVE SessionMoves
  <2>1. c \in Sessions /\ stale' \subseteq Sessions
    BY <1>3, <1>9 DEF Announce, Sessions
  <2>2. Begin(c, p, None, None, "announce_claim") /\ view' \in [Sessions -> Status]
    BY <1>1, <1>9, <2>1, LookTyped DEF Announce
  <2>3. QED
    BY <1>1, <1>6, <1>7, <2>1, <2>2, BeginMoves
<1>10. ASSUME NEW c \in Bots, NEW h \in Holders, NEW p \in Proposals, ListProposals(c, p, h)
       PROVE  SessionMoves
  <2>1. c \in Sessions /\ stale' \subseteq Sessions
    BY <1>3, <1>10 DEF ListProposals, Sessions
  <2>2. Begin(c, p, h, None, "keyboard") /\ view' \in [Sessions -> Status]
    BY <1>1, <1>10, <2>1, LookTyped DEF ListProposals
  <2>3. QED
    BY <1>1, <1>6, <2>1, <2>2, BeginMoves
<1>11. ASSUME NEW c \in Requests, NEW p \in Proposals, WebApprove(c, p) PROVE SessionMoves
  <2>1. c \in Sessions /\ stale' \subseteq Sessions /\ UNCHANGED view
    BY <1>3, <1>11 DEF WebApprove, Sessions
  <2>2. Begin(c, p, Web, None, "authorize")
    BY <1>11 DEF WebApprove
  <2>3. QED
    BY <1>1, <1>5, <1>6, <1>7, <2>1, <2>2, BeginMoves
<1>12. ASSUME NEW c \in Bots, NEW h \in Holders, NEW t \in Actions, Tap(c, t, h)
       PROVE  SessionMoves
  <2>1. c \in Sessions /\ stale' \subseteq Sessions /\ view' \in [Sessions -> Status]
    BY <1>3, <1>5, <1>12 DEF Tap, Sessions
  <2>2. CASE ~ParentIsValid(t)
    BY <1>1, <1>12, <2>1, <2>2, StayMoves DEF Tap
  <2>3. CASE ParentIsValid(t)
    <3>1. Begin(c, about[t], h, t, Handler[stage[t]])
      BY <1>12, <2>3 DEF Tap
    <3>2. /\ stage[t] \in Stages \ {"NONE"} /\ about[t] \in Proposals
          /\ taps[t] = 0 /\ holder[t] = h
      BY <1>1, <1>12 DEF TapInv, RowTrue, Tap, Redeemable, TypeOK, ActionTypes
    <3>3. /\ stage'[t] = stage[t] /\ about'[t] = about[t] /\ holder'[t] = h
          /\ taps'[t] = 1 /\ tapper'[t] = h
      BY <1>1, <1>12, <3>2 DEF Tap, TypeOK
    <3>4. /\ Handler[stage[t]] \in Steps
          /\ Handler[stage[t]] \in ConfirmingSteps => stage[t] = "APPROVE"
          /\ Handler[stage[t]] \in AuthorizingSteps => stage[t] = "CONFIRM"
      BY <3>2 DEF Stages, Handler, Steps, ConfirmingSteps, AuthorizingSteps
    <3>5. PICK p, step : p = about[t] /\ step = Handler[stage[t]]
      OBVIOUS
    <3>6. /\ p \in Proposals /\ step \in Steps /\ Begin(c, p, h, t, step)
          /\ step \in ConfirmingSteps => stage'[t] = "APPROVE" /\ Tapped(t, p, h)'
          /\ step \in AuthorizingSteps => stage'[t] = "CONFIRM" /\ Tapped(t, p, h)'
      BY <3>1, <3>2, <3>3, <3>4, <3>5 DEF Begin, Goto, Tapped
    <3>7. QED
      BY <1>1, <2>1, <3>6, BeginMoves
  <2>4. QED
    BY <2>2, <2>3
<1>13. ASSUME NEW c \in Bots, TelegramStep(c) PROVE SessionMoves
  <2>0. c \in Sessions
    BY DEF Sessions
  <2>1. CASE Keyboard(c) \/ ConfirmMint(c) \/ Retire(c)
    BY <1>1, <1>3, <2>0, <2>1, ClearMoves DEF Keyboard, ConfirmMint, Retire
  <2>2. CASE ReadProposal(c)
    <3>1. pc[c] # "idle" /\ view' \in [Sessions -> Status] /\ UNCHANGED stale
      BY <1>1, <1>2, <2>0, <2>2, LookTyped DEF ReadProposal
    <3>2. UNCHANGED <<prop, source, action, moment>>
      BY <2>2 DEF ReadProposal
    <3>3. CASE pc[c] = "details_read" /\ Goto(c, "details_retire")
      <4>1. "details_retire" \in Steps \ (ConfirmingSteps \cup AuthorizingSteps)
        BY DEF Steps, ConfirmingSteps, AuthorizingSteps
      <4>2. pc[c] \in TelegramSteps
        BY <3>3 DEF TelegramSteps
      <4>3. QED
        BY <1>1, <1>3, <1>5, <2>0, <3>1, <3>2, <3>3, <4>1, <4>2, GotoMoves
    <3>4. CASE pc[c] = "begin_read" /\ Goto(c, "preflight")
      <4>1. "preflight" \in Steps \ AuthorizingSteps
        BY DEF Steps, AuthorizingSteps
      <4>2. pc[c] \in TelegramSteps /\ pc[c] \in ConfirmingSteps
        BY <3>4 DEF TelegramSteps, ConfirmingSteps
      <4>3. QED
        BY <1>1, <1>3, <1>5, <2>0, <3>1, <3>2, <3>4, <4>1, <4>2, GotoMoves
    <3>5. QED
      BY <2>2, <3>3, <3>4 DEF ReadProposal
  <2>3. CASE DetailsRetire(c)
    <3>1. pc[c] # "idle" /\ Goto(c, "keyboard") /\ UNCHANGED stale
      BY <2>3 DEF DetailsRetire
    <3>2. UNCHANGED <<prop, source, action, view, moment>>
      BY <2>3 DEF DetailsRetire, Keep
    <3>3. pc[c] \in TelegramSteps
      BY <2>3 DEF DetailsRetire, TelegramSteps
    <3>4. QED
      BY <1>1, <1>3, <1>5, <1>6, <2>0, <3>1, <3>2, <3>3, GotoMoves
  <2>4. CASE Preflight(c)
    <3>1. CASE Goto(c, "confirm_mint") /\ Keep
      <4>1. pc[c] # "idle" /\ UNCHANGED <<prop, source, action, view, moment, stale>>
        BY <2>4, <3>1 DEF Preflight, Keep
      <4>2. "confirm_mint" \in Steps \ AuthorizingSteps
        BY DEF Steps, AuthorizingSteps
      <4>3. pc[c] \in TelegramSteps /\ pc[c] \in ConfirmingSteps
        BY <2>4 DEF Preflight, TelegramSteps, ConfirmingSteps
      <4>4. QED
        BY <1>1, <1>3, <1>5, <2>0, <3>1, <4>1, <4>2, <4>3, GotoMoves
    <3>2. CASE Clear(c)
      BY <1>1, <1>3, <2>0, <2>4, <3>2, ClearMoves DEF Preflight
    <3>3. QED
      BY <2>4, <3>1, <3>2 DEF Preflight
  <2>5. CASE RejectTap(c)
    <3>1. pc[c] # "idle" /\ Goto(c, "retire") /\ stale' \subseteq Sessions
      BY <1>3, <1>4, <2>5 DEF RejectTap, Terminate
    <3>2. UNCHANGED <<prop, source, action, view, moment>>
      BY <2>5 DEF RejectTap, Keep
    <3>3. /\ "retire" \in Steps /\ "retire" \notin TelegramSteps
          /\ "retire" \notin ConfirmingSteps /\ "retire" \notin AuthorizingSteps
      BY DEF Steps, TelegramSteps, ConfirmingSteps, AuthorizingSteps
    <3>4. QED
      BY <1>1, <1>5, <2>0, <3>1, <3>2, <3>3, GotoMoves
  <2>6. QED
    BY <1>13, <2>1, <2>2, <2>3, <2>4, <2>5 DEF TelegramStep
<1>14. ASSUME NEW c \in Runners, AnnounceClaim(c) PROVE SessionMoves
  <2>1. c \in Sessions /\ pc[c] = "announce_claim" /\ UNCHANGED stale
    BY <1>14 DEF AnnounceClaim, Sessions
  <2>2. CASE Goto(c, "announce_mint") /\ Keep
    <3>1. "announce_mint" \in Steps \ (TelegramSteps \cup ConfirmingSteps \cup AuthorizingSteps)
      BY DEF Steps, TelegramSteps, ConfirmingSteps, AuthorizingSteps
    <3>2. QED
      BY <1>1, <1>3, <1>5, <2>1, <2>2, <3>1, GotoMoves DEF Keep
  <2>3. CASE Clear(c)
    BY <1>1, <1>3, <2>1, <2>3, ClearMoves
  <2>4. QED
    BY <1>14, <2>2, <2>3 DEF AnnounceClaim
<1>15. ASSUME NEW c \in Runners, NEW h \in Holders, AnnounceSend(c, h) PROVE SessionMoves
  <2>1. c \in Sessions /\ pc[c] # "idle" /\ Goto(c, "mark") /\ Keep /\ UNCHANGED stale
    BY <1>15 DEF AnnounceSend, Sessions
  <2>2. "mark" \in Steps \ (TelegramSteps \cup ConfirmingSteps \cup AuthorizingSteps)
    BY DEF Steps, TelegramSteps, ConfirmingSteps, AuthorizingSteps
  <2>3. QED
    BY <1>1, <1>3, <1>5, <2>1, <2>2, GotoMoves DEF Keep
<1>16. ASSUME NEW c \in Runners, MarkNotified(c) PROVE SessionMoves
  <2>1. c \in Sessions /\ Clear(c) /\ stale' \subseteq Sessions
    BY <1>3, <1>4, <1>16 DEF MarkNotified, Sessions
  <2>2. QED
    BY <1>1, <2>1, ClearMoves
<1>17. ASSUME NEW c \in Sessions, Crash(c) PROVE SessionMoves
  BY <1>1, <1>3, <1>17, ClearMoves DEF Crash
<1>18. ASSUME NEW c \in Sessions, Authorize(c) PROVE SessionMoves
  <2>1. pc[c] = "authorize" /\ UNCHANGED stale
    BY <1>18 DEF Authorize
  <2>2. CASE Return(c)
    BY <1>1, <1>3, <2>1, <2>2, ReturnMoves
  <2>3. CASE /\ Goto(c, "auth_read") /\ moment' = [moment EXCEPT ![c] = now]
             /\ UNCHANGED <<prop, source, action, view>>
    <3>1. moment' \in [Sessions -> 0..MaxTime]
      BY <1>1, <1>5, <2>3
    <3>2. "auth_read" \in Steps \ (TelegramSteps \cup ConfirmingSteps)
      BY DEF Steps, TelegramSteps, ConfirmingSteps
    <3>3. pc[c] \in AuthorizingSteps
      BY <2>1 DEF AuthorizingSteps
    <3>4. QED
      BY <1>1, <1>3, <1>5, <2>1, <2>3, <3>1, <3>2, <3>3, GotoMoves
  <2>4. QED
    BY <1>18, <2>2, <2>3 DEF Authorize
<1>19. ASSUME NEW c \in Sessions, AuthorizeRead(c) PROVE SessionMoves
  <2>1. pc[c] = "auth_read" /\ stale' \subseteq Sessions
    BY <1>3, <1>19 DEF AuthorizeRead
  <2>2. CASE Return(c)
    BY <1>1, <2>1, <2>2, ReturnMoves
  <2>3. CASE Goto(c, "auth_commit") /\ Keep
    <3>1. "auth_commit" \in Steps \ (TelegramSteps \cup ConfirmingSteps)
      BY DEF Steps, TelegramSteps, ConfirmingSteps
    <3>2. pc[c] \in AuthorizingSteps
      BY <2>1 DEF AuthorizingSteps
    <3>3. QED
      BY <1>1, <1>5, <2>1, <2>3, <3>1, <3>2, GotoMoves DEF Keep
  <2>4. QED
    BY <1>19, <2>2, <2>3 DEF AuthorizeRead
<1>20. ASSUME NEW c \in Sessions, AuthorizeCommit(c) PROVE SessionMoves
  <2>1. pc[c] # "idle" /\ Return(c) /\ stale' \subseteq Sessions
    BY <1>3, <1>4, <1>20 DEF AuthorizeCommit
  <2>2. QED
    BY <1>1, <2>1, ReturnMoves
<1>21. ASSUME NEW p \in Proposals, WebTerminate(p) \/ Invalidate(p) \/ ExecutionMoves(p)
       PROVE  SessionMoves
  BY <1>1, <1>4, <1>21, StayMoves DEF WebTerminate, Terminate, Invalidate, ExecutionMoves
<1>22. CASE Expire
  BY <1>1, <1>3, <1>22, StayMoves DEF Expire
<1>23. CASE SetControl \/ Tick \/ UNCHANGED vars
  BY <1>1, <1>3, <1>23, StayMoves DEF SetControl, Tick, vars, sessionVars
<1>24. QED
  BY <1>8, <1>9, <1>10, <1>11, <1>12, <1>13, <1>14, <1>15, <1>16, <1>17, <1>18, <1>19,
     <1>20, <1>21, <1>22, <1>23 DEF Next, AuthorizeStep

\* Only a commit authorizes, on behalf of the button that started the session.
LEMMA AuthorizationStep ==
  ASSUME TapInv, [Next]_vars
  PROVE  /\ (authBy \in [Proposals -> Holders \cup {Web, System, None}])'
         /\ (authVia \in [Proposals -> Actions \cup {None}])'
         /\ \A p \in Proposals :
              \/ authBy'[p] = authBy[p] /\ authVia'[p] = authVia[p]
              \/ \E c \in Sessions : /\ pc[c] = "auth_commit" /\ prop[c] = p
                                     /\ authBy'[p] = source[c] /\ authVia'[p] = action[c]
<1>0. ASSUME NEW c \in Sessions, AuthorizeCommit(c)
      PROVE  /\ (authBy \in [Proposals -> Holders \cup {Web, System, None}])'
             /\ (authVia \in [Proposals -> Actions \cup {None}])'
  BY <1>0 DEF TapInv, TypeOK, ProposalTypes, SessionTypes, AuthorizeCommit
<1>1. ASSUME NEW c \in Sessions, AuthorizeCommit(c), NEW p \in Proposals
      PROVE  \/ authBy'[p] = authBy[p] /\ authVia'[p] = authVia[p]
             \/ /\ pc[c] = "auth_commit" /\ prop[c] = p
                /\ authBy'[p] = source[c] /\ authVia'[p] = action[c]
  BY <1>1 DEF TapInv, TypeOK, ProposalTypes, AuthorizeCommit
<1>2. ASSUME ~ \E c \in Sessions : AuthorizeCommit(c) PROVE UNCHANGED <<authBy, authVia>>
  <2>1. ASSUME NEW c \in Bots, TelegramStep(c) PROVE UNCHANGED <<authBy, authVia>>
    BY <2>1 DEF TelegramStep, Keyboard, ReadProposal, DetailsRetire, Preflight, ConfirmMint,
                RejectTap, Retire, historyVars
  <2>2. ASSUME NEW c \in Bots, NEW h \in Holders,
               \/ \E p \in Proposals : ListProposals(c, p, h)
               \/ \E t \in Actions : Tap(c, t, h)
        PROVE  UNCHANGED <<authBy, authVia>>
    BY <2>2 DEF ListProposals, Tap, historyVars
  <2>3. ASSUME NEW c \in Runners,
               \/ \E p \in Proposals : Generate(c, p) \/ Announce(c, p)
               \/ AnnounceClaim(c) \/ MarkNotified(c)
               \/ \E h \in Holders : AnnounceSend(c, h)
        PROVE  UNCHANGED <<authBy, authVia>>
    BY <2>3 DEF Generate, Announce, AnnounceClaim, AnnounceSend, MarkNotified, historyVars
  <2>4. ASSUME NEW c \in Sessions, Authorize(c) \/ AuthorizeRead(c) \/ Crash(c)
        PROVE  UNCHANGED <<authBy, authVia>>
    BY <2>4 DEF Authorize, AuthorizeRead, Crash, historyVars
  <2>5. ASSUME NEW p \in Proposals, WebTerminate(p) \/ Invalidate(p) \/ ExecutionMoves(p)
        PROVE  UNCHANGED <<authBy, authVia>>
    BY <2>5 DEF WebTerminate, Invalidate, ExecutionMoves, historyVars
  <2>6. ASSUME (\E c \in Requests, p \in Proposals : WebApprove(c, p)) \/ Expire \/ SetControl
               \/ Tick \/ UNCHANGED vars
        PROVE  UNCHANGED <<authBy, authVia>>
    BY <2>6 DEF WebApprove, Expire, SetControl, Tick, vars, historyVars
  <2>7. QED
    BY <1>2, <2>1, <2>2, <2>3, <2>4, <2>5, <2>6 DEF Next, AuthorizeStep
<1>3. ASSUME UNCHANGED <<authBy, authVia>>
      PROVE  /\ (authBy \in [Proposals -> Holders \cup {Web, System, None}])'
             /\ (authVia \in [Proposals -> Actions \cup {None}])'
  BY <1>3 DEF TapInv, TypeOK, ProposalTypes
<1>4. QED
  BY <1>0, <1>1, <1>2, <1>3

\* The other columns of the proposal, the switches and the clock stay typed.
LEMMA ColumnStep ==
  ASSUME TapInv, [Next]_vars
  PROVE  /\ (policy \in [Proposals -> {"MANUAL", "AUTOMATIC"}])'
         /\ (expires \in [Proposals -> 0..MaxTime])'
         /\ (announced \in [Proposals -> {"none", "queued", "claimed"}])'
         /\ (halted \in BOOLEAN)' /\ (switches \in 0..MaxSwitches)' /\ (now \in 0..MaxTime)'
<1> DEFINE Columns ==
             /\ (policy \in [Proposals -> {"MANUAL", "AUTOMATIC"}])'
             /\ (expires \in [Proposals -> 0..MaxTime])'
             /\ (announced \in [Proposals -> {"none", "queued", "claimed"}])'
           Switches ==
             (halted \in BOOLEAN)' /\ (switches \in 0..MaxSwitches)' /\ (now \in 0..MaxTime)'
<1>1. TypeOK /\ ProposalTypes
  BY DEF TapInv, TypeOK
<1>2. ASSUME UNCHANGED <<policy, expires, announced>> PROVE Columns
  BY <1>1, <1>2 DEF ProposalTypes
<1>3. ASSUME UNCHANGED <<halted, switches, now>> PROVE Switches
  BY <1>1, <1>3 DEF TypeOK
<1> DEFINE Rest == UNCHANGED <<policy, expires, announced>> /\ UNCHANGED <<halted, switches, now>>
<1>4. ASSUME NEW c \in Runners, NEW p \in Proposals, Generate(c, p)
      PROVE  Columns /\ Switches
  <2>1. now + TTL \in 0..MaxTime
    BY <1>1, <1>4, ApprovalsAssumption DEF Generate, TypeOK
  <2>2. QED
    BY <1>1, <1>3, <1>4, <2>1 DEF Generate, ProposalTypes, control
<1>5. ASSUME NEW c \in Runners, AnnounceClaim(c)
      PROVE  Columns /\ Switches
  BY <1>1, <1>3, <1>5 DEF AnnounceClaim, ProposalTypes, control
<1>6. ASSUME NEW c \in Runners, \/ \E p \in Proposals : Announce(c, p)
                                \/ MarkNotified(c)
                                \/ \E h \in Holders : AnnounceSend(c, h)
      PROVE  Rest
  BY <1>6 DEF Announce, AnnounceSend, MarkNotified, propVars, control
<1>7. ASSUME NEW c \in Bots, TelegramStep(c)
      PROVE  Rest
  BY <1>7 DEF TelegramStep, Keyboard, ReadProposal, DetailsRetire, Preflight, ConfirmMint,
              RejectTap, Retire, propVars, control
<1>8. ASSUME NEW c \in Bots, NEW h \in Holders,
             \/ \E p \in Proposals : ListProposals(c, p, h)
             \/ \E t \in Actions : Tap(c, t, h)
      PROVE  Rest
  BY <1>8 DEF ListProposals, Tap, propVars, control
<1>9. ASSUME NEW c \in Sessions, AuthorizeStep(c) \/ Crash(c)
      PROVE  Rest
  BY <1>9 DEF AuthorizeStep, Authorize, AuthorizeRead, AuthorizeCommit, Crash, propVars,
              control
<1>10. ASSUME NEW p \in Proposals, WebTerminate(p) \/ Invalidate(p) \/ ExecutionMoves(p)
       PROVE  Rest
  BY <1>10 DEF WebTerminate, Invalidate, ExecutionMoves, control
<1>11. ASSUME (\E c \in Requests, p \in Proposals : WebApprove(c, p)) \/ Expire
              \/ UNCHANGED vars
       PROVE  Rest
  BY <1>11 DEF WebApprove, Expire, vars, propVars, control
<1>12. ASSUME SetControl PROVE Columns /\ Switches
  <2>1. switches \in Nat /\ switches < MaxSwitches /\ switches' = switches + 1
        /\ MaxSwitches \in Nat
    BY <1>1, <1>12, ApprovalsAssumption DEF SetControl, TypeOK
  <2>2. (switches \in 0..MaxSwitches)'
    BY <2>1
  <2>3. halted' \in BOOLEAN /\ now' = now /\ UNCHANGED <<policy, expires, announced>>
    BY <1>12 DEF SetControl, propVars
  <2>4. QED
    BY <1>1, <1>2, <2>2, <2>3 DEF TypeOK
<1>13. ASSUME Tick PROVE Columns /\ Switches
  <2>1. (now \in 0..MaxTime)' /\ UNCHANGED <<policy, expires, announced>>
    BY <1>1, <1>13, ApprovalsAssumption DEF Tick, TypeOK, propVars
  <2>2. UNCHANGED <<halted, switches>>
    BY <1>13 DEF Tick, control
  <2>3. QED
    BY <1>1, <1>2, <2>1, <2>2 DEF TypeOK
<1>14. Rest => Columns /\ Switches
  BY <1>2, <1>3
<1> HIDE DEF Columns, Switches, Rest
<1>15. Columns /\ Switches
  BY <1>4, <1>5, <1>6, <1>7, <1>8, <1>9, <1>10, <1>11, <1>12, <1>13, <1>14
     DEF Next
<1>16. QED
  BY <1>15 DEF Columns, Switches

LEMMA TapStep ==
  ASSUME TapInv, StatusInv, [Next]_vars
  PROVE  TapInv'
<1>1. \A x \in Actions : taps[x] = 1 =>
         /\ taps'[x] = 1 /\ tapper'[x] = tapper[x] /\ stage'[x] = stage[x]
         /\ about'[x] = about[x] /\ holder'[x] = holder[x]
  BY TappedStays
<1>2. \A c \in Sessions : SessionTrue(c)
  BY DEF TapInv
<1>3. ASSUME NEW c \in Sessions, Continues(c) PROVE SessionTrue(c)'
  BY <1>1, <1>2, <1>3 DEF Continues, SessionTrue, Tapped
<1>4. ASSUME NEW p \in Proposals PROVE AuthorizationTrue(p)'
  <2>1. CASE authBy'[p] = authBy[p] /\ authVia'[p] = authVia[p]
    <3>1. AuthorizationTrue(p)
      BY DEF TapInv
    <3>2. QED
      BY <1>1, <2>1, <3>1 DEF AuthorizationTrue, Tapped
  <2>2. ASSUME NEW c \in Sessions, pc[c] = "auth_commit", prop[c] = p,
               authBy'[p] = source[c], authVia'[p] = action[c]
        PROVE  AuthorizationTrue(p)'
    BY <1>1, <1>2, <2>2 DEF SessionTrue, AuthorizingSteps, AuthorizationTrue, Tapped
  <2>3. QED
    BY <2>1, <2>2, AuthorizationStep
<1>5. ProposalTypes'
  <2>1. (status \in [Proposals -> Status])'
    BY StepLegal DEF Legal, StatusTyped
  <2>2. (authBy \in [Proposals -> Holders \cup {Web, System, None}])'
        /\ (authVia \in [Proposals -> Actions \cup {None}])'
    BY AuthorizationStep
  <2>3. QED
    BY <2>1, <2>2, ColumnStep DEF ProposalTypes
<1>6. QED
  BY <1>3, <1>4, <1>5, RowStep, SessionStep, ColumnStep DEF TapInv, TypeOK, SessionMoves

\* The rows, the sessions and the authorizations tell one story: every tap was
\* made once and by the holder of its row, every confirmation descends from a
\* tapped APPROVE, and every running call and every authorization goes back to
\* the tap that started it.
THEOREM TapInvariant == Spec => []TapInv
<1>1. Init => TapInv
  BY TapInit
<1>2. TapInv /\ StatusInv /\ [Next]_vars => TapInv'
  BY TapStep
<1>3. QED
  BY <1>1, <1>2, StatusInvariant, PTL DEF Spec

\* A Telegram authorization took two taps of one person on one proposal, each
\* redeemed exactly once (handle, resolve_and_consume, _parent_is_valid), however
\* many calls run at once, wherever they die and whatever the times to live.
THEOREM TwoTapsOnly == Spec => []TwoTaps
<1>1. TapInv => TwoTaps
  BY DEF TapInv, TwoTaps, AuthorizationTrue, RowTrue, Descends, Tapped
<1>2. QED
  BY <1>1, TapInvariant, PTL

=============================================================================
