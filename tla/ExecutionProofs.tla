--------------------------- MODULE ExecutionProofs ---------------------------
(***************************************************************************)
(* Theorems about Execution, for every set of proposals, attempts, workers *)
(* and reconcilers and every value of the timing constants.  The first     *)
(* half is about sending an order, the second about what may be concluded  *)
(* from one.  Three conditions are named where a theorem needs them:       *)
(*   OwnListing    no two proposals are on one listing, so that an order   *)
(*                 found there belongs to the proposal asked about         *)
(*   SettleWindow  the settle window outlasts preflight and landing        *)
(*   NoRetry       a proposal has one attempt                              *)
(* Orders of the past that no proposal of the model placed are not in it.  *)
(***************************************************************************)
EXTENDS Execution, TLAPS

-----------------------------------------------------------------------------
(* Type correctness *)

\* Init gives every column and local its range.
LEMMA TypeInit == Init => TypeOK
<1> SUFFICES ASSUME Init PROVE TypeOK
  OBVIOUS
<1> USE ConstantsAssumption
<1>1. ProposalTypes
  <2>1. halted \in BOOLEAN
    BY DEF Init
  <2>2. /\ status \in [Proposals -> ProposalStatus \cup {"ABSENT"}]
        /\ ttl \in [Proposals -> 0..TTL]
        /\ execJob \in [Proposals -> BOOLEAN]
    BY DEF Init
  <2>3. QED
    BY <2>1, <2>2 DEF ProposalTypes
<1>2. AttemptTypes
  BY DEF Init, AttemptTypes, Outcomes, Remote
<1>3. WorkerTypes
  BY DEF Init, WorkerTypes, WorkerSteps, Remote
<1>4. ReconcilerTypes
  BY DEF Init, ReconcilerTypes, RecSteps, Remote
<1>5. BoundTypes
  BY DEF Init, BoundTypes
<1>6. QED
  BY <1>1, <1>2, <1>3, <1>4, <1>5 DEF TypeOK

\* A worker that ends, however it ends, leaves its locals and the job column
\* well typed.
LEMMA FinishTypes ==
  ASSUME ProposalTypes, WorkerTypes, NEW w \in Workers, Finish(w) \/ Abandon(w),
         moved' \subseteq Workers
  PROVE  WorkerTypes' /\ execJob' \in [Proposals -> BOOLEAN]
<1> USE ConstantsAssumption DEF WorkerTypes
<1>1. Idle(w)
  BY DEF Finish, Abandon
<1>2. WorkerTypes'
  <2>1. (pc \in [Workers -> WorkerSteps])'
    BY <1>1 DEF Idle, WorkerSteps
  <2>2. (prop \in [Workers -> Proposals \cup {None}])'
    BY <1>1 DEF Idle
  <2>3. (att \in [Workers -> Attempts \cup {None}])'
    BY <1>1 DEF Idle
  <2>4. (job \in [Workers -> BOOLEAN])' /\ (late \in [Workers -> BOOLEAN])'
    BY <1>1 DEF Idle
  <2>5. (elapsed \in [Workers -> 0..PreMax])'
    BY <1>1 DEF Idle
  <2>6. (ack \in [Workers -> Remote])'
    BY <1>1 DEF Idle, Remote
  <2>7. QED
    BY <2>1, <2>2, <2>3, <2>4, <2>5, <2>6
<1>3. execJob' \in [Proposals -> BOOLEAN]
  BY DEF Finish, Abandon, ProposalTypes
<1>4. QED
  BY <1>2, <1>3

\* A reconciler that stops keeps its locals well typed.
LEMMA RecIdleTypes ==
  ASSUME ReconcilerTypes, NEW r \in Reconcilers, RecIdle(r)
  PROVE  ReconcilerTypes'
<1> USE DEF ReconcilerTypes, RecIdle, RecGoto
<1>1. (rpc \in [Reconcilers -> RecSteps])'
  BY DEF RecSteps
<1>2. (subject \in [Reconcilers -> Attempts \cup {None}])'
  OBVIOUS
<1>3. (known \in [Reconcilers -> Attempts \cup {None}])'
  OBVIOUS
<1>4. (conclusive \in [Reconcilers -> BOOLEAN])'
  OBVIOUS
<1>5. (pend \in [Reconcilers -> SUBSET Attempts])'
  OBVIOUS
<1>6. (hist \in [Reconcilers -> SUBSET Attempts])'
  OBVIOUS
<1>7. (order \in [Reconcilers -> Attempts \cup {None}])'
  OBVIOUS
<1>8. (seen \in [Reconcilers -> Remote])'
  BY DEF Remote
<1>9. QED
  BY <1>1, <1>2, <1>3, <1>4, <1>5, <1>6, <1>7, <1>8

\* Counting a pass keeps the counter within its cap.
LEMMA CountPassType ==
  ASSUME AttemptTypes, NEW a, CountPass(a)
  PROVE  passes' \in [Attempts -> 0..MaxPasses]
<1> USE ConstantsAssumption DEF AttemptTypes, CountPass
<1>1. ASSUME NEW b \in Attempts PROVE passes'[b] \in 0..MaxPasses
  <2>1. passes[b] \in 0..MaxPasses
    OBVIOUS
  <2>2. CASE a = b
    BY <2>1, <2>2
  <2>3. CASE a # b
    BY <2>1, <2>3
  <2>4. QED
    BY <2>2, <2>3
<1>2. QED
  BY <1>1

\* Every step keeps every column and local in its range.
LEMMA TypeStep == TypeOK /\ [Next]_vars => TypeOK'
<1> SUFFICES ASSUME TypeOK, [Next]_vars PROVE TypeOK'
  OBVIOUS
<1> USE ConstantsAssumption DEF proposalVars, attemptVars, brokerVars,
      heldVars, workerVars, recVars, bounds
<1>1. ASSUME NEW p \in Proposals, Generate(p) PROVE TypeOK'
  <2>1. ProposalTypes'
    BY <1>1 DEF TypeOK, ProposalTypes, Generate, SetStatus, ProposalStatus
  <2>2. QED
    BY <2>1, <1>1 DEF TypeOK, AttemptTypes, WorkerTypes, ReconcilerTypes,
       BoundTypes, Generate
<1>2. ASSUME NEW p \in Proposals, Authorize(p) PROVE TypeOK'
  <2>1. ProposalTypes'
    BY <1>2 DEF TypeOK, ProposalTypes, Authorize, SetStatus, ProposalStatus
  <2>2. WorkerTypes'
    BY <1>2 DEF TypeOK, WorkerTypes, Authorize, Bump, Readers
  <2>3. QED
    BY <2>1, <2>2, <1>2 DEF TypeOK, AttemptTypes, ReconcilerTypes,
       BoundTypes, Authorize
<1>3. ASSUME NEW p \in Proposals, Expire(p) PROVE TypeOK'
  <2>1. ProposalTypes'
    BY <1>3 DEF TypeOK, ProposalTypes, Expire, SetStatus, ProposalStatus
  <2>2. WorkerTypes'
    BY <1>3 DEF TypeOK, WorkerTypes, Expire, Bump, Readers
  <2>3. QED
    BY <2>1, <2>2, <1>3 DEF TypeOK, AttemptTypes, ReconcilerTypes,
       BoundTypes, Expire
<1>4. ASSUME NEW p \in Proposals, InvalidateStale(p) PROVE TypeOK'
  <2>1. ProposalTypes'
    BY <1>4 DEF TypeOK, ProposalTypes, InvalidateStale, SetStatus,
       ProposalStatus
  <2>2. WorkerTypes'
    BY <1>4 DEF TypeOK, WorkerTypes, InvalidateStale, Bump, Readers
  <2>3. QED
    BY <2>1, <2>2, <1>4 DEF TypeOK, AttemptTypes, ReconcilerTypes,
       BoundTypes, InvalidateStale
<1>5. ASSUME NEW p \in Proposals, Cancel(p) PROVE TypeOK'
  <2>1. ProposalTypes'
    BY <1>5 DEF TypeOK, ProposalTypes, Cancel, SetStatus, ProposalStatus
  <2>2. WorkerTypes'
    BY <1>5 DEF TypeOK, WorkerTypes, Cancel, Bump, Readers
  <2>3. QED
    BY <2>1, <2>2, <1>5 DEF TypeOK, AttemptTypes, ReconcilerTypes,
       BoundTypes, Cancel
<1>6. CASE SetHalted
  <2>1. ProposalTypes'
    BY <1>6 DEF TypeOK, ProposalTypes, SetHalted
  <2>2. QED
    BY <2>1, <1>6 DEF TypeOK, AttemptTypes, WorkerTypes, ReconcilerTypes,
       BoundTypes, SetHalted
<1>7. ASSUME NEW a \in Attempts, Broker(a) PROVE TypeOK'
  <2>1. AttemptTypes'
    BY <1>7 DEF TypeOK, AttemptTypes, Broker
  <2>2. QED
    BY <2>1, <1>7 DEF TypeOK, ProposalTypes, WorkerTypes, ReconcilerTypes,
       BoundTypes, Broker
<1>8. CASE Tick
  <2>1. ProposalTypes'
    BY <1>8 DEF TypeOK, ProposalTypes, Tick
  <2>2. AttemptTypes'
    BY <1>8 DEF TypeOK, AttemptTypes, Tick
  <2>3. WorkerTypes'
    BY <1>8 DEF TypeOK, WorkerTypes, Tick
  <2>4. QED
    BY <2>1, <2>2, <2>3, <1>8 DEF TypeOK, ReconcilerTypes, BoundTypes, Tick
<1>9. ASSUME NEW p \in Proposals, EnqueueReady(p) PROVE TypeOK'
  <2>1. ProposalTypes'
    BY <1>9 DEF TypeOK, ProposalTypes, EnqueueReady
  <2>2. QED
    BY <2>1, <1>9 DEF TypeOK, AttemptTypes, WorkerTypes, ReconcilerTypes,
       BoundTypes, EnqueueReady
<1>10. ASSUME NEW p \in Proposals, ExecuteNothing(p) PROVE TypeOK'
  <2>1. ProposalTypes'
    BY <1>10 DEF TypeOK, ProposalTypes, ExecuteNothing
  <2>2. QED
    BY <2>1, <1>10 DEF TypeOK, AttemptTypes, WorkerTypes, ReconcilerTypes,
       BoundTypes, ExecuteNothing
<1>11. ASSUME NEW w \in Workers, NEW p \in Proposals, ExecuteStart(w, p)
       PROVE TypeOK'
  <2>1. WorkerTypes'
    BY <1>11 DEF TypeOK, WorkerTypes, ExecuteStart, Goto, SentAttempts,
       AttemptsOf, WorkerSteps
  <2>2. QED
    BY <2>1, <1>11 DEF TypeOK, ProposalTypes, AttemptTypes, ReconcilerTypes,
       BoundTypes, ExecuteStart
<1>12. ASSUME NEW w \in Workers, NEW a \in Attempts, RecoverIncomplete(w, a)
       PROVE TypeOK'
  <2>1. WorkerTypes'
    BY <1>12 DEF TypeOK, WorkerTypes, RecoverIncomplete, Goto, WorkerSteps
  <2>2. QED
    BY <2>1, <1>12 DEF TypeOK, ProposalTypes, AttemptTypes, ReconcilerTypes,
       BoundTypes, RecoverIncomplete
<1>13. ASSUME NEW w \in Workers, PreflightBegin(w) PROVE TypeOK'
  <2>1. WorkerTypes'
    BY <1>13 DEF TypeOK, WorkerTypes, PreflightBegin, Goto, WorkerSteps
  <2>2. QED
    BY <2>1, <1>13 DEF TypeOK, ProposalTypes, AttemptTypes, ReconcilerTypes,
       BoundTypes, PreflightBegin
<1>14. ASSUME NEW w \in Workers, PreflightEnd(w) PROVE TypeOK'
  <2>1. WorkerTypes'
    BY <1>14 DEF TypeOK, WorkerTypes, PreflightEnd, Goto, WorkerSteps
  <2>2. QED
    BY <2>1, <1>14 DEF TypeOK, ProposalTypes, AttemptTypes, ReconcilerTypes,
       BoundTypes, PreflightEnd
<1>15. ASSUME NEW w \in Workers, RecordRefusal(w) PROVE TypeOK'
  <2>1. Finish(w) \/ Abandon(w)
    BY <1>15 DEF RecordRefusal
  <2>2. moved' \subseteq Workers
    BY <1>15 DEF TypeOK, WorkerTypes, RecordRefusal, BumpBy, Readers
  <2>3. WorkerTypes' /\ execJob' \in [Proposals -> BOOLEAN]
    BY <2>1, <2>2, FinishTypes DEF TypeOK
  <2>4. status' \in [Proposals -> ProposalStatus \cup {"ABSENT"}]
    BY <1>15 DEF TypeOK, ProposalTypes, RecordRefusal, SetStatus,
       ProposalStatus
  <2>5. UNCHANGED <<ttl, halted>>
    BY <1>15 DEF RecordRefusal
  <2>6. ProposalTypes'
    BY <2>3, <2>4, <2>5 DEF TypeOK, ProposalTypes
  <2>7. QED
    BY <2>3, <2>6, <1>15 DEF TypeOK, AttemptTypes, ReconcilerTypes,
       BoundTypes, RecordRefusal
<1>16. ASSUME NEW w \in Workers, ClaimAndMarkSent(w) PROVE TypeOK'
  <2>1. ProposalTypes'
    BY <1>16 DEF TypeOK, ProposalTypes, ClaimAndMarkSent, SetStatus,
       ProposalStatus
  <2>2. AttemptTypes'
    BY <1>16 DEF TypeOK, AttemptTypes, WorkerTypes, ClaimAndMarkSent,
       AttemptsOf, Outcomes
  <2>3. WorkerTypes'
    BY <1>16 DEF TypeOK, WorkerTypes, ClaimAndMarkSent, BumpBy, Readers,
       Goto, AttemptsOf, WorkerSteps
  <2>4. QED
    BY <2>1, <2>2, <2>3, <1>16 DEF TypeOK, ReconcilerTypes, BoundTypes,
       ClaimAndMarkSent
<1>17. ASSUME NEW w \in Workers, ClaimLost(w) PROVE TypeOK'
  <2>1. Finish(w) \/ Abandon(w)
    BY <1>17 DEF ClaimLost
  <2>2. moved' \subseteq Workers
    BY <1>17 DEF TypeOK, WorkerTypes, ClaimLost
  <2>3. WorkerTypes' /\ execJob' \in [Proposals -> BOOLEAN]
    BY <2>1, <2>2, FinishTypes DEF TypeOK
  <2>4. status' \in [Proposals -> ProposalStatus \cup {"ABSENT"}]
    BY <1>17 DEF TypeOK, ProposalTypes, ClaimLost
  <2>5. UNCHANGED <<ttl, halted>>
    BY <1>17 DEF ClaimLost
  <2>6. ProposalTypes'
    BY <2>3, <2>4, <2>5 DEF TypeOK, ProposalTypes
  <2>7. QED
    BY <2>3, <2>6, <1>17 DEF TypeOK, AttemptTypes, ReconcilerTypes,
       BoundTypes, ClaimLost
<1>18. ASSUME NEW w \in Workers, Transmit(w) PROVE TypeOK'
  <2>1. AttemptTypes'
    BY <1>18 DEF TypeOK, AttemptTypes, Transmit, Remote
  <2>2. WorkerTypes'
    BY <1>18 DEF TypeOK, WorkerTypes, Transmit, Goto, WorkerSteps
  <2>3. QED
    BY <2>1, <2>2, <1>18 DEF TypeOK, ProposalTypes, ReconcilerTypes,
       BoundTypes, Transmit
<1>19. ASSUME NEW w \in Workers, PreSendFailure(w) PROVE TypeOK'
  <2>1. WorkerTypes'
    BY <1>19 DEF TypeOK, WorkerTypes, PreSendFailure, Goto, WorkerSteps
  <2>2. QED
    BY <2>1, <1>19 DEF TypeOK, ProposalTypes, AttemptTypes, ReconcilerTypes,
       BoundTypes, PreSendFailure
<1>20. ASSUME NEW w \in Workers, Answered(w) PROVE TypeOK'
  <2>1. WorkerTypes'
    BY <1>20 DEF TypeOK, WorkerTypes, Answered, Goto, WorkerSteps, Placed,
       Remote
  <2>2. QED
    BY <2>1, <1>20 DEF TypeOK, ProposalTypes, AttemptTypes, ReconcilerTypes,
       BoundTypes, Answered
<1>21. ASSUME NEW w \in Workers, Unanswered(w) PROVE TypeOK'
  <2>1. WorkerTypes'
    BY <1>21 DEF TypeOK, WorkerTypes, Unanswered, Goto, WorkerSteps
  <2>2. QED
    BY <2>1, <1>21 DEF TypeOK, ProposalTypes, AttemptTypes, ReconcilerTypes,
       BoundTypes, Unanswered
<1>22. ASSUME NEW w \in Workers, RetractUnsent(w) PROVE TypeOK'
  <2>1. Finish(w) \/ Abandon(w)
    BY <1>22 DEF RetractUnsent, Rollback
  <2>2. moved' \subseteq Workers
    BY <1>22 DEF TypeOK, WorkerTypes, RetractUnsent, Rollback, Bump, Readers
  <2>3. WorkerTypes' /\ execJob' \in [Proposals -> BOOLEAN]
    BY <2>1, <2>2, FinishTypes DEF TypeOK
  <2>4. status' \in [Proposals -> ProposalStatus \cup {"ABSENT"}]
    BY <1>22 DEF TypeOK, ProposalTypes, RetractUnsent, Rollback, SetStatus,
       ProposalStatus
  <2>5. UNCHANGED <<ttl, halted>>
    BY <1>22 DEF RetractUnsent, Rollback
  <2>6. ProposalTypes'
    BY <2>3, <2>4, <2>5 DEF TypeOK, ProposalTypes
  <2>7. AttemptTypes'
    BY <1>22 DEF TypeOK, AttemptTypes, RetractUnsent, Rollback, Outcomes
  <2>8. QED
    BY <2>3, <2>6, <2>7, <1>22 DEF TypeOK, ReconcilerTypes, BoundTypes,
       RetractUnsent, Rollback
<1>23. ASSUME NEW w \in Workers, RecordSuccess(w) PROVE TypeOK'
  <2>1. Finish(w) \/ Abandon(w)
    BY <1>23 DEF RecordSuccess, Rollback
  <2>2. moved' \subseteq Workers
    BY <1>23 DEF TypeOK, WorkerTypes, RecordSuccess, Rollback, Bump, Readers
  <2>3. WorkerTypes' /\ execJob' \in [Proposals -> BOOLEAN]
    BY <2>1, <2>2, FinishTypes DEF TypeOK
  <2>4. status' \in [Proposals -> ProposalStatus \cup {"ABSENT"}]
    BY <1>23 DEF TypeOK, ProposalTypes, RecordSuccess, Rollback,
       SuccessStatus, SetStatus, ProposalStatus
  <2>5. UNCHANGED <<ttl, halted>>
    BY <1>23 DEF RecordSuccess, Rollback
  <2>6. ProposalTypes'
    BY <2>3, <2>4, <2>5 DEF TypeOK, ProposalTypes
  <2>7. AttemptTypes'
    BY <1>23 DEF TypeOK, AttemptTypes, RecordSuccess, Rollback, Outcomes
  <2>8. QED
    BY <2>3, <2>6, <2>7, <1>23 DEF TypeOK, ReconcilerTypes, BoundTypes,
       RecordSuccess, Rollback
<1>24. ASSUME NEW w \in Workers, RecordRejection(w) PROVE TypeOK'
  <2>1. Finish(w) \/ Abandon(w)
    BY <1>24 DEF RecordRejection, Rollback
  <2>2. moved' \subseteq Workers
    BY <1>24 DEF TypeOK, WorkerTypes, RecordRejection, Rollback, Bump, Readers
  <2>3. WorkerTypes' /\ execJob' \in [Proposals -> BOOLEAN]
    BY <2>1, <2>2, FinishTypes DEF TypeOK
  <2>4. status' \in [Proposals -> ProposalStatus \cup {"ABSENT"}]
    BY <1>24 DEF TypeOK, ProposalTypes, RecordRejection, Rollback, SetStatus,
       ProposalStatus
  <2>5. UNCHANGED <<ttl, halted>>
    BY <1>24 DEF RecordRejection, Rollback
  <2>6. ProposalTypes'
    BY <2>3, <2>4, <2>5 DEF TypeOK, ProposalTypes
  <2>7. AttemptTypes'
    BY <1>24 DEF TypeOK, AttemptTypes, RecordRejection, Rollback, Outcomes
  <2>8. QED
    BY <2>3, <2>6, <2>7, <1>24 DEF TypeOK, ReconcilerTypes, BoundTypes,
       RecordRejection, Rollback
<1>25. ASSUME NEW w \in Workers, RecordAmbiguous(w) PROVE TypeOK'
  <2>1. Finish(w) \/ Abandon(w)
    BY <1>25 DEF RecordAmbiguous, Rollback
  <2>2. moved' \subseteq Workers
    BY <1>25 DEF TypeOK, WorkerTypes, RecordAmbiguous, Rollback, Bump, Readers
  <2>3. WorkerTypes' /\ execJob' \in [Proposals -> BOOLEAN]
    BY <2>1, <2>2, FinishTypes DEF TypeOK
  <2>4. status' \in [Proposals -> ProposalStatus \cup {"ABSENT"}]
    BY <1>25 DEF TypeOK, ProposalTypes, RecordAmbiguous, Rollback, SetStatus,
       ProposalStatus
  <2>5. UNCHANGED <<ttl, halted>>
    BY <1>25 DEF RecordAmbiguous, Rollback
  <2>6. ProposalTypes'
    BY <2>3, <2>4, <2>5 DEF TypeOK, ProposalTypes
  <2>7. AttemptTypes'
    BY <1>25 DEF TypeOK, AttemptTypes, RecordAmbiguous, Rollback, Outcomes
  <2>8. QED
    BY <2>3, <2>6, <2>7, <1>25 DEF TypeOK, ReconcilerTypes, BoundTypes,
       RecordAmbiguous, Rollback
<1>26. ASSUME NEW w \in Workers, RecoverSentAttempt(w) PROVE TypeOK'
  <2>1. CASE Finish(w)
    <3>1. WorkerTypes' /\ execJob' \in [Proposals -> BOOLEAN]
      BY <1>26, <2>1, FinishTypes DEF TypeOK, WorkerTypes, RecoverSentAttempt
    <3>2. ProposalTypes'
      <4>1. UNCHANGED <<status, ttl, halted>>
        BY <1>26 DEF RecoverSentAttempt
      <4>2. QED
        BY <3>1, <4>1 DEF TypeOK, ProposalTypes
    <3>3. QED
      BY <1>26, <3>1, <3>2 DEF TypeOK, AttemptTypes, ReconcilerTypes, BoundTypes,
         RecoverSentAttempt
  <2>2. CASE Goto(w, "ambiguous") /\ UNCHANGED <<execJob, heldVars>>
    <3>1. WorkerTypes'
      BY <1>26, <2>2 DEF TypeOK, WorkerTypes, RecoverSentAttempt, Goto, WorkerSteps
    <3>2. QED
      BY <1>26, <2>2, <3>1 DEF TypeOK, ProposalTypes, AttemptTypes,
         ReconcilerTypes, BoundTypes, RecoverSentAttempt
  <2>3. QED
    BY <1>26, <2>1, <2>2 DEF RecoverSentAttempt
<1>27. ASSUME NEW w \in Workers, Crash(w) PROVE TypeOK'
  <2>1. Finish(w) \/ Abandon(w)
    BY <1>27 DEF Crash
  <2>2. moved' \subseteq Workers
    BY <1>27 DEF TypeOK, WorkerTypes, Crash
  <2>3. WorkerTypes' /\ execJob' \in [Proposals -> BOOLEAN]
    BY <2>1, <2>2, FinishTypes DEF TypeOK
  <2>4. status' \in [Proposals -> ProposalStatus \cup {"ABSENT"}]
    BY <1>27 DEF TypeOK, ProposalTypes, Crash
  <2>5. UNCHANGED <<ttl, halted>>
    BY <1>27 DEF Crash
  <2>6. ProposalTypes'
    BY <2>3, <2>4, <2>5 DEF TypeOK, ProposalTypes
  <2>7. BoundTypes'
    BY <1>27 DEF TypeOK, BoundTypes, Crash
  <2>8. QED
    BY <2>3, <2>6, <2>7, <1>27 DEF TypeOK, AttemptTypes, ReconcilerTypes,
       Crash
<1>28. ASSUME NEW r \in Reconcilers, NEW a \in Attempts, ReconcileStart(r, a)
       PROVE TypeOK'
  <2>1. ReconcilerTypes'
    BY <1>28 DEF TypeOK, ReconcilerTypes, ReconcileStart, RecGoto, Settled,
       RecSteps, AttemptTypes
  <2>2. QED
    BY <2>1, <1>28 DEF TypeOK, ProposalTypes, AttemptTypes, WorkerTypes,
       BoundTypes, ReconcileStart, OnlyReconciler
<1>29. ASSUME NEW r \in Reconcilers, FetchOrder(r) PROVE TypeOK'
  <2>1. ReconcilerTypes'
    BY <1>29 DEF TypeOK, ReconcilerTypes, FetchOrder, RecGoto, RecSteps,
       Remote
  <2>2. QED
    BY <2>1, <1>29 DEF TypeOK, ProposalTypes, AttemptTypes, WorkerTypes,
       BoundTypes, FetchOrder, OnlyReconciler
<1>30. ASSUME NEW r \in Reconcilers, ReadPending(r) PROVE TypeOK'
  <2>1. ReconcilerTypes'
    BY <1>30 DEF TypeOK, ReconcilerTypes, ReadPending, RecGoto, Working,
       RecSteps
  <2>2. QED
    BY <2>1, <1>30 DEF TypeOK, ProposalTypes, AttemptTypes, WorkerTypes,
       BoundTypes, ReadPending, OnlyReconciler
<1>31. ASSUME NEW r \in Reconcilers, ReadHistory(r) PROVE TypeOK'
  <2>1. ReconcilerTypes'
    BY <1>31 DEF TypeOK, ReconcilerTypes, ReadHistory, RecGoto, Ended,
       RecSteps
  <2>2. QED
    BY <2>1, <1>31 DEF TypeOK, ProposalTypes, AttemptTypes, WorkerTypes,
       BoundTypes, ReadHistory, OnlyReconciler
<1>32. ASSUME NEW r \in Reconcilers, ReadFails(r) PROVE TypeOK'
  <2>1. ReconcilerTypes'
    BY <1>32 DEF TypeOK, ReconcilerTypes, ReadFails, RecGoto, RecSteps
  <2>2. BoundTypes'
    BY <1>32 DEF TypeOK, BoundTypes, ReadFails
  <2>3. QED
    BY <2>1, <2>2, <1>32 DEF TypeOK, ProposalTypes, AttemptTypes,
       WorkerTypes, ReadFails
<1>33. ASSUME NEW r \in Reconcilers, Decide(r) PROVE TypeOK'
  <2>1. ReconcilerTypes'
    <3>1. (rpc \in [Reconcilers -> RecSteps])'
      BY <1>33 DEF TypeOK, ReconcilerTypes, Decide, RecGoto, RecSteps
    <3>2. (order \in [Reconcilers -> Attempts \cup {None}])'
      BY <1>33 DEF TypeOK, ReconcilerTypes, Decide
    <3>3. (seen \in [Reconcilers -> Remote])'
      BY <1>33 DEF TypeOK, ReconcilerTypes, AttemptTypes, Decide, Remote
    <3>4. QED
      BY <1>33, <3>1, <3>2, <3>3 DEF TypeOK, ReconcilerTypes, Decide
  <2>2. QED
    BY <2>1, <1>33 DEF TypeOK, ProposalTypes, AttemptTypes, WorkerTypes,
       BoundTypes, Decide, OnlyReconciler
<1>34. ASSUME NEW r \in Reconcilers, RecordFound(r) PROVE TypeOK'
  <2>1. ProposalTypes'
    BY <1>34 DEF TypeOK, ProposalTypes, RecordFound, AdvanceForOrder,
       SetStatus, ProposalStatus
  <2>2. AttemptTypes'
    BY <1>34 DEF TypeOK, AttemptTypes, RecordFound, CountPass, Outcomes,
       ReconcilerTypes
  <2>3. WorkerTypes'
    BY <1>34 DEF TypeOK, WorkerTypes, RecordFound, Bump, Readers
  <2>4. ReconcilerTypes'
    BY <1>34, RecIdleTypes DEF TypeOK, ReconcilerTypes, RecordFound
  <2>5. QED
    BY <2>1, <2>2, <2>3, <2>4, <1>34 DEF TypeOK, BoundTypes, RecordFound
<1>35. ASSUME NEW r \in Reconcilers, RecordNotPlaced(r) PROVE TypeOK'
  <2>1. ProposalTypes'
    BY <1>35 DEF TypeOK, ProposalTypes, RecordNotPlaced, SetStatus,
       ProposalStatus
  <2>2. AttemptTypes'
    BY <1>35, CountPassType DEF TypeOK, AttemptTypes, RecordNotPlaced, Outcomes
  <2>3. WorkerTypes'
    BY <1>35 DEF TypeOK, WorkerTypes, RecordNotPlaced, Bump, Readers
  <2>4. ReconcilerTypes'
    BY <1>35, RecIdleTypes DEF TypeOK, ReconcilerTypes, RecordNotPlaced
  <2>5. QED
    BY <2>1, <2>2, <2>3, <2>4, <1>35 DEF TypeOK, BoundTypes, RecordNotPlaced
<1>36. ASSUME NEW r \in Reconcilers, RecordUnknown(r) PROVE TypeOK'
  <2>1. AttemptTypes'
    BY <1>36, CountPassType DEF TypeOK, AttemptTypes, RecordUnknown
  <2>2. ReconcilerTypes'
    BY <1>36, RecIdleTypes DEF TypeOK, ReconcilerTypes, RecordUnknown
  <2>3. QED
    BY <2>1, <2>2, <1>36 DEF TypeOK, ProposalTypes, WorkerTypes, BoundTypes,
       RecordUnknown
<1>37. ASSUME NEW r \in Reconcilers, ReconcilerCrash(r) PROVE TypeOK'
  <2>1. ReconcilerTypes'
    BY <1>37, RecIdleTypes DEF TypeOK, ReconcilerTypes, ReconcilerCrash
  <2>2. BoundTypes'
    BY <1>37 DEF TypeOK, BoundTypes, ReconcilerCrash
  <2>3. QED
    BY <2>1, <2>2, <1>37 DEF TypeOK, ProposalTypes, AttemptTypes,
       WorkerTypes, ReconcilerCrash
<1>38. CASE UNCHANGED vars
  BY <1>38 DEF TypeOK, ProposalTypes, AttemptTypes, WorkerTypes, ReconcilerTypes,
     BoundTypes, vars
<1>39. QED
  BY <1>1, <1>2, <1>3, <1>4, <1>5, <1>6, <1>7, <1>8, <1>9, <1>10, <1>11,
     <1>12, <1>13, <1>14, <1>15, <1>16, <1>17, <1>18, <1>19, <1>20, <1>21,
     <1>22, <1>23, <1>24, <1>25, <1>26, <1>27, <1>28, <1>29, <1>30, <1>31,
     <1>32, <1>33, <1>34, <1>35, <1>36, <1>37, <1>38 DEF Next,
     Environment, WorkerStep, ReconcilerStep

\* Every column and every local keeps its range in every reachable state.
THEOREM TypeCorrect == Spec => []TypeOK
<1>1. Init => TypeOK
  BY TypeInit
<1>2. TypeOK /\ [Next]_vars => TypeOK'
  BY TypeStep
<1>3. QED
  BY <1>1, <1>2, PTL DEF Spec

-----------------------------------------------------------------------------
(* At most one transmission.  The property itself is not inductive: that a   *)
(* second attempt cannot be transmitted rests on the committed flag and on   *)
(* what each worker between its claim and its record knows about its attempt.*)

\* The worker committed the send claim and still acts on it.
HolderSteps == {"post", "await", "retract", "success", "rejected"}

OneSent ==
    \A a, b \in Attempts : Owner[a] = Owner[b] /\ sent[a] /\ sent[b] => a = b

TransmittedIsSent ==
    \A a \in Attempts : remote[a] # "none" => sent[a]

HolderOwns ==
    \A w \in Workers :
        pc[w] \in HolderSteps =>
            att[w] \in Attempts /\ Owner[att[w]] = prop[w] /\ sent[att[w]]

HolderUntransmitted ==
    \A w \in Workers : pc[w] \in {"post", "retract"} => remote[att[w]] = "none"

HoldersDiffer ==
    \A v, w \in Workers :
        pc[v] \in HolderSteps /\ pc[w] \in HolderSteps /\ att[v] = att[w] => v = w

SendInv ==
    /\ OneSent
    /\ TransmittedIsSent
    /\ HolderOwns
    /\ HolderUntransmitted
    /\ HoldersDiffer

\* The steps that leave the send flags and the broker alone, and in which a
\* worker holding a claim goes on with the same attempt or lets go of it.
HolderFrame ==
    /\ UNCHANGED <<sent, remote>>
    /\ \A w \in Workers :
         pc'[w] \in HolderSteps =>
             /\ pc[w] \in HolderSteps
             /\ att'[w] = att[w]
             /\ prop'[w] = prop[w]
             /\ pc'[w] \in {"post", "retract"} => pc[w] \in {"post", "retract"}

\* A step of HolderFrame keeps the invariant.
LEMMA HolderFrameKeeps == SendInv /\ HolderFrame => SendInv'
<1> SUFFICES ASSUME SendInv, HolderFrame PROVE SendInv'
  OBVIOUS
<1> USE DEF HolderFrame
<1>1. OneSent' /\ TransmittedIsSent'
  BY DEF SendInv, OneSent, TransmittedIsSent
<1>2. HolderOwns'
  BY DEF SendInv, HolderOwns
<1>3. HolderUntransmitted'
  BY DEF SendInv, HolderUntransmitted, HolderSteps
<1>4. HoldersDiffer'
  BY DEF SendInv, HoldersDiffer
<1>5. QED
  BY <1>1, <1>2, <1>3, <1>4 DEF SendInv

\* A worker that stops holds nothing.
LEMMA FinishFrame ==
  ASSUME WorkerTypes, NEW w \in Workers, Finish(w) \/ Abandon(w),
         UNCHANGED <<sent, remote>>
  PROVE  HolderFrame
  BY DEF WorkerTypes, Finish, Abandon, Idle, HolderFrame, HolderSteps

\* Initially nothing is sent and nobody holds a claim.
LEMMA SendInit == Init => SendInv
  BY DEF Init, SendInv, OneSent, TransmittedIsSent, HolderOwns,
     HolderUntransmitted, HoldersDiffer, HolderSteps

\* Every step keeps the invariant: only _claim_and_mark_sent sets the flag, only
\* _retract_unsent clears it, and only the holder of the claim transmits.
LEMMA SendStep == TypeOK /\ SendInv /\ [Next]_vars => SendInv'
<1> SUFFICES ASSUME TypeOK, SendInv, [Next]_vars PROVE SendInv'
  OBVIOUS
<1> USE DEF proposalVars, attemptVars, brokerVars, heldVars, workerVars
<1>1. ASSUME NEW p \in Proposals, Generate(p) PROVE SendInv'
  <2>1. HolderFrame
    BY <1>1 DEF HolderFrame, Generate
  <2>2. QED
    BY <2>1, HolderFrameKeeps
<1>2. ASSUME NEW p \in Proposals, Authorize(p) PROVE SendInv'
  <2>1. HolderFrame
    BY <1>2 DEF HolderFrame, Authorize
  <2>2. QED
    BY <2>1, HolderFrameKeeps
<1>3. ASSUME NEW p \in Proposals, Expire(p) PROVE SendInv'
  <2>1. HolderFrame
    BY <1>3 DEF HolderFrame, Expire
  <2>2. QED
    BY <2>1, HolderFrameKeeps
<1>4. ASSUME NEW p \in Proposals, InvalidateStale(p) PROVE SendInv'
  <2>1. HolderFrame
    BY <1>4 DEF HolderFrame, InvalidateStale
  <2>2. QED
    BY <2>1, HolderFrameKeeps
<1>5. ASSUME NEW p \in Proposals, Cancel(p) PROVE SendInv'
  <2>1. HolderFrame
    BY <1>5 DEF HolderFrame, Cancel
  <2>2. QED
    BY <2>1, HolderFrameKeeps
<1>6. CASE SetHalted
  <2>1. HolderFrame
    BY <1>6 DEF HolderFrame, SetHalted
  <2>2. QED
    BY <2>1, HolderFrameKeeps
<1>7. CASE Tick
  <2>1. HolderFrame
    BY <1>7 DEF HolderFrame, Tick
  <2>2. QED
    BY <2>1, HolderFrameKeeps
<1>8. ASSUME NEW p \in Proposals, EnqueueReady(p) PROVE SendInv'
  <2>1. HolderFrame
    BY <1>8 DEF HolderFrame, EnqueueReady
  <2>2. QED
    BY <2>1, HolderFrameKeeps
<1>9. ASSUME NEW p \in Proposals, ExecuteNothing(p) PROVE SendInv'
  <2>1. HolderFrame
    BY <1>9 DEF HolderFrame, ExecuteNothing
  <2>2. QED
    BY <2>1, HolderFrameKeeps
<1>10. ASSUME NEW a \in Attempts, Broker(a) PROVE SendInv'
  <2>1. remote[a] # "none" /\ remote'[a] # "none"
    BY <1>10 DEF TypeOK, AttemptTypes, Broker, BrokerSteps
  <2>2. \A b \in Attempts \ {a} : remote'[b] = remote[b]
    BY <1>10 DEF TypeOK, AttemptTypes, Broker
  <2>3. UNCHANGED <<sent, pc, att, prop>>
    BY <1>10 DEF Broker
  <2>4. HolderUntransmitted'
    BY <2>1, <2>2, <2>3 DEF SendInv, HolderUntransmitted, HolderOwns, HolderSteps
  <2>5. TransmittedIsSent'
    BY <2>1, <2>2, <2>3 DEF SendInv, TransmittedIsSent
  <2>6. QED
    BY <2>3, <2>4, <2>5 DEF SendInv, OneSent, HolderOwns, HoldersDiffer
<1>11. ASSUME NEW w \in Workers, NEW p \in Proposals, ExecuteStart(w, p)
       PROVE SendInv'
  <2>1. HolderFrame
    BY <1>11 DEF HolderFrame, TypeOK, WorkerTypes, ExecuteStart, Goto,
       HolderSteps
  <2>2. QED
    BY <2>1, HolderFrameKeeps
<1>12. ASSUME NEW w \in Workers, NEW a \in Attempts, RecoverIncomplete(w, a)
       PROVE SendInv'
  <2>1. HolderFrame
    BY <1>12 DEF HolderFrame, TypeOK, WorkerTypes, RecoverIncomplete, Goto,
       HolderSteps
  <2>2. QED
    BY <2>1, HolderFrameKeeps
<1>13. ASSUME NEW w \in Workers, PreflightBegin(w) PROVE SendInv'
  <2>1. HolderFrame
    BY <1>13 DEF HolderFrame, TypeOK, WorkerTypes, PreflightBegin, Goto,
       HolderSteps
  <2>2. QED
    BY <2>1, HolderFrameKeeps
<1>14. ASSUME NEW w \in Workers, PreflightEnd(w) PROVE SendInv'
  <2>1. HolderFrame
    BY <1>14 DEF HolderFrame, TypeOK, WorkerTypes, PreflightEnd, Goto,
       HolderSteps
  <2>2. QED
    BY <2>1, HolderFrameKeeps
<1>15. ASSUME NEW w \in Workers, PreSendFailure(w) PROVE SendInv'
  <2>1. HolderFrame
    BY <1>15 DEF HolderFrame, TypeOK, WorkerTypes, PreSendFailure, Goto,
       HolderSteps
  <2>2. QED
    BY <2>1, HolderFrameKeeps
<1>16. ASSUME NEW w \in Workers, Answered(w) PROVE SendInv'
  <2>1. HolderFrame
    BY <1>16 DEF HolderFrame, TypeOK, WorkerTypes, Answered, Goto, HolderSteps
  <2>2. QED
    BY <2>1, HolderFrameKeeps
<1>17. ASSUME NEW w \in Workers, Unanswered(w) PROVE SendInv'
  <2>1. HolderFrame
    BY <1>17 DEF HolderFrame, TypeOK, WorkerTypes, Unanswered, Goto,
       HolderSteps
  <2>2. QED
    BY <2>1, HolderFrameKeeps
<1>18. ASSUME NEW w \in Workers, RecordRefusal(w) PROVE SendInv'
  <2>1. HolderFrame
    BY <1>18, FinishFrame DEF TypeOK, RecordRefusal
  <2>2. QED
    BY <2>1, HolderFrameKeeps
<1>19. ASSUME NEW w \in Workers, ClaimLost(w) PROVE SendInv'
  <2>1. HolderFrame
    BY <1>19, FinishFrame DEF TypeOK, ClaimLost
  <2>2. QED
    BY <2>1, HolderFrameKeeps
<1>20. ASSUME NEW w \in Workers, Crash(w) PROVE SendInv'
  <2>1. HolderFrame
    BY <1>20, FinishFrame DEF TypeOK, Crash
  <2>2. QED
    BY <2>1, HolderFrameKeeps
<1>21. ASSUME NEW w \in Workers, RecordSuccess(w) PROVE SendInv'
  <2>1. HolderFrame
    BY <1>21, FinishFrame DEF TypeOK, RecordSuccess, Rollback
  <2>2. QED
    BY <2>1, HolderFrameKeeps
<1>22. ASSUME NEW w \in Workers, RecordRejection(w) PROVE SendInv'
  <2>1. HolderFrame
    BY <1>22, FinishFrame DEF TypeOK, RecordRejection, Rollback
  <2>2. QED
    BY <2>1, HolderFrameKeeps
<1>23. ASSUME NEW w \in Workers, RecordAmbiguous(w) PROVE SendInv'
  <2>1. HolderFrame
    BY <1>23, FinishFrame DEF TypeOK, RecordAmbiguous, Rollback
  <2>2. QED
    BY <2>1, HolderFrameKeeps
<1>24. ASSUME NEW w \in Workers, RecoverSentAttempt(w) PROVE SendInv'
  <2>1. CASE Finish(w)
    BY <1>24, <2>1, FinishFrame, HolderFrameKeeps DEF TypeOK,
       RecoverSentAttempt
  <2>2. CASE Goto(w, "ambiguous") /\ UNCHANGED heldVars
    <3>1. HolderFrame
      BY <1>24, <2>2 DEF TypeOK, WorkerTypes, HolderFrame, RecoverSentAttempt,
         Goto, HolderSteps
    <3>2. QED
      BY <3>1, HolderFrameKeeps
  <2>3. QED
    BY <1>24, <2>1, <2>2 DEF RecoverSentAttempt
<1>25. ASSUME NEW w \in Workers, ClaimAndMarkSent(w) PROVE SendInv'
  <2>1. PICK a \in AttemptsOf(prop[w]) :
          sent' = [sent EXCEPT ![a] = TRUE] /\ att' = [att EXCEPT ![w] = a]
    BY <1>25 DEF ClaimAndMarkSent
  <2>2. a \in Attempts /\ Owner[a] = prop[w]
    BY <2>1 DEF AttemptsOf
  <2>3. \A b \in Attempts : Owner[b] = prop[w] => ~sent[b]
    BY <1>25 DEF ClaimAndMarkSent, ClaimAllowed, SentAttempts, AttemptsOf
  <2>4. UNCHANGED <<remote, prop>> /\ pc' = [pc EXCEPT ![w] = "post"]
    BY <1>25 DEF ClaimAndMarkSent, Goto
  <2>5. OneSent' /\ TransmittedIsSent'
    BY <2>1, <2>2, <2>3, <2>4 DEF TypeOK, AttemptTypes, SendInv, OneSent,
       TransmittedIsSent
  <2>6. HolderOwns'
    BY <2>1, <2>2, <2>4 DEF TypeOK, AttemptTypes, WorkerTypes, SendInv, HolderOwns
  <2>7. remote[a] = "none"
    BY <2>2, <2>3 DEF SendInv, TransmittedIsSent
  <2>8. HolderUntransmitted'
    BY <2>1, <2>4, <2>7 DEF TypeOK, WorkerTypes, SendInv, HolderUntransmitted
  <2>9. HoldersDiffer'
    BY <2>1, <2>2, <2>3, <2>4 DEF TypeOK, WorkerTypes, SendInv, HoldersDiffer,
       HolderOwns
  <2>10. QED
    BY <2>5, <2>6, <2>8, <2>9 DEF SendInv
<1>26. ASSUME NEW w \in Workers, Transmit(w) PROVE SendInv'
  <2>1. pc[w] = "post" /\ pc' = [pc EXCEPT ![w] = "await"]
    BY <1>26 DEF Transmit, Goto
  <2>2. remote' = [remote EXCEPT ![att[w]] = "wire"]
    BY <1>26 DEF Transmit
  <2>3. UNCHANGED <<sent, att, prop>>
    BY <1>26 DEF Transmit
  <2>4. att[w] \in Attempts /\ sent[att[w]]
    BY <2>1 DEF SendInv, HolderOwns, HolderSteps
  <2>5. \A v \in Workers : pc'[v] \in HolderSteps => pc[v] \in HolderSteps
    BY <2>1 DEF TypeOK, WorkerTypes, HolderSteps
  <2>6. TransmittedIsSent'
    BY <2>2, <2>3, <2>4 DEF TypeOK, AttemptTypes, SendInv, TransmittedIsSent
  <2>7. HolderOwns' /\ HoldersDiffer'
    BY <2>3, <2>5 DEF SendInv, HolderOwns, HoldersDiffer
  <2>8. HolderUntransmitted'
    <3> SUFFICES ASSUME NEW v \in Workers, pc'[v] \in {"post", "retract"}
                 PROVE  remote'[att[v]] = "none"
      BY <2>3 DEF HolderUntransmitted
    <3>1. v # w
      BY <2>1 DEF TypeOK, WorkerTypes
    <3>2. pc[v] \in {"post", "retract"}
      BY <2>1, <3>1 DEF TypeOK, WorkerTypes
    <3>3. att[v] # att[w]
      BY <2>1, <3>1, <3>2 DEF SendInv, HoldersDiffer, HolderSteps
    <3>4. att[v] \in Attempts /\ remote[att[v]] = "none"
      BY <3>2 DEF SendInv, HolderOwns, HolderUntransmitted, HolderSteps
    <3>5. QED
      BY <2>2, <3>3, <3>4 DEF TypeOK, AttemptTypes
  <2>9. QED
    BY <2>3, <2>6, <2>7, <2>8 DEF SendInv, OneSent
<1>27. ASSUME NEW w \in Workers, RetractUnsent(w) PROVE SendInv'
  <2>1. CASE Rollback(w)
    BY <2>1, FinishFrame, HolderFrameKeeps DEF TypeOK, Rollback
  <2>2. CASE Finish(w) /\ sent' = [sent EXCEPT ![att[w]] = FALSE]
    <3>1. pc[w] = "retract" /\ UNCHANGED remote
      BY <1>27 DEF RetractUnsent, Rollback
    <3>2. att[w] \in Attempts /\ remote[att[w]] = "none"
      BY <3>1 DEF SendInv, HolderOwns, HolderUntransmitted, HolderSteps
    <3>3. \A b \in Attempts \ {att[w]} : sent'[b] = sent[b]
      BY <2>2 DEF TypeOK, AttemptTypes
    <3>4. sent'[att[w]] = FALSE
      BY <2>2, <3>2 DEF TypeOK, AttemptTypes
    <3>5. OneSent' /\ TransmittedIsSent'
      BY <3>1, <3>2, <3>3, <3>4 DEF SendInv, OneSent, TransmittedIsSent
    <3>6. ASSUME NEW v \in Workers, pc'[v] \in HolderSteps
          PROVE  v # w /\ UNCHANGED <<pc[v], att[v], prop[v]>>
      BY <2>2, <3>6 DEF TypeOK, WorkerTypes, Finish, Idle, HolderSteps
    <3>7. HolderOwns'
      <4> SUFFICES ASSUME NEW v \in Workers, pc'[v] \in HolderSteps
                   PROVE  /\ att[v] \in Attempts
                          /\ Owner[att[v]] = prop[v]
                          /\ sent'[att[v]]
        BY <3>6 DEF HolderOwns
      <4>1. att[v] # att[w]
        BY <3>1, <3>6 DEF SendInv, HoldersDiffer, HolderSteps
      <4>2. QED
        BY <3>3, <3>6, <4>1 DEF SendInv, HolderOwns
    <3>8. HolderUntransmitted' /\ HoldersDiffer'
      BY <3>1, <3>6 DEF SendInv, HolderUntransmitted, HoldersDiffer, HolderSteps
    <3>9. QED
      BY <3>5, <3>7, <3>8 DEF SendInv
  <2>3. QED
    BY <1>27, <2>1, <2>2 DEF RetractUnsent
<1>28. ASSUME NEW r \in Reconcilers, FetchOrder(r) PROVE SendInv'
  <2>1. HolderFrame
    BY <1>28 DEF HolderFrame, FetchOrder, OnlyReconciler
  <2>2. QED
    BY <2>1, HolderFrameKeeps
<1>29. ASSUME NEW r \in Reconcilers, ReadPending(r) PROVE SendInv'
  <2>1. HolderFrame
    BY <1>29 DEF HolderFrame, ReadPending, OnlyReconciler
  <2>2. QED
    BY <2>1, HolderFrameKeeps
<1>30. ASSUME NEW r \in Reconcilers, ReadHistory(r) PROVE SendInv'
  <2>1. HolderFrame
    BY <1>30 DEF HolderFrame, ReadHistory, OnlyReconciler
  <2>2. QED
    BY <2>1, HolderFrameKeeps
<1>31. ASSUME NEW r \in Reconcilers, Decide(r) PROVE SendInv'
  <2>1. HolderFrame
    BY <1>31 DEF HolderFrame, Decide, OnlyReconciler
  <2>2. QED
    BY <2>1, HolderFrameKeeps
<1>32. ASSUME NEW r \in Reconcilers, NEW a \in Attempts, ReconcileStart(r, a)
       PROVE SendInv'
  <2>1. HolderFrame
    BY <1>32 DEF HolderFrame, ReconcileStart, OnlyReconciler
  <2>2. QED
    BY <2>1, HolderFrameKeeps
<1>33. ASSUME NEW r \in Reconcilers, ReadFails(r) PROVE SendInv'
  <2>1. HolderFrame
    BY <1>33 DEF HolderFrame, ReadFails
  <2>2. QED
    BY <2>1, HolderFrameKeeps
<1>34. ASSUME NEW r \in Reconcilers, RecordFound(r) PROVE SendInv'
  <2>1. HolderFrame
    BY <1>34 DEF HolderFrame, RecordFound
  <2>2. QED
    BY <2>1, HolderFrameKeeps
<1>35. ASSUME NEW r \in Reconcilers, RecordNotPlaced(r) PROVE SendInv'
  <2>1. HolderFrame
    BY <1>35 DEF HolderFrame, RecordNotPlaced
  <2>2. QED
    BY <2>1, HolderFrameKeeps
<1>36. ASSUME NEW r \in Reconcilers, RecordUnknown(r) PROVE SendInv'
  <2>1. HolderFrame
    BY <1>36 DEF HolderFrame, RecordUnknown
  <2>2. QED
    BY <2>1, HolderFrameKeeps
<1>37. ASSUME NEW r \in Reconcilers, ReconcilerCrash(r) PROVE SendInv'
  <2>1. HolderFrame
    BY <1>37 DEF HolderFrame, ReconcilerCrash
  <2>2. QED
    BY <2>1, HolderFrameKeeps
<1>38. CASE UNCHANGED vars
  <2>1. HolderFrame
    BY <1>38 DEF HolderFrame, vars
  <2>2. QED
    BY <2>1, HolderFrameKeeps
<1>39. QED
  BY <1>1, <1>2, <1>3, <1>4, <1>5, <1>6, <1>7, <1>8, <1>9, <1>10, <1>11,
     <1>12, <1>13, <1>14, <1>15, <1>16, <1>17, <1>18, <1>19, <1>20, <1>21,
     <1>22, <1>23, <1>24, <1>25, <1>26, <1>27, <1>28, <1>29, <1>30, <1>31,
     <1>32, <1>33, <1>34, <1>35, <1>36, <1>37, <1>38 DEF Next, Environment,
     WorkerStep, ReconcilerStep

\* In every reachable state a proposal has at most one attempt marked as sent,
\* whatever is transmitted belongs to it, and one worker at most acts on the claim
\* (_claim_and_mark_sent, _retract_unsent, submit).
THEOREM SendInvariant == Spec => []SendInv
<1>1. Init => SendInv
  BY SendInit
<1>2. TypeOK /\ SendInv /\ [Next]_vars => SendInv'
  BY SendStep
<1>3. QED
  BY <1>1, <1>2, TypeCorrect, PTL DEF Spec

\* No two attempts of a proposal are ever transmitted, whatever workers,
\* redelivered jobs, retractions and crashes do (_claim_and_mark_sent).
THEOREM TransmitOnce == Spec => []AtMostOneTransmission
<1>1. SendInv => AtMostOneTransmission
  BY DEF SendInv, OneSent, TransmittedIsSent, AtMostOneTransmission
<1>2. QED
  BY <1>1, SendInvariant, PTL

\* The table's way back from EXECUTING to APPROVED is taken only while no
\* attempt of the proposal has put a byte on the wire (_retract_unsent).
BackOnlyUnsent(p) ==
    status[p] = "EXECUTING" /\ status'[p] = "APPROVED" =>
        \A a \in AttemptsOf(p) : remote'[a] = "none"

\* A step that takes a proposal back to APPROVED is a retraction by the holder of
\* its one sent attempt, before the request was written.
LEMMA RetractStep ==
  ASSUME TypeOK, SendInv, [Next]_vars, NEW p \in Proposals
  PROVE  BackOnlyUnsent(p)
<1> USE DEF BackOnlyUnsent, proposalVars, attemptVars, workerVars, heldVars
<1>1. ASSUME NEW q \in Proposals, Generate(q) PROVE BackOnlyUnsent(p)
  BY <1>1 DEF TypeOK, ProposalTypes, Generate, SetStatus
<1>2. ASSUME NEW q \in Proposals, Expire(q) PROVE BackOnlyUnsent(p)
  BY <1>2 DEF TypeOK, ProposalTypes, Expire, SetStatus
<1>3. ASSUME NEW q \in Proposals, InvalidateStale(q) PROVE BackOnlyUnsent(p)
  BY <1>3 DEF TypeOK, ProposalTypes, InvalidateStale, SetStatus
<1>4. ASSUME NEW q \in Proposals, Cancel(q) PROVE BackOnlyUnsent(p)
  BY <1>4 DEF TypeOK, ProposalTypes, Cancel, SetStatus
<1>5. ASSUME NEW q \in Proposals, Authorize(q) PROVE BackOnlyUnsent(p)
  BY <1>5 DEF TypeOK, ProposalTypes, Authorize, SetStatus,
     AuthorizableStatuses
<1>6. CASE SetHalted
  BY <1>6 DEF SetHalted
<1>7. CASE Tick
  BY <1>7 DEF Tick
<1>8. ASSUME NEW q \in Proposals, EnqueueReady(q) PROVE BackOnlyUnsent(p)
  BY <1>8 DEF EnqueueReady
<1>9. ASSUME NEW q \in Proposals, ExecuteNothing(q) PROVE BackOnlyUnsent(p)
  BY <1>9 DEF ExecuteNothing
<1>10. ASSUME NEW a \in Attempts, Broker(a) PROVE BackOnlyUnsent(p)
  BY <1>10 DEF Broker
<1>11. ASSUME NEW w \in Workers, NEW q \in Proposals, ExecuteStart(w, q)
       PROVE BackOnlyUnsent(p)
  BY <1>11 DEF ExecuteStart
<1>12. ASSUME NEW w \in Workers, NEW a \in Attempts, RecoverIncomplete(w, a)
       PROVE BackOnlyUnsent(p)
  BY <1>12 DEF RecoverIncomplete
<1>13. ASSUME NEW w \in Workers, PreflightBegin(w) PROVE BackOnlyUnsent(p)
  BY <1>13 DEF PreflightBegin
<1>14. ASSUME NEW w \in Workers, PreflightEnd(w) PROVE BackOnlyUnsent(p)
  BY <1>14 DEF PreflightEnd
<1>15. ASSUME NEW w \in Workers, Transmit(w) PROVE BackOnlyUnsent(p)
  BY <1>15 DEF Transmit
<1>16. ASSUME NEW w \in Workers, PreSendFailure(w) PROVE BackOnlyUnsent(p)
  BY <1>16 DEF PreSendFailure
<1>17. ASSUME NEW w \in Workers, Answered(w) PROVE BackOnlyUnsent(p)
  BY <1>17 DEF Answered
<1>18. ASSUME NEW w \in Workers, Unanswered(w) PROVE BackOnlyUnsent(p)
  BY <1>18 DEF Unanswered
<1>19. ASSUME NEW w \in Workers, RecoverSentAttempt(w) PROVE BackOnlyUnsent(p)
  BY <1>19 DEF RecoverSentAttempt
<1>20. ASSUME NEW w \in Workers, ClaimLost(w) PROVE BackOnlyUnsent(p)
  BY <1>20 DEF ClaimLost
<1>21. ASSUME NEW w \in Workers, Crash(w) PROVE BackOnlyUnsent(p)
  BY <1>21 DEF Crash
<1>22. ASSUME NEW w \in Workers, RecordRefusal(w) PROVE BackOnlyUnsent(p)
  BY <1>22 DEF TypeOK, ProposalTypes, RecordRefusal, SetStatus
<1>23. ASSUME NEW w \in Workers, ClaimAndMarkSent(w) PROVE BackOnlyUnsent(p)
  BY <1>23 DEF TypeOK, ProposalTypes, ClaimAndMarkSent, SetStatus
<1>24. ASSUME NEW w \in Workers, RecordRejection(w) PROVE BackOnlyUnsent(p)
  BY <1>24 DEF TypeOK, ProposalTypes, RecordRejection, Rollback, SetStatus
<1>25. ASSUME NEW w \in Workers, RecordAmbiguous(w) PROVE BackOnlyUnsent(p)
  BY <1>25 DEF TypeOK, ProposalTypes, RecordAmbiguous, Rollback, SetStatus
<1>26. ASSUME NEW w \in Workers, RecordSuccess(w) PROVE BackOnlyUnsent(p)
  BY <1>26 DEF TypeOK, ProposalTypes, RecordSuccess, SuccessStatus, Rollback,
     SetStatus
<1>27. ASSUME NEW w \in Workers, RetractUnsent(w) PROVE BackOnlyUnsent(p)
  <2>1. pc[w] = "retract" /\ UNCHANGED remote
    BY <1>27 DEF RetractUnsent, Rollback, brokerVars
  <2>2. att[w] \in Attempts /\ Owner[att[w]] = prop[w] /\ sent[att[w]]
    BY <2>1 DEF SendInv, HolderOwns, HolderSteps
  <2>3. remote[att[w]] = "none"
    BY <2>1 DEF SendInv, HolderUntransmitted
  <2>4. \A a \in AttemptsOf(prop[w]) : remote[a] = "none"
    BY <2>2, <2>3 DEF SendInv, OneSent, TransmittedIsSent, AttemptsOf
  <2>5. CASE p = prop[w]
    BY <2>1, <2>4, <2>5
  <2>6. CASE p # prop[w]
    BY <1>27, <2>6 DEF TypeOK, ProposalTypes, RetractUnsent, Rollback,
       SetStatus
  <2>7. QED
    BY <2>5, <2>6
<1>28. ASSUME NEW r \in Reconcilers, FetchOrder(r) PROVE BackOnlyUnsent(p)
  BY <1>28 DEF FetchOrder, OnlyReconciler
<1>29. ASSUME NEW r \in Reconcilers, ReadPending(r) PROVE BackOnlyUnsent(p)
  BY <1>29 DEF ReadPending, OnlyReconciler
<1>30. ASSUME NEW r \in Reconcilers, ReadHistory(r) PROVE BackOnlyUnsent(p)
  BY <1>30 DEF ReadHistory, OnlyReconciler
<1>31. ASSUME NEW r \in Reconcilers, Decide(r) PROVE BackOnlyUnsent(p)
  BY <1>31 DEF Decide, OnlyReconciler
<1>32. ASSUME NEW r \in Reconcilers, NEW a \in Attempts, ReconcileStart(r, a)
       PROVE BackOnlyUnsent(p)
  BY <1>32 DEF ReconcileStart, OnlyReconciler
<1>33. ASSUME NEW r \in Reconcilers, ReadFails(r) PROVE BackOnlyUnsent(p)
  BY <1>33 DEF ReadFails
<1>34. ASSUME NEW r \in Reconcilers, RecordUnknown(r) PROVE BackOnlyUnsent(p)
  BY <1>34 DEF RecordUnknown
<1>35. ASSUME NEW r \in Reconcilers, ReconcilerCrash(r)
       PROVE BackOnlyUnsent(p)
  BY <1>35 DEF ReconcilerCrash
<1>36. ASSUME NEW r \in Reconcilers, RecordFound(r) PROVE BackOnlyUnsent(p)
  BY <1>36 DEF TypeOK, ProposalTypes, RecordFound, AdvanceForOrder, SetStatus
<1>37. ASSUME NEW r \in Reconcilers, RecordNotPlaced(r)
       PROVE BackOnlyUnsent(p)
  BY <1>37 DEF TypeOK, ProposalTypes, RecordNotPlaced, SetStatus
<1>38. CASE UNCHANGED vars
  BY <1>38 DEF vars
<1>39. QED
  BY <1>1, <1>2, <1>3, <1>4, <1>5, <1>6, <1>7, <1>8, <1>9, <1>10, <1>11,
     <1>12, <1>13, <1>14, <1>15, <1>16, <1>17, <1>18, <1>19, <1>20, <1>21,
     <1>22, <1>23, <1>24, <1>25, <1>26, <1>27, <1>28, <1>29, <1>30, <1>31,
     <1>32, <1>33, <1>34, <1>35, <1>36, <1>37, <1>38 DEF Next, Environment,
     WorkerStep, ReconcilerStep

\* A proposal goes back from EXECUTING to APPROVED only when no request of its
\* attempts has reached the socket (_retract_unsent).
THEOREM RetractSafe == Spec => RetractOnlyUnsent
<1>1. TypeOK /\ SendInv /\ [Next]_vars
        => [\A p \in Proposals : BackOnlyUnsent(p)]_vars
  BY RetractStep
<1>2. Spec => [][\A p \in Proposals : BackOnlyUnsent(p)]_vars
  BY <1>1, TypeCorrect, SendInvariant, PTL DEF Spec
<1>3. QED
  BY <1>2 DEF RetractOnlyUnsent, BackOnlyUnsent

-----------------------------------------------------------------------------
(* What an order was. *)

OwnListing == \A p, q \in Proposals : Listing[p] = Listing[q] => p = q
SettleWindow == PreMax + LandMax < MinAge
NoRetry == \A a, b \in Attempts : Owner[a] = Owner[b] => a = b

-----------------------------------------------------------------------------
(* The steps, sorted *)

\* Where a worker has an attempt in hand.
AttemptSteps == HolderSteps \cup {"recover", "ambiguous"}

\* Steps that change no attempt, no order and no reconciler, give no worker an
\* attempt, and move a proposal neither into nor out of execution, except that an
\* ambiguous one may be cancelled.
Aside ==
    /\ UNCHANGED <<attemptVars, brokerVars, recVars>>
    /\ \A w \in Workers :
         pc'[w] \in AttemptSteps =>
             /\ pc'[w] = pc[w] /\ att'[w] = att[w]
             /\ prop'[w] = prop[w] /\ ack'[w] = ack[w]
    /\ \A p \in Proposals :
         \/ status'[p] = status[p]
         \/ /\ status[p] \notin InFlightStatuses \cup {"CANCELLED", "EXECUTED"}
            /\ status'[p] \notin InFlightStatuses \cup {"EXECUTED"}
         \/ status[p] = "EXECUTION_AMBIGUOUS" /\ status'[p] = "CANCELLED"

\* A worker that lets go and writes nothing about attempts steps aside.
LEMMA FinishAside ==
  ASSUME WorkerTypes, NEW w \in Workers, Finish(w) \/ Abandon(w),
         UNCHANGED <<status, attemptVars, brokerVars, recVars>>
  PROVE  Aside
  BY DEF WorkerTypes, Finish, Abandon, Idle, Aside, AttemptSteps, HolderSteps

\* A change of status that is none of execution's, made by no worker.
LEMMA DecisionAside ==
  ASSUME ProposalTypes, NEW p \in Proposals, NEW s, SetStatus(p, s),
         status[p] \notin InFlightStatuses \cup {"CANCELLED", "EXECUTED"},
         s \notin InFlightStatuses \cup {"EXECUTED"},
         UNCHANGED <<attemptVars, brokerVars, pc, heldVars, recVars>>
  PROVE  Aside
  BY DEF ProposalTypes, SetStatus, Aside, heldVars

\* The steps of a worker that has an attempt in hand, or takes one.
Handling(w) ==
    \/ \E p \in Proposals : ExecuteStart(w, p)
    \/ \E a \in Attempts : RecoverIncomplete(w, a)
    \/ ClaimAndMarkSent(w) \/ Transmit(w) \/ PreSendFailure(w)
    \/ Answered(w) \/ Unanswered(w)
    \/ ~Rollback(w) /\ \/ RetractUnsent(w) \/ RecordSuccess(w)
                       \/ RecordRejection(w) \/ RecordAmbiguous(w)
    \/ ~Finish(w) /\ RecoverSentAttempt(w)

Reconciling(r) ==
    \/ \E a \in Attempts : ReconcileStart(r, a)
    \/ ReconcilerStep(r)
    \/ ReconcilerCrash(r)

\* Every step is aside, a tick, the broker's, or about an attempt.
LEMMA StepKinds ==
  ASSUME TypeOK, [Next]_vars
  PROVE  \/ Aside \/ Tick
         \/ \E a \in Attempts : Broker(a)
         \/ \E w \in Workers : Handling(w)
         \/ \E r \in Reconcilers : Reconciling(r)
<1> USE DEF TypeOK
<1>1. ASSUME NEW p \in Proposals, Generate(p) PROVE Aside
  BY <1>1, DecisionAside DEF Generate, InFlightStatuses, workerVars
<1>2. ASSUME NEW p \in Proposals, Authorize(p) PROVE Aside
  BY <1>2, DecisionAside DEF Authorize, InFlightStatuses, AuthorizableStatuses
<1>3. ASSUME NEW p \in Proposals, Expire(p) PROVE Aside
  BY <1>3, DecisionAside DEF Expire, InFlightStatuses, SweepableStatuses,
     PreExecutionStatuses
<1>4. ASSUME NEW p \in Proposals, InvalidateStale(p) PROVE Aside
  <2>1. status[p] \notin InFlightStatuses \cup {"CANCELLED", "EXECUTED"}
    BY <1>4 DEF InvalidateStale, CanTransition, AllowedTransitions,
       InFlightStatuses
  <2>2. QED
    BY <1>4, <2>1, DecisionAside DEF InvalidateStale, InFlightStatuses
<1>5. ASSUME NEW p \in Proposals, Cancel(p) PROVE Aside
  <2>1. status[p] \notin {"EXECUTING", "CANCELLED", "EXECUTED"}
    BY <1>5 DEF Cancel, CanTransition, AllowedTransitions
  <2>2. QED
    BY <1>5, <2>1 DEF Cancel, ProposalTypes, SetStatus, Aside, heldVars,
       InFlightStatuses
<1>6. CASE SetHalted
  BY <1>6 DEF SetHalted, Aside, workerVars, heldVars
<1>7. ASSUME NEW p \in Proposals, EnqueueReady(p) \/ ExecuteNothing(p) PROVE Aside
  BY <1>7 DEF EnqueueReady, ExecuteNothing, Aside, workerVars, heldVars
<1>8. ASSUME NEW w \in Workers, PreflightBegin(w) \/ PreflightEnd(w) PROVE Aside
  BY <1>8 DEF PreflightBegin, PreflightEnd, Goto, WorkerTypes, Aside,
     AttemptSteps, HolderSteps, proposalVars, heldVars
<1>9. ASSUME NEW w \in Workers, RecordRefusal(w) PROVE Aside
  BY <1>9 DEF RecordRefusal, Retires, SetStatus, ExecutableStatuses,
     InFlightStatuses, ProposalTypes, WorkerTypes, Finish, Idle, Aside,
     AttemptSteps, HolderSteps
<1>10. ASSUME NEW w \in Workers, ClaimLost(w) \/ Crash(w) \/ Rollback(w)
       PROVE  Aside
  BY <1>10, FinishAside DEF ClaimLost, Crash, Rollback
<1>11. ASSUME NEW w \in Workers, Finish(w), RecoverSentAttempt(w) PROVE Aside
  BY <1>11, FinishAside DEF RecoverSentAttempt
<1>12. CASE UNCHANGED vars
  BY <1>12 DEF vars, Aside, proposalVars, workerVars, heldVars
<1>13. QED
  BY <1>1, <1>2, <1>3, <1>4, <1>5, <1>6, <1>7, <1>8, <1>9, <1>10, <1>11, <1>12
     DEF Next, Environment, WorkerStep, Handling, Reconciling

\* What a worker that handles an attempt leaves alone.
LEMMA HandlingFrame ==
  ASSUME TypeOK, NEW v \in Workers, Handling(v)
  PROVE  /\ UNCHANGED recVars
         /\ \A w \in Workers \ {v} :
              /\ pc'[w] = pc[w] /\ att'[w] = att[w]
              /\ prop'[w] = prop[w] /\ ack'[w] = ack[w]
<1>1. CASE \/ \E p \in Proposals : ExecuteStart(v, p)
           \/ \E a \in Attempts : RecoverIncomplete(v, a)
           \/ ClaimAndMarkSent(v) \/ Transmit(v) \/ PreSendFailure(v)
           \/ Answered(v) \/ Unanswered(v)
  BY <1>1 DEF ExecuteStart, RecoverIncomplete, ClaimAndMarkSent, Transmit,
     PreSendFailure, Answered, Unanswered, Goto, heldVars, TypeOK, WorkerTypes
<1>2. CASE /\ ~Rollback(v)
           /\ \/ RetractUnsent(v) \/ RecordSuccess(v)
              \/ RecordRejection(v) \/ RecordAmbiguous(v)
  <2>1. Finish(v) /\ UNCHANGED recVars
    BY <1>2 DEF RetractUnsent, RecordSuccess, RecordRejection, RecordAmbiguous
  <2>2. QED
    BY <2>1 DEF Finish, Idle, TypeOK, WorkerTypes
<1>3. CASE ~Finish(v) /\ RecoverSentAttempt(v)
  BY <1>3 DEF RecoverSentAttempt, Goto, heldVars, TypeOK, WorkerTypes
<1>4. QED
  BY <1>1, <1>2, <1>3 DEF Handling

\* What a reconciler leaves alone.
LEMMA ReconcilingFrame ==
  ASSUME TypeOK, NEW q \in Reconcilers, Reconciling(q)
  PROVE  /\ UNCHANGED <<sent, age, brokerVars, pc, heldVars>>
         /\ \A r \in Reconcilers \ {q} :
              /\ rpc'[r] = rpc[r] /\ subject'[r] = subject[r]
              /\ known'[r] = known[r] /\ conclusive'[r] = conclusive[r]
              /\ pend'[r] = pend[r] /\ hist'[r] = hist[r]
              /\ order'[r] = order[r] /\ seen'[r] = seen[r]
<1>1. UNCHANGED <<sent, age, brokerVars, pc, heldVars>>
  BY DEF Reconciling, ReconcileStart, ReconcilerStep, FetchOrder, ReadPending,
     ReadHistory, ReadFails, Decide, RecordFound, RecordNotPlaced, RecordUnknown,
     ReconcilerCrash, OnlyReconciler, attemptVars, workerVars
<1>2. CASE \/ \E a \in Attempts : ReconcileStart(q, a)
           \/ FetchOrder(q) \/ ReadPending(q) \/ ReadHistory(q) \/ ReadFails(q)
           \/ Decide(q)
  BY <1>1, <1>2 DEF ReconcileStart, FetchOrder, ReadPending, ReadHistory,
     ReadFails, Decide, RecGoto, TypeOK, ReconcilerTypes
<1>3. CASE \/ RecordFound(q) \/ RecordNotPlaced(q) \/ RecordUnknown(q)
           \/ ReconcilerCrash(q)
  <2>1. RecIdle(q)
    BY <1>3 DEF RecordFound, RecordNotPlaced, RecordUnknown, ReconcilerCrash
  <2>2. QED
    BY <1>1, <2>1 DEF RecIdle, RecGoto, TypeOK, ReconcilerTypes
<1>4. QED
  BY <1>2, <1>3 DEF Reconciling, ReconcilerStep

\* An order goes through the broker's steps, once a worker that holds the claim
\* has written its request.
Advances ==
    \A a \in Attempts :
        \/ remote'[a] = remote[a]
        \/ <<remote[a], remote'[a]>> \in BrokerSteps
        \/ /\ remote[a] = "none" /\ remote'[a] = "wire"
           /\ \E w \in Workers : pc[w] = "post" /\ att[w] = a

\* An order only goes forward at the broker, and a request is written only while
\* its worker holds the claim.
LEMMA RemoteStep == TypeOK /\ SendInv /\ [Next]_vars => Advances
<1> SUFFICES ASSUME TypeOK, SendInv, [Next]_vars PROVE Advances
  OBVIOUS
<1>1. CASE Aside \/ Tick
  BY <1>1 DEF Aside, Tick, Advances, brokerVars
<1>2. ASSUME NEW a \in Attempts, Broker(a) PROVE Advances
  BY <1>2 DEF Broker, Advances, TypeOK, AttemptTypes
<1>3. ASSUME NEW w \in Workers, Handling(w) PROVE Advances
  <2>1. CASE Transmit(w)
    <3>1. pc[w] = "post" /\ remote' = [remote EXCEPT ![att[w]] = "wire"]
      BY <2>1 DEF Transmit
    <3>2. remote[att[w]] = "none"
      BY <3>1 DEF SendInv, HolderUntransmitted
    <3>3. QED
      BY <3>1, <3>2 DEF Advances, TypeOK, AttemptTypes
  <2>2. CASE ~Transmit(w)
    <3>1. UNCHANGED remote
      BY <1>3, <2>2 DEF Handling, ExecuteStart, RecoverIncomplete,
         ClaimAndMarkSent, PreSendFailure, Answered, Unanswered, RetractUnsent,
         RecordSuccess, RecordRejection, RecordAmbiguous, RecoverSentAttempt,
         brokerVars
    <3>2. QED
      BY <3>1 DEF Advances
  <2>3. QED
    BY <2>1, <2>2
<1>4. ASSUME NEW r \in Reconcilers, Reconciling(r) PROVE Advances
  <2>1. UNCHANGED remote
    BY <1>4 DEF Reconciling, ReconcileStart, ReconcilerStep, FetchOrder,
       ReadPending, ReadHistory, ReadFails, Decide, RecordFound,
       RecordNotPlaced, RecordUnknown, ReconcilerCrash, OnlyReconciler, brokerVars
  <2>2. QED
    BY <2>1 DEF Advances
<1>5. QED
  BY <1>1, <1>2, <1>3, <1>4, StepKinds

\* So evidence about an order is never withdrawn: it has been written, it is
\* placed, it is refused, or it ended in a way that stays.
ClosedOrder == {"FILLED", "DEAD"}
Listed == {"NEW", "FILLED", "DEAD"}

LEMMA EvidenceStays ==
  ASSUME Advances, NEW a \in Attempts
  PROVE  /\ remote[a] # "none" => remote'[a] # "none"
         /\ remote[a] \in Placed => remote'[a] \in Placed
         /\ remote[a] \in Listed => remote'[a] \in Listed
         /\ remote[a] \in ClosedOrder \cup {"refused", "lost"} => remote'[a] = remote[a]
  BY DEF Advances, BrokerSteps, Placed, Listed, ClosedOrder

-----------------------------------------------------------------------------
(* What is known of an order is true of it.                                *)

\* Both would be found in the same list of the broker.
SameBook(o, a) == Listing[Owner[o]] = Listing[Owner[a]]

\* The columns that name an order name one that was written to the wire, of the
\* attempt's own listing.
ColumnsTrue ==
    \A a \in Attempts :
        /\ orderId[a] # None => SameBook(orderId[a], a) /\ remote[orderId[a]] # "none"
        /\ mirror[a] # None => SameBook(a, mirror[a]) /\ remote[a] # "none"

\* What a worker was answered.
AnswerTrue(w) ==
    /\ pc[w] = "success" => /\ remote[att[w]] \in Placed
                            /\ ack[w] \in ClosedOrder => remote[att[w]] = ack[w]
    /\ pc[w] = "rejected" => remote[att[w]] = "refused"
    /\ pc[w] \in {"recover", "ambiguous"} =>
           att[w] \in Attempts /\ Owner[att[w]] = prop[w]

\* What a reconciler started from, has read, and has found.
ReadingTrue(r) ==
    /\ IF rpc[r] = "idle" THEN pend[r] = {} /\ hist[r] = {}
                          ELSE subject[r] \in Attempts
    /\ rpc[r] = "byid" => known[r] # None
    /\ known[r] # None =>
           SameBook(known[r], subject[r]) /\ remote[known[r]] # "none"
    /\ \A o \in pend[r] : SameBook(o, subject[r]) /\ remote[o] \in Listed
    /\ \A o \in hist[r] : SameBook(o, subject[r]) /\ remote[o] \in ClosedOrder
    /\ rpc[r] = "found" =>
           /\ order[r] \in Attempts /\ SameBook(order[r], subject[r])
           /\ remote[order[r]] \in Listed
           /\ seen[r] \in ClosedOrder => remote[order[r]] = seen[r]

Evidence ==
    /\ ColumnsTrue
    /\ \A w \in Workers : AnswerTrue(w)
    /\ \A r \in Reconcilers : ReadingTrue(r)

LEMMA EvidenceInit == Init => Evidence
  BY ConstantsAssumption DEF Init, Evidence, ColumnsTrue, AnswerTrue, ReadingTrue

\* An order is named only from an acknowledgement or from a reconciler's find.
Credits(w) ==
    /\ pc[w] = "success" /\ UNCHANGED remote
    /\ orderId' = [orderId EXCEPT ![att[w]] = att[w]]
    /\ mirror' = [mirror EXCEPT ![att[w]] = att[w]]

Attributes(r) ==
    /\ rpc[r] = "found" /\ sent[subject[r]] /\ UNCHANGED remote
    /\ orderId' = [orderId EXCEPT ![subject[r]] = order[r]]
    /\ mirror' = [mirror EXCEPT ![order[r]] = subject[r]]

LEMMA ColumnWriters ==
  ASSUME TypeOK, [Next]_vars
  PROVE  \/ UNCHANGED <<orderId, mirror>>
         \/ \E w \in Workers : Credits(w)
         \/ \E r \in Reconcilers : Attributes(r)
<1>1. CASE Aside \/ Tick \/ \E a \in Attempts : Broker(a)
  BY <1>1 DEF Aside, Tick, Broker, attemptVars
<1>2. ASSUME NEW w \in Workers, Handling(w)
      PROVE  UNCHANGED <<orderId, mirror>> \/ Credits(w)
  BY <1>2 DEF Handling, ExecuteStart, RecoverIncomplete, ClaimAndMarkSent, Transmit,
     PreSendFailure, Answered, Unanswered, RetractUnsent, RecordSuccess,
     RecordRejection, RecordAmbiguous, RecoverSentAttempt, Credits, attemptVars,
     brokerVars
<1>3. ASSUME NEW r \in Reconcilers, Reconciling(r)
      PROVE  UNCHANGED <<orderId, mirror>> \/ Attributes(r)
  BY <1>3 DEF Reconciling, ReconcileStart, ReconcilerStep, FetchOrder, ReadPending,
     ReadHistory, ReadFails, Decide, RecordFound, RecordNotPlaced, RecordUnknown,
     ReconcilerCrash, OnlyReconciler, OrderIdAllowed, Attributes, attemptVars,
     brokerVars
<1>4. QED
  BY <1>1, <1>2, <1>3, StepKinds

LEMMA ColumnsStep ==
  ASSUME TypeOK, SendInv, Evidence, [Next]_vars
  PROVE  ColumnsTrue'
<1> USE ConstantsAssumption DEF Evidence, ColumnsTrue, SameBook, TypeOK, AttemptTypes
<1>1. CASE UNCHANGED <<orderId, mirror>>
  BY <1>1, RemoteStep, EvidenceStays
<1>2. ASSUME NEW w \in Workers, Credits(w) PROVE ColumnsTrue'
  BY <1>2 DEF Credits, AnswerTrue, Placed
<1>3. ASSUME NEW r \in Reconcilers, Attributes(r) PROVE ColumnsTrue'
  <2>1. /\ order[r] \in Attempts /\ SameBook(order[r], subject[r])
        /\ remote[order[r]] # "none"
    BY <1>3 DEF Attributes, ReadingTrue, Listed
  <2>2. QED
    BY <1>3, <2>1 DEF Attributes
<1>4. QED
  BY <1>1, <1>2, <1>3, ColumnWriters

\* An answer stays true while its worker holds it.
LEMMA AnswerKept ==
  ASSUME TypeOK, SendInv, Advances, NEW w \in Workers, AnswerTrue(w),
         pc'[w] \in AttemptSteps =>
             /\ pc'[w] = pc[w] /\ att'[w] = att[w]
             /\ prop'[w] = prop[w] /\ ack'[w] = ack[w]
  PROVE  AnswerTrue(w)'
<1>1. SUFFICES ASSUME pc'[w] \in AttemptSteps PROVE AnswerTrue(w)'
  BY DEF AnswerTrue, AttemptSteps, HolderSteps
<1>2. /\ pc'[w] = pc[w] /\ att'[w] = att[w]
      /\ prop'[w] = prop[w] /\ ack'[w] = ack[w]
  BY <1>1
<1>3. pc[w] \in HolderSteps => att[w] \in Attempts
  BY DEF SendInv, HolderOwns
<1>4. QED
  BY <1>2, <1>3, EvidenceStays DEF AnswerTrue, HolderSteps

LEMMA AnswersStep ==
  ASSUME TypeOK, SendInv, Evidence, [Next]_vars, NEW w \in Workers
  PROVE  AnswerTrue(w)'
<1>1. Advances /\ AnswerTrue(w)
  BY RemoteStep DEF Evidence
<1>2. CASE Aside
  BY <1>1, <1>2, AnswerKept DEF Aside
<1>3. CASE UNCHANGED <<pc, prop, att, ack>>
  BY <1>1, <1>3, AnswerKept
<1>4. CASE Tick \/ (\E a \in Attempts : Broker(a))
            \/ (\E r \in Reconcilers : Reconciling(r))
  BY <1>3, <1>4, ReconcilingFrame DEF Tick, Broker, workerVars, heldVars
<1>5. ASSUME NEW v \in Workers, Handling(v), v # w PROVE AnswerTrue(w)'
  BY <1>1, <1>5, HandlingFrame, AnswerKept
<1>6. ASSUME Handling(w) PROVE AnswerTrue(w)'
  <2> USE DEF AnswerTrue, TypeOK, WorkerTypes, Goto
  <2>1. ASSUME NEW p \in Proposals, ExecuteStart(w, p) PROVE AnswerTrue(w)'
    BY <2>1 DEF ExecuteStart, SentAttempts, AttemptsOf
  <2>2. ASSUME NEW a \in Attempts, RecoverIncomplete(w, a) PROVE AnswerTrue(w)'
    BY <2>2 DEF RecoverIncomplete
  <2>3. CASE ClaimAndMarkSent(w) \/ Transmit(w) \/ PreSendFailure(w)
    BY <2>3 DEF ClaimAndMarkSent, Transmit, PreSendFailure
  <2>4. CASE Answered(w)
    BY <2>4 DEF Answered, brokerVars, Placed, ClosedOrder
  <2>5. CASE Unanswered(w)
    BY <2>5 DEF Unanswered, heldVars, SendInv, HolderOwns, HolderSteps
  <2>6. CASE Finish(w)
    BY <2>6 DEF Finish, Idle
  <2>7. CASE ~Finish(w) /\ RecoverSentAttempt(w)
    BY <1>1, <2>7 DEF RecoverSentAttempt, heldVars
  <2>8. QED
    BY <1>6, <2>1, <2>2, <2>3, <2>4, <2>5, <2>6, <2>7 DEF Handling,
       RetractUnsent, RecordSuccess, RecordRejection, RecordAmbiguous
<1>7. QED
  BY <1>2, <1>4, <1>5, <1>6, StepKinds

\* A reading stays true while its reconciler holds it.
LEMMA ReadingKept ==
  ASSUME TypeOK, Advances, NEW r \in Reconcilers, ReadingTrue(r),
         rpc'[r] = rpc[r], subject'[r] = subject[r], known'[r] = known[r],
         pend'[r] = pend[r], hist'[r] = hist[r], order'[r] = order[r],
         seen'[r] = seen[r]
  PROVE  ReadingTrue(r)'
<1>1. /\ known[r] # None => known[r] \in Attempts
      /\ pend[r] \subseteq Attempts /\ hist[r] \subseteq Attempts
  BY DEF TypeOK, ReconcilerTypes
<1>2. QED
  BY <1>1, EvidenceStays DEF ReadingTrue, SameBook, ClosedOrder, Listed

LEMMA ReadingsStep ==
  ASSUME TypeOK, SendInv, Evidence, [Next]_vars, NEW r \in Reconcilers
  PROVE  ReadingTrue(r)'
<1> USE ConstantsAssumption
<1>1. Advances /\ ReadingTrue(r)
  BY RemoteStep DEF Evidence
<1>2. CASE UNCHANGED recVars
  BY <1>1, <1>2, ReadingKept DEF recVars
<1>3. CASE Aside \/ Tick \/ (\E a \in Attempts : Broker(a))
            \/ (\E w \in Workers : Handling(w))
  BY <1>2, <1>3, HandlingFrame DEF Aside, Tick, Broker
<1>4. ASSUME NEW q \in Reconcilers, Reconciling(q), q # r PROVE ReadingTrue(r)'
  BY <1>1, <1>4, ReconcilingFrame, ReadingKept
<1>5. ASSUME Reconciling(r) PROVE ReadingTrue(r)'
  <2> USE DEF ReadingTrue, SameBook, TypeOK, ReconcilerTypes, RecGoto
  <2>1. UNCHANGED remote
    BY <1>5, ReconcilingFrame DEF brokerVars
  <2>2. ASSUME NEW a \in Attempts, ReconcileStart(r, a) PROVE ReadingTrue(r)'
    BY <1>1, <2>1, <2>2 DEF ReconcileStart, Evidence, ColumnsTrue
  <2>3. CASE FetchOrder(r)
    BY <1>1, <2>1, <2>3 DEF FetchOrder, Listed, ClosedOrder
  <2>4. CASE ReadPending(r)
    BY <1>1, <2>1, <2>4 DEF ReadPending, Working, Listed
  <2>5. CASE ReadHistory(r)
    BY <1>1, <2>1, <2>5 DEF ReadHistory, Ended, ClosedOrder
  <2>6. CASE ReadFails(r)
    BY <1>1, <2>1, <2>6 DEF ReadFails
  <2>7. CASE Decide(r)
    <3>1. Matches(r) \subseteq pend[r] \cup hist[r]
      BY DEF Matches
    <3>2. QED
      BY <1>1, <2>1, <2>7, <3>1 DEF Decide, Listed, ClosedOrder
  <2>8. CASE RecIdle(r)
    BY <2>8 DEF RecIdle
  <2>9. QED
    BY <1>5, <2>2, <2>3, <2>4, <2>5, <2>6, <2>7, <2>8 DEF Reconciling,
       ReconcilerStep, RecordFound, RecordNotPlaced, RecordUnknown,
       ReconcilerCrash
<1>6. QED
  BY <1>3, <1>4, <1>5, StepKinds

\* Whatever a column, a worker or a reconciler says of an order is true at the
\* broker (Answered, find_candidates, fetch_order, _record, _mirror_order).
THEOREM EvidenceInvariant == Spec => []Evidence
<1>1. Init => Evidence
  BY EvidenceInit
<1>2. TypeOK /\ SendInv /\ Evidence /\ [Next]_vars => Evidence'
  BY ColumnsStep, AnswersStep, ReadingsStep DEF Evidence
<1>3. QED
  BY <1>1, <1>2, TypeCorrect, SendInvariant, PTL DEF Spec

\* Among the attempts of a proposal an order is credited to the one that placed
\* it: the order id and the mirror are written only where the send claim still
\* stands, and only one claim of a proposal does (_record, _mirror_order).
THEOREM CreditWhereDue == Spec => []OrdersAttributed
<1>1. Init => OrdersAttributed
  BY ConstantsAssumption DEF Init, OrdersAttributed
<1>2. ASSUME TypeOK, SendInv, Evidence, OrdersAttributed, [Next]_vars
      PROVE  OrdersAttributed'
  <2> USE ConstantsAssumption DEF OrdersAttributed, TypeOK, AttemptTypes
  <2>1. CASE UNCHANGED <<orderId, mirror>>
    BY <1>2, <2>1
  <2>2. ASSUME NEW w \in Workers, Credits(w) PROVE OrdersAttributed'
    BY <1>2, <2>2 DEF Credits
  <2>3. ASSUME NEW r \in Reconcilers, Attributes(r) PROVE OrdersAttributed'
    <3>1. order[r] \in Attempts /\ remote[order[r]] # "none" /\ sent[subject[r]]
      BY <1>2, <2>3 DEF Attributes, Evidence, ReadingTrue, Listed
    <3>2. subject[r] \in Attempts
      BY <1>2, <2>3 DEF Attributes, Evidence, ReadingTrue
    <3>3. Owner[order[r]] = Owner[subject[r]] => order[r] = subject[r]
      BY <1>2, <3>1, <3>2 DEF SendInv, OneSent, TransmittedIsSent
    <3>4. QED
      BY <1>2, <2>3, <3>1, <3>2, <3>3 DEF Attributes
  <2>4. QED
    BY <1>2, <2>1, <2>2, <2>3, ColumnWriters
<1>3. QED
  BY <1>1, <1>2, TypeCorrect, SendInvariant, EvidenceInvariant, PTL DEF Spec

\* A proposal reported EXECUTED has a filled order of its own, where a listing
\* belongs to one proposal: the fill was acknowledged to its worker or found by
\* its reconciler (_record_success, _advance_for_order).
THEOREM ReportedFillIsReal == ASSUME OwnListing PROVE Spec => []ExecutedMeansFilled
<1>1. Init => ExecutedMeansFilled
  BY DEF Init, ExecutedMeansFilled
<1>2. ASSUME TypeOK, SendInv, Evidence, ExecutedMeansFilled, [Next]_vars
      PROVE  ExecutedMeansFilled'
  <2> SUFFICES ASSUME NEW p \in Proposals, status'[p] = "EXECUTED"
               PROVE  \E a \in AttemptsOf(p) : remote'[a] = "FILLED"
    BY DEF ExecutedMeansFilled, AttemptsOf
  <2> USE DEF AttemptsOf
  <2>1. ASSUME NEW a \in Attempts, Owner[a] = p, remote[a] = "FILLED"
        PROVE  \E b \in AttemptsOf(p) : remote'[b] = "FILLED"
    <3>1. remote'[a] = "FILLED"
      BY <1>2, <2>1, RemoteStep, EvidenceStays DEF ClosedOrder
    <3>2. QED
      BY <2>1, <3>1
  <2>2. CASE status[p] = "EXECUTED"
    BY <1>2, <2>1, <2>2 DEF ExecutedMeansFilled
  <2>3. CASE status[p] # "EXECUTED"
    <3> USE DEF TypeOK, ProposalTypes, SetStatus
    <3>1. ~(Aside \/ Tick \/ \E a \in Attempts : Broker(a))
      BY <2>3 DEF Aside, Tick, Broker, proposalVars
    <3>2. ASSUME NEW w \in Workers, Handling(w)
          PROVE  \E a \in Attempts : Owner[a] = p /\ remote[a] = "FILLED"
      <4>1. RecordSuccess(w) /\ ~Rollback(w)
        BY <1>2, <2>3, <3>2 DEF Handling, ExecuteStart, RecoverIncomplete,
           ClaimAndMarkSent, Transmit, PreSendFailure, Answered, Unanswered,
           RetractUnsent, RecordRejection, RecordAmbiguous, RecoverSentAttempt,
           proposalVars
      <4>2. pc[w] = "success" /\ p = prop[w] /\ ack[w] = "FILLED"
        BY <1>2, <2>3, <4>1 DEF RecordSuccess, SuccessStatus
      <4>3. att[w] \in Attempts /\ Owner[att[w]] = p
        BY <1>2, <4>2 DEF SendInv, HolderOwns, HolderSteps
      <4>4. remote[att[w]] = "FILLED"
        BY <1>2, <4>2 DEF Evidence, AnswerTrue, ClosedOrder
      <4>5. QED
        BY <4>3, <4>4
    <3>3. ASSUME NEW r \in Reconcilers, Reconciling(r)
          PROVE  \E a \in Attempts : Owner[a] = p /\ remote[a] = "FILLED"
      <4>1. RecordFound(r)
        BY <1>2, <2>3, <3>3 DEF Reconciling, ReconcileStart, ReconcilerStep,
           FetchOrder, ReadPending, ReadHistory, ReadFails, Decide,
           RecordNotPlaced, RecordUnknown, ReconcilerCrash, OnlyReconciler,
           proposalVars
      <4>2. rpc[r] = "found" /\ p = Owner[subject[r]] /\ seen[r] = "FILLED"
        BY <1>2, <2>3, <4>1 DEF RecordFound, AdvanceForOrder
      <4>3. /\ order[r] \in Attempts /\ SameBook(order[r], subject[r])
            /\ remote[order[r]] = "FILLED" /\ subject[r] \in Attempts
        BY <1>2, <4>2 DEF Evidence, ReadingTrue, ClosedOrder
      <4>4. Owner[order[r]] = p
        BY <4>2, <4>3, OwnListing, ConstantsAssumption DEF OwnListing, SameBook
      <4>5. QED
        BY <4>3, <4>4
    <3>4. QED
      BY <1>2, <2>1, <3>1, <3>2, <3>3, StepKinds
  <2>4. QED
    BY <2>2, <2>3
<1>3. QED
  BY <1>1, <1>2, TypeCorrect, SendInvariant, EvidenceInvariant, PTL DEF Spec

-----------------------------------------------------------------------------
(* What the conclusion that nothing was placed rests on.                   *)

\* The attempt exists, and the broker will not come to hold an order of it that
\* it does not list now.
Over(a) == outcome[a] # "NONE" /\ ~Unsettled(a)

NotAnOrder == {"none", "lost", "refused"}

\* An attempt is unsettled for no longer than its window.
Windowed == \A a \in Attempts : Unsettled(a) => age[a] <= PreMax + land[a]

SearchSteps == {"byid", "pending", "history", "decide"}

\* A search that may conclude absence began after the window, and it has seen the
\* order of its attempt if there is one.
SearchSound(r) ==
    /\ rpc[r] \in SearchSteps /\ conclusive[r] => Over(subject[r])
    /\ rpc[r] = "history" /\ conclusive[r] =>
           (remote[subject[r]] = "NEW" => subject[r] \in pend[r])
    /\ rpc[r] = "decide" /\ conclusive[r] =>
           (remote[subject[r]] \in Listed => subject[r] \in pend[r] \cup hist[r])
    /\ rpc[r] = "notplaced" =>
           Over(subject[r]) /\ remote[subject[r]] \in NotAnOrder

AbsenceProved ==
    \A a \in Attempts :
        outcome[a] = "RECONCILED_NOT_PLACED" => Over(a) /\ remote[a] \in NotAnOrder

AbsenceInv ==
    /\ Windowed
    /\ \A r \in Reconcilers : SearchSound(r)
    /\ AbsenceProved

\* Who records an outcome: absence only a reconciler that has concluded it.
LEMMA OutcomeWriters ==
  ASSUME TypeOK, Evidence, [Next]_vars, NEW a \in Attempts, outcome'[a] # outcome[a]
  PROVE  \/ outcome'[a] \notin {"NONE", "RECONCILED_NOT_PLACED"}
         \/ \E r \in Reconcilers : /\ rpc[r] = "notplaced" /\ subject[r] = a
                                   /\ outcome'[a] = "RECONCILED_NOT_PLACED"
<1> USE DEF TypeOK, AttemptTypes
<1>1. ~(Aside \/ Tick \/ \E b \in Attempts : Broker(b))
  BY DEF Aside, Tick, Broker, attemptVars
<1>2. ASSUME NEW w \in Workers, Handling(w)
      PROVE  outcome'[a] \notin {"NONE", "RECONCILED_NOT_PLACED"}
  BY <1>2 DEF Handling, ExecuteStart, RecoverIncomplete, ClaimAndMarkSent, Transmit,
     PreSendFailure, Answered, Unanswered, RetractUnsent, RecordSuccess,
     RecordRejection, RecordAmbiguous, RecoverSentAttempt, attemptVars, AttemptsOf
<1>3. ASSUME NEW r \in Reconcilers, Reconciling(r), ~RecordNotPlaced(r)
      PROVE  outcome'[a] \notin {"NONE", "RECONCILED_NOT_PLACED"}
  BY <1>3 DEF Reconciling, ReconcileStart, ReconcilerStep, FetchOrder, ReadPending,
     ReadHistory, ReadFails, Decide, RecordFound, RecordUnknown,
     ReconcilerCrash, OnlyReconciler, attemptVars
<1>4. ASSUME NEW r \in Reconcilers, RecordNotPlaced(r)
      PROVE  /\ rpc[r] = "notplaced" /\ subject[r] = a
             /\ outcome'[a] = "RECONCILED_NOT_PLACED"
  BY <1>4 DEF RecordNotPlaced
<1>5. QED
  BY <1>1, <1>2, <1>3, <1>4, StepKinds

\* An attempt becomes unsettled by its claim only.
LEMMA UnsettledStep ==
  ASSUME TypeOK, SendInv, [Next]_vars, NEW a \in Attempts, Unsettled(a)'
  PROVE  Unsettled(a) \/ \E w \in Workers :
                             /\ ClaimAndMarkSent(w) /\ att'[w] = a
                             /\ outcome[a] = "NONE" /\ age'[a] = elapsed[w]
                             /\ UNCHANGED land
<1>1. CASE remote'[a] \in {"wire", "hidden"}
  BY <1>1, RemoteStep DEF Advances, BrokerSteps, Unsettled
<1>2. CASE ~(remote'[a] \in {"wire", "hidden"})
  <2>1. PICK w \in Workers : pc'[w] = "post" /\ att'[w] = a
    BY <1>2 DEF Unsettled
  <2>2. CASE pc[w] = "post" /\ att[w] = a
    BY <2>2 DEF Unsettled
  <2>3. CASE ~(pc[w] = "post" /\ att[w] = a)
    <3>1. ~(Aside \/ Tick \/ \E b \in Attempts : Broker(b))
      BY <2>1, <2>3 DEF Aside, AttemptSteps, HolderSteps, Tick, Broker, workerVars,
         heldVars
    <3>2. ~(\E r \in Reconcilers : Reconciling(r))
      BY <2>1, <2>3, ReconcilingFrame DEF heldVars
    <3>3. Handling(w)
      BY <2>1, <2>3, <3>1, <3>2, StepKinds, HandlingFrame
    <3>4. ClaimAndMarkSent(w)
      BY <2>1, <3>3 DEF Handling, ExecuteStart, RecoverIncomplete, Transmit,
         PreSendFailure, Answered, Unanswered, RetractUnsent, RecordSuccess,
         RecordRejection, RecordAmbiguous, RecoverSentAttempt, Finish, Idle, Goto,
         TypeOK, WorkerTypes
    <3>5. QED
      BY <2>1, <3>4 DEF ClaimAndMarkSent, brokerVars, AttemptsOf, TypeOK,
         WorkerTypes, AttemptTypes
  <2>4. QED
    BY <2>2, <2>3
<1>3. QED
  BY <1>1, <1>2

\* What is over stays over, and no order of it appears.
LEMMA OverStays ==
  ASSUME TypeOK, SendInv, Evidence, [Next]_vars, NEW a \in Attempts, Over(a)
  PROVE  /\ Over(a)'
         /\ remote[a] \in NotAnOrder => remote'[a] \in NotAnOrder
         /\ remote'[a] \in Listed => remote[a] \in Listed
         /\ remote'[a] = "NEW" => remote[a] = "NEW"
<1>1. Over(a)'
  BY OutcomeWriters, UnsettledStep DEF Over
<1>2. remote'[a] = remote[a] \/ <<remote[a], remote'[a]>> \in BrokerSteps
  BY RemoteStep DEF Advances, Over, Unsettled
<1>3. remote[a] \notin {"wire", "hidden"}
  BY DEF Over, Unsettled
<1>4. QED
  BY <1>1, <1>2, <1>3 DEF BrokerSteps, NotAnOrder, Listed

LEMMA WindowStep ==
  ASSUME TypeOK, SendInv, Evidence, Windowed, [Next]_vars
  PROVE  Windowed'
<1> SUFFICES ASSUME NEW a \in Attempts, Unsettled(a)'
             PROVE  age'[a] <= PreMax + land'[a]
  BY DEF Windowed
<1> USE ConstantsAssumption DEF TypeOK, AttemptTypes, WorkerTypes
<1>0. PreMax \in Nat /\ LandMax \in Nat
  OBVIOUS
<1>1. ASSUME NEW w \in Workers, age'[a] = elapsed[w], UNCHANGED land
      PROVE  age'[a] <= PreMax + land'[a]
  <2>1. elapsed[w] \in 0..PreMax /\ land'[a] \in 0..LandMax
    BY <1>1
  <2>2. QED
    BY <1>0, <1>1, <2>1
<1>2. CASE Unsettled(a) /\ Tick
  <2>1. /\ age[a] \in Nat /\ land[a] \in 0..LandMax
        /\ age[a] <= PreMax + land[a] /\ land[a] < LandMax
    BY <1>2 DEF Windowed, Tick
  <2>2. outcome[a] # "NONE" => age'[a] \in {age[a], age[a] + 1} /\ land'[a] = land[a] + 1
    BY <1>2, <2>1 DEF Tick
  <2>3. outcome[a] = "NONE" => age'[a] = age[a] /\ land'[a] = land[a]
    BY <1>2 DEF Tick
  <2>4. QED
    BY <1>0, <2>1, <2>2, <2>3
<1>3. CASE Unsettled(a) /\ ~Tick
  <2>1. UNCHANGED land
    BY <1>3, StepKinds, ReconcilingFrame DEF Aside, Broker, brokerVars, Handling,
       ExecuteStart, RecoverIncomplete, ClaimAndMarkSent, Transmit, PreSendFailure,
       Answered, Unanswered, RetractUnsent, RecordSuccess, RecordRejection,
       RecordAmbiguous, RecoverSentAttempt
  <2>2. age'[a] = age[a] \/ \E w \in Workers : age'[a] = elapsed[w]
    BY <1>3, StepKinds, ReconcilingFrame DEF Aside, Broker, attemptVars, Handling,
       ExecuteStart, RecoverIncomplete, ClaimAndMarkSent, Transmit, PreSendFailure,
       Answered, Unanswered, RetractUnsent, RecordSuccess, RecordRejection,
       RecordAmbiguous, RecoverSentAttempt
  <2>3. QED
    BY <1>1, <1>3, <2>1, <2>2 DEF Windowed
<1>4. QED
  BY <1>1, <1>2, <1>3, UnsettledStep

\* A search stays sound while its reconciler does nothing.
LEMMA SearchKept ==
  ASSUME TypeOK, SendInv, Evidence, [Next]_vars, NEW r \in Reconcilers, SearchSound(r),
         rpc'[r] = rpc[r], subject'[r] = subject[r], conclusive'[r] = conclusive[r],
         pend'[r] = pend[r], hist'[r] = hist[r]
  PROVE  SearchSound(r)'
<1>1. rpc[r] # "idle" => subject[r] \in Attempts
  BY DEF Evidence, ReadingTrue
<1>2. rpc[r] # "idle" /\ Over(subject[r]) =>
        /\ Over(subject[r])'
        /\ remote[subject[r]] \in NotAnOrder => remote'[subject[r]] \in NotAnOrder
        /\ remote'[subject[r]] \in Listed => remote[subject[r]] \in Listed
        /\ remote'[subject[r]] = "NEW" => remote[subject[r]] = "NEW"
  BY <1>1, OverStays
<1>3. QED
  BY <1>2 DEF SearchSound, SearchSteps


\* Past the settle window an attempt is settled for good; one that is not recorded
\* as sent never was written.
LEMMA SettledIsOver ==
  ASSUME SettleWindow, TypeOK, SendInv, Windowed, NEW a \in Attempts,
         outcome[a] # "NONE", Settled(a)
  PROVE  Over(a)
<1> SUFFICES ASSUME Unsettled(a) PROVE FALSE
  BY DEF Over
<1>1. sent[a]
  BY DEF Unsettled, SendInv, TransmittedIsSent, HolderOwns, HolderSteps
<1>2. /\ age[a] \in Nat /\ land[a] \in 0..LandMax
      /\ PreMax \in Nat /\ LandMax \in Nat /\ MinAge \in Nat
  BY ConstantsAssumption DEF TypeOK, AttemptTypes
<1>3. age[a] >= MinAge /\ age[a] <= PreMax + land[a]
  BY <1>1 DEF Settled, Windowed
<1>4. QED
  BY <1>2, <1>3, SettleWindow DEF SettleWindow

LEMMA SearchStep ==
  ASSUME OwnListing, SettleWindow, TypeOK, SendInv, Evidence, OrdersAttributed,
         AbsenceInv, [Next]_vars, NEW r \in Reconcilers
  PROVE  SearchSound(r)'
<1> USE ConstantsAssumption
<1>1. SearchSound(r) /\ ReadingTrue(r)
  BY DEF AbsenceInv, Evidence
<1>2. CASE UNCHANGED recVars
  BY <1>1, <1>2, SearchKept DEF recVars
<1>3. CASE Aside \/ Tick \/ (\E a \in Attempts : Broker(a))
            \/ (\E w \in Workers : Handling(w))
  BY <1>2, <1>3, HandlingFrame DEF Aside, Tick, Broker
<1>4. ASSUME NEW q \in Reconcilers, Reconciling(q), q # r PROVE SearchSound(r)'
  BY <1>1, <1>4, ReconcilingFrame, SearchKept
<1>5. ASSUME Reconciling(r) PROVE SearchSound(r)'
  <2> USE DEF SearchSound, SearchSteps, TypeOK, ReconcilerTypes, RecGoto
  <2>1. UNCHANGED <<remote, pc, att>>
    BY <1>5, ReconcilingFrame DEF brokerVars, heldVars
  <2>2. ASSUME NEW a \in Attempts, Over(a) PROVE Over(a)'
    BY <2>2, OverStays
  <2>3. ASSUME NEW a \in Attempts, ReconcileStart(r, a) PROVE SearchSound(r)'
    <3>1. conclusive'[r] => Over(a)
      BY <2>3, SettledIsOver DEF ReconcileStart, AbsenceInv, UnresolvedOutcomes
    <3>2. conclusive'[r] => Over(a)'
      BY <2>2, <3>1
    <3>3. rpc'[r] \in {"pending", "byid"} /\ subject'[r] = a
      BY <2>3 DEF ReconcileStart
    <3>4. QED
      BY <3>2, <3>3
  <2>4. CASE \/ FetchOrder(r) \/ ReadPending(r) \/ ReadHistory(r) \/ ReadFails(r)
             \/ Decide(r)
    <3>1. /\ rpc[r] \in SearchSteps /\ subject[r] \in Attempts
          /\ subject'[r] = subject[r]
      BY <1>1, <2>4 DEF FetchOrder, ReadPending, ReadHistory, ReadFails, Decide,
         ReadingTrue
    <3>2. Over(subject[r]) => Over(subject[r])'
      BY <2>2, <3>1
    <3>3. CASE FetchOrder(r)
      BY <1>1, <2>1, <3>1, <3>2, <3>3 DEF FetchOrder
    <3>4. CASE ReadPending(r)
      BY <1>1, <2>1, <3>1, <3>2, <3>4 DEF ReadPending, Working
    <3>5. CASE ReadHistory(r)
      BY <1>1, <2>1, <3>1, <3>2, <3>5 DEF ReadHistory, Ended, Listed
    <3>6. CASE ReadFails(r)
      BY <1>1, <2>1, <3>1, <3>6 DEF ReadFails
    <3>7. CASE Decide(r)
      <4>1. CASE rpc'[r] # "notplaced"
        BY <4>1, <3>7 DEF Decide
      <4>2. CASE rpc'[r] = "notplaced"
        <5>1. /\ rpc[r] = "decide" /\ known[r] = None /\ Matches(r) = {}
              /\ conclusive[r]
          BY <4>2, <3>7 DEF Decide
        <5>2. subject[r] \notin pend[r] \cup hist[r]
          <6>1. SUFFICES ASSUME subject[r] \in pend[r] \cup hist[r] PROVE FALSE
            OBVIOUS
          <6>2. mirror[subject[r]] \notin {None, subject[r]}
            BY <5>1, <6>1 DEF Matches
          <6>3. mirror[subject[r]] \in Attempts
            BY <3>1, <6>2 DEF AttemptTypes
          <6>4. SameBook(subject[r], mirror[subject[r]])
            BY <3>1, <6>2 DEF Evidence, ColumnsTrue
          <6>5. Owner[mirror[subject[r]]] = Owner[subject[r]]
            BY <3>1, <6>3, <6>4, OwnListing DEF SameBook, OwnListing
          <6>6. QED
            BY <3>1, <6>2, <6>3, <6>5 DEF OrdersAttributed
        <5>3. Over(subject[r]) /\ remote[subject[r]] \notin Listed
          BY <1>1, <5>1, <5>2
        <5>4. remote[subject[r]] \in NotAnOrder
          BY <3>1, <5>3 DEF Over, Unsettled, Listed, NotAnOrder, AttemptTypes, Remote
        <5>5. QED
          BY <2>1, <3>1, <3>2, <4>2, <5>3, <5>4
      <4>3. QED
        BY <4>1, <4>2
    <3>8. QED
      BY <2>4, <3>3, <3>4, <3>5, <3>6, <3>7
  <2>5. CASE RecIdle(r)
    BY <2>5 DEF RecIdle
  <2>6. QED
    BY <1>5, <2>3, <2>4, <2>5 DEF Reconciling, ReconcilerStep, RecordFound,
       RecordNotPlaced, RecordUnknown, ReconcilerCrash
<1>6. QED
  BY <1>3, <1>4, <1>5, StepKinds

LEMMA AbsenceStep ==
  ASSUME OwnListing, SettleWindow, TypeOK, SendInv, Evidence, OrdersAttributed,
         AbsenceInv, [Next]_vars
  PROVE  AbsenceInv'
<1>1. Windowed'
  BY WindowStep DEF AbsenceInv
<1>2. \A r \in Reconcilers : SearchSound(r)'
  BY SearchStep
<1>3. AbsenceProved'
  <2> SUFFICES ASSUME NEW a \in Attempts, outcome'[a] = "RECONCILED_NOT_PLACED"
               PROVE  Over(a)' /\ remote'[a] \in NotAnOrder
    BY DEF AbsenceProved
  <2>1. Over(a) /\ remote[a] \in NotAnOrder
    <3>1. CASE outcome'[a] = outcome[a]
      BY <3>1 DEF AbsenceInv, AbsenceProved
    <3>2. CASE outcome'[a] # outcome[a]
      BY <3>2, OutcomeWriters DEF AbsenceInv, SearchSound
    <3>3. QED
      BY <3>1, <3>2
  <2>2. QED
    BY <2>1, OverStays
<1>4. QED
  BY <1>1, <1>2, <1>3 DEF AbsenceInv

LEMMA AbsenceInit == Init => AbsenceInv
  BY DEF Init, AbsenceInv, Windowed, Unsettled, SearchSound, SearchSteps, AbsenceProved

\* What a search may conclude is true in every reachable state, where a listing
\* belongs to one proposal and the settle window outlasts preflight and landing.
THEOREM AbsenceInvariant == ASSUME OwnListing, SettleWindow PROVE Spec => []AbsenceInv
<1>1. TypeOK /\ SendInv /\ Evidence /\ OrdersAttributed /\ AbsenceInv /\ [Next]_vars
        => AbsenceInv'
  BY AbsenceStep, OwnListing, SettleWindow
<1>2. QED
  BY <1>1, AbsenceInit, TypeCorrect, SendInvariant, EvidenceInvariant, CreditWhereDue,
     PTL DEF Spec

\* "Not placed" is a proof: no order of the attempt exists and none can appear.  Two
\* lists read one after the other miss no order that moves between them, an order
\* is excluded as claimed only by its own attempt, and the settle window is counted
\* from a stamp set before the preflight (_search_for_order, find_candidates).
THEOREM AbsenceIsProof ==
  ASSUME OwnListing, SettleWindow PROVE Spec => []NotPlacedIsProof
<1>1. AbsenceInv => NotPlacedIsProof
  BY DEF AbsenceInv, AbsenceProved, Over, NotAnOrder, NotPlacedIsProof
<1>2. QED
  BY <1>1, AbsenceInvariant, OwnListing, SettleWindow, PTL


-----------------------------------------------------------------------------
(* Where the proposal stands meanwhile.  A proposal with a second attempt can  *)
(* be failed by its first one, so both theorems are about proposals that are   *)
(* not retried.                                                                *)

PendingExecuting ==
    \A a \in Attempts :
        sent[a] /\ outcome[a] = "PENDING" => status[Owner[a]] = "EXECUTING"

\* The broker holds a working order of the attempt, or may come to.
Live(a) == Unsettled(a) \/ remote[a] = "NEW"

LiveReserved ==
    \A a \in Attempts :
        Live(a) => status[Owner[a]] \in InFlightStatuses \cup {"CANCELLED"}

\* Who moves a proposal out of execution, and on what ground.
Settles(w, p) ==
    /\ att[w] \in AttemptsOf(p) /\ outcome'[att[w]] # "PENDING"
    /\ \/ pc[w] = "retract"
       \/ remote[att[w]] \in ClosedOrder \cup {"refused"}
       \/ status'[p] = "EXECUTION_AMBIGUOUS"

Concludes(r, p) ==
    /\ subject[r] \in AttemptsOf(p) /\ outcome'[subject[r]] # "PENDING"
    /\ \/ rpc[r] = "notplaced"
       \/ /\ order[r] \in Attempts /\ SameBook(order[r], subject[r])
          /\ remote[order[r]] \in ClosedOrder

LEMMA StatusWriters ==
  ASSUME TypeOK, SendInv, Evidence, [Next]_vars, NEW p \in Proposals,
         status'[p] # status[p]
  PROVE  \/ Aside
         \/ status'[p] = "EXECUTING"
         \/ \E w \in Workers : Settles(w, p)
         \/ \E r \in Reconcilers : Concludes(r, p)
<1> USE DEF TypeOK, ProposalTypes, AttemptTypes, SetStatus, AttemptsOf
<1>1. ~(Tick \/ \E a \in Attempts : Broker(a))
  BY DEF Tick, Broker, proposalVars
<1>2. ASSUME NEW w \in Workers, Handling(w)
      PROVE  status'[p] = "EXECUTING" \/ Settles(w, p)
  <2>1. CASE RetractUnsent(w) /\ ~Rollback(w)
    BY <2>1 DEF RetractUnsent, Settles, SendInv, HolderOwns, HolderSteps
  <2>2. CASE RecordSuccess(w) /\ ~Rollback(w)
    <3>1. pc[w] = "success" /\ p = prop[w] /\ ack[w] \in ClosedOrder
      BY <2>2 DEF RecordSuccess, SuccessStatus, ClosedOrder
    <3>2. att[w] \in Attempts /\ Owner[att[w]] = p
      BY <3>1 DEF SendInv, HolderOwns, HolderSteps
    <3>3. QED
      BY <2>2, <3>1, <3>2 DEF RecordSuccess, Settles, Evidence, AnswerTrue
  <2>3. CASE RecordRejection(w) /\ ~Rollback(w)
    BY <2>3 DEF RecordRejection, Settles, SendInv, HolderOwns, HolderSteps, Evidence,
       AnswerTrue
  <2>4. CASE RecordAmbiguous(w) /\ ~Rollback(w)
    BY <2>4 DEF RecordAmbiguous, Settles, Evidence, AnswerTrue
  <2>5. QED
    BY <1>2, <2>1, <2>2, <2>3, <2>4 DEF Handling, ExecuteStart, RecoverIncomplete,
       ClaimAndMarkSent, Transmit, PreSendFailure, Answered, Unanswered,
       RecoverSentAttempt, proposalVars
<1>3. ASSUME NEW r \in Reconcilers, Reconciling(r) PROVE Concludes(r, p)
  <2>1. CASE RecordFound(r)
    <3>1. /\ rpc[r] = "found" /\ p = Owner[subject[r]] /\ seen[r] \in ClosedOrder
          /\ outcome'[subject[r]] # "PENDING"
      BY <2>1 DEF RecordFound, AdvanceForOrder, ClosedOrder, Evidence, ReadingTrue
    <3>2. QED
      BY <3>1 DEF Concludes, Evidence, ReadingTrue
  <2>2. CASE RecordNotPlaced(r)
    BY <2>2 DEF RecordNotPlaced, Concludes, Evidence, ReadingTrue
  <2>3. QED
    BY <1>3, <2>1, <2>2 DEF Reconciling, ReconcileStart, ReconcilerStep, FetchOrder,
       ReadPending, ReadHistory, ReadFails, Decide, RecordUnknown, ReconcilerCrash,
       OnlyReconciler, proposalVars
<1>4. QED
  BY <1>1, <1>2, <1>3, StepKinds

\* An attempt gets the send flag and the outcome PENDING from its claim only.
LEMMA PendingWriters ==
  ASSUME TypeOK, [Next]_vars, NEW a \in Attempts, sent'[a], outcome'[a] = "PENDING",
         ~(sent[a] /\ outcome[a] = "PENDING")
  PROVE  status'[Owner[a]] = "EXECUTING"
<1> USE DEF TypeOK, ProposalTypes, AttemptTypes
<1>1. ~(Aside \/ Tick \/ \E b \in Attempts : Broker(b))
  BY DEF Aside, Tick, Broker, attemptVars
<1>2. ASSUME NEW r \in Reconcilers, Reconciling(r) PROVE FALSE
  BY <1>2 DEF Reconciling, ReconcileStart, ReconcilerStep, FetchOrder, ReadPending,
     ReadHistory, ReadFails, Decide, RecordFound, RecordNotPlaced, RecordUnknown,
     ReconcilerCrash, OnlyReconciler, attemptVars
<1>3. ASSUME NEW w \in Workers, Handling(w) PROVE status'[Owner[a]] = "EXECUTING"
  <2>1. ClaimAndMarkSent(w)
    BY <1>3 DEF Handling, ExecuteStart, RecoverIncomplete, Transmit, PreSendFailure,
       Answered, Unanswered, RetractUnsent, RecordSuccess, RecordRejection,
       RecordAmbiguous, RecoverSentAttempt, attemptVars
  <2>2. Owner[a] = prop[w]
    BY <2>1 DEF ClaimAndMarkSent, AttemptsOf
  <2>3. Owner[a] \in Proposals
    BY ConstantsAssumption
  <2>4. QED
    BY <2>1, <2>2, <2>3 DEF ClaimAndMarkSent, SetStatus
<1>4. QED
  BY <1>1, <1>2, <1>3, StepKinds

LEMMA PendingStep ==
  ASSUME NoRetry, TypeOK, SendInv, Evidence, PendingExecuting, [Next]_vars
  PROVE  PendingExecuting'
<1> SUFFICES ASSUME NEW a \in Attempts, sent'[a], outcome'[a] = "PENDING"
             PROVE  status'[Owner[a]] = "EXECUTING"
  BY DEF PendingExecuting
<1> DEFINE p == Owner[a]
<1>1. p \in Proposals
  BY ConstantsAssumption
<1>2. CASE sent[a] /\ outcome[a] = "PENDING"
  <2>1. status[p] = "EXECUTING"
    BY <1>2 DEF PendingExecuting
  <2>2. SUFFICES ASSUME status'[p] # status[p] PROVE status'[p] = "EXECUTING"
    BY <2>1
  <2>3. ~Aside
    BY <1>1, <2>1, <2>2 DEF Aside, InFlightStatuses
  <2>4. ASSUME NEW b \in AttemptsOf(p) PROVE b = a
    BY NoRetry DEF NoRetry, AttemptsOf
  <2>5. QED
    BY <1>1, <2>2, <2>3, <2>4, StatusWriters DEF Settles, Concludes
<1>3. QED
  BY <1>2, PendingWriters

\* An attempt whose result is still open belongs to a proposal in flight, so that
\* recover_incomplete may record it as ambiguous: whoever takes the proposal out of
\* EXECUTING gives the attempt its outcome in the same transaction.
THEOREM OpenMeansInFlight == ASSUME NoRetry PROVE Spec => []PendingIsInFlight
<1>1. Init => PendingExecuting
  BY DEF Init, PendingExecuting
<1>2. TypeOK /\ SendInv /\ Evidence /\ PendingExecuting /\ [Next]_vars
        => PendingExecuting'
  BY PendingStep, NoRetry
<1>3. PendingExecuting => PendingIsInFlight
  BY DEF PendingExecuting, PendingIsInFlight, InFlightStatuses
<1>4. QED
  BY <1>1, <1>2, <1>3, TypeCorrect, SendInvariant, EvidenceInvariant, PTL DEF Spec

LEMMA LiveStep ==
  ASSUME NoRetry, OwnListing, TypeOK, SendInv, Evidence, AbsenceInv, LiveReserved,
         [Next]_vars
  PROVE  LiveReserved'
<1> SUFFICES ASSUME NEW a \in Attempts, Live(a)'
             PROVE  status'[Owner[a]] \in InFlightStatuses \cup {"CANCELLED"}
  BY DEF LiveReserved
<1> DEFINE p == Owner[a]
<1>1. p \in Proposals /\ ConstantsAssumption
  BY ConstantsAssumption
<1>2. CASE Live(a)
  <2>1. status[p] \in InFlightStatuses \cup {"CANCELLED"}
    BY <1>2 DEF LiveReserved
  <2>2. CASE status'[p] = status[p] \/ status'[p] = "EXECUTING"
    BY <2>1, <2>2 DEF InFlightStatuses
  <2>3. CASE Aside
    BY <1>1, <2>1, <2>3 DEF Aside
  <2>4. remote[a] \notin ClosedOrder \cup {"refused"}
    BY <1>2 DEF Live, Unsettled, SendInv, HolderUntransmitted, ClosedOrder
  <2>5. ASSUME NEW b \in AttemptsOf(p) PROVE b = a
    BY NoRetry DEF NoRetry, AttemptsOf
  <2>6. ASSUME NEW w \in Workers, Settles(w, p)
        PROVE  status'[p] \in InFlightStatuses
    <3>1. att[w] = a
      BY <2>5, <2>6 DEF Settles
    <3>2. pc[w] # "retract"
      <4>1. SUFFICES ASSUME pc[w] = "retract" PROVE FALSE
        OBVIOUS
      <4>2. remote[a] = "none"
        BY <3>1, <4>1 DEF SendInv, HolderUntransmitted
      <4>3. PICK v \in Workers : pc[v] = "post" /\ att[v] = a
        BY <1>2, <4>2 DEF Live, Unsettled
      <4>4. v = w
        BY <3>1, <4>1, <4>3 DEF SendInv, HoldersDiffer, HolderSteps
      <4>5. QED
        BY <4>1, <4>3, <4>4
    <3>3. QED
      BY <2>4, <2>6, <3>1, <3>2 DEF Settles, InFlightStatuses
  <2>7. ASSUME NEW r \in Reconcilers, Concludes(r, p) PROVE FALSE
    <3>1. subject[r] = a
      BY <2>5, <2>7 DEF Concludes
    <3>2. CASE rpc[r] = "notplaced"
      BY <1>2, <3>1, <3>2 DEF AbsenceInv, SearchSound, Over, NotAnOrder, Live
    <3>3. CASE /\ order[r] \in Attempts /\ SameBook(order[r], subject[r])
               /\ remote[order[r]] \in ClosedOrder
      <4>1. Owner[order[r]] = p
        BY <1>1, <3>1, <3>3, OwnListing DEF OwnListing, SameBook, ConstantsAssumption
      <4>2. order[r] = a
        BY <2>5, <3>3, <4>1 DEF AttemptsOf
      <4>3. QED
        BY <2>4, <3>3, <4>2
    <3>4. QED
      BY <2>7, <3>2, <3>3 DEF Concludes
  <2>8. QED
    BY <1>1, <2>2, <2>3, <2>6, <2>7, StatusWriters
<1>3. CASE ~Live(a)
  <2>1. Unsettled(a)'
    BY <1>3, RemoteStep DEF Live, Unsettled, Advances, BrokerSteps
  <2>2. PICK w \in Workers : ClaimAndMarkSent(w) /\ att'[w] = a
    BY <1>3, <2>1, UnsettledStep DEF Live
  <2>3. status'[prop[w]] = "EXECUTING" /\ Owner[a] = prop[w]
    BY <1>1, <2>2 DEF ClaimAndMarkSent, AttemptsOf, SetStatus, TypeOK, ProposalTypes,
       WorkerTypes
  <2>4. QED
    BY <2>3 DEF InFlightStatuses
<1>4. QED
  BY <1>2, <1>3

\* While the broker holds a working order of a proposal, or may yet, the proposal
\* keeps its instrument and its reservation, or the operator has cancelled it: no
\* retraction, refusal or reconciliation releases it (_retract_unsent,
\* _record_ambiguous, _record).
THEOREM ReservationKept ==
  ASSUME NoRetry, OwnListing, SettleWindow PROVE Spec => []ReservationHeld
<1>1. Init => LiveReserved
  BY DEF Init, LiveReserved, Live, Unsettled
<1>2. TypeOK /\ SendInv /\ Evidence /\ AbsenceInv /\ LiveReserved /\ [Next]_vars
        => LiveReserved'
  BY LiveStep, NoRetry, OwnListing
<1>3. LiveReserved => ReservationHeld
  BY DEF LiveReserved, Live, Unsettled, ReservationHeld, ActiveStatuses
<1>4. Spec => []AbsenceInv
  BY AbsenceInvariant, OwnListing, SettleWindow
<1>5. QED
  BY <1>1, <1>2, <1>3, <1>4, TypeCorrect, SendInvariant, EvidenceInvariant, PTL
     DEF Spec

=============================================================================
