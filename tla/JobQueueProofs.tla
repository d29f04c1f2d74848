--------------------------- MODULE JobQueueProofs ---------------------------
(***************************************************************************)
(* Theorems about JobQueue, for every set of jobs and workers, every key   *)
(* assignment and every value of the timing constants.  Exclusion needs    *)
(* one relation between them: no claim is still open when the reaper takes *)
(* it, HandlerMax <= ClaimTimeout.                                         *)
(***************************************************************************)
EXTENDS JobQueue, TLAPS

-----------------------------------------------------------------------------
(* Type correctness *)

\* The empty table and idle workers are well typed.
LEMMA TypeInit == Init => TypeOK
<1> SUFFICES ASSUME Init PROVE TypeOK
  OBVIOUS
<1> USE QueueAssumption DEF Init
<1>1. RowTypes
  BY DEF RowTypes, JobStatus, LockCap
<1>2. NoRow \in Rows
  BY DEF NoRow, Rows, JobStatus
<1>3. TaskTypes
  BY <1>2 DEF TaskTypes
<1>4. QED
  BY <1>1, <1>3 DEF TypeOK

\* Releasing a worker, whichever way its task ends, keeps the workers' types.
LEMMA FreeWorkerTypes ==
  ASSUME TaskTypes, NEW w \in Workers, FreeWorker(w)
  PROVE  TaskTypes'
<1>1. NoRow \in Rows
  BY DEF NoRow, Rows, JobStatus
<1>2. QED
  BY <1>1, QueueAssumption DEF TaskTypes, FreeWorker

\* Clearing the lock columns keeps their types.
LEMMA UnlockTypes ==
  ASSUME RowTypes, NEW j, Unlock(j)
  PROVE  /\ lockedBy' \in [Jobs -> Workers \cup {None}]
         /\ lockAge' \in [Jobs -> 0..LockCap]
<1>1. lockedBy' \in [Jobs -> Workers \cup {None}]
  BY DEF RowTypes, Unlock
<1>2. 0 \in 0..LockCap
  BY QueueAssumption DEF LockCap
<1>3. lockAge' \in [Jobs -> 0..LockCap]
  BY <1>2 DEF RowTypes, Unlock
<1>4. QED
  BY <1>1, <1>3

\* Every action of the queue keeps the types.
LEMMA TypeStep == TypeOK /\ [Next]_vars => TypeOK'
<1> SUFFICES ASSUME TypeOK, [Next]_vars PROVE TypeOK'
  OBVIOUS
<1> USE QueueAssumption DEF TypeOK
<1>1. ASSUME NEW j \in Jobs, Enqueue(j) PROVE TypeOK'
  <2>1. RowTypes'
    BY <1>1 DEF Enqueue, RowTypes, JobStatus
  <2>2. TaskTypes' /\ crashes' \in 0..MaxCrashes
    BY <1>1 DEF Enqueue, TaskTypes, taskVars
  <2>3. QED
    BY <2>1, <2>2
<1>2. ASSUME NEW w \in Workers, NEW j \in Jobs, Claim(w, j) PROVE TypeOK'
  <2>1. RowTypes'
    BY <1>2 DEF Claim, RowTypes, JobStatus, LockCap
  <2>2. TaskTypes' /\ crashes' \in 0..MaxCrashes
    BY <1>2 DEF Claim, TaskTypes
  <2>3. QED
    BY <2>1, <2>2
<1>3. ASSUME NEW w \in Workers, HandlerEnds(w) PROVE TypeOK'
  <2>1. RowTypes' /\ crashes' \in 0..MaxCrashes
    BY <1>3 DEF HandlerEnds, RowTypes, rowVars
  <2>2. TaskTypes'
    BY <1>3 DEF HandlerEnds, TaskTypes
  <2>3. QED
    BY <2>1, <2>2
<1>4. ASSUME NEW w \in Workers, Complete(w) PROVE TypeOK'
  <2>1. RowTypes'
    BY <1>4, UnlockTypes DEF Complete, RowTypes, JobStatus
  <2>2. TaskTypes' /\ crashes' \in 0..MaxCrashes
    BY <1>4, FreeWorkerTypes DEF Complete
  <2>3. QED
    BY <2>1, <2>2
<1>5. ASSUME NEW w \in Workers, FailRead(w) PROVE TypeOK'
  <2>1. RowTypes' /\ crashes' \in 0..MaxCrashes
    BY <1>5 DEF FailRead, RowTypes, rowVars
  <2>2. Row(task[w]) \in Rows
    BY <1>5 DEF FailRead, TaskTypes, Row, Rows, RowTypes
  <2>3. TaskTypes'
    BY <1>5, <2>2 DEF FailRead, TaskTypes
  <2>4. QED
    BY <2>1, <2>3
<1>6. ASSUME NEW w \in Workers, FailWrite(w) PROVE TypeOK'
  <2>1. RowTypes'
    BY <1>6, UnlockTypes DEF FailWrite, Verdict, RowTypes, JobStatus
  <2>2. TaskTypes' /\ crashes' \in 0..MaxCrashes
    BY <1>6, FreeWorkerTypes DEF FailWrite
  <2>3. QED
    BY <2>1, <2>2
<1>7. ASSUME NEW w \in Workers, Crash(w) PROVE TypeOK'
  <2>1. RowTypes' /\ crashes' \in 0..MaxCrashes
    BY <1>7 DEF Crash, RowTypes, rowVars
  <2>2. TaskTypes'
    BY <1>7, FreeWorkerTypes DEF Crash
  <2>3. QED
    BY <2>1, <2>2
<1>8. ASSUME Reclaim PROVE TypeOK'
  <2>1. RowTypes'
    BY <1>8 DEF Reclaim, RowTypes, JobStatus, LockCap
  <2>2. TaskTypes' /\ crashes' \in 0..MaxCrashes
    BY <1>8 DEF Reclaim, TaskTypes, taskVars
  <2>3. QED
    BY <2>1, <2>2
<1>9. ASSUME Tick PROVE TypeOK'
  <2>1. RowTypes'
    BY <1>9 DEF Tick, RowTypes, LockCap
  <2>2. TaskTypes' /\ crashes' \in 0..MaxCrashes
    BY <1>9 DEF Tick, TaskTypes
  <2>3. QED
    BY <2>1, <2>2
<1>10. CASE UNCHANGED vars
  <2>1. RowTypes'
    BY <1>10 DEF vars, rowVars, RowTypes
  <2>2. TaskTypes' /\ crashes' \in 0..MaxCrashes
    BY <1>10 DEF vars, taskVars, TaskTypes
  <2>3. QED
    BY <2>1, <2>2
<1>11. QED
  BY <1>1, <1>2, <1>3, <1>4, <1>5, <1>6, <1>7, <1>8, <1>9, <1>10
  DEF Next, WorkerStep

\* The jobs table and the workers stay well typed in every behaviour, however
\* long handlers take and whoever dies.
THEOREM TypeCorrect == Spec => []TypeOK
  BY TypeInit, TypeStep, PTL DEF Spec

-----------------------------------------------------------------------------
(* Exclusion *)

\* A claim in progress still owns its row: the row is RUNNING, locked by that
\* worker, and as old as the claim; what fail has read of it is still true.
Owned ==
    \A w \in Workers :
        /\ phase[w] # "waiting" => /\ jstatus[task[w]] = "RUNNING"
                                   /\ lockedBy[task[w]] = w
                                   /\ lockAge[task[w]] = taskAge[w]
        /\ phase[w] = "read" => seen[w] = Row(task[w])

\* A worker that waits is on no row.
WaitingIsFree == \A w \in Workers : phase[w] = "waiting" => task[w] = None

\* A row that has not been enqueued yet has used no attempt.
UnbornIsFresh == \A j \in Jobs : jstatus[j] = "ABSENT" => attempts[j] = 0

QueueInv == TypeOK /\ Owned /\ WaitingIsFree /\ UnbornIsFresh /\ PendingHasBudget

\* While no claim outlasts the timeout, the reaper never finds the row of a
\* live claim.
LEMMA LiveClaimIsKept ==
  ASSUME HandlerMax <= ClaimTimeout, TypeOK, Owned,
         NEW w \in Workers, phase[w] # "waiting"
  PROVE  ~TimedOut(task[w])
<1>1. lockAge[task[w]] = taskAge[w]
  BY DEF Owned
<1>2. taskAge[w] <= HandlerMax /\ taskAge[w] \in Nat
  BY QueueAssumption DEF TypeOK, TaskTypes
<1>3. QED
  BY <1>1, <1>2, QueueAssumption DEF TimedOut

\* Two claims in progress are on two rows.
LEMMA ClaimsDiffer ==
  ASSUME Owned, NEW v \in Workers, NEW w \in Workers,
         phase[v] # "waiting", phase[w] # "waiting", v # w
  PROVE  task[v] # task[w]
  BY DEF Owned

\* Nothing is claimed and every row has its whole budget at the start.
LEMMA QueueInit == Init => QueueInv
<1> SUFFICES ASSUME Init PROVE QueueInv
  OBVIOUS
<1>1. TypeOK
  BY TypeInit
<1>2. Owned /\ WaitingIsFree /\ UnbornIsFresh
  BY DEF Init, Owned, WaitingIsFree, UnbornIsFresh
<1>3. PendingHasBudget
  BY QueueAssumption DEF Init, PendingHasBudget
<1>4. QED
  BY <1>1, <1>2, <1>3 DEF QueueInv

\* A claim in progress keeps its row when a step leaves the worker, its row and
\* the ages alone.
LEMMA OwnedFrame ==
  ASSUME TypeOK, Owned, NEW v \in Workers,
         phase'[v] = phase[v], task'[v] = task[v], taskAge'[v] = taskAge[v],
         seen'[v] = seen[v], attempts'[task[v]] = attempts[task[v]],
         jstatus'[task[v]] = jstatus[task[v]], lockedBy'[task[v]] = lockedBy[task[v]],
         lockAge'[task[v]] = lockAge[task[v]]
  PROVE  /\ phase'[v] # "waiting" => /\ jstatus'[task'[v]] = "RUNNING"
                                     /\ lockedBy'[task'[v]] = v
                                     /\ lockAge'[task'[v]] = taskAge'[v]
         /\ phase'[v] = "read" => seen'[v] = Row(task[v])'
<1>1. CASE phase[v] = "waiting"
  BY <1>1
<1>2. CASE phase[v] # "waiting"
  <2>1. Row(task[v])' = Row(task[v])
    BY DEF Row
  <2>2. QED
    BY <1>2, <2>1 DEF Owned
<1>3. QED
  BY <1>1, <1>2

\* One worker's part of Owned, so that each action can be handled worker by
\* worker.
OwnedBy(v) ==
    /\ phase[v] # "waiting" => /\ jstatus[task[v]] = "RUNNING"
                               /\ lockedBy[task[v]] = v
                               /\ lockAge[task[v]] = taskAge[v]
    /\ phase[v] = "read" => seen[v] = Row(task[v])

\* A step that only touches worker w and the row it is on, and leaves w
\* waiting, keeps every claim.
LEMMA ReleaseKeepsOwned ==
  ASSUME QueueInv, NEW w \in Workers, phase[w] # "waiting", FreeWorker(w),
         UNCHANGED attempts,
         \A j \in Jobs : j # task[w] => /\ jstatus'[j] = jstatus[j]
                                        /\ lockedBy'[j] = lockedBy[j]
                                        /\ lockAge'[j] = lockAge[j]
  PROVE  Owned' /\ WaitingIsFree'
<1> USE DEF QueueInv
<1>1. ASSUME NEW v \in Workers PROVE OwnedBy(v)'
  <2>1. CASE v = w
    BY <2>1 DEF FreeWorker, OwnedBy, TypeOK, TaskTypes
  <2>2. CASE v # w
    <3>1. /\ phase'[v] = phase[v] /\ task'[v] = task[v]
          /\ taskAge'[v] = taskAge[v] /\ seen'[v] = seen[v]
      BY <2>2 DEF FreeWorker, TypeOK, TaskTypes
    <3>2. CASE phase[v] = "waiting"
      BY <3>1, <3>2 DEF OwnedBy
    <3>3. CASE phase[v] # "waiting"
      <4>1. task[v] \in Jobs /\ task[v] # task[w]
        BY <2>2, <3>3, ClaimsDiffer DEF TypeOK, TaskTypes
      <4>2. QED
        BY <3>1, <4>1, OwnedFrame DEF OwnedBy
    <3>4. QED
      BY <3>2, <3>3
  <2>3. QED
    BY <2>1, <2>2
<1>2. Owned'
  BY <1>1 DEF Owned, OwnedBy
<1>3. WaitingIsFree'
  BY DEF WaitingIsFree, FreeWorker, TypeOK, TaskTypes
<1>4. QED
  BY <1>2, <1>3

\* Every action keeps the exclusion invariant when no claim outlasts the
\* timeout.
LEMMA QueueStep ==
  ASSUME HandlerMax <= ClaimTimeout, QueueInv, [Next]_vars
  PROVE  QueueInv'
<1> USE QueueAssumption DEF QueueInv
<1>0. TypeOK'
  BY TypeStep
<1>1. ASSUME NEW j \in Jobs, Enqueue(j) PROVE QueueInv'
  <2>1. ASSUME NEW v \in Workers PROVE OwnedBy(v)'
    <3>1. UNCHANGED <<phase, task, taskAge, seen, attempts, lockedBy, lockAge>>
      BY <1>1 DEF Enqueue, taskVars
    <3>2. CASE phase[v] = "waiting"
      BY <3>1, <3>2 DEF OwnedBy
    <3>3. CASE phase[v] # "waiting"
      <4>1. task[v] \in Jobs /\ jstatus[task[v]] = "RUNNING"
        BY <3>3 DEF TypeOK, TaskTypes, Owned
      <4>2. jstatus'[task[v]] = jstatus[task[v]]
        BY <1>1, <4>1 DEF Enqueue, TypeOK, RowTypes
      <4>3. QED
        BY <3>1, <4>2, OwnedFrame DEF OwnedBy
    <3>4. QED
      BY <3>2, <3>3
  <2>2. Owned'
    BY <2>1 DEF Owned, OwnedBy
  <2>3. WaitingIsFree'
    BY <1>1 DEF Enqueue, WaitingIsFree, taskVars
  <2>4. PendingHasBudget' /\ UnbornIsFresh'
    BY <1>1 DEF Enqueue, PendingHasBudget, UnbornIsFresh, TypeOK, RowTypes
  <2>5. QED
    BY <1>0, <2>2, <2>3, <2>4
<1>2. ASSUME NEW w \in Workers, NEW j \in Jobs, Claim(w, j) PROVE QueueInv'
  <2>1. jstatus[j] = "PENDING"
    BY <1>2 DEF Claim, IsNext, Claimable
  <2>2. ASSUME NEW v \in Workers PROVE OwnedBy(v)'
    <3>1. CASE v = w
      BY <1>2, <3>1 DEF Claim, OwnedBy, TypeOK, TaskTypes, RowTypes
    <3>2. CASE v # w
      <4>1. /\ phase'[v] = phase[v] /\ task'[v] = task[v]
            /\ taskAge'[v] = taskAge[v] /\ seen'[v] = seen[v]
        BY <1>2, <3>2 DEF Claim, TypeOK, TaskTypes
      <4>2. CASE phase[v] = "waiting"
        BY <4>1, <4>2 DEF OwnedBy
      <4>3. CASE phase[v] # "waiting"
        <5>1. task[v] \in Jobs /\ task[v] # j
          BY <2>1, <4>3 DEF TypeOK, TaskTypes, Owned
        <5>2. /\ attempts'[task[v]] = attempts[task[v]]
              /\ jstatus'[task[v]] = jstatus[task[v]]
              /\ lockedBy'[task[v]] = lockedBy[task[v]]
              /\ lockAge'[task[v]] = lockAge[task[v]]
          BY <1>2, <5>1 DEF Claim, TypeOK, RowTypes
        <5>3. QED
          BY <4>1, <5>2, OwnedFrame DEF OwnedBy
      <4>4. QED
        BY <4>2, <4>3
    <3>3. QED
      BY <3>1, <3>2
  <2>3. Owned'
    BY <2>2 DEF Owned, OwnedBy
  <2>4. WaitingIsFree'
    BY <1>2 DEF Claim, WaitingIsFree, TypeOK, TaskTypes
  <2>5. PendingHasBudget' /\ UnbornIsFresh'
    BY <1>2, <2>1 DEF Claim, PendingHasBudget, UnbornIsFresh, TypeOK, RowTypes
  <2>6. QED
    BY <1>0, <2>3, <2>4, <2>5
<1>3. ASSUME NEW w \in Workers, HandlerEnds(w) \/ FailRead(w) PROVE QueueInv'
  <2>1. UNCHANGED <<jstatus, attempts, lockedBy, lockAge, task, taskAge>>
    BY <1>3 DEF HandlerEnds, FailRead, rowVars
  <2>2. phase[w] # "waiting" /\ phase'[w] # "waiting"
    BY <1>3 DEF HandlerEnds, FailRead, TypeOK, TaskTypes
  <2>3. \A v \in Workers : v # w => phase'[v] = phase[v] /\ seen'[v] = seen[v]
    BY <1>3 DEF HandlerEnds, FailRead, TypeOK, TaskTypes
  <2>4. phase'[w] = "read" => seen'[w] = Row(task[w])
    BY <1>3 DEF HandlerEnds, FailRead, TypeOK, TaskTypes
  <2>5. \A j : Row(j)' = Row(j)
    BY <2>1 DEF Row
  <2>6. ASSUME NEW v \in Workers PROVE OwnedBy(v)'
    BY <2>1, <2>2, <2>3, <2>4, <2>5 DEF Owned, OwnedBy, Row
  <2>7. Owned'
    BY <2>6 DEF Owned, OwnedBy
  <2>8. WaitingIsFree'
    BY <2>1, <2>2, <2>3 DEF WaitingIsFree
  <2>9. PendingHasBudget' /\ UnbornIsFresh'
    BY <2>1 DEF PendingHasBudget, UnbornIsFresh
  <2>10. QED
    BY <1>0, <2>7, <2>8, <2>9
<1>4. ASSUME NEW w \in Workers, Complete(w) PROVE QueueInv'
  <2>1. phase[w] # "waiting" /\ FreeWorker(w) /\ UNCHANGED attempts
    BY <1>4 DEF Complete
  <2>2. \A j \in Jobs : j # task[w] => /\ jstatus'[j] = jstatus[j]
                                       /\ lockedBy'[j] = lockedBy[j]
                                       /\ lockAge'[j] = lockAge[j]
    BY <1>4 DEF Complete, Unlock, TypeOK, RowTypes
  <2>3. Owned' /\ WaitingIsFree'
    BY <2>1, <2>2, ReleaseKeepsOwned
  <2>4. PendingHasBudget' /\ UnbornIsFresh'
    BY <1>4 DEF Complete, PendingHasBudget, UnbornIsFresh, TypeOK, RowTypes
  <2>5. QED
    BY <1>0, <2>3, <2>4
<1>5. ASSUME NEW w \in Workers, FailWrite(w) PROVE QueueInv'
  <2>1. phase[w] # "waiting" /\ FreeWorker(w) /\ UNCHANGED attempts
    BY <1>5 DEF FailWrite
  <2>2. \A j \in Jobs : j # task[w] => /\ jstatus'[j] = jstatus[j]
                                       /\ lockedBy'[j] = lockedBy[j]
                                       /\ lockAge'[j] = lockAge[j]
    BY <1>5 DEF FailWrite, Unlock, TypeOK, RowTypes
  <2>3. Owned' /\ WaitingIsFree'
    BY <2>1, <2>2, ReleaseKeepsOwned
  <2>4. /\ task[w] \in Jobs
        /\ seen[w].attempts = attempts[task[w]]
        /\ seen[w].status = "RUNNING" /\ jstatus[task[w]] = "RUNNING"
    BY <1>5 DEF FailWrite, Owned, Row, TypeOK, TaskTypes
  <2>5. jstatus'[task[w]] = Verdict(seen[w])
    BY <1>5, <2>4 DEF FailWrite, Verdict, Collides, Active, TypeOK, RowTypes
  <2>6. PendingHasBudget'
    BY <2>1, <2>2, <2>4, <2>5 DEF Verdict, Retryable, PendingHasBudget
  <2>7. UnbornIsFresh'
    BY <2>1, <2>2, <2>5 DEF Verdict, UnbornIsFresh
  <2>8. QED
    BY <1>0, <2>3, <2>6, <2>7
<1>6. ASSUME NEW w \in Workers, Crash(w) PROVE QueueInv'
  <2>1. phase[w] # "waiting" /\ FreeWorker(w)
    BY <1>6 DEF Crash
  <2>2. UNCHANGED <<jstatus, attempts, lockedBy, lockAge>>
    BY <1>6 DEF Crash, rowVars
  <2>3. Owned' /\ WaitingIsFree'
    BY <2>1, <2>2, ReleaseKeepsOwned
  <2>4. PendingHasBudget' /\ UnbornIsFresh'
    BY <2>2 DEF PendingHasBudget, UnbornIsFresh
  <2>5. QED
    BY <1>0, <2>3, <2>4
<1>7. ASSUME Reclaim PROVE QueueInv'
  <2>1. UNCHANGED <<attempts, phase, task, taskAge, seen>>
    BY <1>7 DEF Reclaim, taskVars
  <2>2. ASSUME NEW v \in Workers PROVE OwnedBy(v)'
    <3>1. CASE phase[v] = "waiting"
      BY <2>1, <3>1 DEF OwnedBy
    <3>2. CASE phase[v] # "waiting"
      <4>1. task[v] \in Jobs /\ ~TimedOut(task[v])
        BY <3>2, LiveClaimIsKept DEF TypeOK, TaskTypes
      <4>2. /\ jstatus'[task[v]] = jstatus[task[v]]
            /\ lockedBy'[task[v]] = lockedBy[task[v]]
            /\ lockAge'[task[v]] = lockAge[task[v]]
        BY <1>7, <4>1 DEF Reclaim
      <4>3. QED
        BY <2>1, <4>2, OwnedFrame DEF OwnedBy
    <3>3. QED
      BY <3>1, <3>2
  <2>3. Owned'
    BY <2>2 DEF Owned, OwnedBy
  <2>4. WaitingIsFree'
    BY <2>1 DEF WaitingIsFree
  <2>5. PendingHasBudget' /\ UnbornIsFresh'
    BY <1>7, <2>1 DEF Reclaim, Retryable, PendingHasBudget, UnbornIsFresh
  <2>6. QED
    BY <1>0, <2>3, <2>4, <2>5
<1>8. ASSUME Tick PROVE QueueInv'
  <2>1. UNCHANGED <<jstatus, attempts, lockedBy, phase, task, seen>>
    BY <1>8 DEF Tick
  <2>2. ASSUME NEW v \in Workers PROVE OwnedBy(v)'
    <3>1. CASE phase[v] = "waiting"
      BY <2>1, <3>1 DEF OwnedBy
    <3>2. CASE phase[v] # "waiting"
      <4>1. /\ task[v] \in Jobs /\ lockedBy[task[v]] = v
            /\ lockAge[task[v]] = taskAge[v]
        BY <3>2 DEF Owned, TypeOK, TaskTypes
      <4>2. taskAge[v] < HandlerMax /\ taskAge[v] \in Nat
        BY <1>8, <3>2 DEF Tick, TypeOK, TaskTypes
      <4>3. lockAge'[task[v]] = lockAge[task[v]] + 1
        BY <1>8, <4>1, <4>2 DEF Tick, LockCap
      <4>4. taskAge'[v] = taskAge[v] + 1
        BY <1>8, <3>2 DEF Tick
      <4>5. Row(task[v])' = Row(task[v])
        BY <2>1 DEF Row
      <4>6. QED
        BY <2>1, <4>1, <4>3, <4>4, <4>5 DEF OwnedBy, Owned
    <3>3. QED
      BY <3>1, <3>2
  <2>3. Owned'
    BY <2>2 DEF Owned, OwnedBy
  <2>4. WaitingIsFree'
    BY <2>1 DEF WaitingIsFree
  <2>5. PendingHasBudget' /\ UnbornIsFresh'
    BY <2>1 DEF PendingHasBudget, UnbornIsFresh
  <2>6. QED
    BY <1>0, <2>3, <2>4, <2>5
<1>9. CASE UNCHANGED vars
  <2>1. UNCHANGED <<jstatus, attempts, lockedBy, lockAge, phase, task, taskAge, seen>>
    BY <1>9 DEF vars, rowVars, taskVars
  <2>2. Owned' /\ WaitingIsFree'
    BY <2>1 DEF Owned, WaitingIsFree, Row
  <2>3. PendingHasBudget' /\ UnbornIsFresh'
    BY <2>1 DEF PendingHasBudget, UnbornIsFresh
  <2>4. QED
    BY <1>0, <2>2, <2>3
<1>10. QED
  BY <1>1, <1>2, <1>3, <1>4, <1>5, <1>6, <1>7, <1>8, <1>9 DEF Next, WorkerStep

\* The exclusion invariant holds throughout when no claim outlasts the timeout.
THEOREM QueueInvariant ==
  ASSUME HandlerMax <= ClaimTimeout
  PROVE  Spec => []QueueInv
  BY QueueInit, QueueStep, PTL DEF Spec

\* While no claim outlasts the timeout, no two workers are ever on one row,
\* whatever crashes, fails, is retried or reclaimed (claim, reclaim_abandoned).
THEOREM Exclusive ==
  ASSUME HandlerMax <= ClaimTimeout
  PROVE  Spec => []OneWorkerPerJob
<1>1. QueueInv => OneWorkerPerJob
  BY ClaimsDiffer DEF QueueInv, OneWorkerPerJob, WaitingIsFree, TypeOK, TaskTypes
<1>2. QED
  BY <1>1, QueueInvariant, PTL

\* While no claim outlasts the timeout, a claimable row has attempts left and no
\* row is handed out more than max_attempts times (fail, reclaim_abandoned).
THEOREM Budget ==
  ASSUME HandlerMax <= ClaimTimeout
  PROVE  Spec => []PendingHasBudget
<1>1. QueueInv => PendingHasBudget
  BY DEF QueueInv
<1>2. QED
  BY <1>1, QueueInvariant, PTL

\* No step of an exclusive queue touches a finished row.
LEMMA FinishedStep ==
  ASSUME HandlerMax <= ClaimTimeout, QueueInv, Next,
         NEW j \in Jobs, jstatus[j] \in {"SUCCEEDED", "FAILED"}
  PROVE  jstatus'[j] = jstatus[j]
<1> USE DEF QueueInv, TypeOK, RowTypes
<1>1. ASSUME NEW i \in Jobs, Enqueue(i) PROVE jstatus'[j] = jstatus[j]
  BY <1>1 DEF Enqueue
<1>2. ASSUME NEW w \in Workers, NEW i \in Jobs, Claim(w, i)
      PROVE  jstatus'[j] = jstatus[j]
  BY <1>2 DEF Claim, IsNext, Claimable
<1>3. ASSUME NEW w \in Workers, WorkerStep(w) \/ Crash(w)
      PROVE  jstatus'[j] = jstatus[j]
  <2>1. phase[w] # "waiting" => jstatus[task[w]] = "RUNNING"
    BY DEF Owned
  <2>2. QED
    BY <1>3, <2>1 DEF WorkerStep, Crash, HandlerEnds, Complete, FailRead, FailWrite, rowVars
<1>4. ASSUME Reclaim PROVE jstatus'[j] = jstatus[j]
  BY <1>4 DEF Reclaim, TimedOut
<1>5. ASSUME Tick PROVE jstatus'[j] = jstatus[j]
  BY <1>5 DEF Tick
<1>6. QED
  BY <1>1, <1>2, <1>3, <1>4, <1>5 DEF Next

\* While no claim outlasts the timeout, a finished job stays finished: no late
\* result of an earlier claim rewrites its row (complete, fail).
THEOREM FinishedForGood ==
  ASSUME HandlerMax <= ClaimTimeout
  PROVE  Spec => FinishedStays
<1>1. QueueInv /\ [Next]_vars =>
        [\A j \in Jobs : jstatus[j] \in {"SUCCEEDED", "FAILED"} =>
                             jstatus'[j] = jstatus[j]]_vars
  BY FinishedStep
<1>2. QED
  BY <1>1, QueueInvariant, PTL DEF Spec, FinishedStays
=============================================================================
