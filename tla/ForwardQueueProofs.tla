------------------------- MODULE ForwardQueueProofs -------------------------
(***************************************************************************)
(* Proofs about ForwardQueue for every set of tasks, finite set of targets *)
(* and set of worker processes.  The last two parts show that the queue    *)
(* implements ForwardPromise: each of its steps is a step of the promise,  *)
(* or nothing the owner could tell.  Most steps of workers are of the      *)
(* second kind; that FinishTarget is one of the first rests on all that is *)
(* shown of counters, statuses and leases before.                          *)
(***************************************************************************)
EXTENDS ForwardQueue, FiniteSetTheorems, TLAPS

-----------------------------------------------------------------------------
(* Counting targets by status: what the SELECT COUNT subqueries return     *)

\* A count of targets is a natural number.
LEMMA NumberType ==
  ASSUME NEW f, NEW k, NEW S
  PROVE  /\ IsFiniteSet(TargetsOf(k))
         /\ IsFiniteSet({t \in TargetsOf(k) : f[t] \in S})
         /\ NumberIn(f, k, S) \in Nat
         /\ TargetCount(k) \in Nat
<1>1. IsFiniteSet(TargetsOf(k))
  BY QueueAssumption, FS_Subset DEF TargetsOf
<1>2. IsFiniteSet({t \in TargetsOf(k) : f[t] \in S})
  BY <1>1, FS_Subset
<1> QED
  BY <1>1, <1>2, FS_CardinalityType DEF NumberIn, TargetCount

\* Two assignments of statuses that agree on S have the same count.
LEMMA NumberSame ==
  ASSUME NEW f, NEW g, NEW k, NEW S,
         \A t \in TargetsOf(k) : f[t] \in S <=> g[t] \in S
  PROVE  NumberIn(f, k, S) = NumberIn(g, k, S)
<1>1. {t \in TargetsOf(k) : f[t] \in S} = {t \in TargetsOf(k) : g[t] \in S}
  OBVIOUS
<1> QED
  BY <1>1 DEF NumberIn

\* Moving one target into S adds one to the count.
LEMMA NumberPlus ==
  ASSUME NEW f, NEW g, NEW k, NEW S, NEW t \in TargetsOf(k),
         f[t] \notin S, g[t] \in S,
         \A u \in TargetsOf(k) \ {t} : g[u] = f[u]
  PROVE  NumberIn(g, k, S) = NumberIn(f, k, S) + 1
<1>1. {u \in TargetsOf(k) : g[u] \in S} = {u \in TargetsOf(k) : f[u] \in S} \cup {t}
  OBVIOUS
<1>2. t \notin {u \in TargetsOf(k) : f[u] \in S}
  OBVIOUS
<1>3. IsFiniteSet({u \in TargetsOf(k) : f[u] \in S})
  BY NumberType
<1> QED
  BY <1>1, <1>2, <1>3, FS_AddElement DEF NumberIn

\* The count reaches the number of targets exactly when all are in S.
LEMMA NumberAll ==
  ASSUME NEW f, NEW k, NEW S
  PROVE  /\ NumberIn(f, k, S) <= TargetCount(k)
         /\ NumberIn(f, k, S) = TargetCount(k) <=> \A t \in TargetsOf(k) : f[t] \in S
<1> DEFINE A == {t \in TargetsOf(k) : f[t] \in S}
<1>1. IsFiniteSet(TargetsOf(k)) /\ A \in SUBSET TargetsOf(k)
  BY NumberType
<1>2. /\ Cardinality(A) <= Cardinality(TargetsOf(k))
      /\ Cardinality(TargetsOf(k)) = Cardinality(A) => TargetsOf(k) = A
  BY <1>1, FS_Subset
<1>3. A = TargetsOf(k) <=> \A t \in TargetsOf(k) : f[t] \in S
  OBVIOUS
<1> QED
  BY <1>2, <1>3 DEF NumberIn, TargetCount

\* The count is zero exactly when no target is in S.
LEMMA NumberNone ==
  ASSUME NEW f, NEW k, NEW S
  PROVE  NumberIn(f, k, S) = 0 <=> \A t \in TargetsOf(k) : f[t] \notin S
<1> DEFINE A == {t \in TargetsOf(k) : f[t] \in S}
<1>1. IsFiniteSet(A)
  BY NumberType
<1>2. Cardinality(A) = 0 <=> A = {}
  BY <1>1, FS_EmptySet
<1> QED
  BY <1>2 DEF NumberIn

-----------------------------------------------------------------------------
(* Type correctness                                                        *)

\* The states the steps name are states of their type.
LEMMA StateNames ==
  /\ Outcomes = {"success", "failed", "skipped", "cancelled"}
  /\ Waiting = {"pending", "retrying"}
  /\ Runnable = {"pending", "processing"}
  /\ Ended = {"completed", "partially_completed", "failed"}
  /\ {"draft", "pending", "processing", "paused", "cancelled"} \subseteq TaskStatus
  /\ Ended \subseteq TaskStatus
  /\ {"pending", "retrying", "processing"} \subseteq TargetStatus
  /\ Outcomes \subseteq TargetStatus
  /\ {"none", "held", "send", "retry"} \subseteq Holding
  /\ Outcomes \subseteq Holding
  /\ WorkerState = {"new", "idle", "polled", "claimed", "down"}
BY DEF Outcomes, Waiting, Runnable, Ended, TaskStatus, TargetStatus, Holding,
       WorkerState

LEMMA TypeInit == Init => TypeOK
<1> SUFFICES ASSUME Init
             PROVE  TypeOK
  OBVIOUS
<1>1. "draft" \in TaskStatus /\ "pending" \in TargetStatus /\ "none" \in Holding
      /\ "new" \in WorkerState
  BY StateNames
<1>2. /\ [o \in Outcomes |-> 0] \in [Outcomes -> Nat]
      /\ [t \in Targets |-> "none"] \in [Targets -> Holding]
  BY <1>1
<1>3. /\ count \in [Tasks -> [Outcomes -> Nat]]
      /\ holding \in [Workers -> [Targets -> Holding]]
  BY <1>2 DEF Init
<1>4. /\ taskStatus \in [Tasks -> TaskStatus] /\ doneCount \in [Tasks -> Nat]
      /\ finishedAt \in [Tasks -> BOOLEAN]
  BY <1>1 DEF Init
<1>5. /\ targetStatus \in [Targets -> TargetStatus]
      /\ lockedBy \in [Targets -> Workers \cup {NoWorker}]
      /\ lockExpired \in [Targets -> BOOLEAN]
  BY <1>1 DEF Init
<1>6. queuePaused \in BOOLEAN /\ workerState \in [Workers -> WorkerState]
  BY <1>1 DEF Init
<1>7. sends \in [Targets -> 0..2]
  BY DEF Init
<1>8. excused \in [Targets -> BOOLEAN]
  BY DEF Init
<1> QED
  BY <1>3, <1>4, <1>5, <1>6, <1>7, <1>8 DEF TypeOK

\* What a batch does to the items a worker holds.
LEMMA HoldType ==
  ASSUME TypeOK, NEW w \in Workers, NEW f \in [Targets -> Holding],
         holding' = [holding EXCEPT ![w] = f]
  PROVE  holding' \in [Workers -> [Targets -> Holding]]
BY DEF TypeOK

LEMMA HoldOneType ==
  ASSUME TypeOK, NEW w \in Workers, NEW t \in Targets, NEW h \in Holding, Hold(w, t, h)
  PROVE  holding' \in [Workers -> [Targets -> Holding]]
<1>1. holding[w] \in [Targets -> Holding]
  BY DEF TypeOK
<1>2. [holding[w] EXCEPT ![t] = h] \in [Targets -> Holding]
  BY <1>1
<1>3. holding' = [holding EXCEPT ![w] = [holding[w] EXCEPT ![t] = h]]
  BY DEF Hold
<1> QED
  BY <1>2, <1>3, HoldType

LEMMA TypeNext == TypeOK /\ [Next]_vars => TypeOK'
<1> SUFFICES ASSUME TypeOK, [Next]_vars
             PROVE  TypeOK'
  OBVIOUS
<1> USE StateNames DEF tableVars, workerVars, openimVars
<1>1. ASSUME NEW k \in Tasks, Submit(k) \/ Pause(k) \/ Resume(k)
      PROVE  TypeOK'
  BY <1>1 DEF TypeOK, Submit, Pause, Resume
<1>2. ASSUME NEW k \in Tasks, Cancel(k)
      PROVE  TypeOK'
  <2>1. /\ NumberIn(targetStatus', k, {"cancelled"}) \in Nat
        /\ NumberIn(targetStatus', k, Outcomes) \in Nat
        /\ TargetCount(k) \in Nat
    BY NumberType
  <2>2. count' \in [Tasks -> [Outcomes -> Nat]] /\ doneCount' \in [Tasks -> Nat]
    BY <1>2, <2>1 DEF TypeOK, Cancel
  <2>3. finishedAt' \in [Tasks -> BOOLEAN] /\ taskStatus' \in [Tasks -> TaskStatus]
    BY <1>2, <2>1 DEF TypeOK, Cancel
  <2>4. /\ targetStatus' \in [Targets -> TargetStatus]
        /\ lockedBy' \in [Targets -> Workers \cup {NoWorker}]
        /\ lockExpired' \in [Targets -> BOOLEAN]
    BY <1>2 DEF TypeOK, Cancel
  <2> QED
    BY <1>2, <2>2, <2>3, <2>4 DEF TypeOK, Cancel
<1>3. ASSUME NEW k \in Tasks, NEW onlyFailed \in BOOLEAN,
             NEW users \in SUBSET TargetsOf(k), Retry(k, onlyFailed, users)
      PROVE  TypeOK'
  <2>1. /\ NumberIn(targetStatus', k, {"failed"}) \in Nat
        /\ NumberIn(targetStatus', k, {"skipped"}) \in Nat
        /\ NumberIn(targetStatus', k, Outcomes) \in Nat
    BY NumberType
  <2>2. count' \in [Tasks -> [Outcomes -> Nat]] /\ doneCount' \in [Tasks -> Nat]
    BY <1>3, <2>1 DEF TypeOK, Retry
  <2>3. /\ finishedAt' \in [Tasks -> BOOLEAN] /\ taskStatus' \in [Tasks -> TaskStatus]
        /\ targetStatus' \in [Targets -> TargetStatus]
    BY <1>3 DEF TypeOK, Retry
  <2> QED
    BY <1>3, <2>2, <2>3 DEF TypeOK, Retry
<1>4. CASE SetQueuePaused
  BY <1>4 DEF TypeOK, SetQueuePaused
<1>5. ASSUME NEW w \in Workers,
             Start(w) \/ Crash(w) \/ Poll(w) \/ ClaimNothing(w) \/ MarkProcessing(w)
      PROVE  TypeOK'
  <2>1. CASE Crash(w)
    <3>1. [t \in Targets |-> "none"] \in [Targets -> Holding]
      OBVIOUS
    <3>2. holding' \in [Workers -> [Targets -> Holding]]
      BY <2>1, <3>1, HoldType DEF Crash
    <3> QED
      BY <2>1, <3>2 DEF TypeOK, Crash
  <2>2. CASE ~Crash(w)
    BY <1>5, <2>2 DEF TypeOK, Start, Poll, ClaimNothing, MarkProcessing
  <2> QED
    BY <2>1, <2>2
<1>6. ASSUME NEW w \in Workers, NEW batch \in SUBSET Targets,
             Claim(w, batch) \/ ClaimUnread(w, batch)
      PROVE  TypeOK'
  <2>1. holding' \in [Workers -> [Targets -> Holding]]
    <3>1. [t \in Targets |-> IF t \in batch THEN "held" ELSE "none"]
            \in [Targets -> Holding]
      OBVIOUS
    <3>2. CASE Claim(w, batch)
      BY <3>1, <3>2, HoldType DEF Claim
    <3> QED
      BY <1>6, <3>2 DEF TypeOK, ClaimUnread
  <2>2. workerState' \in [Workers -> WorkerState]
    BY <1>6 DEF TypeOK, Claim, ClaimUnread
  <2>3. Lease(w, batch)
    BY <1>6 DEF Claim, ClaimUnread
  <2>4. /\ targetStatus' \in [Targets -> TargetStatus]
        /\ lockedBy' \in [Targets -> Workers \cup {NoWorker}]
        /\ lockExpired' \in [Targets -> BOOLEAN]
    BY <2>3 DEF TypeOK, Lease
  <2> QED
    BY <2>1, <2>2, <2>3, <2>4 DEF TypeOK, Lease
<1>7. ASSUME NEW w \in Workers, NEW t \in Targets, Decide(w, t)
      PROVE  TypeOK'
  <2>1. PICK h \in Holding : Hold(w, t, h)
    <3>1. Decisions(taskStatus[TaskOf[t]]) \subseteq Holding
      BY DEF Decisions
    <3> QED
      BY <1>7, <3>1 DEF Decide
  <2> QED
    BY <1>7, <2>1, HoldOneType DEF TypeOK, Decide
<1>8. ASSUME NEW w \in Workers, NEW t \in Targets,
             SendAccepted(w, t) \/ SendUnanswered(w, t) \/ SendRefused(w, t)
      PROVE  TypeOK'
  <2>1. PICK h \in Holding : Hold(w, t, h)
    BY <1>8 DEF SendAccepted, SendUnanswered, SendRefused
  <2>2. sends' \in [Targets -> 0..2]
    <3>1. (IF sends[t] < 2 THEN sends[t] + 1 ELSE sends[t]) \in 0..2
      BY DEF TypeOK
    <3> QED
      BY <1>8, <3>1 DEF TypeOK, SendAccepted, SendUnanswered, SendRefused
  <2>3. excused' \in [Targets -> BOOLEAN]
    BY <1>8 DEF TypeOK, SendAccepted, SendUnanswered, SendRefused
  <2> QED
    BY <1>8, <2>1, <2>2, <2>3, HoldOneType
       DEF TypeOK, SendAccepted, SendUnanswered, SendRefused
<1>9. ASSUME NEW w \in Workers, NEW t \in Targets, FinishTarget(w, t)
      PROVE  TypeOK'
  <2>1. TaskOf[t] \in Tasks /\ TargetCount(TaskOf[t]) \in Nat
    BY QueueAssumption, NumberType
  <2>2. doneCount' \in [Tasks -> Nat] /\ count' \in [Tasks -> [Outcomes -> Nat]]
    BY <1>9, <2>1 DEF TypeOK, FinishTarget
  <2>3. taskStatus' \in [Tasks -> TaskStatus] /\ finishedAt' \in [Tasks -> BOOLEAN]
    <3>1. \A done, c, total :
            Finalized(taskStatus[TaskOf[t]], done, c, total) \in TaskStatus
      BY <2>1 DEF TypeOK, Finalized
    <3>2. taskStatus' \in [Tasks -> TaskStatus]
      BY <1>9, <2>1, <3>1 DEF TypeOK, FinishTarget
    <3>3. (finishedAt[TaskOf[t]] \/ doneCount'[TaskOf[t]] >= TargetCount(TaskOf[t]))
             \in BOOLEAN
      OBVIOUS
    <3> QED
      BY <1>9, <2>1, <3>2, <3>3 DEF TypeOK, FinishTarget
  <2>4. holding' \in [Workers -> [Targets -> Holding]]
    BY <1>9, HoldOneType DEF FinishTarget
  <2> QED
    BY <1>9, <2>2, <2>3, <2>4 DEF TypeOK, FinishTarget
<1>10. ASSUME NEW w \in Workers, NEW t \in Targets,
              MarkTargetRetry(w, t) \/ Drop(w, t)
       PROVE  TypeOK'
  <2>1. holding' \in [Workers -> [Targets -> Holding]]
    BY <1>10, HoldOneType DEF MarkTargetRetry, Drop
  <2>2. CASE MarkTargetRetry(w, t)
    <3>1. /\ targetStatus' \in [Targets -> TargetStatus]
          /\ lockedBy' \in [Targets -> Workers \cup {NoWorker}]
          /\ lockExpired' \in [Targets -> BOOLEAN]
      BY <2>2 DEF TypeOK, MarkTargetRetry
    <3>2. UNCHANGED <<taskStatus, doneCount, count, finishedAt, queuePaused,
                      workerState, openimVars>>
      BY <2>2 DEF MarkTargetRetry
    <3> QED
      BY <2>1, <3>1, <3>2 DEF TypeOK
  <2>3. CASE Drop(w, t)
    <3>1. UNCHANGED <<tableVars, queuePaused, workerState, openimVars>>
      BY <2>3 DEF Drop
    <3> QED
      BY <2>1, <3>1 DEF TypeOK
  <2> QED
    BY <1>10, <2>2, <2>3
<1>11. ASSUME NEW t \in Targets, LockExpires(t)
       PROVE  TypeOK'
  BY <1>11 DEF TypeOK, LockExpires
<1>12. CASE UNCHANGED vars
  BY <1>12 DEF TypeOK, vars
<1> QED
  BY <1>1, <1>2, <1>3, <1>4, <1>5, <1>6, <1>7, <1>8, <1>9, <1>10, <1>11, <1>12
     DEF Next, UserStep, WorkerStep, TargetStep

\* Every reachable state of the queue is well typed: each row has one of its
\* declared statuses and each lock column names a worker or nobody.
THEOREM TypeCorrect == Spec => []TypeOK
BY TypeInit, TypeNext, PTL DEF Spec

-----------------------------------------------------------------------------
(* The counters                                                            *)

\* A step that moves targets only among statuses that are no outcome, and
\* writes no counter, keeps the counters exact.
LEMMA CountersKept ==
  ASSUME CountersExact, doneCount' = doneCount, count' = count,
         \A t \in Targets :
           \/ targetStatus'[t] = targetStatus[t]
           \/ targetStatus[t] \notin Outcomes /\ targetStatus'[t] \notin Outcomes
  PROVE  CountersExact'
<1> SUFFICES ASSUME NEW k \in Tasks, NEW o \in Outcomes
             PROVE  /\ doneCount'[k] = NumberIn(targetStatus', k, Outcomes)
                    /\ count'[k][o] = NumberIn(targetStatus', k, {o})
  BY StateNames DEF CountersExact
<1>1. \A t \in TargetsOf(k) :
        /\ targetStatus[t] \in Outcomes <=> targetStatus'[t] \in Outcomes
        /\ targetStatus[t] \in {o} <=> targetStatus'[t] \in {o}
  BY DEF TargetsOf
<1>2. NumberIn(targetStatus, k, Outcomes) = NumberIn(targetStatus', k, Outcomes)
  BY <1>1, NumberSame
<1>3. NumberIn(targetStatus, k, {o}) = NumberIn(targetStatus', k, {o})
  BY <1>1, NumberSame
<1> QED
  BY <1>2, <1>3 DEF CountersExact

\* A step on the targets of one task keeps the counters of the others.
LEMMA OtherCounters ==
  ASSUME CountersExact, NEW k \in Tasks, NEW j \in Tasks \ {k},
         \A t \in Targets \ TargetsOf(k) : targetStatus'[t] = targetStatus[t],
         doneCount'[j] = doneCount[j], count'[j] = count[j]
  PROVE  /\ doneCount'[j] = NumberIn(targetStatus', j, Outcomes)
         /\ \A o \in Outcomes : count'[j][o] = NumberIn(targetStatus', j, {o})
<1>1. \A t \in TargetsOf(j) : targetStatus'[t] = targetStatus[t]
  BY DEF TargetsOf
<1>2. \A S : NumberIn(targetStatus, j, S) = NumberIn(targetStatus', j, S)
  BY <1>1, NumberSame
<1> QED
  BY <1>2 DEF CountersExact

LEMMA CountersInit == Init => CountersExact
<1> SUFFICES ASSUME Init, NEW k \in Tasks, NEW o \in Outcomes
             PROVE  /\ doneCount[k] = NumberIn(targetStatus, k, Outcomes)
                    /\ count[k][o] = NumberIn(targetStatus, k, {o})
  BY StateNames DEF CountersExact
<1>1. \A t \in TargetsOf(k) : targetStatus[t] \notin Outcomes /\ targetStatus[t] \notin {o}
  BY StateNames DEF Init, TargetsOf
<1>2. NumberIn(targetStatus, k, Outcomes) = 0 /\ NumberIn(targetStatus, k, {o}) = 0
  BY <1>1, NumberNone
<1> QED
  BY <1>2 DEF Init

LEMMA CountersCancel ==
  ASSUME TypeOK, CountersExact, NEW k \in Tasks, Cancel(k)
  PROVE  CountersExact'
<1>1. \A t \in Targets :
        \/ targetStatus'[t] = targetStatus[t]
        \/ t \in TargetsOf(k) /\ targetStatus[t] \in Waiting /\ targetStatus'[t] = "cancelled"
  BY DEF Cancel
<1>2. ASSUME NEW o \in Outcomes
      PROVE  count'[k][o] = NumberIn(targetStatus', k, {o})
  <2>1. CASE o = "cancelled"
    BY <2>1 DEF Cancel, TypeOK
  <2>2. CASE o # "cancelled"
    <3>1. \A t \in TargetsOf(k) : targetStatus[t] \in {o} <=> targetStatus'[t] \in {o}
      BY <1>1, <2>2, StateNames DEF TargetsOf
    <3>2. NumberIn(targetStatus, k, {o}) = NumberIn(targetStatus', k, {o})
      BY <3>1, NumberSame
    <3>3. count'[k][o] = count[k][o]
      BY <2>2 DEF Cancel, TypeOK
    <3> QED
      BY <3>2, <3>3 DEF CountersExact
  <2> QED
    BY <2>1, <2>2
<1>3. doneCount'[k] = NumberIn(targetStatus', k, Outcomes)
  BY DEF Cancel, TypeOK
<1>4. ASSUME NEW j \in Tasks \ {k}
      PROVE  doneCount'[j] = doneCount[j] /\ count'[j] = count[j]
  BY <1>4 DEF Cancel, TypeOK
<1>5. \A t \in Targets \ TargetsOf(k) : targetStatus'[t] = targetStatus[t]
  BY <1>1
<1> QED
  BY <1>2, <1>3, <1>4, <1>5, OtherCounters DEF CountersExact

LEMMA CountersRetry ==
  ASSUME TypeOK, CountersExact, NEW k \in Tasks, NEW onlyFailed \in BOOLEAN,
         NEW users \in SUBSET TargetsOf(k), Retry(k, onlyFailed, users)
  PROVE  CountersExact'
<1>1. \A t \in Targets :
        \/ targetStatus'[t] = targetStatus[t]
        \/ /\ t \in TargetsOf(k)
           /\ targetStatus[t] \in {"failed", "skipped"} /\ targetStatus'[t] = "retrying"
  BY DEF Retry
<1>2. ASSUME NEW o \in Outcomes
      PROVE  count'[k][o] = NumberIn(targetStatus', k, {o})
  <2>1. CASE o = "failed" \/ o = "skipped"
    <3>1. count[k] \in [Outcomes -> Nat]
      BY DEF TypeOK
    <3> QED
      BY <2>1, <3>1 DEF Retry, TypeOK
  <2>2. CASE o # "failed" /\ o # "skipped"
    <3>1. \A t \in TargetsOf(k) : targetStatus[t] \in {o} <=> targetStatus'[t] \in {o}
      BY <1>1, <2>2, StateNames DEF TargetsOf
    <3>2. NumberIn(targetStatus, k, {o}) = NumberIn(targetStatus', k, {o})
      BY <3>1, NumberSame
    <3>3. count'[k][o] = count[k][o]
      BY <2>2 DEF Retry, TypeOK
    <3> QED
      BY <3>2, <3>3 DEF CountersExact
  <2> QED
    BY <2>1, <2>2
<1>3. doneCount'[k] = NumberIn(targetStatus', k, Outcomes)
  BY DEF Retry, TypeOK
<1>4. ASSUME NEW j \in Tasks \ {k}
      PROVE  doneCount'[j] = doneCount[j] /\ count'[j] = count[j]
  BY <1>4 DEF Retry, TypeOK
<1>5. \A t \in Targets \ TargetsOf(k) : targetStatus'[t] = targetStatus[t]
  BY <1>1
<1> QED
  BY <1>2, <1>3, <1>4, <1>5, OtherCounters DEF CountersExact

LEMMA CountersFinish ==
  ASSUME TypeOK, CountersExact, NEW w \in Workers, NEW t \in Targets, FinishTarget(w, t)
  PROVE  CountersExact'
<1> DEFINE k == TaskOf[t]
           h == holding[w][t]
<1>1. k \in Tasks /\ t \in TargetsOf(k) /\ h \in Outcomes
  BY QueueAssumption DEF FinishTarget, TargetsOf
<1>2. /\ targetStatus[t] = "processing" /\ targetStatus'[t] = h
      /\ \A u \in Targets \ {t} : targetStatus'[u] = targetStatus[u]
  BY DEF FinishTarget, Owns, TypeOK
<1>3. "processing" \notin Outcomes
  BY StateNames
<1>4. NumberIn(targetStatus', k, Outcomes) = NumberIn(targetStatus, k, Outcomes) + 1
  BY <1>1, <1>2, <1>3, NumberPlus DEF TargetsOf
<1>5. doneCount'[k] = NumberIn(targetStatus', k, Outcomes)
  BY <1>1, <1>4 DEF FinishTarget, TypeOK, CountersExact
<1>6. ASSUME NEW o \in Outcomes
      PROVE  count'[k][o] = NumberIn(targetStatus', k, {o})
  <2>1. count[k] \in [Outcomes -> Nat] /\ count \in [Tasks -> [Outcomes -> Nat]]
    BY <1>1 DEF TypeOK
  <2>2. count' = [count EXCEPT ![k] = [count[k] EXCEPT ![h] = count[k][h] + 1]]
    BY DEF FinishTarget
  <2>3. count'[k] = [count[k] EXCEPT ![h] = count[k][h] + 1]
    BY <1>1, <2>1, <2>2
  <2>4. CASE o = h
    <3>1. NumberIn(targetStatus', k, {o}) = NumberIn(targetStatus, k, {o}) + 1
      BY <1>1, <1>2, <1>3, <2>4, NumberPlus DEF TargetsOf
    <3>2. count'[k][o] = count[k][o] + 1
      BY <1>1, <2>1, <2>3, <2>4
    <3> QED
      BY <1>1, <3>1, <3>2 DEF CountersExact
  <2>5. CASE o # h
    <3>1. \A u \in TargetsOf(k) : targetStatus[u] \in {o} <=> targetStatus'[u] \in {o}
      BY <1>2, <1>3, <2>5 DEF TargetsOf
    <3>2. NumberIn(targetStatus, k, {o}) = NumberIn(targetStatus', k, {o})
      BY <3>1, NumberSame
    <3>3. count'[k][o] = count[k][o]
      BY <1>1, <2>1, <2>3, <2>5
    <3> QED
      BY <1>1, <3>2, <3>3 DEF CountersExact
  <2> QED
    BY <2>4, <2>5
<1>7. ASSUME NEW j \in Tasks \ {k}
      PROVE  doneCount'[j] = doneCount[j] /\ count'[j] = count[j]
  BY <1>7 DEF FinishTarget, TypeOK
<1>8. \A u \in Targets \ TargetsOf(k) : targetStatus'[u] = targetStatus[u]
  BY <1>1, <1>2
<1> QED
  BY <1>1, <1>5, <1>6, <1>7, <1>8, OtherCounters DEF CountersExact

LEMMA CountersNext == TypeOK /\ CountersExact /\ [Next]_vars => CountersExact'
<1> SUFFICES ASSUME TypeOK, CountersExact, [Next]_vars
             PROVE  CountersExact'
  OBVIOUS
<1> USE DEF tableVars, workerVars
<1>1. ASSUME NEW k \in Tasks, Submit(k) \/ Pause(k) \/ Resume(k)
      PROVE  CountersExact'
  BY <1>1, CountersKept DEF Submit, Pause, Resume
<1>2. CASE SetQueuePaused
  BY <1>2, CountersKept DEF SetQueuePaused
<1>3. ASSUME NEW w \in Workers,
             Start(w) \/ Crash(w) \/ Poll(w) \/ ClaimNothing(w) \/ MarkProcessing(w)
      PROVE  CountersExact'
  BY <1>3, CountersKept DEF Start, Crash, Poll, ClaimNothing, MarkProcessing
<1>4. ASSUME NEW w \in Workers, NEW batch \in SUBSET Targets, Lease(w, batch)
      PROVE  CountersExact'
  <2>1. \A t \in Targets : \/ targetStatus'[t] = targetStatus[t]
                           \/ targetStatus[t] \notin Outcomes /\ targetStatus'[t] \notin Outcomes
    BY <1>4, StateNames DEF Lease, Claimable
  <2> QED
    BY <1>4, <2>1, CountersKept DEF Lease
<1>5. ASSUME NEW w \in Workers, NEW t \in Targets,
             \/ Decide(w, t) \/ Drop(w, t)
             \/ SendAccepted(w, t) \/ SendUnanswered(w, t) \/ SendRefused(w, t)
      PROVE  CountersExact'
  BY <1>5, CountersKept DEF Decide, Drop, SendAccepted, SendUnanswered, SendRefused
<1>6. ASSUME NEW w \in Workers, NEW t \in Targets, MarkTargetRetry(w, t)
      PROVE  CountersExact'
  <2>1. \A u \in Targets : \/ targetStatus'[u] = targetStatus[u]
                           \/ targetStatus[u] \notin Outcomes /\ targetStatus'[u] \notin Outcomes
    BY <1>6, StateNames DEF MarkTargetRetry, Owns, TypeOK
  <2> QED
    BY <1>6, <2>1, CountersKept DEF MarkTargetRetry
<1>7. ASSUME NEW t \in Targets, LockExpires(t)
      PROVE  CountersExact'
  BY <1>7, CountersKept DEF LockExpires
<1>8. CASE UNCHANGED vars
  BY <1>8, CountersKept DEF vars
<1> QED
  BY <1>1, <1>2, <1>3, <1>4, <1>5, <1>6, <1>7, <1>8,
     CountersCancel, CountersRetry, CountersFinish
     DEF Next, UserStep, WorkerStep, TargetStep, Claim, ClaimUnread

\* The counters of a task always equal what a recount of its rows returns, for
\* any number of tasks, targets and workers.
THEOREM CountersAreExact == Spec => []CountersExact
<1>1. Init => TypeOK /\ CountersExact
  BY TypeInit, CountersInit
<1>2. TypeOK /\ CountersExact /\ [Next]_vars => (TypeOK /\ CountersExact)'
  BY TypeNext, CountersNext
<1> QED
  BY <1>1, <1>2, PTL DEF Spec

-----------------------------------------------------------------------------
(* At most one delivery while leases hold and answers arrive               *)

\* What the steps of one worker on one target do to holding.
LEMMA HoldEffect ==
  ASSUME TypeOK, NEW w \in Workers, NEW t \in Targets, NEW h, Hold(w, t, h)
  PROVE  /\ holding'[w][t] = h
         /\ \A v \in Workers, u \in Targets :
              v # w \/ u # t => holding'[v][u] = holding[v][u]
<1>1. holding \in [Workers -> [Targets -> Holding]]
  BY DEF TypeOK
<1>2. holding' = [holding EXCEPT ![w] = [holding[w] EXCEPT ![t] = h]]
  BY DEF Hold
<1> QED
  BY <1>1, <1>2

LEMMA HandledInit == Init => HandledUnderLease
BY DEF Init, HandledUnderLease

LEMMA HandledNext == TypeOK /\ HandledUnderLease /\ [Next]_vars => HandledUnderLease'
<1> SUFFICES ASSUME TypeOK, HandledUnderLease, [Next]_vars
             PROVE  HandledUnderLease'
  OBVIOUS
<1> USE DEF tableVars, workerVars, openimVars
<1>1. ASSUME NEW k \in Tasks, Submit(k) \/ Pause(k) \/ Resume(k)
      PROVE  HandledUnderLease'
  BY <1>1 DEF Submit, Pause, Resume, HandledUnderLease, Owns
<1>2. ASSUME NEW k \in Tasks, Cancel(k)
      PROVE  HandledUnderLease'
  <2>1. UNCHANGED <<holding, sends, excused>>
    BY <1>2 DEF Cancel
  <2>2. ASSUME NEW t \in Targets
        PROVE  \/ /\ targetStatus[t] \in Waiting
                  /\ targetStatus'[t] = "cancelled"
                  /\ ~lockExpired'[t]
               \/ /\ targetStatus'[t] = targetStatus[t]
                  /\ lockedBy'[t] = lockedBy[t]
                  /\ lockExpired'[t] = lockExpired[t]
    BY <1>2 DEF Cancel
  <2> QED
    BY <2>1, <2>2, StateNames DEF HandledUnderLease, Owns
<1>3. ASSUME NEW k \in Tasks, NEW onlyFailed \in BOOLEAN,
             NEW users \in SUBSET TargetsOf(k), Retry(k, onlyFailed, users)
      PROVE  HandledUnderLease'
  <2>1. UNCHANGED <<holding, sends, excused, lockedBy, lockExpired>>
    BY <1>3 DEF Retry
  <2>2. ASSUME NEW t \in Targets
        PROVE  \/ /\ targetStatus[t] \in {"failed", "skipped"}
                  /\ targetStatus'[t] = "retrying"
               \/ targetStatus'[t] = targetStatus[t]
    BY <1>3 DEF Retry
  <2> QED
    BY <2>1, <2>2 DEF HandledUnderLease, Owns
<1>4. CASE SetQueuePaused
  BY <1>4 DEF SetQueuePaused, HandledUnderLease, Owns
<1>5. ASSUME NEW w \in Workers, Crash(w)
      PROVE  HandledUnderLease'
  <2>1. \A v \in Workers, t \in Targets : holding'[v][t] \in {"none", holding[v][t]}
    BY <1>5 DEF Crash, TypeOK
  <2> QED
    BY <1>5, <2>1 DEF Crash, HandledUnderLease, Owns
<1>6. ASSUME NEW w \in Workers,
             Start(w) \/ Poll(w) \/ ClaimNothing(w) \/ MarkProcessing(w)
      PROVE  HandledUnderLease'
  BY <1>6 DEF Start, Poll, ClaimNothing, MarkProcessing, HandledUnderLease, Owns
<1>7. ASSUME NEW w \in Workers, NEW batch \in SUBSET Targets,
             Claim(w, batch) \/ ClaimUnread(w, batch)
      PROVE  HandledUnderLease'
  <2>1. Lease(w, batch)
    BY <1>7 DEF Claim, ClaimUnread
  <2>2. UNCHANGED <<sends, excused>>
    BY <2>1 DEF Lease
  <2>3. ASSUME NEW t \in batch
        PROVE  /\ targetStatus'[t] = "processing" /\ lockedBy'[t] = w /\ ~lockExpired'[t]
               /\ targetStatus[t] \in Waiting \/ lockExpired[t]
    BY <2>1 DEF Lease, Claimable
  <2>4. ASSUME NEW t \in Targets \ batch
        PROVE  /\ targetStatus'[t] = targetStatus[t] /\ lockedBy'[t] = lockedBy[t]
               /\ lockExpired'[t] = lockExpired[t]
    BY <2>1 DEF Lease
  <2>5. ASSUME NEW v \in Workers, NEW t \in Targets
        PROVE  \/ holding'[v][t] = "none"
               \/ holding'[v][t] = holding[v][t]
               \/ v = w /\ t \in batch /\ holding'[v][t] = "held"
    BY <1>7 DEF Claim, ClaimUnread, TypeOK
  <2>6. ASSUME NEW t \in batch, ~excused[t]
        PROVE  sends[t] = 0 /\ \A v \in Workers : holding[v][t] = "none"
    <3>1. targetStatus[t] \in Waiting
      BY <2>3, <2>6 DEF HandledUnderLease
    <3> QED
      BY <2>6, <3>1, StateNames DEF HandledUnderLease, Owns, TypeOK
  <2>7. ASSUME NEW t \in batch
        PROVE  /\ \A v \in Workers : /\ holding'[v][t] # "none" /\ ~excused[t] => Owns(v, t)'
                                     /\ holding'[v][t] = "success" => sends[t] > 0
                                     /\ sends[t] > 0 /\ ~excused[t] =>
                                          holding'[v][t] \in {"none", "success"}
               /\ sends[t] > 0 /\ ~excused[t] => FALSE
    BY <2>3, <2>5, <2>6, <2>7 DEF HandledUnderLease, Owns, TypeOK
  <2>8. ASSUME NEW t \in Targets \ batch, NEW v \in Workers
        PROVE  /\ holding'[v][t] # "none" /\ ~excused[t] => Owns(v, t)'
               /\ holding'[v][t] = "success" => sends[t] > 0
               /\ sends[t] > 0 /\ ~excused[t] => holding'[v][t] \in {"none", "success"}
    BY <2>4, <2>5, <2>8 DEF HandledUnderLease, Owns
  <2> QED
    BY <2>2, <2>3, <2>4, <2>7, <2>8 DEF HandledUnderLease
<1>8. ASSUME NEW w \in Workers, NEW t \in Targets, Decide(w, t)
      PROVE  HandledUnderLease'
  <2>1. PICK h \in Holding \ {"none", "success", "held"} : Hold(w, t, h)
    BY <1>8, StateNames DEF Decide, Decisions
  <2>2. holding[w][t] = "held" /\ UNCHANGED <<tableVars, openimVars>>
    BY <1>8 DEF Decide
  <2>3. /\ holding'[w][t] = h
        /\ \A v \in Workers, u \in Targets : v # w \/ u # t => holding'[v][u] = holding[v][u]
    BY <2>1, HoldEffect
  <2> QED
    BY <2>1, <2>2, <2>3 DEF HandledUnderLease, Owns
<1>9. ASSUME NEW w \in Workers, NEW t \in Targets,
             SendAccepted(w, t) \/ SendUnanswered(w, t)
      PROVE  HandledUnderLease'
  <2>1. PICK h \in {"success", "retry"} : /\ Hold(w, t, h)
                                          /\ h = "retry" => excused'[t]
    BY <1>9 DEF SendAccepted, SendUnanswered, TypeOK
  <2>2. /\ holding[w][t] = "send" /\ UNCHANGED tableVars
        /\ sends' = [sends EXCEPT ![t] = IF sends[t] < 2 THEN sends[t] + 1 ELSE sends[t]]
        /\ \A u \in Targets : excused[u] => excused'[u]
        /\ \A u \in Targets \ {t} : excused'[u] = excused[u]
    BY <1>9 DEF SendAccepted, SendUnanswered, TypeOK
  <2>3. /\ sends[t] \in 0..2 /\ sends'[t] > 0
        /\ sends[t] = 0 => sends'[t] = 1
        /\ \A u \in Targets \ {t} : sends'[u] = sends[u]
    BY <2>2 DEF TypeOK
  <2>4. /\ holding'[w][t] = h
        /\ \A v \in Workers, u \in Targets : v # w \/ u # t => holding'[v][u] = holding[v][u]
    BY <2>1, HoldEffect
  <2>5. ~excused'[t] => /\ sends[t] = 0 /\ h = "success"
                        /\ targetStatus[t] = "processing" /\ lockedBy[t] = w
                        /\ \A v \in Workers \ {w} : holding[v][t] = "none"
    BY <2>1, <2>2, <2>3 DEF HandledUnderLease, Owns
  <2>6. ASSUME NEW v \in Workers, NEW u \in Targets
        PROVE  /\ holding'[v][u] # "none" /\ ~excused'[u] => Owns(v, u)'
               /\ holding'[v][u] = "success" => sends'[u] > 0
               /\ sends'[u] > 0 /\ ~excused'[u] => holding'[v][u] \in {"none", "success"}
    BY <2>2, <2>3, <2>4, <2>5 DEF HandledUnderLease, Owns
  <2>7. ASSUME NEW u \in Targets
        PROVE  /\ lockExpired'[u] => excused'[u]
               /\ sends'[u] > 0 /\ ~excused'[u] => targetStatus'[u] \in {"processing", "success"}
               /\ sends'[u] > 1 => excused'[u]
               /\ targetStatus'[u] = "success" => sends'[u] > 0
    BY <2>2, <2>3, <2>5 DEF HandledUnderLease
  <2> QED
    BY <2>6, <2>7 DEF HandledUnderLease
<1>10. ASSUME NEW w \in Workers, NEW t \in Targets, SendRefused(w, t)
       PROVE  HandledUnderLease'
  <2>1. PICK h \in {"retry", "failed"} : Hold(w, t, h)
    BY <1>10 DEF SendRefused
  <2>2. holding[w][t] = "send" /\ UNCHANGED <<tableVars, openimVars>>
    BY <1>10 DEF SendRefused
  <2>3. /\ holding'[w][t] = h
        /\ \A v \in Workers, u \in Targets : v # w \/ u # t => holding'[v][u] = holding[v][u]
    BY <2>1, HoldEffect
  <2> QED
    BY <2>1, <2>2, <2>3 DEF HandledUnderLease, Owns
<1>11. ASSUME NEW w \in Workers, NEW t \in Targets, NEW status,
              Owns(w, t), Hold(w, t, "none"), UNCHANGED openimVars,
              targetStatus' = [targetStatus EXCEPT ![t] = status],
              lockedBy' = [lockedBy EXCEPT ![t] = NoWorker],
              lockExpired' = [lockExpired EXCEPT ![t] = FALSE],
              status = "success" => holding[w][t] = "success",
              holding[w][t] = "success" => status = "success",
              holding[w][t] # "none"
       PROVE  HandledUnderLease'
  <2>1. /\ holding'[w][t] = "none"
        /\ \A v \in Workers, u \in Targets : v # w \/ u # t => holding'[v][u] = holding[v][u]
    BY <1>11, HoldEffect
  <2>2. /\ targetStatus'[t] = status /\ ~lockExpired'[t]
        /\ \A u \in Targets \ {t} : /\ targetStatus'[u] = targetStatus[u]
                                    /\ lockedBy'[u] = lockedBy[u]
                                    /\ lockExpired'[u] = lockExpired[u]
    BY <1>11 DEF TypeOK
  <2>3. ~excused[t] => \A v \in Workers : holding'[v][t] = "none"
    BY <1>11, <2>1 DEF HandledUnderLease, Owns
  <2>4. ASSUME NEW v \in Workers, NEW u \in Targets
        PROVE  /\ holding'[v][u] # "none" /\ ~excused[u] => Owns(v, u)'
               /\ holding'[v][u] = "success" => sends[u] > 0
               /\ sends[u] > 0 /\ ~excused[u] => holding'[v][u] \in {"none", "success"}
    BY <2>1, <2>2, <2>3 DEF HandledUnderLease, Owns
  <2>5. ASSUME NEW u \in Targets
        PROVE  /\ lockExpired'[u] => excused[u]
               /\ sends[u] > 0 /\ ~excused[u] => targetStatus'[u] \in {"processing", "success"}
               /\ targetStatus'[u] = "success" => sends[u] > 0
    BY <1>11, <2>2 DEF HandledUnderLease
  <2> QED
    BY <1>11, <2>4, <2>5 DEF HandledUnderLease
<1>12. ASSUME NEW w \in Workers, NEW t \in Targets, FinishTarget(w, t)
       PROVE  HandledUnderLease'
  BY <1>11, <1>12, StateNames DEF FinishTarget
<1>13. ASSUME NEW w \in Workers, NEW t \in Targets, MarkTargetRetry(w, t)
       PROVE  HandledUnderLease'
  BY <1>11, <1>13 DEF MarkTargetRetry
<1>14. ASSUME NEW w \in Workers, NEW t \in Targets, Drop(w, t)
       PROVE  HandledUnderLease'
  <2>1. UNCHANGED <<tableVars, openimVars>>
    BY <1>14 DEF Drop
  <2>2. /\ holding'[w][t] = "none"
        /\ \A v \in Workers, u \in Targets : v # w \/ u # t => holding'[v][u] = holding[v][u]
    BY <1>14, HoldEffect DEF Drop
  <2> QED
    BY <2>1, <2>2 DEF HandledUnderLease, Owns
<1>15. ASSUME NEW t \in Targets, LockExpires(t)
       PROVE  HandledUnderLease'
  <2>1. /\ UNCHANGED <<targetStatus, lockedBy, holding, sends>>
        /\ excused'[t] /\ \A u \in Targets \ {t} : /\ excused'[u] = excused[u]
                                                   /\ lockExpired'[u] = lockExpired[u]
    BY <1>15 DEF LockExpires, TypeOK
  <2> QED
    BY <2>1 DEF HandledUnderLease, Owns
<1>16. CASE UNCHANGED vars
  BY <1>16 DEF vars, HandledUnderLease, Owns
<1> QED
  BY <1>1, <1>2, <1>3, <1>4, <1>5, <1>6, <1>7, <1>8, <1>9, <1>10, <1>12, <1>13,
     <1>14, <1>15, <1>16
     DEF Next, UserStep, WorkerStep, TargetStep

LEMMA HandledAlways == Spec => [](TypeOK /\ HandledUnderLease)
<1>1. Init => TypeOK /\ HandledUnderLease
  BY TypeInit, HandledInit
<1>2. TypeOK /\ HandledUnderLease /\ [Next]_vars => (TypeOK /\ HandledUnderLease)'
  BY TypeNext, HandledNext
<1> QED
  BY <1>1, <1>2, PTL DEF Spec

\* Until its lease runs out or an answer is lost, a target that some process
\* handles is that process's row, and an accepted one waits for nothing else.
THEOREM HandledByOwner == Spec => []HandledUnderLease
BY HandledAlways, PTL

\* However pauses, retries, crashes and workers interleave, OpenIM accepts a
\* target twice only after a lease of it ran out or an answer was lost.
THEOREM SentOnce == Spec => []SentOnceUnlessExcused
<1>1. TypeOK /\ HandledUnderLease => SentOnceUnlessExcused
  BY DEF HandledUnderLease, SentOnceUnlessExcused
<1> QED
  BY <1>1, HandledAlways, PTL

\* Two processes handle the same row only after a lease of it ran out.
THEOREM OneWorker == Spec => []OneWorkerPerLease
<1>1. TypeOK /\ HandledUnderLease => OneWorkerPerLease
  BY DEF HandledUnderLease, OneWorkerPerLease, Owns
<1> QED
  BY <1>1, HandledAlways, PTL

\* No target is reported as sent that OpenIM did not accept.
THEOREM SuccessIsDelivery == Spec => []SuccessWasDelivered
<1>1. TypeOK /\ HandledUnderLease => SuccessWasDelivered
  BY DEF HandledUnderLease, SuccessWasDelivered
<1> QED
  BY <1>1, HandledAlways, PTL

-----------------------------------------------------------------------------
(* The status of a task tells the truth about its targets                  *)

LEMMA OwnerInit == Init => OwnerDecides
BY QueueAssumption DEF Init, OwnerDecides

LEMMA OwnerNext == TypeOK /\ OwnerDecides /\ [Next]_vars => OwnerDecides'
<1> SUFFICES ASSUME TypeOK, OwnerDecides, [Next]_vars, NEW u \in Targets
             PROVE  /\ taskStatus'[TaskOf[u]] = "draft" => targetStatus'[u] = "pending"
                    /\ taskStatus'[TaskOf[u]] # "cancelled" =>
                         /\ targetStatus'[u] # "cancelled"
                         /\ \A v \in Workers : holding'[v][u] # "cancelled"
  BY DEF OwnerDecides
<1> DEFINE Kept ==
      /\ taskStatus'[TaskOf[u]] = "draft" => targetStatus'[u] = "pending"
      /\ taskStatus'[TaskOf[u]] # "cancelled" =>
           /\ targetStatus'[u] # "cancelled"
           /\ \A v \in Workers : holding'[v][u] # "cancelled"
<1>0. /\ TaskOf[u] \in Tasks
      /\ taskStatus[TaskOf[u]] = "draft" => targetStatus[u] = "pending"
      /\ taskStatus[TaskOf[u]] # "cancelled" =>
           /\ targetStatus[u] # "cancelled"
           /\ \A v \in Workers : holding[v][u] # "cancelled"
  BY QueueAssumption DEF OwnerDecides
<1> USE StateNames DEF tableVars, workerVars, openimVars
<1>1. ASSUME NEW k \in Tasks, Submit(k) \/ Pause(k) \/ Resume(k)
      PROVE  Kept
  BY <1>0, <1>1 DEF Submit, Pause, Resume, TypeOK
<1>2. ASSUME NEW k \in Tasks, Cancel(k)
      PROVE  Kept
  BY <1>0, <1>2 DEF Cancel, TypeOK, TargetsOf
<1>3. ASSUME NEW k \in Tasks, NEW onlyFailed \in BOOLEAN,
             NEW users \in SUBSET TargetsOf(k), Retry(k, onlyFailed, users)
      PROVE  Kept
  BY <1>0, <1>3 DEF Retry, TypeOK, TargetsOf
<1>4. CASE SetQueuePaused
  BY <1>0, <1>4 DEF SetQueuePaused
<1>5. ASSUME NEW w \in Workers, Crash(w)
      PROVE  Kept
  <2>1. \A v \in Workers : holding'[v][u] \in {"none", holding[v][u]}
    BY <1>5 DEF Crash, TypeOK
  <2> QED
    BY <1>0, <1>5, <2>1 DEF Crash
<1>6. ASSUME NEW w \in Workers,
             Start(w) \/ Poll(w) \/ ClaimNothing(w) \/ MarkProcessing(w)
      PROVE  Kept
  BY <1>0, <1>6 DEF Start, Poll, ClaimNothing, MarkProcessing, TypeOK
<1>7. ASSUME NEW w \in Workers, NEW batch \in SUBSET Targets,
             Claim(w, batch) \/ ClaimUnread(w, batch)
      PROVE  Kept
  <2>1. \A v \in Workers : holding'[v][u] \in {"none", "held", holding[v][u]}
    BY <1>7 DEF Claim, ClaimUnread, TypeOK
  <2>2. Lease(w, batch)
    BY <1>7 DEF Claim, ClaimUnread
  <2>3. taskStatus' = taskStatus
    BY <2>2 DEF Lease
  <2>4. \/ targetStatus'[u] = targetStatus[u]
        \/ /\ taskStatus[TaskOf[u]] \in Runnable
           /\ targetStatus'[u] = "processing"
    BY <2>2 DEF Lease, Claimable
  <2> QED
    BY <1>0, <2>1, <2>3, <2>4
<1>8. ASSUME NEW w \in Workers, NEW t \in Targets, Decide(w, t)
      PROVE  Kept
  <2>1. PICK h : /\ Hold(w, t, h)
                 /\ h = "cancelled" => taskStatus[TaskOf[t]] = "cancelled"
    BY <1>8 DEF Decide, Decisions
  <2>2. /\ holding'[w][t] = h
        /\ \A v \in Workers : v # w \/ u # t => holding'[v][u] = holding[v][u]
    BY <2>1, HoldEffect
  <2> QED
    BY <1>0, <1>8, <2>1, <2>2 DEF Decide
<1>9. ASSUME NEW w \in Workers, NEW t \in Targets,
             \/ SendAccepted(w, t) \/ SendUnanswered(w, t) \/ SendRefused(w, t)
             \/ Drop(w, t)
      PROVE  Kept
  <2>1. PICK h : Hold(w, t, h) /\ h # "cancelled"
    BY <1>9 DEF SendAccepted, SendUnanswered, SendRefused, Drop
  <2>2. /\ holding'[w][t] = h
        /\ \A v \in Workers : v # w \/ u # t => holding'[v][u] = holding[v][u]
    BY <2>1, HoldEffect
  <2>3. UNCHANGED tableVars
    BY <1>9 DEF SendAccepted, SendUnanswered, SendRefused, Drop
  <2> QED
    BY <1>0, <2>1, <2>2, <2>3
<1>10. ASSUME NEW w \in Workers, NEW t \in Targets,
              FinishTarget(w, t) \/ MarkTargetRetry(w, t)
       PROVE  Kept
  <2>1. /\ holding'[w][t] = "none"
        /\ \A v \in Workers : v # w \/ u # t => holding'[v][u] = holding[v][u]
    BY <1>10, HoldEffect DEF FinishTarget, MarkTargetRetry
  <2>2. /\ targetStatus[t] = "processing" /\ targetStatus'[t] # "pending"
        /\ targetStatus'[t] \in {holding[w][t], "retrying"}
        /\ u # t => targetStatus'[u] = targetStatus[u]
    BY <1>10 DEF FinishTarget, MarkTargetRetry, Owns, TypeOK
  <2>3. taskStatus'[TaskOf[u]] = "draft" => taskStatus[TaskOf[u]] = "draft"
    BY <1>0, <1>10 DEF FinishTarget, MarkTargetRetry, Finalized, TypeOK
  <2>4. taskStatus[TaskOf[u]] = "cancelled" => taskStatus'[TaskOf[u]] = "cancelled"
    BY <1>0, <1>10 DEF FinishTarget, MarkTargetRetry, Finalized, TypeOK
  <2> QED
    BY <1>0, <2>1, <2>2, <2>3, <2>4
<1>11. ASSUME NEW t \in Targets, LockExpires(t)
       PROVE  Kept
  BY <1>0, <1>11 DEF LockExpires
<1>12. CASE UNCHANGED vars
  BY <1>0, <1>12 DEF vars
<1> QED
  BY <1>1, <1>2, <1>3, <1>4, <1>5, <1>6, <1>7, <1>8, <1>9, <1>10, <1>11, <1>12
     DEF Next, UserStep, WorkerStep, TargetStep

\* No worker touches a draft, and none cancels a target of a task its owner
\* did not cancel.
THEOREM OwnerHasDecided == Spec => []OwnerDecides
<1>1. Init => TypeOK /\ OwnerDecides
  BY TypeInit, OwnerInit
<1>2. TypeOK /\ OwnerDecides /\ [Next]_vars => (TypeOK /\ OwnerDecides)'
  BY TypeNext, OwnerNext
<1> QED
  BY <1>1, <1>2, PTL DEF Spec

\* StatusReportsTargets for one task, target by target.
Truthful(k) ==
  /\ taskStatus[k] \in Ended =>
       \A t \in TargetsOf(k) : targetStatus[t] \in {"success", "failed", "skipped"}
  /\ taskStatus[k] = "completed" =>
       /\ \A t \in TargetsOf(k) : targetStatus[t] = "success"
       /\ \E t \in TargetsOf(k) : TRUE
  /\ taskStatus[k] = "failed" => \A t \in TargetsOf(k) : targetStatus[t] # "success"
  /\ taskStatus[k] = "partially_completed" =>
       /\ \E t \in TargetsOf(k) : targetStatus[t] = "success"
       /\ \E t \in TargetsOf(k) : targetStatus[t] # "success"
  /\ taskStatus[k] \in Runnable \cup {"paused"} =>
       \E t \in TargetsOf(k) : targetStatus[t] \notin Outcomes
  /\ taskStatus[k] # "draft" =>
       (finishedAt[k] <=> \A t \in TargetsOf(k) : targetStatus[t] \in Outcomes)

LEMMA TruthMeaning ==
  (\A k \in Tasks : Truthful(k)) => StatusReportsTargets
<1> SUFFICES ASSUME \A k \in Tasks : Truthful(k), NEW k \in Tasks
             PROVE  LET outcomes == {targetStatus[t] : t \in TargetsOf(k)} IN
    /\ taskStatus[k] \in Ended => outcomes \subseteq {"success", "failed", "skipped"}
    /\ taskStatus[k] = "completed" => outcomes = {"success"}
    /\ taskStatus[k] = "failed" => "success" \notin outcomes
    /\ taskStatus[k] = "partially_completed" =>
         "success" \in outcomes /\ outcomes # {"success"}
    /\ taskStatus[k] \in Runnable \cup {"paused"} => ~(outcomes \subseteq Outcomes)
    /\ taskStatus[k] # "draft" => (finishedAt[k] <=> outcomes \subseteq Outcomes)
  BY DEF StatusReportsTargets
<1> DEFINE outcomes == {targetStatus[t] : t \in TargetsOf(k)}
<1>1. Truthful(k)
  OBVIOUS
<1>2. \A S : outcomes \subseteq S <=> \A t \in TargetsOf(k) : targetStatus[t] \in S
  OBVIOUS
<1>3. \A s : s \in outcomes <=> \E t \in TargetsOf(k) : targetStatus[t] = s
  OBVIOUS
<1>4. taskStatus[k] \in Ended => outcomes \subseteq {"success", "failed", "skipped"}
  BY <1>1, <1>2 DEF Truthful
<1>5. taskStatus[k] = "completed" => outcomes = {"success"}
  BY <1>1 DEF Truthful
<1>6. taskStatus[k] = "failed" => "success" \notin outcomes
  BY <1>1 DEF Truthful
<1>7. taskStatus[k] = "partially_completed" =>
        "success" \in outcomes /\ outcomes # {"success"}
  BY <1>1, <1>3 DEF Truthful
<1>8. taskStatus[k] \in Runnable \cup {"paused"} => ~(outcomes \subseteq Outcomes)
  BY <1>1, <1>2 DEF Truthful
<1>9. taskStatus[k] # "draft" => (finishedAt[k] <=> outcomes \subseteq Outcomes)
  BY <1>1, <1>2 DEF Truthful
<1> QED
  BY <1>4, <1>5, <1>6, <1>7, <1>8, <1>9

\* A step that leaves the kind of a task's status alone and moves its targets
\* only among statuses that are no outcome keeps the task truthful.
LEMMA TruthKept ==
  ASSUME NEW k \in Tasks, Truthful(k),
         \/ taskStatus'[k] = taskStatus[k]
         \/ {taskStatus[k], taskStatus'[k]} \subseteq Runnable \cup {"paused"},
         finishedAt'[k] = finishedAt[k],
         \A t \in TargetsOf(k) :
           \/ targetStatus'[t] = targetStatus[t]
           \/ targetStatus[t] \notin Outcomes /\ targetStatus'[t] \notin Outcomes
  PROVE  Truthful(k)'
<1>1. \A t \in TargetsOf(k) : targetStatus'[t] \in Outcomes <=> targetStatus[t] \in Outcomes
  OBVIOUS
<1>2. CASE taskStatus[k] \in Ended
  <2>1. taskStatus'[k] = taskStatus[k]
    BY <1>2, StateNames
  <2>2. \A t \in TargetsOf(k) : targetStatus'[t] = targetStatus[t]
    BY <1>2, StateNames DEF Truthful
  <2> QED
    BY <1>2, <2>1, <2>2 DEF Truthful
<1>3. CASE taskStatus[k] \notin Ended
  <2>1. taskStatus'[k] \notin Ended
    BY <1>3, StateNames
  <2> QED
    BY <1>1, <1>3, <2>1, StateNames DEF Truthful
<1> QED
  BY <1>2, <1>3

\* The test done_count >= target_count of the code, on exact counters.
LEMMA DoneMeaning ==
  ASSUME NEW f, NEW k, NEW S
  PROVE  NumberIn(f, k, S) >= TargetCount(k) <=> \A t \in TargetsOf(k) : f[t] \in S
<1>1. NumberIn(f, k, S) \in Nat /\ TargetCount(k) \in Nat
  BY NumberType
<1>2. NumberIn(f, k, S) <= TargetCount(k)
  BY NumberAll
<1>3. NumberIn(f, k, S) = TargetCount(k) <=> \A t \in TargetsOf(k) : f[t] \in S
  BY NumberAll
<1>4. NumberIn(f, k, S) >= TargetCount(k) <=> NumberIn(f, k, S) = TargetCount(k)
  BY <1>1, <1>2
<1> QED
  BY <1>3, <1>4

LEMMA TruthInit == Init => \A k \in Tasks : Truthful(k)
BY StateNames DEF Init, Truthful

LEMMA TruthSubmit ==
  ASSUME TypeOK, OwnerDecides, NEW k \in Tasks, Submit(k), Truthful(k)
  PROVE  Truthful(k)'
<1>1. taskStatus'[k] = "pending" /\ finishedAt'[k] = FALSE /\ targetStatus' = targetStatus
  BY DEF Submit, TypeOK
<1>2. \A t \in TargetsOf(k) : targetStatus[t] = "pending"
  BY DEF Submit, OwnerDecides, TargetsOf
<1>3. PICK t \in TargetsOf(k) : TRUE
  <2>1. SUFFICES ASSUME TargetsOf(k) = {} PROVE FALSE
    OBVIOUS
  <2> QED
    BY <2>1, FS_EmptySet DEF Submit, TargetCount
<1> QED
  BY <1>1, <1>2, <1>3, StateNames DEF Truthful

LEMMA TruthCancel ==
  ASSUME TypeOK, NEW k \in Tasks, Cancel(k)
  PROVE  Truthful(k)'
<1>1. taskStatus'[k] = "cancelled"
  BY DEF Cancel, TypeOK
<1>2. finishedAt'[k] <=> NumberIn(targetStatus', k, Outcomes) >= TargetCount(k)
  BY DEF Cancel, TypeOK
<1>3. finishedAt'[k] <=> \A t \in TargetsOf(k) : targetStatus'[t] \in Outcomes
  BY <1>2, DoneMeaning
<1> QED
  BY <1>1, <1>3, StateNames DEF Truthful

LEMMA TruthRetry ==
  ASSUME TypeOK, NEW k \in Tasks, NEW onlyFailed \in BOOLEAN,
         NEW users \in SUBSET TargetsOf(k), Retry(k, onlyFailed, users)
  PROVE  Truthful(k)'
<1>1. taskStatus'[k] = "pending" /\ finishedAt'[k] = FALSE
  BY DEF Retry, TypeOK
<1>2. PICK t \in TargetsOf(k) : targetStatus'[t] = "retrying"
  BY DEF Retry, TargetsOf
<1> QED
  BY <1>1, <1>2, StateNames DEF Truthful

LEMMA TruthFinish ==
  ASSUME TypeOK, CountersExact', OwnerDecides, OwnerDecides', NEW w \in Workers,
         NEW t \in Targets, FinishTarget(w, t), Truthful(TaskOf[t])
  PROVE  Truthful(TaskOf[t])'
<1> DEFINE k == TaskOf[t]
           done == doneCount'[k]
           c == count'[k]
<1>1. k \in Tasks /\ t \in TargetsOf(k) /\ targetStatus[t] \notin Outcomes
  BY QueueAssumption, StateNames DEF TargetsOf, FinishTarget, Owns
<1>2. /\ taskStatus'[k] = Finalized(taskStatus[k], done, c, TargetCount(k))
      /\ finishedAt'[k] <=> (finishedAt[k] \/ done >= TargetCount(k))
  BY <1>1 DEF FinishTarget, TypeOK
<1>3. done >= TargetCount(k) <=> \A u \in TargetsOf(k) : targetStatus'[u] \in Outcomes
  <2>1. done = NumberIn(targetStatus', k, Outcomes)
    BY <1>1 DEF CountersExact
  <2> QED
    BY <2>1, DoneMeaning
<1>4. taskStatus[k] # "draft" /\ ~finishedAt[k] /\ taskStatus[k] \notin Ended
  BY <1>1, StateNames DEF Truthful, OwnerDecides, FinishTarget, Owns, TypeOK
<1>5. ASSUME NEW o \in Outcomes
      PROVE  c[o] = 0 <=> \A u \in TargetsOf(k) : targetStatus'[u] # o
  <2>1. c[o] = NumberIn(targetStatus', k, {o})
    BY <1>1 DEF CountersExact
  <2> QED
    BY <2>1, NumberNone
<1>6. done \in Nat /\ TargetCount(k) \in Nat
  <2>1. done = NumberIn(targetStatus', k, Outcomes)
    BY <1>1 DEF CountersExact
  <2> QED
    BY <2>1, NumberType
<1>7. CASE taskStatus[k] = "cancelled"
  BY <1>2, <1>3, <1>4, <1>7, StateNames DEF Finalized, Truthful
<1>8. CASE taskStatus[k] # "cancelled" /\ done < TargetCount(k)
  <2>1. taskStatus'[k] = taskStatus[k]
    BY <1>2, <1>8 DEF Finalized
  <2>2. ~finishedAt'[k] /\ \E u \in TargetsOf(k) : targetStatus'[u] \notin Outcomes
    BY <1>2, <1>3, <1>4, <1>6, <1>8
  <2> QED
    BY <1>4, <2>1, <2>2, StateNames DEF Truthful
<1>9. CASE taskStatus[k] # "cancelled" /\ ~(done < TargetCount(k))
  <2>1. taskStatus'[k] = IF c["failed"] = 0 /\ c["skipped"] = 0 THEN "completed"
                         ELSE IF c["success"] = 0 THEN "failed"
                         ELSE "partially_completed"
    BY <1>2, <1>9 DEF Finalized
  <2>2. finishedAt'[k] /\ \A u \in TargetsOf(k) : targetStatus'[u] \in Outcomes
    BY <1>2, <1>3, <1>6, <1>9
  <2>3. \A u \in TargetsOf(k) : targetStatus'[u] \in {"success", "failed", "skipped"}
    <3>1. taskStatus'[k] # "cancelled"
      BY <2>1
    <3> QED
      BY <2>2, <3>1, StateNames DEF OwnerDecides, TargetsOf
  <2>4. /\ c["failed"] = 0 <=> \A u \in TargetsOf(k) : targetStatus'[u] # "failed"
        /\ c["skipped"] = 0 <=> \A u \in TargetsOf(k) : targetStatus'[u] # "skipped"
        /\ c["success"] = 0 <=> \A u \in TargetsOf(k) : targetStatus'[u] # "success"
    BY <1>5, StateNames
  <2>5. taskStatus'[k] \notin Runnable \cup {"paused"}
    BY <2>1, StateNames
  <2>6. taskStatus'[k] = "completed" =>
          \A u \in TargetsOf(k) : targetStatus'[u] = "success"
    BY <2>1, <2>3, <2>4
  <2>7. taskStatus'[k] = "failed" =>
          \A u \in TargetsOf(k) : targetStatus'[u] # "success"
    BY <2>1, <2>4
  <2>8. taskStatus'[k] = "partially_completed" =>
          /\ \E u \in TargetsOf(k) : targetStatus'[u] = "success"
          /\ \E u \in TargetsOf(k) : targetStatus'[u] # "success"
    BY <2>1, <2>4
  <2> QED
    BY <1>1, <2>2, <2>3, <2>5, <2>6, <2>7, <2>8 DEF Truthful
<1> QED
  BY <1>7, <1>8, <1>9

LEMMA TruthNext ==
  ASSUME TypeOK, TypeOK', CountersExact, CountersExact', OwnerDecides, OwnerDecides',
         \A k \in Tasks : Truthful(k), [Next]_vars
  PROVE  \A k \in Tasks : Truthful(k)'
<1> TAKE j \in Tasks
<1>0. Truthful(j) /\ TargetsOf(j) \subseteq Targets
  BY DEF TargetsOf
<1> USE StateNames DEF tableVars, workerVars, openimVars
<1>1. ASSUME NEW k \in Tasks, Submit(k)
      PROVE  Truthful(j)'
  <2>1. CASE j # k
    BY <1>0, <1>1, <2>1, TruthKept DEF Submit, TypeOK
  <2> QED
    BY <1>1, <2>1, TruthSubmit
<1>2. ASSUME NEW k \in Tasks, Pause(k) \/ Resume(k)
      PROVE  Truthful(j)'
  BY <1>0, <1>2, TruthKept DEF Pause, Resume, TypeOK
<1>3. ASSUME NEW k \in Tasks, Cancel(k)
      PROVE  Truthful(j)'
  <2>1. CASE j # k
    <3>1. \A t \in TargetsOf(j) : targetStatus'[t] = targetStatus[t]
      BY <1>3, <2>1 DEF Cancel, TargetsOf
    <3>2. taskStatus'[j] = taskStatus[j] /\ finishedAt'[j] = finishedAt[j]
      BY <1>3, <2>1 DEF Cancel, TypeOK
    <3> QED
      BY <1>0, <3>1, <3>2, TruthKept
  <2> QED
    BY <1>3, <2>1, TruthCancel
<1>4. ASSUME NEW k \in Tasks, NEW onlyFailed \in BOOLEAN,
             NEW users \in SUBSET TargetsOf(k), Retry(k, onlyFailed, users)
      PROVE  Truthful(j)'
  <2>1. CASE j # k
    <3>1. \A t \in TargetsOf(j) : targetStatus'[t] = targetStatus[t]
      BY <1>4, <2>1 DEF Retry, TargetsOf
    <3>2. taskStatus'[j] = taskStatus[j] /\ finishedAt'[j] = finishedAt[j]
      BY <1>4, <2>1 DEF Retry, TypeOK
    <3> QED
      BY <1>0, <3>1, <3>2, TruthKept
  <2> QED
    BY <1>4, <2>1, TruthRetry
<1>5. CASE SetQueuePaused
  BY <1>0, <1>5, TruthKept DEF SetQueuePaused
<1>6. ASSUME NEW w \in Workers, Start(w) \/ Crash(w) \/ Poll(w) \/ ClaimNothing(w)
      PROVE  Truthful(j)'
  BY <1>0, <1>6, TruthKept DEF Start, Crash, Poll, ClaimNothing
<1>7. ASSUME NEW w \in Workers, MarkProcessing(w)
      PROVE  Truthful(j)'
  <2>1. \/ taskStatus'[j] = taskStatus[j]
        \/ taskStatus[j] = "pending" /\ taskStatus'[j] = "processing"
    BY <1>7 DEF MarkProcessing
  <2> QED
    BY <1>0, <1>7, <2>1, TruthKept DEF MarkProcessing
<1>8. ASSUME NEW w \in Workers, NEW batch \in SUBSET Targets, Lease(w, batch)
      PROVE  Truthful(j)'
  <2>1. \A t \in Targets : \/ targetStatus'[t] = targetStatus[t]
                           \/ targetStatus[t] \notin Outcomes /\ targetStatus'[t] \notin Outcomes
    BY <1>8 DEF Lease, Claimable
  <2> QED
    BY <1>0, <1>8, <2>1, TruthKept DEF Lease
<1>9. ASSUME NEW w \in Workers, NEW t \in Targets,
             \/ Decide(w, t) \/ Drop(w, t)
             \/ SendAccepted(w, t) \/ SendUnanswered(w, t) \/ SendRefused(w, t)
      PROVE  Truthful(j)'
  BY <1>0, <1>9, TruthKept DEF Decide, Drop, SendAccepted, SendUnanswered, SendRefused
<1>10. ASSUME NEW w \in Workers, NEW t \in Targets, MarkTargetRetry(w, t)
       PROVE  Truthful(j)'
  <2>1. \A u \in Targets : \/ targetStatus'[u] = targetStatus[u]
                           \/ targetStatus[u] \notin Outcomes /\ targetStatus'[u] \notin Outcomes
    BY <1>10 DEF MarkTargetRetry, Owns, TypeOK
  <2> QED
    BY <1>0, <1>10, <2>1, TruthKept DEF MarkTargetRetry
<1>11. ASSUME NEW w \in Workers, NEW t \in Targets, FinishTarget(w, t)
       PROVE  Truthful(j)'
  <2>1. CASE j # TaskOf[t]
    <3>1. \A u \in TargetsOf(j) : targetStatus'[u] = targetStatus[u]
      BY <1>11, <2>1 DEF FinishTarget, TargetsOf, TypeOK
    <3>2. taskStatus'[j] = taskStatus[j] /\ finishedAt'[j] = finishedAt[j]
      BY <1>11, <2>1 DEF FinishTarget, TypeOK
    <3> QED
      BY <1>0, <3>1, <3>2, TruthKept
  <2>2. CASE j = TaskOf[t]
    BY <1>0, <1>11, <2>2, TruthFinish
  <2> QED
    BY <2>1, <2>2
<1>12. ASSUME NEW t \in Targets, LockExpires(t)
       PROVE  Truthful(j)'
  BY <1>0, <1>12, TruthKept DEF LockExpires
<1>13. CASE UNCHANGED vars
  BY <1>0, <1>13, TruthKept DEF vars
<1> QED
  BY <1>1, <1>2, <1>3, <1>4, <1>5, <1>6, <1>7, <1>8, <1>9, <1>10, <1>11, <1>12, <1>13
     DEF Next, UserStep, WorkerStep, TargetStep, Claim, ClaimUnread

\* A task is reported as ended exactly when its last target has an outcome,
\* and as the kind of end its targets add up to, for any number of them.
THEOREM StatusIsTrue == Spec => []StatusReportsTargets
<1> DEFINE Inv == TypeOK /\ CountersExact /\ OwnerDecides /\ \A k \in Tasks : Truthful(k)
<1>1. Init => Inv
  BY TypeInit, CountersInit, OwnerInit, TruthInit
<1>2. Inv /\ [Next]_vars => Inv'
  <2> SUFFICES ASSUME Inv, [Next]_vars PROVE Inv'
    OBVIOUS
  <2>1. TypeOK' /\ CountersExact' /\ OwnerDecides'
    BY TypeNext, CountersNext, OwnerNext
  <2>2. \A k \in Tasks : Truthful(k)'
    BY <2>1, TruthNext
  <2> QED
    BY <2>1, <2>2
<1>3. Inv => StatusReportsTargets
  BY TruthMeaning
<1> QED
  BY <1>1, <1>2, <1>3, PTL DEF Spec

-----------------------------------------------------------------------------
(* What a step may never do                                                *)

\* Whatever a late worker, a crash or a concurrent request does, a sent or a
\* cancelled target stays so and a failed one changes only by a manual retry.
THEOREM OutcomeStands == Spec => OutcomesStand
<1> DEFINE Stands(t) ==
      targetStatus[t] \in Outcomes /\ targetStatus'[t] # targetStatus[t] =>
        /\ targetStatus[t] \in {"failed", "skipped"}
        /\ targetStatus'[t] = "retrying"
        /\ taskStatus[TaskOf[t]] \in Ended
<1>1. ASSUME TypeOK, [Next]_vars, NEW t \in Targets
      PROVE  Stands(t)
  <2> USE StateNames DEF tableVars
  <2>1. ASSUME NEW k \in Tasks, Cancel(k)
        PROVE  Stands(t)
    BY <2>1 DEF Cancel
  <2>2. ASSUME NEW k \in Tasks, NEW onlyFailed \in BOOLEAN,
               NEW users \in SUBSET TargetsOf(k), Retry(k, onlyFailed, users)
        PROVE  Stands(t)
    BY <2>2 DEF Retry, TargetsOf
  <2>3. ASSUME NEW w \in Workers, NEW batch \in SUBSET Targets, Lease(w, batch)
        PROVE  Stands(t)
    BY <2>3 DEF Lease, Claimable
  <2>4. ASSUME NEW w \in Workers, NEW u \in Targets,
               FinishTarget(w, u) \/ MarkTargetRetry(w, u)
        PROVE  Stands(t)
    BY <1>1, <2>4 DEF FinishTarget, MarkTargetRetry, Owns, TypeOK
  <2>5. CASE UNCHANGED targetStatus
    BY <2>5
  <2> QED
    BY <1>1, <2>1, <2>2, <2>3, <2>4, <2>5
       DEF Next, UserStep, WorkerStep, TargetStep, vars, Claim, ClaimUnread, Submit,
           Pause, Resume, SetQueuePaused, Start, Crash, Poll, ClaimNothing,
           MarkProcessing, LockExpires, Decide, SendAccepted, SendUnanswered,
           SendRefused, Drop
<1>2. TypeOK /\ [Next]_vars => [\A t \in Targets : Stands(t)]_vars
  BY <1>1
<1> QED
  BY <1>2, TypeCorrect, PTL DEF Spec, OutcomesStand

-----------------------------------------------------------------------------
(* Drafts                                                                  *)

\* Nobody works on a draft, not even a worker whose lease is gone.
DraftsRest ==
  \A t \in Targets : taskStatus[TaskOf[t]] = "draft" =>
    \A w \in Workers : holding[w][t] = "none"

LEMMA DraftsInit == Init => DraftsRest
BY DEF Init, DraftsRest

LEMMA DraftsNext == TypeOK /\ DraftsRest /\ [Next]_vars => DraftsRest'
<1> SUFFICES ASSUME TypeOK, DraftsRest, [Next]_vars, NEW u \in Targets
             PROVE  taskStatus'[TaskOf[u]] = "draft" =>
                      \A v \in Workers : holding'[v][u] = "none"
  BY DEF DraftsRest
<1> DEFINE Kept ==
      taskStatus'[TaskOf[u]] = "draft" => \A v \in Workers : holding'[v][u] = "none"
<1>0. /\ TaskOf[u] \in Tasks
      /\ taskStatus[TaskOf[u]] = "draft" => \A v \in Workers : holding[v][u] = "none"
  BY QueueAssumption DEF DraftsRest
<1> USE StateNames DEF tableVars, workerVars
<1>1. ASSUME NEW k \in Tasks, Submit(k) \/ Pause(k) \/ Resume(k) \/ Cancel(k)
      PROVE  Kept
  <2>1. PICK status \in {"pending", "paused", "cancelled"} :
          taskStatus' = [taskStatus EXCEPT ![k] = status]
    BY <1>1 DEF Submit, Pause, Resume, Cancel
  <2>2. taskStatus'[TaskOf[u]] \in {taskStatus[TaskOf[u]], status}
    BY <1>0, <2>1 DEF TypeOK
  <2>3. UNCHANGED holding
    BY <1>1 DEF Submit, Pause, Resume, Cancel
  <2> QED
    BY <1>0, <2>2, <2>3
<1>2. ASSUME NEW k \in Tasks, NEW onlyFailed \in BOOLEAN,
             NEW users \in SUBSET TargetsOf(k), Retry(k, onlyFailed, users)
      PROVE  Kept
  BY <1>0, <1>2 DEF Retry, TypeOK
<1>3. ASSUME NEW w \in Workers, Crash(w)
      PROVE  Kept
  <2>1. \A v \in Workers : holding'[v][u] \in {"none", holding[v][u]}
    BY <1>3 DEF Crash, TypeOK
  <2> QED
    BY <1>0, <1>3, <2>1 DEF Crash
<1>4. ASSUME NEW w \in Workers,
             Start(w) \/ Poll(w) \/ ClaimNothing(w) \/ MarkProcessing(w)
      PROVE  Kept
  BY <1>0, <1>4 DEF Start, Poll, ClaimNothing, MarkProcessing, TypeOK
<1>5. ASSUME NEW w \in Workers, NEW batch \in SUBSET Targets,
             Claim(w, batch) \/ ClaimUnread(w, batch)
      PROVE  Kept
  <2>1. Lease(w, batch)
    BY <1>5 DEF Claim, ClaimUnread
  <2>2. taskStatus' = taskStatus /\ (u \in batch => taskStatus[TaskOf[u]] # "draft")
    BY <2>1 DEF Lease, Claimable
  <2>3. u \notin batch => \A v \in Workers : holding'[v][u] \in {"none", holding[v][u]}
    BY <1>5 DEF Claim, ClaimUnread, TypeOK
  <2> QED
    BY <1>0, <2>2, <2>3
<1>6. ASSUME NEW w \in Workers, NEW t \in Targets,
             \/ Decide(w, t)
             \/ SendAccepted(w, t) \/ SendUnanswered(w, t) \/ SendRefused(w, t)
             \/ FinishTarget(w, t) \/ MarkTargetRetry(w, t) \/ Drop(w, t)
      PROVE  Kept
  <2>1. holding[w][t] # "none"
    BY <1>6 DEF Decide, SendAccepted, SendUnanswered, SendRefused, FinishTarget,
                MarkTargetRetry, Drop
  <2>2. PICK h : Hold(w, t, h)
    BY <1>6 DEF Decide, SendAccepted, SendUnanswered, SendRefused, FinishTarget,
                MarkTargetRetry, Drop
  <2>3. u # t => \A v \in Workers : holding'[v][u] = holding[v][u]
    BY <2>2, HoldEffect
  <2>4. taskStatus'[TaskOf[u]] = "draft" => taskStatus[TaskOf[u]] = "draft"
    <3>1. CASE FinishTarget(w, t)
      BY <1>0, <3>1 DEF FinishTarget, Finalized, TypeOK
    <3>2. CASE ~FinishTarget(w, t)
      BY <1>6, <3>2 DEF Decide, SendAccepted, SendUnanswered, SendRefused,
                        MarkTargetRetry, Drop
    <3> QED
      BY <3>1, <3>2
  <2> QED
    BY <1>0, <2>1, <2>3, <2>4
<1>7. CASE SetQueuePaused \/ (\E t \in Targets : LockExpires(t)) \/ UNCHANGED vars
  BY <1>0, <1>7 DEF SetQueuePaused, LockExpires, vars
<1> QED
  BY <1>1, <1>2, <1>3, <1>4, <1>5, <1>6, <1>7 DEF Next, UserStep, WorkerStep, TargetStep

-----------------------------------------------------------------------------
(* What the owner sees of a status                                         *)

LEMMA Phases ==
  /\ PhaseOf("draft") = "draft"
  /\ \A s \in Runnable : PhaseOf(s) = "running"
  /\ PhaseOf("paused") = "held"
  /\ \A s \in Ended : PhaseOf(s) = "ended"
  /\ PhaseOf("cancelled") = "cancelled"
BY StateNames DEF PhaseOf

LEMMA Reports ==
  /\ ReportOf("success") = "delivered"
  /\ ReportOf("failed") = "refused"
  /\ ReportOf("skipped") = "refused"
  /\ ReportOf("cancelled") = "cancelled"
  /\ \A s \in Waiting \cup {"processing"} : ReportOf(s) = "open"
BY StateNames DEF ReportOf

LEMMA StatusCases ==
  /\ TaskStatus = {"draft", "pending", "processing", "paused", "cancelled"} \cup Ended
  /\ TargetStatus = Waiting \cup {"processing"} \cup Outcomes
BY StateNames DEF TaskStatus, TargetStatus

\* A step that changes no phase, no report and no delivery is a stutter.
LEMMA Unseen ==
  ASSUME \A k \in Tasks : PhaseOf(taskStatus'[k]) = PhaseOf(taskStatus[k]),
         \A t \in Targets : ReportOf(targetStatus'[t]) = ReportOf(targetStatus[t]),
         \A t \in Targets : sends'[t] > 0 <=> sends[t] > 0
  PROVE  UNCHANGED Promise!vars
BY DEF Promise!vars

LEMMA PromiseInit == Init => Promise!Init
<1> SUFFICES ASSUME Init PROVE Promise!Init
  OBVIOUS
<1>1. \A k \in Tasks : PhaseOf(taskStatus[k]) = "draft"
  BY Phases DEF Init
<1>2. \A t \in Targets : ReportOf(targetStatus[t]) = "open"
  BY Reports, StateNames DEF Init
<1>3. \A t \in Targets : (sends[t] > 0) = FALSE
  BY DEF Init
<1> QED
  BY <1>1, <1>2, <1>3 DEF Promise!Init

-----------------------------------------------------------------------------
(* One step of the queue                                                   *)

\* The owner's requests, but for CancelTask and RetryTask, move the phase.
LEMMA PromiseMove ==
  ASSUME TypeOK, NEW k \in Tasks, Submit(k) \/ Pause(k) \/ Resume(k)
  PROVE  Promise!Next
<1>1. targetStatus' = targetStatus /\ sends' = sends
  BY DEF Submit, Pause, Resume, openimVars
<1>2. CASE Submit(k)
  <2>1. Promise!Accept(k)
    BY <1>1, <1>2, Phases, StateNames
       DEF Submit, TypeOK, Promise!Accept, Promise!Move
  <2> QED
    BY <2>1 DEF Promise!Next
<1>3. CASE Pause(k)
  <2>1. Promise!Hold(k)
    BY <1>1, <1>3, Phases, StateNames
       DEF Pause, TypeOK, Promise!Hold, Promise!Move
  <2> QED
    BY <2>1 DEF Promise!Next
<1>4. CASE Resume(k)
  <2>1. Promise!Release(k)
    BY <1>1, <1>4, Phases, StateNames
       DEF Resume, TypeOK, Promise!Release, Promise!Move
  <2> QED
    BY <2>1 DEF Promise!Next
<1> QED
  BY <1>2, <1>3, <1>4

\* CancelTask withdraws the task and drops the targets that wait.
LEMMA PromiseCancel ==
  ASSUME TypeOK, NEW k \in Tasks, Cancel(k)
  PROVE  Promise!Next
<1> DEFINE freed == {t \in TargetsOf(k) : targetStatus[t] \in Waiting}
           open == {t \in Promise!TargetsOf(k) : ReportOf(targetStatus[t]) = "open"}
<1>1. PhaseOf(taskStatus[k]) \notin {"ended", "cancelled"}
  BY Phases, StatusCases, StateNames DEF Cancel, TypeOK
<1>2. [j \in Tasks |-> PhaseOf(taskStatus'[j])]
        = [[j \in Tasks |-> PhaseOf(taskStatus[j])] EXCEPT ![k] = "cancelled"]
  BY Phases DEF Cancel, TypeOK
<1>3. freed \in SUBSET open
  BY Reports DEF TargetsOf, Promise!TargetsOf
<1>4. [t \in Targets |-> ReportOf(targetStatus'[t])]
        = [t \in Targets |-> IF t \in freed THEN "cancelled"
                             ELSE [u \in Targets |-> ReportOf(targetStatus[u])][t]]
  BY Reports DEF Cancel
<1>5. sends' = sends
  BY DEF Cancel, openimVars
<1>6. Promise!Withdraw(k)
  BY <1>1, <1>2, <1>3, <1>4, <1>5 DEF Promise!Withdraw, Promise!TargetsOf
<1> QED
  BY <1>6 DEF Promise!Next

\* RetryTask reopens refused targets of an ended task.
LEMMA PromiseRetry ==
  ASSUME TypeOK, NEW k \in Tasks, NEW onlyFailed \in BOOLEAN,
         NEW users \in SUBSET TargetsOf(k), Retry(k, onlyFailed, users)
  PROVE  Promise!Next
<1> DEFINE kinds == {"failed"} \cup (IF onlyFailed THEN {} ELSE {"skipped"})
           again == {t \in TargetsOf(k) : /\ targetStatus[t] \in kinds
                                          /\ users = {} \/ t \in users}
<1>1. PhaseOf(taskStatus[k]) = "ended"
  BY Phases DEF Retry
<1>2. [j \in Tasks |-> PhaseOf(taskStatus'[j])]
        = [[j \in Tasks |-> PhaseOf(taskStatus[j])] EXCEPT ![k] = "running"]
  BY Phases, StateNames DEF Retry, TypeOK
<1>3. again # {} /\ again \in SUBSET {t \in Promise!TargetsOf(k) :
                                        ReportOf(targetStatus[t]) = "refused"}
  BY Reports DEF Retry, TargetsOf, Promise!TargetsOf
<1>4. [t \in Targets |-> ReportOf(targetStatus'[t])]
        = [t \in Targets |-> IF t \in again THEN "open"
                             ELSE [u \in Targets |-> ReportOf(targetStatus[u])][t]]
  BY Reports, StateNames DEF Retry
<1>5. sends' = sends
  BY DEF Retry, openimVars
<1>6. Promise!Reopen(k)
  BY <1>1, <1>2, <1>3, <1>4, <1>5 DEF Promise!Reopen, Promise!TargetsOf
<1> QED
  BY <1>6 DEF Promise!Next

\* A call OpenIM accepts is a delivery, whether or not its answer arrives.
LEMMA PromiseSend ==
  ASSUME TypeOK, DraftsRest, NEW w \in Workers, NEW t \in Targets,
         SendAccepted(w, t) \/ SendUnanswered(w, t)
  PROVE  Promise!Next
<1>1. taskStatus[TaskOf[t]] # "draft" /\ TaskOf[t] \in Tasks
  BY QueueAssumption DEF DraftsRest, SendAccepted, SendUnanswered
<1>2. PhaseOf(taskStatus[TaskOf[t]]) # "draft"
  BY <1>1, Phases, StatusCases, StateNames DEF TypeOK
<1>3. taskStatus' = taskStatus /\ targetStatus' = targetStatus
  BY DEF SendAccepted, SendUnanswered, tableVars
<1>4. \A u \in Targets : (sends'[u] > 0) = (IF u = t THEN TRUE ELSE sends[u] > 0)
  <2>1. sends \in [Targets -> 0..2]
    BY DEF TypeOK
  <2>2. sends' = [sends EXCEPT ![t] = IF sends[t] < 2 THEN sends[t] + 1 ELSE sends[t]]
    BY DEF SendAccepted, SendUnanswered
  <2>3. sends'[t] > 0
    BY <2>1, <2>2
  <2>4. \A u \in Targets : u # t => sends'[u] = sends[u]
    BY <2>1, <2>2
  <2> QED
    BY <2>3, <2>4
<1>5. [u \in Targets |-> sends'[u] > 0]
        = [[u \in Targets |-> sends[u] > 0] EXCEPT ![t] = TRUE]
  BY <1>4
<1>6. Promise!Deliver(t)
  BY <1>1, <1>2, <1>3, <1>5 DEF Promise!Deliver
<1> QED
  BY <1>6 DEF Promise!Next

\* A recorded outcome settles the target, and the task with its last one.
LEMMA PromiseFinish ==
  ASSUME TypeOK, TypeOK', HandledUnderLease, OwnerDecides, DraftsRest,
         NEW w \in Workers, NEW t \in Targets, FinishTarget(w, t),
         Truthful(TaskOf[t]), Truthful(TaskOf[t])'
  PROVE  Promise!Next
<1> DEFINE k == TaskOf[t]
           o == holding[w][t]
<1>1. /\ k \in Tasks /\ t \in TargetsOf(k) /\ o \in Outcomes
      /\ targetStatus[t] = "processing"
  BY QueueAssumption DEF TargetsOf, FinishTarget, Owns
<1>2. taskStatus[k] \in Runnable \cup {"paused", "cancelled"}
  <2>1. taskStatus[k] # "draft"
    BY <1>1, StateNames DEF DraftsRest
  <2>2. taskStatus[k] \notin Ended
    BY <1>1 DEF Truthful
  <2>3. taskStatus[k] \in TaskStatus
    BY <1>1 DEF TypeOK
  <2> QED
    BY <2>1, <2>2, <2>3, StatusCases, StateNames
<1>3. PhaseOf(taskStatus[k]) \in {"running", "held", "cancelled"}
  BY <1>2, Phases
<1>4. ReportOf(targetStatus[t]) = "open"
  BY <1>1, Reports
<1>5. ReportOf(o) = "delivered" => sends[t] > 0
  <2>1. ReportOf(o) = "delivered" => o = "success"
    BY <1>1, Reports, StateNames
  <2> QED
    BY <2>1 DEF HandledUnderLease
<1>6. ReportOf(o) = "cancelled" => PhaseOf(taskStatus[k]) = "cancelled"
  <2>1. ReportOf(o) = "cancelled" => o = "cancelled"
    BY <1>1, Reports, StateNames
  <2> QED
    BY <2>1, Phases DEF OwnerDecides
<1>7. [u \in Targets |-> ReportOf(targetStatus'[u])]
        = [[u \in Targets |-> ReportOf(targetStatus[u])] EXCEPT ![t] = ReportOf(o)]
  BY DEF FinishTarget, TypeOK
<1>8. Promise!LastOpen(t) <=> \A u \in TargetsOf(k) : targetStatus'[u] \in Outcomes
  <2>1. Promise!TargetsOf(k) = TargetsOf(k) /\ TargetsOf(k) \subseteq Targets
    BY DEF Promise!TargetsOf, TargetsOf
  <2>2. \A u \in Targets : ReportOf(targetStatus[u]) # "open" <=> targetStatus[u] \in Outcomes
    BY Reports, StatusCases, StateNames DEF TypeOK
  <2>3. /\ targetStatus'[t] = o
        /\ \A u \in Targets \ {t} : targetStatus'[u] = targetStatus[u]
    BY DEF FinishTarget, TypeOK
  <2>4. Promise!LastOpen(t)
          <=> \A u \in TargetsOf(k) \ {t} : ReportOf(targetStatus[u]) # "open"
    BY <2>1 DEF Promise!LastOpen
  <2> QED
    BY <1>1, <2>1, <2>2, <2>3, <2>4
<1>9. PhaseOf(taskStatus'[k])
        = IF PhaseOf(taskStatus[k]) # "cancelled" /\ Promise!LastOpen(t)
          THEN "ended" ELSE PhaseOf(taskStatus[k])
  <2>1. /\ taskStatus'[k] \in {taskStatus[k]} \cup Ended
        /\ taskStatus[k] = "cancelled" => taskStatus'[k] = "cancelled"
    BY <1>1, StateNames DEF FinishTarget, Finalized, TypeOK
  <2>2. taskStatus'[k] \in Ended => Promise!LastOpen(t)
    BY <1>8, StateNames DEF Truthful
  <2>3. taskStatus'[k] \in Runnable \cup {"paused"} => ~Promise!LastOpen(t)
    BY <1>8 DEF Truthful
  <2>4. CASE taskStatus[k] = "cancelled"
    BY <2>1, <2>4, Phases
  <2>5. CASE taskStatus[k] \in Runnable \cup {"paused"}
    BY <2>1, <2>2, <2>3, <2>5, Phases
  <2> QED
    BY <1>2, <2>4, <2>5
<1>10. \A j \in Tasks \ {k} : taskStatus'[j] = taskStatus[j]
  BY DEF FinishTarget, TypeOK
<1>11. [j \in Tasks |-> PhaseOf(taskStatus'[j])]
         = [[j \in Tasks |-> PhaseOf(taskStatus[j])] EXCEPT
              ![k] = IF @ # "cancelled" /\ Promise!LastOpen(t) THEN "ended" ELSE @]
  BY <1>1, <1>9, <1>10
<1>12. sends' = sends
  BY DEF FinishTarget, openimVars
<1>13. Promise!Settle(t, ReportOf(o))
  BY <1>1, <1>3, <1>4, <1>5, <1>6, <1>7, <1>11, <1>12 DEF Promise!Settle
<1>14. ReportOf(o) \in {"delivered", "refused", "cancelled"}
  BY <1>1, Reports, StateNames
<1> QED
  BY <1>13, <1>14 DEF Promise!Next

\* What workers do between these steps the owner cannot see.
LEMMA PromiseStutter ==
  ASSUME TypeOK, TypeOK',
         \/ SetQueuePaused
         \/ \E w \in Workers :
              \/ Start(w) \/ Crash(w) \/ Poll(w) \/ ClaimNothing(w) \/ MarkProcessing(w)
              \/ \E batch \in SUBSET Targets : Lease(w, batch)
              \/ \E t \in Targets :
                   \/ Decide(w, t) \/ SendRefused(w, t) \/ Drop(w, t)
                   \/ MarkTargetRetry(w, t)
         \/ \E t \in Targets : LockExpires(t)
         \/ UNCHANGED vars
  PROVE  UNCHANGED Promise!vars
<1> USE DEF tableVars, openimVars
<1>1. ASSUME NEW w \in Workers, MarkProcessing(w)
      PROVE  UNCHANGED Promise!vars
  <2>1. \A j \in Tasks : \/ taskStatus'[j] = taskStatus[j]
                         \/ {taskStatus[j], taskStatus'[j]} \subseteq Runnable
    BY <1>1, StateNames DEF MarkProcessing
  <2>2. \A j \in Tasks : PhaseOf(taskStatus'[j]) = PhaseOf(taskStatus[j])
    BY <2>1, Phases
  <2> QED
    BY <1>1, <2>2, Unseen DEF MarkProcessing
<1>2. ASSUME NEW w \in Workers, NEW batch \in SUBSET Targets, Lease(w, batch)
      PROVE  UNCHANGED Promise!vars
  <2>1. \A u \in Targets : ReportOf(targetStatus'[u]) = ReportOf(targetStatus[u])
    BY <1>2, Reports DEF Lease, Claimable
  <2> QED
    BY <1>2, <2>1, Unseen DEF Lease
<1>3. ASSUME NEW w \in Workers, NEW t \in Targets, MarkTargetRetry(w, t)
      PROVE  UNCHANGED Promise!vars
  <2>1. \A u \in Targets : \/ targetStatus'[u] = targetStatus[u]
                           \/ {targetStatus[u], targetStatus'[u]}
                                \subseteq Waiting \cup {"processing"}
    BY <1>3, StateNames DEF MarkTargetRetry, Owns, TypeOK
  <2>2. \A u \in Targets : ReportOf(targetStatus'[u]) = ReportOf(targetStatus[u])
    BY <2>1, Reports
  <2> QED
    BY <1>3, <2>2, Unseen DEF MarkTargetRetry
<1>4. CASE UNCHANGED <<taskStatus, targetStatus, sends>>
  BY <1>4, Unseen
<1> QED
  BY <1>1, <1>2, <1>3, <1>4
     DEF SetQueuePaused, Start, Crash, Poll, ClaimNothing, Decide, SendRefused, Drop,
         LockExpires, vars

-----------------------------------------------------------------------------
(* The refinement                                                          *)

LEMMA PromiseStep ==
  ASSUME TypeOK, TypeOK', HandledUnderLease, OwnerDecides, DraftsRest,
         \A k \in Tasks : Truthful(k), \A k \in Tasks : Truthful(k)', [Next]_vars
  PROVE  [Promise!Next]_(Promise!vars)
<1>1. ASSUME NEW k \in Tasks, Submit(k) \/ Pause(k) \/ Resume(k)
      PROVE  Promise!Next
  BY <1>1, PromiseMove
<1>2. ASSUME NEW k \in Tasks, Cancel(k)
      PROVE  Promise!Next
  BY <1>2, PromiseCancel
<1>3. ASSUME NEW k \in Tasks, NEW onlyFailed \in BOOLEAN,
             NEW users \in SUBSET TargetsOf(k), Retry(k, onlyFailed, users)
      PROVE  Promise!Next
  BY <1>3, PromiseRetry
<1>4. ASSUME NEW w \in Workers, NEW t \in Targets,
             SendAccepted(w, t) \/ SendUnanswered(w, t)
      PROVE  Promise!Next
  BY <1>4, PromiseSend
<1>5. ASSUME NEW w \in Workers, NEW t \in Targets, FinishTarget(w, t)
      PROVE  Promise!Next
  <2>1. TaskOf[t] \in Tasks
    BY QueueAssumption
  <2> QED
    BY <1>5, <2>1, PromiseFinish
<1>6. \/ Promise!Next
      \/ SetQueuePaused
      \/ \E w \in Workers :
           \/ Start(w) \/ Crash(w) \/ Poll(w) \/ ClaimNothing(w) \/ MarkProcessing(w)
           \/ \E batch \in SUBSET Targets : Lease(w, batch)
           \/ \E t \in Targets :
                \/ Decide(w, t) \/ SendRefused(w, t) \/ Drop(w, t)
                \/ MarkTargetRetry(w, t)
      \/ \E t \in Targets : LockExpires(t)
      \/ UNCHANGED vars
  <2>1. UserStep => Promise!Next
    BY <1>1, <1>2, <1>3 DEF UserStep
  <2>2. WorkerStep => \E w \in Workers :
           \/ Start(w) \/ Crash(w) \/ Poll(w) \/ ClaimNothing(w) \/ MarkProcessing(w)
           \/ \E batch \in SUBSET Targets : Lease(w, batch)
    BY DEF WorkerStep, Claim, ClaimUnread
  <2>3. TargetStep => \/ Promise!Next
                      \/ \E w \in Workers, t \in Targets :
                           \/ Decide(w, t) \/ SendRefused(w, t) \/ Drop(w, t)
                           \/ MarkTargetRetry(w, t)
    BY <1>4, <1>5 DEF TargetStep
  <2> QED
    BY <2>1, <2>2, <2>3 DEF Next
<1>7. Promise!Next \/ UNCHANGED Promise!vars
  BY <1>6, PromiseStutter
<1> QED
  BY <1>7

\* For any number of tasks, targets and workers, with every crash, lost answer
\* and race of a request with a worker, what an owner sees of a forwarding
\* task is a behaviour of the promise: reported as sent only if OpenIM took
\* it, ended in the step of the last target, reopened only when ended.
THEOREM PromiseIsKept == Spec => PromiseKept
<1> DEFINE Inv == /\ TypeOK /\ CountersExact /\ HandledUnderLease
                  /\ OwnerDecides /\ DraftsRest
                  /\ \A k \in Tasks : Truthful(k)
<1>1. Init => Inv
  BY TypeInit, CountersInit, HandledInit, OwnerInit, DraftsInit, TruthInit
<1>2. Inv /\ [Next]_vars => Inv'
  <2> SUFFICES ASSUME Inv, [Next]_vars PROVE Inv'
    OBVIOUS
  <2>1. TypeOK' /\ CountersExact' /\ HandledUnderLease' /\ OwnerDecides' /\ DraftsRest'
    BY TypeNext, CountersNext, HandledNext, OwnerNext, DraftsNext
  <2>2. \A k \in Tasks : Truthful(k)'
    BY <2>1, TruthNext
  <2> QED
    BY <2>1, <2>2
<1>3. Inv /\ Inv' /\ [Next]_vars => [Promise!Next]_(Promise!vars)
  BY PromiseStep
<1> QED
  BY <1>1, <1>2, <1>3, PromiseInit, PTL DEF Spec, PromiseKept, Promise!Spec

-----------------------------------------------------------------------------
(* The owner's decisions                                                   *)

\* Nothing a worker does, however late, takes a task out of "cancelled" or
\* puts a paused one back to work.
THEOREM DecisionsHold == Spec => PauseAndCancelHold
<1> DEFINE Held(k) == /\ taskStatus[k] = "cancelled" => taskStatus'[k] = "cancelled"
                      /\ taskStatus[k] = "paused" => taskStatus'[k] # "processing"
<1>1. ASSUME TypeOK, [Next]_vars, NEW k \in Tasks
      PROVE  Held(k)
  <2> USE StateNames DEF tableVars
  <2>1. ASSUME NEW j \in Tasks, Submit(j) \/ Cancel(j) \/ Pause(j) \/ Resume(j)
        PROVE  Held(k)
    BY <1>1, <2>1 DEF Submit, Cancel, Pause, Resume, TypeOK
  <2>2. ASSUME NEW j \in Tasks, NEW onlyFailed \in BOOLEAN,
               NEW users \in SUBSET TargetsOf(j), Retry(j, onlyFailed, users)
        PROVE  Held(k)
    BY <1>1, <2>2 DEF Retry, TypeOK
  <2>3. ASSUME NEW w \in Workers, MarkProcessing(w)
        PROVE  Held(k)
    BY <1>1, <2>3 DEF MarkProcessing
  <2>4. ASSUME NEW w \in Workers, NEW t \in Targets, FinishTarget(w, t)
        PROVE  Held(k)
    BY <1>1, <2>4, QueueAssumption DEF FinishTarget, Finalized, TypeOK
  <2>5. CASE UNCHANGED taskStatus
    BY <2>5
  <2> QED
    BY <1>1, <2>1, <2>2, <2>3, <2>4, <2>5
       DEF Next, UserStep, WorkerStep, TargetStep, vars, Claim, ClaimUnread, Lease,
           SetQueuePaused, Start, Crash, Poll, ClaimNothing, LockExpires, Decide,
           SendAccepted, SendUnanswered, SendRefused, MarkTargetRetry, Drop
<1>2. TypeOK /\ [Next]_vars => [\A k \in Tasks : Held(k)]_vars
  BY <1>1
<1> QED
  BY <1>2, TypeCorrect, PTL DEF Spec, PauseAndCancelHold
=============================================================================
