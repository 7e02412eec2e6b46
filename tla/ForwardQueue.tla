---------------------------- MODULE ForwardQueue ----------------------------
(***************************************************************************)
(* The delivery queue of message forwarding in IM-APP-server: the rows of  *)
(* forward_tasks and forward_task_targets (internal/repository/forward.go),*)
(* the polling workers that claim rows under a lease, send each one        *)
(* through OpenIM and record the outcome (internal/service/forward.go),    *)
(* and the operations of the owner and of the operators that race them.    *)
(*                                                                         *)
(* One SQL statement or one transaction is one step; whatever the worker   *)
(* does between two statements is a step boundary.  Time is abstract: a    *)
(* lease may expire at any moment, a retry delay is any finite time.       *)
(*                                                                         *)
(* A definition under a comment "Fault" is no part of the specification:   *)
(* it is a wrong form of the definition that follows it, one that a        *)
(* property below must reject.                                             *)
(***************************************************************************)
EXTENDS Integers, FiniteSets

CONSTANTS
  Tasks,     \* rows of forward_tasks
  Targets,   \* rows of forward_task_targets
  TaskOf,    \* the task_id column of a target
  Workers,   \* worker process incarnations: each has a fresh WorkerID
  NoWorker,  \* the empty locked_by column
  TimelyWork \* assume that a live worker finishes its batch within the lease

ASSUME QueueAssumption ==
  /\ TaskOf \in [Targets -> Tasks]
  /\ IsFiniteSet(Targets)
  /\ NoWorker \notin Workers
  /\ TimelyWork \in BOOLEAN

VARIABLES
  taskStatus,    \* forward_tasks.status
  doneCount,     \* forward_tasks.done_count
  count,         \* forward_tasks.{success,failed,skipped,cancelled}_count
  finishedAt,    \* forward_tasks.finished_at IS NOT NULL
  targetStatus,  \* forward_task_targets.status
  lockedBy,      \* forward_task_targets.locked_by
  lockExpired,   \* forward_task_targets.locked_until < NOW()
  queuePaused,   \* forward_delivery_settings.queue_paused
  workerState,   \* where the polling loop of a process stands
  holding,       \* what a process is about to do with a claimed target
  sends,         \* send calls OpenIM accepted for the target (2: two or more)
  excused        \* a lease of the target ran out, or an answer was lost

tableVars  == <<taskStatus, doneCount, count, finishedAt,
                targetStatus, lockedBy, lockExpired>>
workerVars == <<workerState, holding>>
openimVars == <<sends, excused>>
vars == <<tableVars, queuePaused, workerVars, openimVars>>

Waiting  == {"pending", "retrying"}
Outcomes == {"success", "failed", "skipped", "cancelled"}
Runnable == {"pending", "processing"}
Ended    == {"completed", "partially_completed", "failed"}

TargetStatus == Waiting \cup {"processing"} \cup Outcomes
TaskStatus   == {"draft", "paused", "cancelled"} \cup Runnable \cup Ended
WorkerState  == {"new", "idle", "polled", "claimed", "down"}
\* "held": claimed, not looked at; "send": about to call OpenIM; an outcome
\* or "retry": about to write it to the row.
Holding      == {"none", "held", "send", "retry"} \cup Outcomes

TargetsOf(k)   == {t \in Targets : TaskOf[t] = k}
TargetCount(k) == Cardinality(TargetsOf(k))

\* SELECT COUNT(*) FROM forward_task_targets WHERE task_id=k AND status IN S
NumberIn(status, k, S) == Cardinality({t \in TargetsOf(k) : status[t] \in S})

Init ==
  /\ taskStatus   = [k \in Tasks |-> "draft"]
  /\ doneCount    = [k \in Tasks |-> 0]
  /\ count        = [k \in Tasks |-> [o \in Outcomes |-> 0]]
  /\ finishedAt   = [k \in Tasks |-> FALSE]
  /\ targetStatus = [t \in Targets |-> "pending"]
  /\ lockedBy     = [t \in Targets |-> NoWorker]
  /\ lockExpired  = [t \in Targets |-> FALSE]
  /\ queuePaused  = FALSE
  /\ workerState  = [w \in Workers |-> "new"]
  /\ holding      = [w \in Workers |-> [t \in Targets |-> "none"]]
  /\ sends        = [t \in Targets |-> 0]
  /\ excused      = [t \in Targets |-> FALSE]

-----------------------------------------------------------------------------
(* The owner's requests, and the operator's through the admin backend      *)

\* SubmitTask; the draft is already assembled (module ForwardDraft).
Submit(k) ==
  /\ taskStatus[k] = "draft"
  /\ TargetCount(k) > 0
  /\ taskStatus' = [taskStatus EXCEPT ![k] = "pending"]
  /\ finishedAt' = [finishedAt EXCEPT ![k] = FALSE]
  /\ UNCHANGED <<doneCount, count, targetStatus, lockedBy, lockExpired,
                 queuePaused, workerVars, openimVars>>

\* CancelTask: targets in flight are left to their worker.
Cancel(k) ==
  LET freed == {t \in TargetsOf(k) : targetStatus[t] \in Waiting} IN
  /\ taskStatus[k] \notin Ended \cup {"cancelled"}
  /\ taskStatus'   = [taskStatus EXCEPT ![k] = "cancelled"]
  /\ targetStatus' = [t \in Targets |->
                        IF t \in freed THEN "cancelled" ELSE targetStatus[t]]
  /\ lockedBy'     = [t \in Targets |->
                        IF t \in freed THEN NoWorker ELSE lockedBy[t]]
  /\ lockExpired'  = [t \in Targets |->
                        IF t \in freed THEN FALSE ELSE lockExpired[t]]
  /\ count'        = [count EXCEPT ![k]["cancelled"] =
                        NumberIn(targetStatus', k, {"cancelled"})]
  /\ doneCount'    = [doneCount EXCEPT ![k] = NumberIn(targetStatus', k, Outcomes)]
  /\ finishedAt'   = [finishedAt EXCEPT ![k] = doneCount'[k] >= TargetCount(k)]
  /\ UNCHANGED <<queuePaused, workerVars, openimVars>>

Pause(k) ==
  /\ taskStatus[k] \in Runnable
  /\ taskStatus' = [taskStatus EXCEPT ![k] = "paused"]
  /\ UNCHANGED <<doneCount, count, finishedAt, targetStatus, lockedBy,
                 lockExpired, queuePaused, workerVars, openimVars>>

Resume(k) ==
  /\ taskStatus[k] = "paused"
  /\ taskStatus' = [taskStatus EXCEPT ![k] = "pending"]
  /\ UNCHANGED <<doneCount, count, finishedAt, targetStatus, lockedBy,
                 lockExpired, queuePaused, workerVars, openimVars>>

\* RetryTask: reopens the failed targets, and the skipped ones too unless
\* onlyFailed; a non-empty list of users narrows the choice.
Retry(k, onlyFailed, users) ==
  LET kinds    == {"failed"} \cup (IF onlyFailed THEN {} ELSE {"skipped"})
      reopened == {t \in TargetsOf(k) : /\ targetStatus[t] \in kinds
                                        /\ users = {} \/ t \in users} IN
  /\ taskStatus[k] \in Ended
  /\ reopened # {}
  /\ targetStatus' = [t \in Targets |->
                        IF t \in reopened THEN "retrying" ELSE targetStatus[t]]
  /\ taskStatus'   = [taskStatus EXCEPT ![k] = "pending"]
  /\ finishedAt'   = [finishedAt EXCEPT ![k] = FALSE]
  /\ count'        = [count EXCEPT
                        ![k]["failed"]  = NumberIn(targetStatus', k, {"failed"}),
                        ![k]["skipped"] = NumberIn(targetStatus', k, {"skipped"})]
  /\ doneCount'    = [doneCount EXCEPT ![k] = NumberIn(targetStatus', k, Outcomes)]
  /\ UNCHANGED <<lockedBy, lockExpired, queuePaused, workerVars, openimVars>>

\* UpdateDeliverySettings
SetQueuePaused ==
  /\ queuePaused' = ~queuePaused
  /\ UNCHANGED <<tableVars, workerVars, openimVars>>

-----------------------------------------------------------------------------
(* The worker process: RunPolling                                          *)

Start(w) ==
  /\ workerState[w] = "new"
  /\ workerState' = [workerState EXCEPT ![w] = "idle"]
  /\ UNCHANGED <<tableVars, queuePaused, holding, openimVars>>

\* A process that stops loses what it holds and never comes back: the next
\* one has another WorkerID.  The last incarnation is not stopped.
Crash(w) ==
  /\ workerState[w] \notin {"new", "down"}
  /\ \E v \in Workers \ {w} : workerState[v] # "down"
  /\ workerState' = [workerState EXCEPT ![w] = "down"]
  /\ holding'     = [holding EXCEPT ![w] = [t \in Targets |-> "none"]]
  /\ UNCHANGED <<tableVars, queuePaused, openimVars>>

\* GetDeliverySettings; processBatch has waited for the previous batch.
Poll(w) ==
  /\ workerState[w] = "idle"
  /\ \A t \in Targets : holding[w][t] = "none"
  /\ ~queuePaused
  /\ workerState' = [workerState EXCEPT ![w] = "polled"]
  /\ UNCHANGED <<tableVars, queuePaused, holding, openimVars>>

\* Faults: rows in flight are claimed too; rows in flight are never claimed.
ClaimableInFlight ==
  {t \in Targets : /\ taskStatus[TaskOf[t]] \in Runnable
                   /\ targetStatus[t] \in Waiting \cup {"processing"}}

ClaimableWaiting ==
  {t \in Targets : /\ taskStatus[TaskOf[t]] \in Runnable
                   /\ targetStatus[t] \in Waiting}

Claimable ==
  {t \in Targets :
     /\ taskStatus[TaskOf[t]] \in Runnable
     /\ \/ targetStatus[t] \in Waiting
        \/ targetStatus[t] = "processing" /\ lockExpired[t]}

\* The first statement of ClaimRunnableTargets: limits and row locks held by
\* other workers make the batch any part of the claimable rows.
Lease(w, batch) ==
  /\ workerState[w] = "polled"
  /\ batch # {} /\ batch \subseteq Claimable
  /\ targetStatus' = [t \in Targets |->
                        IF t \in batch THEN "processing" ELSE targetStatus[t]]
  /\ lockedBy'     = [t \in Targets |-> IF t \in batch THEN w ELSE lockedBy[t]]
  /\ lockExpired'  = [t \in Targets |->
                        IF t \in batch THEN FALSE ELSE lockExpired[t]]
  /\ UNCHANGED <<taskStatus, doneCount, count, finishedAt, queuePaused, openimVars>>

Claim(w, batch) ==
  /\ Lease(w, batch)
  /\ workerState' = [workerState EXCEPT ![w] = "claimed"]
  /\ holding'     = [holding EXCEPT ![w] =
                       [t \in Targets |-> IF t \in batch THEN "held" ELSE "none"]]

\* The claim commits but reading its rows fails: the batch is not processed.
ClaimUnread(w, batch) ==
  /\ Lease(w, batch)
  /\ workerState' = [workerState EXCEPT ![w] = "idle"]
  /\ UNCHANGED holding

\* Nothing to claim, or the query failed: wait for the next poll.
ClaimNothing(w) ==
  /\ workerState[w] = "polled"
  /\ workerState' = [workerState EXCEPT ![w] = "idle"]
  /\ UNCHANGED <<tableVars, queuePaused, holding, openimVars>>

\* The second statement of ClaimRunnableTargets, whose error is ignored.
MarkProcessing(w) ==
  /\ workerState[w] = "claimed"
  /\ workerState' = [workerState EXCEPT ![w] = "idle"]
  /\ \/ taskStatus' = [k \in Tasks |->
          IF /\ taskStatus[k] = "pending"
             /\ \E t \in TargetsOf(k) : holding[w][t] = "held"
          THEN "processing" ELSE taskStatus[k]]
     \/ UNCHANGED taskStatus
  /\ UNCHANGED <<doneCount, count, finishedAt, targetStatus, lockedBy,
                 lockExpired, queuePaused, holding, openimVars>>

\* No process that is up still holds the target.
Orphaned(t) == \A w \in Workers : holding[w][t] = "none"

\* locked_until passes.
LockExpires(t) ==
  /\ TimelyWork => Orphaned(t)
  /\ targetStatus[t] = "processing"
  /\ ~lockExpired[t]
  /\ lockExpired' = [lockExpired EXCEPT ![t] = TRUE]
  /\ excused'     = [excused EXCEPT ![t] = TRUE]
  /\ UNCHANGED <<taskStatus, doneCount, count, finishedAt, targetStatus,
                 lockedBy, queuePaused, workerVars, sends>>

-----------------------------------------------------------------------------
(* One target in a worker's batch: processTarget                           *)

Hold(w, t, next) == holding' = [holding EXCEPT ![w][t] = next]

\* What the status read by GetTaskForWorker, the eligibility query and the
\* media archive may lead to.
Decisions(status) ==
  CASE status = "cancelled"  -> {"cancelled"}
    [] status = "paused"     -> {"retry"}
    [] status \in Runnable   -> {"send", "failed", "retry"}
    [] OTHER                 -> {"skipped"}

Decide(w, t) ==
  /\ workerState[w] = "idle"
  /\ holding[w][t] = "held"
  /\ \E next \in Decisions(taskStatus[TaskOf[t]]) \cup {"retry"} : Hold(w, t, next)
  /\ UNCHANGED <<tableVars, queuePaused, workerState, openimVars>>

\* SendForwardMessage or SendForwardGroupMessage: accepted and answered, ...
SendAccepted(w, t) ==
  /\ holding[w][t] = "send"
  /\ sends' = [sends EXCEPT ![t] = IF @ < 2 THEN @ + 1 ELSE @]
  /\ Hold(w, t, "success")
  /\ UNCHANGED <<tableVars, queuePaused, workerState, excused>>

\* ... accepted but the answer is lost (a timeout, a network error), ...
SendUnanswered(w, t) ==
  /\ holding[w][t] = "send"
  /\ sends'   = [sends EXCEPT ![t] = IF @ < 2 THEN @ + 1 ELSE @]
  /\ excused' = [excused EXCEPT ![t] = TRUE]
  /\ Hold(w, t, "retry")
  /\ UNCHANGED <<tableVars, queuePaused, workerState>>

\* Fault: an error of the call counts as a success.
SendRefusedUnseen(w, t) ==
  /\ holding[w][t] = "send"
  /\ Hold(w, t, "success")
  /\ UNCHANGED <<tableVars, queuePaused, workerState, openimVars>>

\* ... or refused, for now or for good (temporaryForwardError).
SendRefused(w, t) ==
  /\ holding[w][t] = "send"
  /\ \E next \in {"retry", "failed"} : Hold(w, t, next)
  /\ UNCHANGED <<tableVars, queuePaused, workerState, openimVars>>

\* Fault: the row is found by its id alone.
OwnsById(w, t) == TRUE

\* The guard of finishTarget and of MarkTargetRetry.
Owns(w, t) == targetStatus[t] = "processing" /\ lockedBy[t] = w

\* Faults: the task ends one target too early; a cancelled task ends too.
FinalizedEarly(status, done, c, total) ==
  IF status = "cancelled" \/ done + 1 < total THEN status ELSE "completed"

FinalizedCancelled(status, done, c, total) ==
  IF done < total THEN status ELSE "completed"

\* finalizeTaskTx, on the counters finishTarget has just written.
Finalized(status, done, c, total) ==
  IF status = "cancelled" \/ done < total THEN status
  ELSE IF c["failed"] = 0 /\ c["skipped"] = 0 THEN "completed"
  ELSE IF c["success"] = 0 THEN "failed"
  ELSE "partially_completed"

FinishTarget(w, t) ==
  LET k == TaskOf[t]
      o == holding[w][t] IN
  /\ o \in Outcomes
  /\ Owns(w, t)
  /\ targetStatus' = [targetStatus EXCEPT ![t] = o]
  /\ lockedBy'     = [lockedBy EXCEPT ![t] = NoWorker]
  /\ lockExpired'  = [lockExpired EXCEPT ![t] = FALSE]
  /\ doneCount'    = [doneCount EXCEPT ![k] = @ + 1]
  /\ count'        = [count EXCEPT ![k][o] = @ + 1]
  /\ taskStatus'   = [taskStatus EXCEPT ![k] =
                        Finalized(@, doneCount'[k], count'[k], TargetCount(k))]
  /\ finishedAt'   = [finishedAt EXCEPT ![k] = @ \/ doneCount'[k] >= TargetCount(k)]
  /\ Hold(w, t, "none")
  /\ UNCHANGED <<queuePaused, workerState, openimVars>>

MarkTargetRetry(w, t) ==
  /\ holding[w][t] = "retry"
  /\ Owns(w, t)
  /\ targetStatus' = [targetStatus EXCEPT ![t] = "retrying"]
  /\ lockedBy'     = [lockedBy EXCEPT ![t] = NoWorker]
  /\ lockExpired'  = [lockExpired EXCEPT ![t] = FALSE]
  /\ Hold(w, t, "none")
  /\ UNCHANGED <<taskStatus, doneCount, count, finishedAt, queuePaused,
                 workerState, openimVars>>

\* The row is no longer the worker's (ErrForwardTaskState), or the statement
\* failed: the error is logged and the target dropped from the batch.
Drop(w, t) ==
  /\ holding[w][t] \in Outcomes \cup {"retry"}
  /\ Hold(w, t, "none")
  /\ UNCHANGED <<tableVars, queuePaused, workerState, openimVars>>

-----------------------------------------------------------------------------
UserStep ==
  \E k \in Tasks :
    \/ Submit(k) \/ Cancel(k) \/ Pause(k) \/ Resume(k)
    \/ \E onlyFailed \in BOOLEAN, users \in SUBSET TargetsOf(k) :
         Retry(k, onlyFailed, users)

WorkerStep ==
  \E w \in Workers :
    \/ Start(w) \/ Crash(w) \/ Poll(w) \/ ClaimNothing(w) \/ MarkProcessing(w)
    \/ \E batch \in SUBSET Targets : Claim(w, batch) \/ ClaimUnread(w, batch)

TargetStep ==
  \E w \in Workers, t \in Targets :
    \/ Decide(w, t)
    \/ SendAccepted(w, t) \/ SendUnanswered(w, t) \/ SendRefused(w, t)
    \/ FinishTarget(w, t) \/ MarkTargetRetry(w, t) \/ Drop(w, t)

Next ==
  \/ UserStep
  \/ SetQueuePaused
  \/ WorkerStep
  \/ TargetStep
  \/ \E t \in Targets : LockExpires(t)

Spec == Init /\ [][Next]_vars

-----------------------------------------------------------------------------
(* Fairness                                                                *)
(*                                                                         *)
(* A process that is up keeps polling and works off its batch, and a lease *)
(* nobody serves runs out (weak fairness).  Strong fairness says what no   *)
(* single step promises: a claimable row is not overlooked for ever (rows  *)
(* are claimed in the order of their next_retry_at), and neither the       *)
(* database nor OpenIM fails every time.                                   *)

ClaimOf(t) ==
  \E w \in Workers, batch \in SUBSET Targets : t \in batch /\ Claim(w, batch)

DecideToSend(w, t) == Decide(w, t) /\ holding'[w][t] = "send"

Fairness ==
  /\ \A w \in Workers :
       /\ WF_vars(Start(w)) /\ WF_vars(Poll(w)) /\ WF_vars(MarkProcessing(w))
       /\ \A t \in Targets :
            /\ WF_vars(Decide(w, t))
            /\ WF_vars(SendAccepted(w, t) \/ SendUnanswered(w, t) \/ SendRefused(w, t))
            /\ WF_vars(FinishTarget(w, t) \/ MarkTargetRetry(w, t) \/ Drop(w, t))
            /\ SF_vars(DecideToSend(w, t))
            /\ SF_vars(SendAccepted(w, t))
            /\ SF_vars(FinishTarget(w, t))
  /\ \A t \in Targets :
       /\ SF_vars(ClaimOf(t))
       /\ WF_vars(LockExpires(t))

FairSpec == Spec /\ Fairness

-----------------------------------------------------------------------------
(* Properties                                                              *)

TypeOK ==
  /\ taskStatus   \in [Tasks -> TaskStatus]
  /\ doneCount    \in [Tasks -> Nat]
  /\ count        \in [Tasks -> [Outcomes -> Nat]]
  /\ finishedAt   \in [Tasks -> BOOLEAN]
  /\ targetStatus \in [Targets -> TargetStatus]
  /\ lockedBy     \in [Targets -> Workers \cup {NoWorker}]
  /\ lockExpired  \in [Targets -> BOOLEAN]
  /\ queuePaused  \in BOOLEAN
  /\ workerState  \in [Workers -> WorkerState]
  /\ holding      \in [Workers -> [Targets -> Holding]]
  /\ sends        \in [Targets -> 0..2]
  /\ excused      \in [Targets -> BOOLEAN]

\* The counters a user sees on the task are those of its targets: the
\* increments of finishTarget and the recounts of CancelTask and RetryTask
\* never disagree, whatever the order in which they meet.
CountersExact ==
  \A k \in Tasks :
    /\ doneCount[k] = NumberIn(targetStatus, k, Outcomes)
    /\ \A o \in Outcomes : count[k][o] = NumberIn(targetStatus, k, {o})

\* A task's status tells the truth about its targets: it is ended exactly
\* when they all have an outcome (no worker leaves it open behind the last
\* one), and the kind of end is the one they add up to.
StatusReportsTargets ==
  \A k \in Tasks :
    LET outcomes == {targetStatus[t] : t \in TargetsOf(k)} IN
    /\ taskStatus[k] \in Ended => outcomes \subseteq {"success", "failed", "skipped"}
    /\ taskStatus[k] = "completed" => outcomes = {"success"}
    /\ taskStatus[k] = "failed" => "success" \notin outcomes
    /\ taskStatus[k] = "partially_completed" =>
         "success" \in outcomes /\ outcomes # {"success"}
    /\ taskStatus[k] \in Runnable \cup {"paused"} => ~(outcomes \subseteq Outcomes)
    /\ taskStatus[k] # "draft" => (finishedAt[k] <=> outcomes \subseteq Outcomes)

\* A target reported as sent was accepted by OpenIM.
SuccessWasDelivered ==
  \A t \in Targets : targetStatus[t] = "success" => sends[t] > 0

\* Pauses, resumes, manual retries, crashes and concurrent workers do not by
\* themselves send a target twice: that takes a lease that ran out under its
\* worker or an answer of OpenIM that was lost.
SentOnceUnlessExcused ==
  \A t \in Targets : sends[t] > 1 => excused[t]

\* Two processes work on one target only after a lease of it ran out.
OneWorkerPerLease ==
  \A t \in Targets, v, w \in Workers :
    v # w /\ holding[v][t] # "none" /\ holding[w][t] # "none" => excused[t]

\* Why the last three hold.  Until its lease runs out or an answer is lost, a
\* target that some process still handles is that process's row, and one that
\* OpenIM has accepted is recorded as sent or waits for nothing else.
HandledUnderLease ==
  /\ \A w \in Workers, t \in Targets :
       /\ holding[w][t] # "none" /\ ~excused[t] => Owns(w, t)
       /\ holding[w][t] = "success" => sends[t] > 0
       /\ sends[t] > 0 /\ ~excused[t] => holding[w][t] \in {"none", "success"}
  /\ \A t \in Targets :
       /\ lockExpired[t] => excused[t]
       /\ sends[t] > 0 /\ ~excused[t] => targetStatus[t] \in {"processing", "success"}
       /\ sends[t] > 1 => excused[t]
       /\ targetStatus[t] = "success" => sends[t] > 0

\* Why the statuses are truthful: nobody works on a draft, and a target is
\* cancelled (or about to be) only in a task its owner has cancelled.
OwnerDecides ==
  \A t \in Targets :
    /\ taskStatus[TaskOf[t]] = "draft" => targetStatus[t] = "pending"
    /\ taskStatus[TaskOf[t]] # "cancelled" =>
         /\ targetStatus[t] # "cancelled"
         /\ \A w \in Workers : holding[w][t] # "cancelled"

\* An outcome stands: a sent or cancelled target never changes again, and a
\* failed or skipped one changes only by a manual retry of an ended task,
\* never by a worker that was late.
OutcomesStand ==
  [][\A t \in Targets :
       targetStatus[t] \in Outcomes /\ targetStatus'[t] # targetStatus[t] =>
         /\ targetStatus[t] \in {"failed", "skipped"}
         /\ targetStatus'[t] = "retrying"
         /\ taskStatus[TaskOf[t]] \in Ended]_vars

\* Workers never undo an owner's decision: a paused task runs again only
\* through ResumeTask, a cancelled one never does.
PauseAndCancelHold ==
  [][\A k \in Tasks :
       /\ taskStatus[k] = "cancelled" => taskStatus'[k] = "cancelled"
       /\ taskStatus[k] = "paused" => taskStatus'[k] # "processing"]_vars

Live(t) == taskStatus[TaskOf[t]] \in Runnable /\ ~queuePaused

\* Every accepted target gets an outcome as long as nobody pauses or cancels
\* the task or pauses the queue, whatever crashes on the way.
AcceptedTargetsSettle ==
  \A t \in Targets :
    Live(t) /\ targetStatus[t] \notin Outcomes
      ~> targetStatus[t] \in Outcomes \/ ~Live(t)

\* A row left "processing" under an expired lease is taken up again, which is
\* what the design states without exception.
ExpiredLeaseRecovered ==
  \A t \in Targets :
    targetStatus[t] = "processing" /\ lockExpired[t]
      ~> \/ targetStatus[t] # "processing"
         \/ ~lockExpired[t]
         \/ taskStatus[TaskOf[t]] = "paused"
         \/ queuePaused

\* CancelTask leaves no unsent target behind: once the task is cancelled no
\* target goes back to waiting for a worker.
CancelReachesUnsent ==
  \A t \in Targets : taskStatus[TaskOf[t]] = "cancelled" => targetStatus[t] \notin Waiting

\* The queue implements the promise: leases, counters and statuses together
\* behave as if each target were settled and its task ended in one step.
PhaseOf(status) ==
  CASE status = "draft"      -> "draft"
    [] status \in Runnable   -> "running"
    [] status = "paused"     -> "held"
    [] status \in Ended      -> "ended"
    [] status = "cancelled"  -> "cancelled"

ReportOf(status) ==
  CASE status = "success"               -> "delivered"
    [] status \in {"failed", "skipped"} -> "refused"
    [] status = "cancelled"             -> "cancelled"
    [] OTHER                            -> "open"

Promise == INSTANCE ForwardPromise WITH
  phase   <- [k \in Tasks |-> PhaseOf(taskStatus[k])],
  report  <- [t \in Targets |-> ReportOf(targetStatus[t])],
  reached <- [t \in Targets |-> sends[t] > 0]

PromiseKept == Promise!Spec
=============================================================================
