--------------------------- MODULE GroupRetention ---------------------------
(***************************************************************************)
(* Retention of one group's messages: every day a job is queued, planned   *)
(* from a snapshot of the group's history and applied, by the workers of   *)
(* all instances of the server under leases of two minutes.  Applying a    *)
(* plan raises the history bound in OpenIM, through the private bridge     *)
(* that is patched into it, and then publishes the bound to the clients.   *)
(* Rows of other groups are independent of these.                          *)
(*                                                                         *)
(* A lease may run out at any time, a retry delay is any finite time, and  *)
(* a token is known by the attempt it was made for: each claim counts one. *)
(* What a snapshot reads of the history is read in one step.               *)
(*                                                                         *)
(* A definition under a comment "Fault" is no part of the specification:   *)
(* it is a wrong form of the definition that follows it, one that a        *)
(* property below must reject.                                             *)
(***************************************************************************)
EXTENDS Integers, FiniteSetsExt

CONSTANTS
  Days,          \* the days 1..Days that jobs are made for
  Workers,       \* worker processes
  MaxSeq,        \* bound on the messages of the group
  Quotas,        \* values the policy's MaxMessages may take
  Windows,       \* ... and its Window
  DefaultQuota,  \* the policy in the code, used when the group's cannot be read
  DefaultWindow,
  MaxAttempts,   \* RetentionMaxAttempts
  TimesInOrder   \* send times grow with the sequence numbers

ASSUME RetentionAssumption ==
  /\ Days \in Nat /\ MaxSeq \in Nat /\ MaxAttempts \in Nat \ {0}
  /\ Quotas \subseteq Nat \ {0} /\ DefaultQuota \in Quotas
  /\ Windows \subseteq Nat \ {0} /\ DefaultWindow \in Windows
  /\ TimesInOrder \in BOOLEAN

VARIABLES
  maxSeq,      \* sequence numbers given out by OpenIM
  written,     \* ... whose message is stored; the others are on their way
  hidden,      \* stored ones that are not shown: controls, deleted messages
  old,         \* per window: sent before it
  policy,      \* the group's MaxMessages and Window
  active,      \* the group is not dismissed
  job,         \* group_retention_jobs: status, attempts, whether the lease ran out
  plan,        \* ... its plan
  app,         \* group_retention_applications, likewise
  visibility,  \* group_retention_visibility
  minSeq,      \* OpenIM's history bound (min_seq of the conversation)
  lapsed,      \* jobs whose plan's receipt has expired
  late,        \* jobs whose bound a call still under way may apply
  at,          \* where a worker stands in PlanNext and ApplyNext
  mine,        \* ... the day and the attempt of what it has claimed
  snap,        \* ... the snapshot it has got
  expendable,  \* ghost: messages a plan's policy does not keep
  summed       \* ghost: messages a plan took over from its snapshot's summary

history == <<maxSeq, written, hidden, old>>
tables  == <<job, plan, app, visibility>>
bridge  == <<minSeq, lapsed, late>>
worker  == <<at, mine, snap>>
ghosts  == <<expendable, summed>>
vars    == <<history, policy, active, tables, bridge, worker, ghosts>>

Bound == INSTANCE RetentionBound

DayOf   == 1..Days
Visible == written \ hidden

Policies == [quota : Quotas, window : Windows]

Higher(m, n) == IF m < n THEN n ELSE m

NonPrefix  == -1
NoPlan     == [attempt |-> 0, receipt |-> 0, bound |-> 0]
NoClaim    == [day |-> 0, attempt |-> 0]
NoSnapshot == [first |-> 0, mark |-> 0, over |-> 0, cut |-> DefaultWindow,
               visible |-> {}, old |-> [v \in Windows |-> {}], receipt |-> 0]
NoRow      == [status |-> "none", attempts |-> 0, expired |-> FALSE]

-----------------------------------------------------------------------------
(* Planning                                                                *)

\* EffectiveRetentionPolicy: each part is the group's own or the published one;
\* where the published ones cannot be read, the code's take their place.
ReadPolicies ==
  [quota : {policy.quota, DefaultQuota}, window : {policy.window, DefaultWindow}]

\* The rows of a snapshot that were scanned.
Rows(s) == {n \in s.visible : s.first <= n}

Above(S, n) == Cardinality({m \in S : n < m})

\* PlanGroupRetention: a message goes only if it is beyond both limits.
Candidates(s, p) ==
  {n \in Rows(s) : n \in s.old[p.window] /\ Above(Rows(s), n) >= p.quota}

\* Fault: a summary is taken over as the snapshot has it.
ProvableAlways(s, p) == TRUE

\* ... and refuses a summary that is not followed by a quota of scanned rows.
\* The window it was cut by is not looked at.
Provable(s, p) == s.over > 0 => Cardinality(Rows(s)) >= p.quota

\* RetentionMinSeq: the first message that is kept, if only candidates come
\* before it.
MinVisible(s, p) ==
  LET kept  == Rows(s) \ Candidates(s, p)
      bound == Min(kept \cup {s.mark + 1})
  IN  IF Candidates(s, p) = {} /\ s.over = 0 THEN 0
      ELSE IF \E n \in Candidates(s, p) : bound <= n THEN NonPrefix
      ELSE bound

\* Where the bridge stops to scan, from the newest message down: at a message
\* that is older than the window and completes the quota.
Stops(p) ==
  {n \in Higher(minSeq, 1) + 1..maxSeq :
     n \in Visible \cap old[p.window] /\ Above(Visible, n - 1) >= p.quota}

Over(p) == IF Stops(p) = {} THEN 0 ELSE Max(Stops(p)) - 1

\* snapshot of the bridge, with the receipt it issues.
Taken(p) ==
  LET s == [first |-> Higher(Higher(minSeq, 1), Over(p) + 1), mark |-> maxSeq,
            over |-> Over(p), cut |-> p.window, visible |-> Visible, old |-> old,
            receipt |-> 0]
  IN  [s EXCEPT !.receipt = Higher(MinVisible(s, p), 0)]

\* What a policy lets go of in the history that a snapshot was taken of.
Beyond(s, p) ==
  {n \in 1..s.mark : n \in s.old[p.window] /\ Above(s.visible, n) >= p.quota}

\* What a plan takes over of a summary: beyond its own policy's quota, and older
\* than the window of the policy that the snapshot was asked for with.
Summed(s, p) ==
  {n \in 1..s.over : n \in s.old[s.cut] /\ Above(s.visible, n) >= p.quota}

-----------------------------------------------------------------------------
(* The group                                                               *)

\* Any history and policy may be there when retention is switched on.
Init ==
  /\ maxSeq \in 0..MaxSeq
  /\ written \in SUBSET (1..maxSeq)
  /\ hidden \in SUBSET written
  /\ old \in [Windows -> SUBSET (1..maxSeq)]
  /\ \A v, u \in Windows : u < v => old[v] \subseteq old[u]
  /\ TimesInOrder => \A v \in Windows : \A n \in old[v] : 1..n \subseteq old[v]
  /\ policy \in Policies /\ active = TRUE
  /\ job = [d \in DayOf |-> NoRow] /\ plan = [d \in DayOf |-> NoPlan]
  /\ app = [d \in DayOf |-> NoRow] /\ Bound!BoundInit
  /\ minSeq = 0 /\ lapsed = {} /\ late = {}
  /\ at   = [w \in Workers |-> "idle"]
  /\ mine = [w \in Workers |-> NoClaim]
  /\ snap = [w \in Workers |-> NoSnapshot]
  /\ expendable = {} /\ summed = {}

GroupOnly == UNCHANGED <<tables, lapsed, late, worker, ghosts>>

\* A message gets its number before it is stored.
Send ==
  /\ maxSeq < MaxSeq
  /\ maxSeq' = maxSeq + 1
  /\ UNCHANGED <<written, hidden, old, policy, active, minSeq>> /\ GroupOnly

Store(n) ==
  /\ n \notin written
  /\ written' = written \cup {n}
  /\ hidden' \in {hidden, hidden \cup {n}}
  /\ UNCHANGED <<maxSeq, old, policy, active, minSeq>> /\ GroupOnly

Hide(n) ==
  /\ n \in Visible
  /\ hidden' = hidden \cup {n}
  /\ UNCHANGED <<maxSeq, written, old, policy, active, minSeq>> /\ GroupOnly

\* Time passes: a message leaves a window, and has left the shorter ones.
GrowOld(v, n) ==
  /\ n \notin old[v]
  /\ \A u \in Windows : u < v => n \in old[u]
  /\ TimesInOrder => 1..n - 1 \subseteq old[v]
  /\ old' = [old EXCEPT ![v] = @ \cup {n}]
  /\ UNCHANGED <<maxSeq, written, hidden, policy, active, minSeq>> /\ GroupOnly

SetPolicy(p) ==
  /\ p # policy
  /\ policy' = p
  /\ UNCHANGED <<history, active, minSeq>> /\ GroupOnly

Dismiss ==
  /\ active /\ active' = FALSE
  /\ UNCHANGED <<history, policy, minSeq>> /\ GroupOnly

-----------------------------------------------------------------------------
(* Workers                                                                 *)

Goes(w, place) == at' = [at EXCEPT ![w] = place]
Stays    == UNCHANGED <<history, policy, active>>
Forgets(w, place) ==
  /\ Goes(w, place)
  /\ mine' = [mine EXCEPT ![w] = NoClaim]
  /\ snap' = [snap EXCEPT ![w] = NoSnapshot]

\* A row without a lease, and one with a new one.
Ended(r, status) == [r EXCEPT !.status = status, !.expired = FALSE]
Leased(r, status) ==
  [status |-> status, attempts |-> r.attempts + 1, expired |-> FALSE]

Exhausted(r, status) == r.status = status /\ r.expired /\ r.attempts >= MaxAttempts

\* Fault: the attempts are not counted against their limit.
ClaimableForever(r, status) ==
  r.status \in {"queued", "retry"} \/ (r.status = status /\ r.expired)

Claimable(r, status) ==
  /\ r.attempts < MaxAttempts
  /\ r.status \in {"queued", "retry"} \/ (r.status = status /\ r.expired)

\* Fault: any row in work is taken for one's own.
HoldsAny(w, r, status) == r.status = status

\* The fence of every write: the token is the row's and its lease has not run out.
Holds(w, r, status) ==
  r.status = status /\ r.attempts = mine[w].attempt /\ ~r.expired

MyJob(w) == Holds(w, job[mine[w].day], "planning")
MyApp(w) == Holds(w, app[mine[w].day], "applying")

\* A pass begins with EnqueueToday: one job for an active group and a new day.
Enqueue(w, d) ==
  /\ at[w] = "idle" /\ active
  /\ \A e \in d..Days : job[e].status = "none"
  /\ job' = [job EXCEPT ![d].status = "queued"]
  /\ Stays
  /\ UNCHANGED <<plan, app, visibility, bridge, worker, ghosts>>

\* Claim, first statement: a dead lease of the last attempt is not left behind.
BlockExhaustedJobs(w) ==
  /\ at[w] = "idle"
  /\ job' = [d \in DayOf |-> IF Exhausted(job[d], "planning")
                               THEN Ended(job[d], "blocked") ELSE job[d]]
  /\ Goes(w, "claim")
  /\ Stays
  /\ UNCHANGED <<plan, app, visibility, bridge, mine, snap, ghosts>>

\* Claim, second statement; its answer may get lost, and the lease with it.
ClaimJob(w, d) ==
  /\ at[w] = "claim" /\ active
  /\ Claimable(job[d], "planning")
  /\ job' = [job EXCEPT ![d] = Leased(@, "planning")]
  /\ \/ /\ Goes(w, "snapshot")
        /\ mine' = [mine EXCEPT ![w] = [day |-> d, attempt |-> job'[d].attempts]]
     \/ Goes(w, "backfill") /\ UNCHANGED mine
  /\ Stays
  /\ UNCHANGED <<plan, app, visibility, bridge, snap, ghosts>>

\* Nothing to claim, or a statement fails: PlanNext returns, ApplyNext follows,
\* and after it the next round or pass.
Skip(w) ==
  /\ \/ at[w] \in {"idle", "claim"} /\ Goes(w, "backfill")
     \/ at[w] \in {"backfill", "exhausted", "claim app"} /\ Goes(w, "idle")
  /\ Stays
  /\ UNCHANGED <<tables, bridge, mine, snap, ghosts>>

\* The adapter asks the bridge with the group's policy, or the default where
\* that cannot be read.  A scanned message that is not yet stored refuses it.
Snapshot(w, p) ==
  /\ at[w] = "snapshot"
  /\ p \in ReadPolicies
  /\ maxSeq >= minSeq - 1
  /\ Taken(p).first..maxSeq \subseteq written
  /\ snap' = [snap EXCEPT ![w] = Taken(p)]
  /\ Goes(w, "save")
  /\ Stays
  /\ UNCHANGED <<tables, bridge, mine, ghosts>>

\* SavePlan: the policy is read again and the plan made again by it.  (Were its
\* answer lost, Retry would find no row that is the worker's.)
SavePlan(w, p) ==
  LET s == snap[w]  d == mine[w].day
  IN  /\ at[w] = "save"
      /\ p \in ReadPolicies
      /\ Provable(s, p)
      /\ MyJob(w)
      /\ job'  = [job EXCEPT ![d] = Ended(@, "planned")]
      /\ plan' = [plan EXCEPT ![d] = [attempt |-> mine[w].attempt,
                                      receipt |-> s.receipt,
                                      bound   |-> MinVisible(s, p)]]
      /\ expendable' = expendable \cup Beyond(s, p)
      /\ summed' = summed \cup Summed(s, p)
      /\ Forgets(w, "backfill")
      /\ Stays
      /\ UNCHANGED <<app, visibility, bridge>>

\* ErrRetentionLease: the row is another worker's, or done.
SaveLate(w) ==
  /\ at[w] = "save" /\ ~MyJob(w)
  /\ Forgets(w, "backfill")
  /\ Stays
  /\ UNCHANGED <<tables, bridge, ghosts>>

\* The snapshot or the plan is refused, a call fails or runs out of time.
PlanFails(w) ==
  /\ at[w] \in {"snapshot", "save"}
  /\ Goes(w, "retry")
  /\ Stays
  /\ UNCHANGED <<tables, bridge, mine, snap, ghosts>>

\* Retry, or its failure.
Retry(w) ==
  /\ at[w] = "retry"
  /\ LET d == mine[w].day
     IN \/ /\ MyJob(w)
           /\ job' = [job EXCEPT ![d] =
                        Ended(@, IF @.attempts >= MaxAttempts THEN "blocked"
                                                              ELSE "retry")]
        \/ UNCHANGED job
  /\ Forgets(w, "backfill")
  /\ Stays
  /\ UNCHANGED <<plan, app, visibility, bridge, ghosts>>

-----------------------------------------------------------------------------
(* Applying                                                                *)

\* ClaimApplication, first statement: every planned job gets an application.
Backfill(w) ==
  /\ at[w] = "backfill"
  /\ app' = [d \in DayOf |->
               IF active /\ job[d].status = "planned" /\ app[d].status = "none"
                 THEN [app[d] EXCEPT !.status = "queued"] ELSE app[d]]
  /\ Goes(w, "exhausted")
  /\ Stays
  /\ UNCHANGED <<job, plan, visibility, bridge, mine, snap, ghosts>>

BlockExhaustedApplications(w) ==
  /\ at[w] = "exhausted"
  /\ app' = [d \in DayOf |-> IF Exhausted(app[d], "applying")
                               THEN Ended(app[d], "blocked") ELSE app[d]]
  /\ Goes(w, "claim app")
  /\ Stays
  /\ UNCHANGED <<job, plan, visibility, bridge, mine, snap, ghosts>>

\* ... third statement: earlier applications of the group go first.
ClaimApplication(w, d) ==
  /\ at[w] = "claim app" /\ active
  /\ Claimable(app[d], "applying")
  /\ \A e \in 1..d - 1 : app[e].status \in {"none", "applied", "blocked"}
  /\ app' = [app EXCEPT ![d] = Leased(@, "applying")]
  /\ \/ /\ Goes(w, "apply")
        /\ mine' = [mine EXCEPT ![w] = [day |-> d, attempt |-> app'[d].attempts]]
     \/ Goes(w, "idle") /\ UNCHANGED mine
  /\ Stays
  /\ UNCHANGED <<job, plan, visibility, bridge, snap, ghosts>>

\* No prefix: blocked at once.  Nothing to hide: only to be recorded.
NothingToApply(w) ==
  /\ at[w] = "apply"
  /\ LET b == plan[mine[w].day].bound
     IN  b <= 0 /\ Goes(w, IF b = 0 THEN "complete" ELSE "reject")
  /\ Stays
  /\ UNCHANGED <<tables, bridge, mine, snap, ghosts>>

\* The bridge applies a bound only as its receipt says, and never lowers it.
Applicable(d) ==
  plan[d].bound > 0 /\ plan[d].receipt = plan[d].bound /\ d \notin lapsed

ApplyPrefix(w) ==
  /\ at[w] = "apply"
  /\ Applicable(mine[w].day)
  /\ minSeq' = Higher(minSeq, plan[mine[w].day].bound)
  /\ Goes(w, "complete")
  /\ Stays
  /\ UNCHANGED <<tables, lapsed, late, mine, snap, ghosts>>

\* Fault: a call that runs out of time counts as applied.
ApplyFailsUnseen(w) ==
  /\ at[w] = "apply" /\ plan[mine[w].day].bound > 0
  /\ Goes(w, "complete")
  /\ late' \in {late, late \cup {mine[w].day}}
  /\ Stays
  /\ UNCHANGED <<tables, minSeq, lapsed, mine, snap, ghosts>>

\* Refused, unreachable or out of time; the call may yet take effect.
ApplyFails(w) ==
  /\ at[w] = "apply" /\ plan[mine[w].day].bound > 0
  /\ Goes(w, "fail")
  /\ late' \in {late, late \cup {mine[w].day}}
  /\ Stays
  /\ UNCHANGED <<tables, minSeq, lapsed, mine, snap, ghosts>>

ApplyLate(d) ==
  /\ d \in late
  /\ late' = late \ {d}
  /\ minSeq' = IF Applicable(d) THEN Higher(minSeq, plan[d].bound) ELSE minSeq
  /\ Stays
  /\ UNCHANGED <<tables, lapsed, worker, ghosts>>

\* Fault: the row is overwritten whatever it holds.
PublishedAnyway(b) == [bound |-> b, revision |-> visibility.revision + 1]

Published(b) ==
  IF visibility.bound < b
    THEN [bound |-> b, revision |-> visibility.revision + 1] ELSE visibility

\* CompleteApplication: the bound is published in the transaction that ends
\* the application.
CompleteApplication(w) ==
  /\ at[w] = "complete"
  /\ MyApp(w)
  /\ LET d == mine[w].day
     IN  /\ visibility' = Published(plan[d].bound)
         /\ app' = [app EXCEPT ![d] = Ended(@, "applied")]
  /\ Forgets(w, "idle")
  /\ Stays
  /\ UNCHANGED <<job, plan, bridge, ghosts>>

\* ErrRetentionLease.
CompleteLate(w) ==
  /\ at[w] = "complete" /\ ~MyApp(w)
  /\ Forgets(w, "idle")
  /\ Stays
  /\ UNCHANGED <<tables, bridge, ghosts>>

CompleteFails(w) ==
  /\ at[w] = "complete"
  /\ Goes(w, "fail")
  /\ Stays
  /\ UNCHANGED <<tables, bridge, mine, snap, ghosts>>

\* RetryApplication, or its failure.
RetryApplication(w) ==
  /\ at[w] \in {"fail", "reject"}
  /\ LET d == mine[w].day
     IN \/ /\ MyApp(w)
           /\ app' = [app EXCEPT ![d] =
                        Ended(@, IF @.attempts >= MaxAttempts \/ at[w] = "reject"
                                   THEN "blocked" ELSE "retry")]
        \/ UNCHANGED app
  /\ Forgets(w, "idle")
  /\ Stays
  /\ UNCHANGED <<job, plan, visibility, bridge, ghosts>>

-----------------------------------------------------------------------------
(* Time and crashes                                                        *)

JobLeaseExpires(d) ==
  /\ job[d].status = "planning" /\ ~job[d].expired
  /\ job' = [job EXCEPT ![d].expired = TRUE]
  /\ Stays
  /\ UNCHANGED <<plan, app, visibility, bridge, worker, ghosts>>

ApplicationLeaseExpires(d) ==
  /\ app[d].status = "applying" /\ ~app[d].expired
  /\ app' = [app EXCEPT ![d].expired = TRUE]
  /\ Stays
  /\ UNCHANGED <<job, plan, visibility, bridge, worker, ghosts>>

\* A receipt is good for thirty days.
ReceiptLapses(d) ==
  /\ job[d].status = "planned" /\ d \notin lapsed
  /\ lapsed' = lapsed \cup {d}
  /\ Stays
  /\ UNCHANGED <<tables, minSeq, late, worker, ghosts>>

\* The process stops; a call of it may yet take effect.
Restart(w) ==
  /\ at[w] # "idle"
  /\ late' \in {late} \cup (IF at[w] = "apply" /\ plan[mine[w].day].bound > 0
                              THEN {late \cup {mine[w].day}} ELSE {})
  /\ Forgets(w, "idle")
  /\ Stays
  /\ UNCHANGED <<tables, minSeq, lapsed, ghosts>>

Group ==
  \/ Send \/ Dismiss
  \/ \E n \in 1..maxSeq : Store(n) \/ Hide(n) \/ \E v \in Windows : GrowOld(v, n)
  \/ \E p \in Policies : SetPolicy(p)

Time ==
  \E d \in DayOf :
    JobLeaseExpires(d) \/ ApplicationLeaseExpires(d) \/ ReceiptLapses(d) \/ ApplyLate(d)

Plans(w) ==
  \/ BlockExhaustedJobs(w) \/ Skip(w)
  \/ \E p \in Policies : Snapshot(w, p) \/ SavePlan(w, p)
  \/ SaveLate(w) \/ PlanFails(w) \/ Retry(w)
  \/ \E d \in DayOf : ClaimJob(w, d)

Applies(w) ==
  \/ Backfill(w) \/ BlockExhaustedApplications(w)
  \/ NothingToApply(w) \/ ApplyPrefix(w) \/ ApplyFails(w)
  \/ CompleteApplication(w) \/ CompleteLate(w) \/ CompleteFails(w)
  \/ RetryApplication(w)
  \/ \E d \in DayOf : ClaimApplication(w, d)

Work(w) == Plans(w) \/ Applies(w)

Next ==
  \/ Group \/ Time
  \/ \E w \in Workers : Work(w) \/ Restart(w) \/ \E d \in DayOf : Enqueue(w, d)

Spec == Init /\ [][Next]_vars

\* Time passes and a worker goes on; not all of its passes end in a restart or in
\* an error of the database before it has claimed what is due.
Fairness ==
  /\ \A d \in DayOf :
       /\ WF_vars(JobLeaseExpires(d)) /\ WF_vars(ApplicationLeaseExpires(d))
       /\ SF_vars(\E w \in Workers : ClaimJob(w, d))
       /\ SF_vars(\E w \in Workers : ClaimApplication(w, d))
  /\ \A w \in Workers : WF_vars(Work(w))
  /\ SF_vars(\E w \in Workers : BlockExhaustedJobs(w))
  /\ SF_vars(\E w \in Workers : Skip(w))
  /\ SF_vars(\E w \in Workers : Backfill(w))
  /\ SF_vars(\E w \in Workers : BlockExhaustedApplications(w))

FairSpec == Spec /\ Fairness

-----------------------------------------------------------------------------
(* Properties                                                              *)

JobRows == [status : {"none", "queued", "planning", "retry", "blocked", "planned"},
          attempts : 0..MaxAttempts, expired : BOOLEAN]
AppRows == [status : {"none", "queued", "applying", "retry", "blocked", "applied"},
          attempts : 0..MaxAttempts, expired : BOOLEAN]

Seqs   == 1..maxSeq
Bounds == 0..MaxSeq + 1
Places == {"idle", "claim", "snapshot", "save", "retry", "backfill", "exhausted",
           "claim app", "apply", "complete", "fail", "reject"}

Snapshots == [first : Bounds, mark : 0..MaxSeq, over : 0..MaxSeq, cut : Windows,
              visible : SUBSET Seqs, old : [Windows -> SUBSET Seqs], receipt : Bounds]

TypeOK ==
  /\ maxSeq \in 0..MaxSeq
  /\ written \subseteq Seqs /\ hidden \subseteq written
  /\ old \in [Windows -> SUBSET Seqs]
  /\ policy \in Policies /\ active \in BOOLEAN
  /\ job \in [DayOf -> JobRows] /\ app \in [DayOf -> AppRows]
  /\ plan \in [DayOf -> [attempt : 0..MaxAttempts, receipt : Bounds,
                         bound : Bounds \cup {NonPrefix}]]
  /\ visibility \in [bound : Bounds, revision : Nat]
  /\ minSeq \in Bounds
  /\ lapsed \subseteq DayOf /\ late \subseteq DayOf
  /\ at \in [Workers -> Places]
  /\ mine \in [Workers -> [day : 0..Days, attempt : 0..MaxAttempts]]
  /\ snap \in [Workers -> Snapshots]
  /\ expendable \subseteq Seqs /\ summed \subseteq Seqs

\* What is below OpenIM's history bound was shown to nobody, or beyond both limits
\* of the policy by which its plan was saved, or came with the summary of the plan's
\* snapshot.  That last is beyond the quota of the policy by which the plan was saved,
\* but only older than the window for which the snapshot was asked: SavePlan reads
\* another policy, and looks at the window again only for the rows that were listed.
\* However old the snapshot, and whoever applies the plan, nothing else is hidden.
OnlyExpendableHidden ==
  \A n \in 1..minSeq - 1 : n \in expendable \cup summed \cup hidden

\* What retention_visibility.go:15-16 says of RetentionMinSeq, of the policy by which
\* the plan was saved: the bound does not advance across a message that is retained,
\* also when send times are out of order.  It does, if the window is widened between
\* snapshot and plan, and if an older number has the later time.
NoKeptMessageCrossed == \A n \in Visible : n < minSeq => n \in expendable

\* The plan of a job comes from its last claim: a planner that was slow or
\* stopped for a while does not write over a newer one.
PlanOfLastClaim ==
  \A d \in DayOf : job[d].status = "planned" => plan[d].attempt = job[d].attempts

\* The three places that know of a bound agree, whatever call, answer or lease was
\* lost: clients are told a bound only once OpenIM has it, and they are told all
\* that an application which counts as applied hides.
BoundsAgree ==
  /\ visibility.bound <= minSeq
  /\ \A d \in DayOf : app[d].status = "applied" => plan[d].bound <= visibility.bound

\* The published bound never moves back, and its revisions have no gap.
BoundGrows == Bound!BoundSpec

Settled(d) ==
  \/ job[d].status = "blocked"
  \/ job[d].status = "planned" /\ app[d].status \in {"blocked", "applied"}

\* Each day's job ends, whatever fails on the way, unless the group does.
DaysSettle ==
  \A d \in DayOf : job[d].status # "none" ~> Settled(d) \/ ~active
=============================================================================
