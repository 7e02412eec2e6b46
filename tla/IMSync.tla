------------------------------- MODULE IMSync -------------------------------
(***************************************************************************)
(* How the relations of the business database reach OpenIM: every change   *)
(* of a friendship, a block or a group writes a row of im_sync_outbox in   *)
(* its own transaction (internal/repository/{contact,group,im_sync}.go);   *)
(* the sync worker of each server instance claims rows under a lease, most *)
(* often reads the present state again, brings OpenIM to it call by call   *)
(* and marks the row (internal/service/im_sync.go).                        *)
(*                                                                         *)
(* A behaviour is about one aggregate, a pair of users or a group: rows of *)
(* the others touch nothing of theirs.  OpenIM is external: a call changes *)
(* its state at once, or fails before or after it has.                     *)
(*                                                                         *)
(* A definition under a comment "Fault" is no part of the specification:   *)
(* it is a wrong form of the definition that follows it, one that a        *)
(* property below must reject.                                             *)
(***************************************************************************)
EXTENDS Integers, Sequences, FiniteSets

CONSTANTS
  Workers,      \* worker incarnations: each has a fresh WorkerID
  NoWorker,     \* the empty locked_by column
  Names,        \* names of the group
  BatchSize,    \* rows of one ClaimBatch
  MaxAttempts,  \* attempt_count at which a failing row becomes dead
  MaxJobs,      \* bound of the model: rows ever written
  OneInstance,  \* at most one server instance runs at a time
  Bans          \* the member may be banned

ASSUME SyncAssumption ==
  /\ NoWorker \notin Workers
  /\ {BatchSize, MaxAttempts, MaxJobs} \subseteq Nat \ {0}
  /\ OneInstance \in BOOLEAN /\ Bans \in BOOLEAN

VARIABLES
  about,    \* which aggregate the rows are about: "pair" or "group"
  friends,  \* friendships has the two rows of the pair
  blocked,  \* user_blocks has the row of the pair
  group,    \* groups.{status, name, all_muted} and the membership of one user,
            \* not the owner
  userActive, \* users.status of that user
  jobs,     \* im_sync_outbox in the order of its ids
  state,    \* where the loop of a worker stands
  todo,     \* claimed rows that the worker's RunOnce has still to handle
  now,      \* the row it is handling, 0: none
  calls,    \* the calls of the row that are still to be made
  openim,   \* what OpenIM holds of the same pair and the same group
  missed    \* ghost: the last row about the member was read while the member
            \* was banned

business == <<about, friends, blocked, group, userActive>>
worker   == <<state, todo, now, calls>>
vars     == <<business, jobs, worker, openim, missed>>

Both   == {"ab", "ba"}  \* OpenIM keeps a friendship as two directed links
Events == {"friend", "block", "created", "updated", "joined", "left",
           "muted", "dismissed"}
GroupEvents == Events \ {"friend", "block"}
Unsettled == {"pending", "processing", "retry"}

Ids == DOMAIN jobs

Init ==
  /\ about \in {"pair", "group"}
  /\ friends = FALSE
  /\ blocked = FALSE
  /\ \E n \in Names :
       group = [status |-> "none", name |-> n, member |-> FALSE, muted |-> FALSE]
  /\ jobs   = <<>>
  /\ state  = [w \in Workers |-> "new"]
  /\ todo   = [w \in Workers |-> {}]
  /\ now    = [w \in Workers |-> 0]
  /\ calls  = [w \in Workers |-> <<>>]
  /\ userActive = TRUE
  /\ openim = [links |-> {}, black |-> FALSE, group |-> group]
  /\ missed = FALSE

-----------------------------------------------------------------------------
(* The business transactions, each with its row of the outbox              *)

Row(event, name) == [event |-> event, name |-> name, status |-> "pending",
                     attempts |-> 0, lockedBy |-> NoWorker, expired |-> FALSE]

\* EnqueueIMSyncAggregateTx
Enqueue(rows) ==
  /\ Len(jobs) + Len(rows) <= MaxJobs
  /\ jobs' = jobs \o rows
  /\ UNCHANGED <<worker, openim, missed>>

Event(event) == Enqueue(<<Row(event, "none")>>)

\* AddFriendDirect, AcceptFriendRequest, DeleteFriend; BlockUser, UnblockUser.
\* A repeated request changes nothing and still writes its row.
ChangeFriendship ==
  /\ about = "pair"
  /\ friends' \in BOOLEAN
  /\ Event("friend")
  /\ UNCHANGED <<about, blocked, group, userActive>>

ChangeBlock ==
  /\ about = "pair"
  /\ blocked' \in BOOLEAN
  /\ Event("block")
  /\ UNCHANGED <<about, friends, group, userActive>>

CreateGroup ==
  /\ about = "group" /\ group.status = "none"
  /\ \E m \in BOOLEAN :
       group' = [group EXCEPT !.status = "active", !.member = m]
  /\ Event("created")
  /\ UNCHANGED <<about, friends, blocked, userActive>>

\* Update: only the fields that change get into the row's payload.
RenameGroup(n) ==
  /\ group.status = "active" /\ n # group.name
  /\ group' = [group EXCEPT !.name = n]
  /\ Enqueue(<<Row("updated", n)>>)
  /\ UNCHANGED <<about, friends, blocked, userActive>>

\* addMemberWithOperator, for a user who is not a member yet.
MemberJoins ==
  /\ group.status = "active" /\ ~group.member
  /\ group' = [group EXCEPT !.member = TRUE]
  /\ Event("joined")
  /\ UNCHANGED <<about, friends, blocked, userActive>>

\* enqueueOwnerInviteMember: write the row again for a user who is a member.
InviteAgain ==
  /\ group.status = "active" /\ group.member
  /\ Event("joined")
  /\ UNCHANGED business

\* removeMembership does not look at the status of the group.
MemberLeaves ==
  /\ group.status # "none" /\ group.member
  /\ group' = [group EXCEPT !.member = FALSE]
  /\ Event("left")
  /\ UNCHANGED <<about, friends, blocked, userActive>>

\* The user is banned or let in again, from the console or by a restriction:
\* an UPDATE of users alone, which writes no row.
SetUserStatus ==
  /\ Bans /\ about = "group"
  /\ userActive' = ~userActive
  /\ UNCHANGED <<about, friends, blocked, group, jobs, worker, openim, missed>>

UpdateGroupMute ==
  /\ group.status = "active"
  /\ \E m \in BOOLEAN : group' = [group EXCEPT !.muted = m]
  /\ Event("muted")
  /\ UNCHANGED <<about, friends, blocked, userActive>>

Dismiss ==
  /\ group.status = "active"
  /\ group' = [group EXCEPT !.status = "dismissed"]
  /\ Event("dismissed")
  /\ UNCHANGED <<about, friends, blocked, userActive>>

\* EnqueueReconciliation: one row for each relation that exists.
EnqueueReconciliation ==
  LET row(exists, event) == IF exists THEN <<Row(event, "none")>> ELSE <<>> IN
  /\ Enqueue(row(friends, "friend") \o row(blocked, "block")
               \o row(group.status = "active", "created"))
  /\ jobs' # jobs
  /\ UNCHANGED business

\* ReplayDead
ReplayDead(j) ==
  /\ jobs[j].status = "dead"
  /\ jobs' = [jobs EXCEPT ![j].status = "pending", ![j].attempts = 0]
  /\ UNCHANGED <<business, worker, openim, missed>>

-----------------------------------------------------------------------------
(* The worker's loop: Run and RunOnce                                      *)

Running(w) == state[w] \notin {"new", "down"}

Start(w) ==
  /\ state[w] = "new"
  /\ OneInstance => \A v \in Workers : ~Running(v)
  /\ state' = [state EXCEPT ![w] = "idle"]
  /\ UNCHANGED <<business, jobs, todo, now, calls, openim, missed>>

\* The process stops, also between two calls; another one takes over.
Crash(w) ==
  /\ Running(w)
  /\ \E v \in Workers \ {w} : state[v] # "down"
  /\ state' = [state EXCEPT ![w] = "down"]
  /\ todo'  = [todo EXCEPT ![w] = {}]
  /\ now'   = [now EXCEPT ![w] = 0]
  /\ calls' = [calls EXCEPT ![w] = <<>>]
  /\ UNCHANGED <<business, jobs, openim, missed>>

\* Fault: rows that a worker left behind are not claimed again.
ClaimableOnce == {j \in Ids : jobs[j].status \in {"pending", "retry"}}

Claimable == {j \in Ids : \/ jobs[j].status \in {"pending", "retry"}
                          \/ jobs[j].status = "processing" /\ jobs[j].expired}

\* ClaimBatch takes the first rows that are due (a retry may not be yet) and
\* counts the attempt.  When reading them fails they stay claimed.
ClaimBatch(w) ==
  /\ state[w] = "idle" /\ todo[w] = {}
  /\ \E waits \in SUBSET {j \in Ids : jobs[j].status = "retry"} :
       LET due   == Claimable \ waits
           batch == {j \in due : Cardinality({i \in due : i < j}) < BatchSize} IN
       /\ batch # {}
       /\ jobs' = [j \in Ids |->
            IF j \in batch
            THEN [jobs[j] EXCEPT !.status = "processing", !.lockedBy = w,
                    !.expired = FALSE,
                    !.attempts = IF @ < MaxAttempts THEN @ + 1 ELSE @]
            ELSE jobs[j]]
       /\ \E read \in {batch, {}} : todo' = [todo EXCEPT ![w] = read]
  /\ UNCHANGED <<business, state, now, calls, openim, missed>>

\* locked_at is five minutes ago
LockExpires(j) ==
  /\ jobs[j].status = "processing" /\ ~jobs[j].expired
  /\ jobs' = [jobs EXCEPT ![j].expired = TRUE]
  /\ UNCHANGED <<business, worker, openim, missed>>

-----------------------------------------------------------------------------
(* syncEvent: what to ask of OpenIM                                        *)

Ask(op, value) == <<[op |-> op, value |-> value]>>

\* buildGroupFromState: a member who is banned is left out.
Listed    == group.member /\ userActive
GroupSeen == [group EXCEPT !.member = Listed]

\* Fault: the membership is not read again.
MemberCallsBlind(event) ==
  Ask("ensure", GroupSeen) \o Ask("member", event = "joined")

\* The member is invited only while listed, removed only when not.
MemberCalls(event) ==
  Ask("ensure", GroupSeen)
    \o (IF Listed = (event = "joined") THEN Ask("member", Listed) ELSE <<>>)

\* syncFriendshipState and syncBlockState, on what they read now.
RelationCalls(event) ==
  CASE event = "block" -> Ask("black", blocked)
    [] event = "friend" /\ friends  -> Ask("import", Both)
    [] event = "friend" /\ ~friends -> Ask("unlink", {"ab"}) \o Ask("unlink", {"ba"})

\* syncGroup, on what it reads now; only a renaming brings its value along.
GroupCalls(row) ==
  CASE row.event = "dismissed"   -> Ask("dismiss", TRUE)
    [] group.status # "active" /\ row.event # "dismissed" -> <<>>
    [] OTHER ->
         CASE row.event = "created" -> Ask("ensure", GroupSeen) \o Ask("fill", Listed)
           [] row.event = "updated" -> Ask("rename", [group |-> GroupSeen, name |-> row.name])
           [] row.event = "muted"   -> Ask("ensure", GroupSeen) \o Ask("mute", group.muted)
           [] OTHER                 -> MemberCalls(row.event)

CallsFor(row) == IF row.event \in GroupEvents THEN GroupCalls(row) ELSE RelationCalls(row.event)

\* What a call does to the group OpenIM knows.  A group it has once known is
\* registered for good: "ensure" and "rename" create only one it never had,
\* from the state that was read.
GroupAfter(call, g) ==
  LET created(read) == [read EXCEPT !.status = "active", !.muted = FALSE] IN
  CASE call.op = "ensure"  -> IF g.status = "none" THEN created(call.value) ELSE g
    [] call.op = "rename"  -> IF g.status = "none" THEN created(call.value.group)
                              ELSE [g EXCEPT !.name = call.value.name]
    [] call.op = "member"  -> [g EXCEPT !.member = call.value]
    [] call.op = "fill"    -> [g EXCEPT !.member = @ \/ call.value]
    [] call.op = "mute"    -> [g EXCEPT !.muted = call.value]
    [] call.op = "dismiss" -> IF g.status = "none" THEN g
                              ELSE [g EXCEPT !.status = "dismissed"]

After(call, s) ==
  CASE call.op = "import" -> [s EXCEPT !.links = Both]
    [] call.op = "unlink" -> [s EXCEPT !.links = @ \ call.value]
    [] call.op = "black"  -> [s EXCEPT !.black = call.value]
    [] OTHER              -> [s EXCEPT !.group = GroupAfter(call, @)]

-----------------------------------------------------------------------------
(* Handling one row                                                        *)

Become(w, next) == state' = [state EXCEPT ![w] = next]

\* What a row read now leaves of the member: one that is to bring the member in
\* passes over a banned one, and a removal takes a banned one out.
NowMissed(event) ==
  CASE event \in {"joined", "created"} -> group.member /\ ~userActive
    [] event = "left" -> missed \/ (group.member /\ ~userActive)
    [] OTHER -> missed

\* The rows of a batch are handled one by one; SQL gives them in no
\* particular order.  RelationshipState, GetSyncState: read the business
\* state, ...
Load(w) ==
  /\ state[w] = "idle"
  /\ \E j \in todo[w] :
       /\ now'   = [now EXCEPT ![w] = j]
       /\ todo'  = [todo EXCEPT ![w] = @ \ {j}]
       /\ calls' = [calls EXCEPT ![w] = CallsFor(jobs[j])]
       /\ missed' = NowMissed(jobs[j].event)
  /\ Become(w, "calling")
  /\ UNCHANGED <<business, jobs, openim>>

\* ... make the calls it asks for, ...
Call(w) ==
  /\ state[w] = "calling" /\ calls[w] # <<>>
  /\ openim' = After(Head(calls[w]), openim)
  /\ calls'  = [calls EXCEPT ![w] = Tail(@)]
  /\ UNCHANGED <<business, jobs, state, todo, now, missed>>

\* Fault: the error of a call is dropped and the row goes on as if all were made.
CallFailsUnseen(w) ==
  /\ state[w] = "calling" /\ calls[w] # <<>>
  /\ openim' \in {openim, After(Head(calls[w]), openim)}
  /\ calls'  = [calls EXCEPT ![w] = <<>>]
  /\ UNCHANGED <<business, jobs, state, todo, now, missed>>

\* ... until one of them fails, whether or not OpenIM has acted on it (the
\* read of the business state fails like a call that has done nothing).
CallFails(w) ==
  /\ state[w] = "calling" /\ calls[w] # <<>>
  /\ openim' \in {openim, After(Head(calls[w]), openim)}
  /\ calls'  = [calls EXCEPT ![w] = <<>>]
  /\ Become(w, "failed")
  /\ UNCHANGED <<business, jobs, todo, now, missed>>

\* The UPDATE of MarkCompleted and MarkFailed, which is no error when the row
\* has got another worker.
Mark(w, status) ==
  LET j == now[w] IN
  jobs' = IF jobs[j].status = "processing" /\ jobs[j].lockedBy = w
          THEN [jobs EXCEPT ![j].status = status, ![j].lockedBy = NoWorker,
                            ![j].expired = FALSE]
          ELSE jobs

Done(w) ==
  /\ Become(w, "idle")
  /\ now' = [now EXCEPT ![w] = 0]
  /\ UNCHANGED <<business, calls, openim, missed>>

MarkCompleted(w) ==
  /\ state[w] = "calling" /\ calls[w] = <<>>
  /\ Mark(w, "completed")
  /\ Done(w)
  /\ UNCHANGED todo

\* Fault: a row out of attempts gets a status nothing reads.
MarkFailedNamed(w) ==
  /\ state[w] = "failed"
  /\ Mark(w, IF jobs[now[w]].attempts >= MaxAttempts THEN "failed" ELSE "retry")
  /\ Done(w)
  /\ UNCHANGED todo

MarkFailed(w) ==
  /\ state[w] = "failed"
  /\ Mark(w, IF jobs[now[w]].attempts >= MaxAttempts THEN "dead" ELSE "retry")
  /\ Done(w)
  /\ UNCHANGED todo

\* Marking fails: RunOnce returns, and the rest of the batch stays claimed.
Abandon(w) ==
  /\ state[w] = "failed" \/ (state[w] = "calling" /\ calls[w] = <<>>)
  /\ todo' = [todo EXCEPT ![w] = {}]
  /\ Done(w)
  /\ UNCHANGED jobs

-----------------------------------------------------------------------------
Business ==
  \/ ChangeFriendship \/ ChangeBlock
  \/ CreateGroup \/ (\E n \in Names : RenameGroup(n)) \/ UpdateGroupMute \/ Dismiss
  \/ MemberJoins \/ InviteAgain \/ MemberLeaves \/ SetUserStatus
  \/ EnqueueReconciliation \/ (\E j \in Ids : ReplayDead(j))

Handle(w) == Load(w) \/ Call(w) \/ CallFails(w) \/ MarkCompleted(w) \/ MarkFailed(w) \/ Abandon(w)

Next ==
  \/ Business
  \/ \E w \in Workers : Start(w) \/ Crash(w) \/ ClaimBatch(w) \/ Handle(w)
  \/ \E j \in Ids : LockExpires(j)

Spec == Init /\ [][Next]_vars

\* A process that has stopped is replaced, a running one goes on with its
\* rows and leases run out.  The database does not fail every time for a row,
\* nor for another row of its batch every time before it.  Nothing is assumed
\* of OpenIM.
Fairness ==
  /\ \A w \in Workers : WF_vars(Start(w)) /\ WF_vars(Handle(w))
  /\ \A j \in 1..MaxJobs :
       /\ WF_vars(j \in Ids /\ LockExpires(j))
       /\ \A w \in Workers :
            /\ SF_vars(ClaimBatch(w) /\ j \in todo'[w])
            /\ SF_vars(Load(w) /\ now'[w] = j)
            /\ SF_vars(now[w] = j /\ MarkCompleted(w))
            /\ SF_vars(now[w] = j /\ MarkFailed(w))

FairSpec == Spec /\ Fairness

-----------------------------------------------------------------------------
(* Properties                                                              *)

GroupSet == [status : {"none", "active", "dismissed"}, name : Names,
             member : BOOLEAN, muted : BOOLEAN]
RowSet == [event : Events, name : Names \cup {"none"}, attempts : 0..MaxAttempts,
           status : Unsettled \cup {"completed", "dead"},
           lockedBy : Workers \cup {NoWorker}, expired : BOOLEAN]

TypeOK ==
  /\ about \in {"pair", "group"}
  /\ friends \in BOOLEAN /\ blocked \in BOOLEAN /\ group \in GroupSet
  /\ userActive \in BOOLEAN /\ missed \in BOOLEAN
  /\ jobs \in Seq(RowSet) /\ Len(jobs) <= MaxJobs
  /\ state \in [Workers -> {"new", "idle", "calling", "failed", "down"}]
  /\ todo \in [Workers -> SUBSET Ids]
  /\ now \in [Workers -> Ids \cup {0}]
  /\ openim \in [links : SUBSET Both, black : BOOLEAN, group : GroupSet]

AllCompleted(events) ==
  \A j \in Ids : jobs[j].event \in events => jobs[j].status = "completed"

\* Once every row of a relation is completed OpenIM agrees with the business
\* database, in whatever order the rows were handled, however often they
\* failed half way and wherever the worker stopped.
RelationsConverge ==
  /\ AllCompleted({"friend"}) => openim.links = (IF friends THEN Both ELSE {})
  /\ AllCompleted({"block"}) => openim.black = blocked

\* The same of a group: it exists until it is dismissed, with its mute, without
\* a member who has left and with the one there is.  The last does not hold of a
\* member who was banned when the last row about the membership was read: that
\* row is completed without a call, nothing follows when the ban is lifted, and
\* only a reconciliation or another invitation brings the member in.
GroupConverges ==
  AllCompleted(GroupEvents) =>
    /\ (openim.group.status = "active") <=> (group.status = "active")
    /\ group.status = "active" =>
         /\ openim.group.muted = group.muted
         /\ openim.group.member => group.member
         /\ group.member /\ ~missed => openim.group.member

\* Joining and leaving a group are brought to OpenIM by the outbox: of a user who
\* is not banned, once all rows of the group are completed, OpenIM knows whether
\* that user is a member.
MembersConverge ==
  AllCompleted(GroupEvents) /\ group.status = "active" /\ userActive =>
    openim.group.member = group.member

\* No row is left behind: each is completed or, after MaxAttempts failures,
\* set aside for the operator.
EveryRowSettles ==
  \A j \in 1..MaxJobs :
    (j \in Ids /\ jobs[j].status \in Unsettled)
      ~> (j \in Ids /\ jobs[j].status \in {"completed", "dead"})

\* Renamings are applied in the order they were made, so that in the end
\* OpenIM has the present name.
NamesConverge ==
  AllCompleted(GroupEvents) /\ group.status = "active" =>
    openim.group.name = group.name
=============================================================================
