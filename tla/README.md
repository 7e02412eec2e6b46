# A specification of IM-APP

TLA+ modules, TLC configurations and TLAPS proofs about IM-APP, an instant
messaging product: a Go business server (`IM-APP-server`) over PostgreSQL, Redis
and Kafka that drives an OpenIM server, a Go admin backend (`IM-APP-admin`), a
Vue admin console (`IM-APP-system`), a uni-app client (`IM-APP-fronend`), and
Viron (`IM-ops/viron`), the operations platform beside it: a TypeScript server
and an Electron App through which people and agents reach SSH hosts and databases.
Paths below are relative to `IM-APP-server/` unless they say otherwise.

Three kinds of logic are hard to get right, and they are what is modelled here:
in the business server, several processes share database rows under leases and
reach a second system (OpenIM, Kafka) that no transaction covers; in the client,
every handler reads shared state, waits for the OpenIM SDK and writes what it read;
in Viron, a server and an App that may both restart execute what a user approved,
and terminals, a registry and a pool of connections are closed from several sides.

## 1. Inventory

| Component | State | Operations | Hard because | Correct when |
|---|---|---|---|---|
| Forwarding queue (`internal/repository/forward.go`, `internal/service/forward.go`) | `forward_tasks` (status, counters, `finished_at`), `forward_task_targets` (status, lease), `forward_delivery_settings.queue_paused` | owner: submit, cancel, pause, resume, retry; operator: pause the queue; worker: poll, claim, process a target, record its outcome | leases that run out under a slow worker, crashes, lost answers, owner and worker writing the same rows | counters exact, status true, sent once unless a lease or an answer was lost, every target settles |
| Forwarding drafts (same files, `internal/handler/forward.go`) | one task under an idempotency key, its target rows, `target_count` | create, add, add groups, generate, remove, clear, submit, cancel, CreateBatch | removal and batches are several statements without a transaction | count equals rows, exclusions hold after a replay |
| Forwarding outbox (`forward_kafka_outbox`, `ForwardOutboxPublisher`) | one row per task with a lease | enqueue (submit, resume, retry), claim, publish, mark | a row starts over while it is being published | "published" means the present round was published; every round is |
| OpenIM synchronisation (`internal/repository/im_sync.go`, `internal/service/im_sync.go`) | `im_sync_outbox`, and what OpenIM holds | enqueue beside each business change, claim, handle (read again, call), mark, reconcile, replay dead rows | several calls per row, half-done rows, rows out of order, several instances, bans that write no row | OpenIM agrees with the database once the rows are done; each row is done or dead |
| Contacts and blocks (`internal/repository/contact.go`) | `friendships`, `user_blocks` | accept, add, delete, block, unblock | feeds the synchronisation | as above |
| Groups (`internal/repository/group.go`) | `groups`, `group_members`, requests, mutes, roles | create, update, join, leave, invite, roles, mute, dismiss, purge | limits checked under row locks; feeds the synchronisation | as above, and the member limit holds |
| Group message retention (`internal/repository/group_retention*.go`, `internal/service/group_retention*.go`, `internal/media/retention.go`) | jobs and applications with leases and tokens, a published bound per group; in OpenIM the history bound | enqueue, claim, snapshot, plan, apply through the bridge, publish the bound | leases of two minutes, attempts limit, a policy and a history that change under a plan, applications retried and late | only what a policy lets go is hidden; the bound never moves back and never runs ahead of OpenIM; each day settles |
| Recall, system messages, tokens (`internal/service/im.go`, `internal/service/im_admin.go`, `internal/repository/im_access.go`) | reservations under a key, a token cache | reserve, call OpenIM, complete or fail; take over after a minute | a slow first attempt races its successor | one message per key unless an attempt was taken over; the row and every answer say what happened |
| Forwarded and favourite media | copies of media objects | archive, clean up | object storage is not transactional | no message refers to a deleted object |
| Authentication, files, voice, stickers, push, releases, feedback, reports | single tables | request handlers | little: request-local | — |
| WebSocket hub (`internal/ws/hub.go`) | connected clients | register, unregister, fan out | channels and locks | — |
| OpenIM webhooks | audit rows | admission checks | stateless | — |
| Start-up, configuration, migrations | — | sequential | — | — |
| Client chat messages (`IM-APP-fronend/src/stores/chat.ts`, `pages/chat/room.vue`) | the list of bubbles of each conversation, whether it is complete, pending loads and sends | load, load more, refresh after a server sync, events, send with a placeholder (of an image after its preview, in a group with a late seq), leave, reset | every operation reads the list before an await and writes it after; events, answers and a change of account come in between | the open room shows what the SDK has stored, each message once, marks stay |
| Client OpenIM session (`IM-APP-fronend/src/utils/openim.ts`, `stores/user.ts`) | who is logged in and under which business token, an epoch, one login under way, a chain of session tasks | ensure, login, logout, reopen the database, kick, reconnect | a logout during a login; tasks that call tasks; a logout that is not waited for | a reused session is that of the stored token; every call returns |
| Viron MCP operations (`IM-ops/viron/src/server/mcp/operation-store.ts`, `routes/mcp-operations.ts`, `desktop/main.ts`) | status, lease and expiry at the server; known ids, leases, cached responses and windows in the App | create, purpose, approve, execute at the server or in the App, post the result, cancel, expire | answers lost or late, cancellation during execution, restarts of either side | executed at most once, never without consent, status true |
| Viron connection pool (`IM-ops/viron/src/shared/idle-resource-pool.ts`) | entries, busy and invalid flags, a generation | acquire, release, invalidate, clean up | invalidation while a connection is made or in use | one holder, closed once, nothing outdated reused |
| Viron SSH terminals, registry (`IM-ops/viron/src/server/ssh/session-manager.ts`, `active-connections.ts`, `user-runtime.ts`) | sessions, registry entries, transports | create, close, request a close, revoke a user | five awaits in `create`, each of which may fail or be overtaken by a close | limit kept, registry and manager agree, transports safe |
| Viron: databases, Redis, SFTP, logs, web views, desktop runtimes, agent, accounts, monitoring, backup | managers of the same form; own tables | as above; CRUD | as above | — |
| Client group history bound (`IM-APP-fronend/src/utils/groupRetention.ts`) | the bound of each group in memory and, per account, in storage; batches under way | ask, merge, store, filter, prune; change of login | answers late or of another login | — |
| Admin backend, console, client user interface, deployment | own tables; caches | CRUD with RBAC; user interface; compose files | its forwarding operations are those of the queue | — |

How they interact. The HTTP handlers write PostgreSQL; a change that OpenIM must
see writes a row of `im_sync_outbox` in the same transaction. `cmd/server/main.go`
starts, in every instance, one `IMSyncWorker`, one `ForwardWorker.RunPolling`
and one `ForwardOutboxPublisher`, each with a fresh worker id. They share nothing
but the rows of the database, which they claim with `FOR UPDATE SKIP LOCKED` and
hold with `locked_by` and a lease. OpenIM and Kafka are reached over the network;
each call may be applied without being answered.

The client talks to the OpenIM SDK, which keeps the messages, pushes events and
answers calls later; `chat.ts` needs a session, which `openim.ts` provides, and
`user.ts` ends it. Viron's terminals take transports from the pool and entries from
the registry; operations reach them only through requests. `PROJECT.json` lists the
hazards all this leads to, each at its line.

## 2. The modules

| Module | What it is |
|---|---|
| `ForwardQueue` | the delivery queue: task and target rows, workers, the owner's requests |
| `ForwardPromise` | the abstract specification it implements: no workers, leases or counters |
| `ForwardQueueProofs` | eleven theorems about `ForwardQueue`, among them that it implements `ForwardPromise` |
| `ForwardDraft` | how a task is assembled, one statement at a time |
| `ForwardOutbox` | the Kafka outbox and its publishers |
| `ForwardDraftProofs` | three theorems about `ForwardDraft` and three about `ForwardOutbox` |
| `IMSync` | business changes, `im_sync_outbox`, its workers and OpenIM |
| `IMSyncProofs` | three theorems about `IMSync`, among them that OpenIM agrees with the database once the rows are done, and four about `IMReservation` |
| `RetentionBound` | the abstract specification of message retention: one bound that grows |
| `GroupRetention` | jobs, plans and applications of one group under leases; it implements `RetentionBound` |
| `GroupRetentionProofs` | six theorems about `GroupRetention`, among them that it implements `RetentionBound` |
| `IMReservation` | a system message or a recall: reserving, calling OpenIM, recording |
| `ChatMessages` | the bubbles of one conversation of the client, and the SDK around them |
| `ChatMessagesProofs` | four theorems about `ChatMessages`, among them that no message has two bubbles and that marks stay |
| `ClientSession` | the OpenIM session of the client, await by await |
| `ClientSessionProofs` | that a session is that of the stored token, and that session tasks take turns |
| `VironOperations` | operations of Viron: the store, its routes and the App |
| `VironOperationsProofs` | five theorems about `VironOperations` |
| `IdlePool` | the pool of connections: what its users may rely on, and how it does it |
| `SshSessions` | terminals and registry over `IdlePool`, which it extends |
| `SshSessionsProofs` | the safety of `IdlePool`, that terminals use it as specified, and four properties of them |
| `MC*` | model values and symmetry for TLC |

A step is one SQL statement or one transaction, or one call to OpenIM or Kafka;
whatever a process does in memory between two of them belongs to one of the two.
Under READ COMMITTED a statement reads its snapshot before it waits for row locks;
where that matters (`ForwardDraft`) the read and the write are two steps. Time is
abstract: a lease may run out at any moment, a retry delay is any finite time.
A process that stops loses its memory and is succeeded by one with another id,
so `Workers` are process incarnations; the last of them is not stopped.
The TypeScript parts run on one event loop each: a step is what runs from one
`await` to the next.

A definition under a comment "Fault" is a wrong form of the definition that
follows it, the way a plausible slip in the code would make it. None is used by a
specification; putting one in the place of the right form makes TLC find the
property that is paired with it in `PROJECT.json` violated, which is how each
property is known to be able to fail.

### ForwardQueue

| Variable | Code |
|---|---|
| `taskStatus`, `doneCount`, `count`, `finishedAt` | `forward_tasks`: `status`, `done_count`, the four outcome counters, `finished_at IS NOT NULL` |
| `targetStatus`, `lockedBy`, `lockExpired` | `forward_task_targets`: `status`, `locked_by`, `locked_until < NOW()` |
| `queuePaused` | `forward_delivery_settings.queue_paused` |
| `workerState` | where `RunPolling` stands: idle, settings read, claim committed, down |
| `holding` | per worker and target, what `processTarget` is about to do |
| `sends`, `excused` | ghosts: accepted send calls (0, 1, or 2 and more); a lease ran out or an answer was lost |

`Submit`, `Cancel`, `Pause`, `Resume`, `Retry` and `SetQueuePaused` are the
repository's transactions. A worker goes through `Poll` (settings), `Claim` (the
lease of `ClaimRunnableTargets`) or `ClaimUnread` (the claim is committed but its
rows cannot be read), `MarkProcessing` (the second statement, whose error the code
drops), and then per target `Decide` (`GetTaskForWorker`, eligibility, media),
one of the `Send...` actions, and `FinishTarget`, `MarkTargetRetry` or `Drop`.
Targets of a batch proceed independently, as the goroutines of `processBatch` do.

Simplified: the draft is complete when it is submitted and `target_count` is the
number of its rows (`ForwardDraft` shows when it is not); a batch is any part of
the claimable rows (order and limits of the query are left out); the message, the
peer kinds and the back-off do not appear; a claim whose rows cannot be read does
not set its task to `processing`. `RunTaskOnce` and the Kafka consumer `Run` are
not started by `main.go` and not modelled.

### ForwardDraft

`status`, `rows` and `targetCount` are the task and its targets; `todo` holds the
statements each request still has to run, so that a request may break off after any
of them (`Fail`). `kind`, `named`, `victims` and `counted` are local variables of
the handlers. `submitter`, `overlap` and `torn` are ghosts: who submitted, whether
two requests ever ran side by side, whether a removal was cut short or met another
write. `AddTargets`, `GenerateTargets` and `AddGroupTargets` are transactions that
lock the task row: one step. `RemoveTargets` and `ClearTargets` are a check, a
DELETE and an UPDATE without a transaction: five steps.

### ForwardOutbox

`row`, `lockedBy` and `expired` are the row; `event` is what the publisher's loop
does next with a row it claimed; `told` is a ghost: the broker has a message that was
published after the row was last started over. `Enqueue` may happen at any
time: submit, resume and retry all call it in their transaction.

### IMSync

A behaviour is about one aggregate, a pair of users or a group, because rows of
different aggregates touch nothing in common. `friends`, `blocked` and `group` are
the business rows, `userActive` is `users.status` of the member (`Bans`: whether it may
change), `jobs` is `im_sync_outbox` in the order of its ids, `openim` is
what OpenIM holds. `Load` is the read at the start of `syncEvent` and fixes the calls
the row asks for; `Call` makes one, `CallFails` fails one before or after OpenIM
has acted, and `MarkCompleted`, `MarkFailed` or `Abandon` end the row.

What is read of a group leaves out members who are banned (`Listed`: `buildGroupFromState`,
`im_sync.go:384`), and a ban is an UPDATE of `users` that writes no row (`SetUserStatus`), so a row may be
completed without the call it was for. `missed` is a ghost that records this: the last row about
the membership was read while the member was banned. `GroupConverges` excuses just that, and only for the clause
that a member is there; `MembersConverge`, without the excuse, does not hold (disagreement 12).

Simplified: an OpenIM call is atomic; the two queries of `GetSyncState` are one
read; id order is commit order; the role, member-mute, profile and user rows are not
modelled (they are handled from the state read at that time, like the mute row); other
operations that write the same rows (`AddFriendDirect`, `InviteMembers`,
`UpdateSettingsByAdmin`, announcements) are the same actions; group statuses other
than active and dismissed are left out. Calls of OpenIM itself are modelled from how
`internal/im/client.go` uses them: `EnsureGroup` does nothing when the group is known,
and a group that was dismissed stays known.

### RetentionBound and GroupRetention

`RetentionBound` is the row of `group_retention_visibility` that clients read: the server
promises that it only grows, one revision at a time.

| Variable of `GroupRetention` | Code |
|---|---|
| `maxSeq`, `written`, `hidden`, `old` | OpenIM's history: numbers given out, messages stored, messages not shown, messages older than each window |
| `policy`, `active` | the group's policy (`MaxMessages` and `Window`) and status |
| `job`, `plan`, `app` | `group_retention_jobs` and `group_retention_applications`, by day; a lease token is known by the attempt it was made for |
| `visibility`, `minSeq` | the published bound, and OpenIM's |
| `lapsed`, `late` | receipts older than thirty days; calls that were given up and may yet take effect |
| `at`, `mine`, `snap` | where a worker stands in `PlanNext` and `ApplyNext`, and what it holds |
| `expendable`, `summed` | ghosts: what a saved plan's policy lets go; what a plan took over with its snapshot's summary |

Each statement of `Claim`, `SavePlan`, `ClaimApplication` and so on is a step or part of the
transaction that is one. `Taken` is what the private bridge (`src/deploy/openim-retention`)
scans, from the newest message down to the one that completes the quota and is older than
the window; `MinVisible` is `RetentionMinSeq`.

The policy is read twice, once for the snapshot and once when the plan is saved (`ReadPolicies`), and either
part may each time be the group's own or, where the published configuration cannot be read, the code's
(`group_retention.go:26`). A plan looks at its window again only for the rows that were listed: for
the summarised prefix it checks the quota alone (`Provable`, `retention.go:148`). `OnlyExpendableHidden` therefore says of
what came with a summary only that it is beyond the quota of the plan and older than the window of the snapshot
(`Summed`), and `NoKeptMessageCrossed`, which asks for both parts of the plan's policy, does not hold (disagreement 3).

Simplified: a snapshot is taken in one step, and so is a read of the policy; a message only grows older;
the purge of message bodies is a job of its own and does not appear.

### IMReservation

A behaviour is about one row of either table (`kind`). `row` is its status, operator, message
id and whether it has been pending for a minute; `at` where each request stands; `effects`
what OpenIM has done, in order; `late` calls that may yet take effect; `answer` what a
request was answered; `excused` (ghost) that a pending row was taken over or an answer was
lost. Requests with other content under the same key are refused before they write.

### ChatMessages

| Variable | Code |
|---|---|
| `list`, `ended`, `open` | `messagesMap[id]`, `historyEnd[id]`, `activeConversationId` |
| `calls` | a pending `loadMessages` of the room (`load`) or of a refresh (`sync`), a pending `loadMoreMessages` (`older`); `kept` is the list the call read first |
| `again` | `pendingSyncRefresh` |
| `sends`, `session` | where each `sendWithPlaceholder` stands, the account it was begun by (`by`) and runs under (`of`), and `sessionGeneration` |
| `db`, `events`, `stored` | external: what the SDK has stored and emitted |
| `fresh`, `torn`, `spoilt` | ghosts |

A bubble is an id, a status, the marks "read" and "recalled", and (ghost) the session
it was made in; a placeholder of send `s` has the id `-s`. The SDK may answer an empty
page, may tell late of read marks, and may or may not send an event for a message of
one's own: `chat.ts` handles each of these. `torn` records that an answer has met
another list than its question saw, that messages came out of order, a mark came before
its message, or a refresh failed. The code promises nothing about such a list (it is
put right by the next load), so the properties ask about lists that are not torn, and
the run does not follow a torn state any further (`UntilTorn`).

A send goes through its awaits one by one: the preview of an image (`PreviewAnswered`, which looks at no session and
may find no conversation), the SDK (`SdkSends`, `SdkFails`), `reappearConversation` (`SendDelivered`, `Reappeared`) and, in a
group (`group`), the seq that is looked up in the background (`SeqResolved`). From each of them it may end in the
catch (`SendRejected`), also after the message was sent, or find another account (`SendForgotten`). `spoilt`
records the messages whose own send took their marks back, or showed them as failed though they were sent; `WindowExact`
excuses their marks and their absence, and the "sending" of an image whose conversation was gone when its preview came. `MarksStay`
excuses the answer and the late seq of a message's own send, `SendsStayInSession` the placeholder of an image
whose preview came under the next account. What the comments of `chat.ts` say without these excuses does not hold: disagreements 9 and 13
to 15.

`WindowExact` also needs room for the sends: no more of them stored and not yet answered than a page has messages (20), and
a window (200) that has room for a page and all placeholders. With one send, pages of one and a window of two that is always so.
With pages of one, two sends and a window of three, TLC finds this: the messages 1 and 3 are the user's and wait for their answers, 2 came
while offline; the refresh loads the page of 3 before both placeholders; the answer for 3 comes first and
`replaceMessage` takes 3 from the front into the place of its placeholder; the answer for 1 then leaves 1 and 3
without 2. With a window that a page and a placeholder do not fit into, the trim after a load cuts off the page itself, and the
next message stands behind a gap. Both end with the next load.

Left out: conversation rows and previews, unread counts, pins, deleting, locating an
old message, `retainFromMessage`; a recalled message is a mark, its tip is not shown.

### ClientSession

`im` is the cache (`imUserId`, `boundAccessToken`, `connected`, the expiry), `token` the
account of the stored business token, `login` where the one `loginPromise` stands with
the epoch `doLogin` read, `actor` where each caller stands, `depth` and `chain` the queue
of `enqueueSession`. `sdk` is external: the user that the SDK is logged in with; a Login
or Logout takes effect when it ends, or fails. `orphan` is a Logout that
`logoutOpenIM` stopped waiting for after three seconds.

Simplified: one access token per account (its refresh is left out); one more login per
caller at a time; `initAppSdk` and the H5 proxy have no state of the session.

### VironOperations

`status`, `overdue` and `route` are the server's: the record, whether its ten minutes are
over, and the handler that has the operation in hand between two awaits. `known`, `held`,
`run`, `cached` and `window` are the App's `desktopMcpOperationIds`,
`desktopMcpPendingOperations` with the lease, where `completeDesktopMcpOperation`
stands, `pending.response`, and the window. `poll`, `tool` and `deleting` are messages
between the two, each read at one moment and handled at another, or lost. `consent` and
`started` are ghosts.

Simplified: one tool call of an agent and one look of a window are under way per operation;
the request has its effect when its execution begins; tool calls that only read and the
purpose's text are left out. A lease stands for the right hash.

### IdlePool and SshSessions

A resource is named after the caller that made it. `at` is where `acquire` stands,
`outdated` that the generation has moved on, `refused` (ghost) what an invalidation was
called for. Every await of `acquire` is a step, and invalidation, cleanup and the death
of a connection come in between. `SshSessions` extends the pool: a session is a caller,
`create` is where `SshSessionManager.create` stands, `sess` the manager's map, `entry` the
registry. `Close`, `RequestClose` and `Revoke` run up to their first await in one step, as
the code does: `Revoke` closes the user's sessions, their entries and all transports.
`early` (ghost) marks what was to be closed before it had a close function.

Left out: entries of desktop clients with heartbeats, traffic, tickets, recordings, the
agent's diagnostics. Which idle connection is the oldest is any of them.

## 3. The runs

| Run | States | Bounds | What it shows |
|---|---|---|---|
| `forward_queue_safety` | 794,808 | 1 task, 2 targets, 2 worker incarnations, leases expire freely | counters, statuses, leases, outcomes, and the refinement of `ForwardPromise` |
| `forward_queue_liveness` | 3,988 | 1 target, 2 incarnations, timely work | each accepted target settles while its task is neither paused nor cancelled |
| `forward_draft_concurrent` | 182,307 | 3 requests, 3 peers | additions keep the count, exclusions survive a replayed batch |
| `forward_outbox` | 44,121 | 2 tasks, 2 publishers | "published" is true of the present round; every round reaches the broker |
| `im_sync_converges` | 6.3 million | 3 rows, batches of 2, 2 attempts, 2 incarnations one after the other; bans at any moment, with 1 attempt and no renaming or mute | OpenIM agrees with the database once the rows are completed, but for a member whose last row was read during a ban |
| `im_sync_liveness` | 22,969 | 2 rows, 1 worker, 2 attempts | every row is completed or dead |
| `group_retention` | 3.0 million | 2 workers; 1 day with 2 messages, quotas 1 and 2, 2 attempts, or 1 day with 2 quotas and 2 windows and 1 attempt each, or 2 days with 3 messages, 1 policy, 1 attempt each | only what a saved plan lets go or took over with its summary is hidden; no plan is written over a newer claim; the published bound grows, follows OpenIM's and covers what was applied |
| `im_reservation` | 5,645 | 3 requests for one row | done once unless excused; rows and answers are true and alike |
| `chat_messages` | 2.3 million | a conversation of two or of a group, 2 messages, 1 send, pages of 1, a window of 2, 2 accounts, 3 steps of the users | the open room shows what is stored, each message once, marks stay, no send crosses accounts, with the excuses of section 2 |
| `client_session` | 124,314 | 2 accounts, 2 callers, 4 calls and events | a reused session is of the stored token; every `ensureIMLogin` returns |
| `viron_operations` | 6,898 | 1 operation of any kind, no other bound | executed once and with consent; statuses are true |
| `ssh_sessions` | 107,045 | 2 terminals, 2 users, 2 keys, 1 idle, limit 1 | transports, limit and registry, whatever await fails or is overtaken |

Why the bounds are enough. Tasks do not interact: no statement of the queue but
the claim touches two of them, and the claim treats each row by itself; two targets
give a task both its last and its last but one outcome, and mixed outcomes. Two
incarnations are a slow worker and its successor; a third would meet rows of the
same shapes. Three requests suffice for a removal that overlaps both an addition and a
submission. Three rows of one aggregate are a change, its reversal and a repetition,
in one batch of two and another; an aggregate's rows are all its state depends on. Where a ban plays a part (the
constraint `Explored`), no row is tried again, and none is of a renaming or a mute: neither has to do with who is listed.
The run of retention unites three instances (its constraint `Explored`): one day with retries, one day whose
policy changes in both parts, and two days without retries, since the leases of one row do not depend on another's; the two days keep to histories that
are stored and shown in full, with three messages, so that two bounds can hide something and leave something. Three requests
for one reservation are a slow one, one that takes over, and one that comes after both.
Two messages with pages of one are an older page and a newer one, and a window of two is
full with one send; every pair of load, refresh, older page, send and event overlaps
within them. Four calls and events are a login that a logout and another login
overtake while a reopening is under way. Operations do not interact except where a step
touches all of them (a restart, the end of a session, closing all), which treats each by itself.
Two terminals contend for one place of the limit and one transport; a terminal
that waits before its reservation is the same as one that begins later, so the manager's
own limit of one loses nothing; theorems cover every number. The proofs of section 4 have no
such bounds.

Symmetry is used only in runs without liveness properties. Deadlock is checked except
where the model stops by its bound: every request of `ForwardDraft` has been served,
`IMSync` has written its `MaxJobs` rows, the requests of `IMReservation` are served, every terminal is gone, or the users' and the SDK's
steps of `ChatMessages` and `ClientSession` are used up.

**Fairness.** `ForwardQueue`: a process that is up keeps polling and works off its
batch (weak fairness, the loops of `RunPolling` and `processBatch`); a claimable row
is not passed over for ever, because the claim orders by `next_retry_at` (strong
fairness of a claim of that row); neither the database nor OpenIM fails every time (strong
fairness of the good outcome). `TimelyWork` says that a live worker ends its batch within
the lease (by default 50 rows at 20 a second under a lease of 300 seconds); without it two workers may take a row from
each other for ever, so only `forward_queue_liveness` assumes it.
`ForwardOutbox`: the same, with `next_attempt_at`. `IMSync`: rows are claimed by id and
become due again in bounded time; the database does not fail every time; nothing is
assumed of OpenIM, since a row that always fails becomes dead. `ClientSession`: the SDK
answers every call and the event loop serves every continuation and the chain of tasks
(weak fairness of each actor's steps, of `NextTask` and of the steps of the login); no
answer has to be a good one. `GroupRetention` states fairness too (`FairSpec`) and that each day's job
is applied or blocked under it (`DaysSettle`), which TLC confirms for one day, one worker and two
messages; it has no run of its own.

Each property that the runs check is known to be able to fail. What is proved and follows from, or is
a part of, what the runs check is not checked by them again: the type invariants of `ForwardQueue`, `ForwardDraft`,
`ForwardOutbox` and `VironOperations`, `OneWorkerPerLease`, `SuccessWasDelivered`, `OwnerDecides`,
`OutcomesStand` and `LockedWhileProcessing` (section 4).

**Disagreements with the documents.** No run is about these: the property named is in its module, and giving it to
TLC with the constants of the component's run, or those named here, finds it violated by what the code does.

1. `ExpiredLeaseRecovered` of `ForwardQueue`, under `FairSpec`: a target in flight when its task is cancelled
   and its worker stops stays `processing` for ever, since the claim looks only at rows of pending and processing tasks
   (`forward.go:614`) and `CancelTask` leaves rows in flight alone
   (`GOAL-消息转发不限量可靠发送优化.md:113`: "Worker 重启后通过锁超时重新领取 `processing` 记录").
2. `LeaseBeforeExecution` of `VironOperations`: the App executes an approved operation first and posts its lease with the
   result (`main.ts:1905`), so one that is cancelled or expires in between was executed and ends as `cancelled` or `expired`
   (`IM-ops/viron/TECHNICAL-DESIGN.md:581`: "领取不可重放的一次性租约并立即按当前模式执行").
3. `NoKeptMessageCrossed` of `GroupRetention`: retention hides a message that the policy of the saved plan keeps. With
   `TimesInOrder = FALSE`, because the bridge summarises all that lies below the message at which it stops
   (`bridge.go.in:247-249`), and the check for a retained message sees only what was scanned
   (`internal/media/retention_visibility.go:15-16`: "Do not advance across a retained message, including when
   timestamps arrive out of order"). With the constants of the run (times in order, two windows), because the window of the plan may be wider than that of
   the snapshot, by a change of the policy or by a failed read of it on one of the two occasions, and only the quota of a summary is
   checked again (`retention.go:148`; `deploy/openim-retention/bridge.go.in:229`: "rows inside the window stay even past MaxMessages").
4. `NeverSentTwice` of `IMReservation`: a system message is sent a second time under the same idempotency key, if its
   first sender was slower than a minute or its answer was lost (`docs/api-contract.md:1116`: "不重复发送").
5. `CancelReachesUnsent` of `ForwardQueue`: a target whose send is refused for now after
   the cancellation goes back to `retrying` under the cancelled task and stays there
   (`docs/万人转发后端接口与队列.md:42`: "取消未发送目标").
6. `SubmittedCountExact` of `ForwardDraft`: `RemoveTargets` and `ClearTargets` can leave
   `target_count` different from the rows of a submitted task.
7. `NamesConverge` of `IMSync`: a retried renaming overwrites a newer one, against the
   comment at `internal/repository/im_sync.go:41-43`.
8. `RelationsConverge` and `GroupConverges` of `IMSync` with two instances at once (`OneInstance = FALSE`): one makes a call
   it has decided on before a change, after the other has handled the row of that change, and both rows
   are completed; a group outlives its dismissal in OpenIM that way. The compose files run one instance.
9. `SettledSendShown` of `ChatMessages`: a load that read the list
   before a send was settled writes its placeholder back, which then says "sending" after the
   send is over (`chat.ts:1134`, `1155`; the comment at `chat.ts:1456` says that the
   placeholder is replaced or turns red).
10. `SessionsSerial` of `ClientSession`: "Logout/Login 串行执行" (`openim.ts:141`), but a
   task runs at once while any other task runs, and a Logout that was given up after three
   seconds goes on beside the next Login.
11. `RegistryMatches` of `SshSessions` without its two exceptions: an entry that is closed, or
   revoked, before its terminal is open goes while the terminal comes, which is then in no
   list and no count (`active-connections.ts:284`; `IM-ops/viron/TECHNICAL-DESIGN.md:157`
   promises one registry for the list, the limit and the resources); and a terminal whose
   recording cannot be stored stays in the manager without entry or transport.
12. `MembersConverge` of `IMSync`: a join that is handled while the user is banned is completed without a call
   (`im_sync.go:384`), nothing follows when the ban is lifted (`IM-APP-admin/internal/repository/user.go:188`), and OpenIM
   lacks the member until a reconciliation or another invitation
   (`docs/OpenIM对话后端接口与WebSocket开发规划.md:326`: "入群/退群、角色、禁言和解散状态最终一致").
13. `NoneOfEarlierAccount` of `ChatMessages`: the preview of an image comes after a change of the account, and the
   placeholder of the earlier account gets into the list of the next (`chat.ts:1658-1663`; the comment at `1524-1525` says that it
   must not). The image is then sent under the new account, since the generation is read only then (`1463`).
14. `SendingKept` of `ChatMessages`: a load drops the placeholder of a send that began while the SDK was asked,
   because it merges the list it read before (`chat.ts:1134`, `1155-1158`; the comment at `1165` says that what is being
   sent is kept).
15. `RedMeansFailed` of `ChatMessages`: an error after the send has succeeded, of `requireConversation` or
   `reappearConversation`, reaches the catch and shows the message as failed (`chat.ts:1479-1486`, `1527`; the comment at
   `1456`). In a group the late seq replaces the bubble by the copy of the time of the answer (`1512`), and takes back a recall handled
   meanwhile; no comment says otherwise, so `MarksStay` and `WindowExact` excuse it.

Seen while reading, without a run: ineligible targets are marked `failed` where the
documents say `skipped`; the documents say that submission needs Kafka (503 without it)
and that Kafka schedules the work, while the code polls PostgreSQL; the status `expanding`
is never set; reconciliation writes no row for a relation that no longer exists, so
a removal whose row is dead is only repaired by replaying that row. In the client, loads
do not look at the session generation as sends do; a refreshed business token
counts as another account in `reloginSession`; between two logins no bound of a group is known, and what comes in then below it
stays in the list (`openim.ts:213`); a storage of bounds that cannot be read counts
as an empty one, and the next write drops the bounds of all other groups from it. In Viron, an automatically approved operation whose
execution throws stays `running` for ever (`mcp-operations.ts:624-650` has no `fail`, the
submit route has); the manager's limit of 20 terminals is checked before the first await and
can be passed; and `revokeUserRuntime` does not reach a terminal whose creation has not
yet asked for its transport, which ends up open for the user whose access has ended.

## 4. The proofs

`ForwardQueueProofs` proves, for every set of tasks, every finite set of targets and
every set of workers (assumption `QueueAssumption`):

- `TypeCorrect` and `CountersAreExact`: `TypeOK` and `CountersExact` are inductive
  together. The argument counts: `NumberPlus` (one target moving into a set of statuses
  adds one), `NumberSame` (the others change nothing), applied to each action. That
  `finishTarget` counts each target once is its guard `Owns`: the row is still
  `processing`, so it has not been counted.
- `SentOnce`, `OneWorker`, `SuccessIsDelivery` rest on `HandledUnderLease`: as long as
  no lease of a target ran out and no answer was lost, whoever handles the target owns
  its row, and a target that OpenIM accepted waits for nothing but being recorded. None
  of the three is inductive without it: from `sends = 1` and a waiting row, say, one
  more claim would send again. `HandledByOwner` states it as a theorem.
- `StatusIsTrue`: `StatusReportsTargets` is inductive with `CountersExact`, which turns
  the comparison of counters in `finalizeTaskTx` into a fact about the targets
  (`NumberAll`), and with `OwnerDecides`, which keeps cancelled targets out of tasks
  that are not cancelled (`OwnerHasDecided`).
- `OutcomeStands`: an action property, from the same invariant.

The same module proves that `ForwardQueue` implements `ForwardPromise` (`PromiseIsKept`): `PromiseInit` for the initial states, and `PromiseStep`,
which maps each action to a move of a task, a cancellation, a retry, an accepted send, a
recorded outcome, or a stutter. Nothing of it holds in all typed states.
`FinishTarget` changes a status only where the counters are exact
(`StatusReportsTargets`), it reports a success only after a send (`HandledUnderLease`), and
a cancelled target lies in a cancelled task (`OwnerDecides`); `DraftsRest` adds that
nobody, not even a worker with a lost lease, works on a draft. `DecisionsHold` proves
`PauseAndCancelHold`.

`ForwardDraftProofs` proves, for every set of requests and every finite set of peers,
`TypeOK` (`DraftTypes`), `CountWrongOnlyByRemoval`
(`CountIsExact`) and `ExclusionHolds` (`BatchExcludes`). `Programs` says that what a request
has still to do is a tail of its program, so a count follows its deletion. `CountInv`
strengthens `CountWrongOnlyByRemoval`: between a deletion and its count, the count to be written is the one
of the rows there are, unless another request's write has torn the removal. `ExclusionInv`
follows a batch that is alone: what it selects is all that is excluded, and it adds only groups
once they are deleted.

Of `ForwardOutbox` the same module proves `OutboxTypeOK` (`OutboxTypes`), `PublishedIsTold` (`PublishedMeansTold`)
and `LockedWhileProcessing` (`LockMatchesStatus`) for every set of tasks and publishers (`OutboxAssumption`): a publisher whose lock is still on the row has
worked on the present round, because starting a row over clears the lock.

`IMSyncProofs` proves `TypeOK` (`SyncTypes`) for every set of workers and names and every bound (`SyncAssumption`),
and under `OneInstance`, which the compose files justify and without which they do not hold (disagreement 8),
`RelationsConverge` (`RelationsAgree`) and `GroupConverges` (`GroupsAgree`: that a group has its member is claimed unless `missed`, and bans come and go at any moment). Neither is inductive: both speak only of
moments at which all rows are completed. The invariant takes the agreement apart into nine parts
(`Parts`): the friendship, the block, that the group exists, has its member, does not have a former one, has its mute,
is dismissed, is not dismissed before its time, and is unknown before its creation. `Brings` says which events
write a row that brings a part about; the last two need none. It has three layers:

- what one row does (`RowServes`): the calls planned for it keep every part that holds, after each of them,
  and after the last one the row's own part holds. What is wanted of the member is that of `missed` as the reading
  leaves it (`WantNow`): a row that reads a banned member plans no invitation and wants none. A part that is wanted less
  holds all the more (`MissedMore`);
- what one business transaction does (`BusinessKeeps`): for each part it either writes a row that
  brings it about or changes nothing that the part depends on;
- `Reached`: a part whose rows are all completed (`Settled`) holds, and goes on to hold whatever calls are still
  to come; one for which only the row in hand is open holds after that row's calls. `Place` says
  where the one worker that runs may stand: what it holds is still `processing`, and those that have stopped have
  no calls left. It is what a second instance breaks.

A call that fails half way, a crash or a lost lease leaves the row open, so the part promises nothing then; and
`MarkCompleted` closes a row only after its last call.

Of `IMReservation` the same module proves the four properties (`ReservationTypes`, `SentOnce`, `ResultsTrue`, `DoneAlways`) for every set of
requests and with no assumption on it. `DoneStands` (`DoneAlways`) is an action property of each step. The two others
rest on `OwnerInv`: as long as no row was taken over from a slow request and no answer was lost,
the row is pending for whoever is about to call OpenIM or to record the call, nobody else is, and
OpenIM has done nothing under the key before. Once that no longer holds, what is still true of a row that is done
(`DoneInv`) is that OpenIM has done what it tells of.

`ClientSessionProofs` proves `SessionIsOfToken` (`SessionBelongsToToken`) for every set of
accounts and callers and for runs of every length. The argument follows the epoch:
`LoginIsOfToken` says that a login whose epoch is still the present one is for the account
of the stored token, and `ComingIsAlone` that no token is stored while `afterLogin` is about to
store another, so that a login which begins in between has none to work with. `Queue`, that
a task waits in the chain once and as itself, is a theorem beside it (`ChainAndToken`). `TypeOK` (`SessionTypes`) rests
on `Turns`: `sessionDepth` is 1 exactly while one call is counted in it, so that what is called inline meanwhile
counts neither up nor down, and who waits for a login has one to wait for.

`VironOperationsProofs` proves, for every set of operations and with no assumption on it,
`TypeOK`, `StartedOnce`, `StartedWithConsent`, `OutcomeIsTrue` and that terminal statuses are final
(`EndsAreFinal`). The invariant has three parts for each operation. `AppInv` is what makes
`StartedOnce` inductive: while the App holds the lease of something that was executed, it
either still executes or posts it, or has the response, so `Run` never executes again; when it
gives the lease up it cannot run at all. `ServerInv` says where what the server executes
may stand, and `ConsentInv` that an "approved" known anywhere, in the record or in an answer
that is still on its way, was given by the user.

`SshSessionsProofs` first proves `PoolIsSafe` of `IdlePool`, for every finite set of callers, every set of keys and
every bound (`PoolAssumption`). The invariant follows the life of a resource: it is disposed of
only when it leaves the pool, it can be idle only in the pool, and one whose making an invalidation overtook
never enters it; a lease is on something that was made and is not idle.

Then it proves that `SshSessions` implements `PoolSpec` (`SessionsUseThePool`,
step by step: `StepIsPool`), from which `TransportsSafe` follows without another look at the
pool, and `TypeOK`, `LimitHolds` and `RegistryMatches` for every number of terminals, users
and limits (`SessionsAssumption`). `LimitHolds` is a statement about cardinalities: only
`Reserved` adds an entry, in the same step in which it counts. `RegistryMatches`
needs `SessionInv`, which says for each place in `create` which entry and session there may be.

`GroupRetentionProofs` proves the five properties of `GroupRetention` for every number of
days, attempts and messages, every set of workers, of quotas and of windows (`RetentionAssumption`), and a sixth one.
`LinkInv` ties the tables to each other and to OpenIM: an application exists only for a planned job, whose
plan no claim can change any more, and who is about to record an application has a plan whose bound
OpenIM has reached. From it follow `PlanOfLastClaim` (`LastClaimPlans`), `BoundsAgree` (`BoundsStayInStep`)
and that each step advances the published bound or leaves it (`PublishedBoundGrows`).

`OnlyExpendableHidden` (`NothingElseIsHidden`) needs `TimesInOrder`, without which it does not hold
of the messages a snapshot only summarises. Policies and windows may change between snapshot and plan, and either read of them
may fail. Its invariant `ShownInv` says of a snapshot that waits to be planned
that each number it does not list is covered (expendable, summed or hidden), or is older than the window it was cut by and below
all rows it lists, and of a plan that everything below its bound is covered.
`SavedPlanCovers` leads from one to the other: a listed row goes only if the quota is above it (`MoreAbove`, as
the rows are some of the messages), and a summarised one only if the rows alone fill the
quota (`Provable`). Minima and maxima of sets of numbers are those of `MinOf` and `MaxOf`.

`NoKeptMessageCrossed` does not hold in general (disagreement 3). `NothingKeptIsCrossed` proves it where both of its causes are
absent, `TimesInOrder` and `Windows = {DefaultWindow}`, for whatever becomes of the quota: what was summarised is then
beyond the plan's policy as well (`SummedBeyond`).

`ChatMessagesProofs` proves `TypeOK` (`ChatTypes`), `NoBubbleTwice` (`OneBubble`),
`SendsStayInSession` (`SessionsApart`) and the action property `MarksStay` (`MarksOnlyGrow`), the last two with the
excuses section 2 names (the image whose preview came late; the answer and the late seq of a message's own send), for every size of page
and window and every number of messages, sends, accounts and steps (`ChatAssumption`). None is inductive: a page that
tells of a message with fewer marks than its bubble has, or of one that is newer than the anchor it was asked with,
would break the list when it is merged. `ChatInv` therefore has two more layers than the types:

- `ToldInv`, which holds of torn lists as well: ids grow along the database; what an event, a page or a
  bubble tells of a message, the database bears out; a page is in the order of the database, has the recalls of the
  list it was asked with, and an older page lies before its anchor; a placeholder is of a send that has begun;
- `ListInv`: as long as no answer has met another list than it was asked with, the list has one bubble of each message,
  its messages in order, and the bubbles of one account, but for the placeholders of images whose send has gone over to it (`Mine`).

The list changes in few ways (`Appended`, `Marked`, `Replaced`, `Trimmed`, and the merge of a page in `Settle` and
`MoreAnswered`), and for each there is a lemma of what it keeps. The filter `At` picks positions by their rank, so
`Ranks`, which counts the members of a set below each of them, takes the place of an induction over the list.
`MarksStay` is the conjunct `Keeps` of the same step lemma (`TidyStep`): one mark, "read", may be missing in a page, and
`WithRead` gives it back from the list.

Only model-checked: liveness and that rows settle or calls return (fairness and `ENABLED` are out of the prover's
reach); and `WindowExact`, which speaks of what the whole history of a conversation leaves in a quiet room and which TLC checks for the
bounds above. Every other invariant and every action property that a run checks is a theorem. What a recursive definition computes
over data would be out of reach, too; no module that is proved about has one.

## 5. Plan

Done, in the order of importance: `ForwardQueue` with `ForwardPromise` and its proofs,
`ForwardDraft`, `ForwardOutbox`, `ClientSession`, `VironOperations`, `IdlePool` and
`SshSessions`, `IMSync`, `ChatMessages`, `GroupRetention` with `RetentionBound`, and `IMReservation`, all with their proofs.

Next:

1. The other managers of Viron over `IdlePool`: databases and Redis (queries that are
   cancelled or time out on a pooled connection), SFTP transfers, log streams; and the
   registry's entries of desktop clients, which live on heartbeats.
2. The history bound a client keeps for each group: batches of questions, answers late or of another login,
   lists read before an await and filtered after it.
3. The client's sends over `ClientSession`: retries while the session is made anew.
4. The member limit of groups: `addMemberWithOperator` and `InviteMembers` under the
   lock of the group row.

Not to be modelled: user interfaces, translations, request-local CRUD, file handling, deployment
scripts and start-up, which keep no protocol of their own across steps.
