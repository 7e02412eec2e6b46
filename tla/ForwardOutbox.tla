---------------------------- MODULE ForwardOutbox ----------------------------
(***************************************************************************)
(* The Kafka outbox of message forwarding: one row of forward_kafka_outbox *)
(* per task, written in the transaction that submits, resumes or retries   *)
(* the task (enqueueKafkaOutboxTx), and the publishers that claim it under *)
(* a lease, publish it and mark it (ForwardOutboxPublisher).  The server   *)
(* starts no consumer of the topic, so the model ends at the broker.       *)
(*                                                                         *)
(* A definition under a comment "Fault" is no part of the specification:   *)
(* it is a wrong form of the definition that follows it, one that a        *)
(* property below must reject.                                             *)
(***************************************************************************)
EXTENDS Integers

CONSTANTS
  Tasks,       \* tasks, each with at most one outbox row
  Publishers,  \* publisher processes, each with a fresh WorkerID
  NoPublisher  \* the empty locked_by column

ASSUME OutboxAssumption == NoPublisher \notin Publishers

VARIABLES
  row,       \* forward_kafka_outbox.status; "none" before the row exists
  lockedBy,  \* forward_kafka_outbox.locked_by
  expired,   \* forward_kafka_outbox.locked_until < NOW()
  event,     \* what a publisher does next with a row it has claimed
  stopped,   \* publishers whose process has stopped
  told       \* the broker has a message published after the last enqueue

rowVars    == <<row, lockedBy, expired>>
outboxVars == <<rowVars, event, stopped, told>>

OutboxInit ==
  /\ row      = [k \in Tasks |-> "none"]
  /\ lockedBy = [k \in Tasks |-> NoPublisher]
  /\ expired  = [k \in Tasks |-> FALSE]
  /\ event    = [p \in Publishers |-> [k \in Tasks |-> "none"]]
  /\ stopped  = {}
  /\ told     = [k \in Tasks |-> FALSE]

SetEvent(p, k, next) == event' = [event EXCEPT ![p][k] = next]

\* enqueueKafkaOutboxTx: insert the row, or start it over.
Enqueue(k) ==
  /\ row'      = [row EXCEPT ![k] = "pending"]
  /\ lockedBy' = [lockedBy EXCEPT ![k] = NoPublisher]
  /\ expired'  = [expired EXCEPT ![k] = FALSE]
  /\ told'     = [told EXCEPT ![k] = FALSE]
  /\ UNCHANGED <<event, stopped>>

\* Fault: a row in flight is never claimed again.
ClaimableOnce == {k \in Tasks : row[k] = "pending"}

Claimable == {k \in Tasks : \/ row[k] = "pending"
                            \/ row[k] = "processing" /\ expired[k]}

\* ClaimKafkaOutbox, once the previous batch is done with.  When reading the
\* claimed rows fails the publisher works on none of them.
Claim(p, batch) ==
  /\ p \notin stopped
  /\ \A k \in Tasks : event[p][k] = "none"
  /\ batch # {} /\ batch \subseteq Claimable
  /\ row'      = [k \in Tasks |-> IF k \in batch THEN "processing" ELSE row[k]]
  /\ lockedBy' = [k \in Tasks |-> IF k \in batch THEN p ELSE lockedBy[k]]
  /\ expired'  = [k \in Tasks |-> IF k \in batch THEN FALSE ELSE expired[k]]
  /\ \E read \in {batch, {}} :
       event' = [event EXCEPT ![p] =
                   [k \in Tasks |-> IF k \in read THEN "claimed" ELSE "none"]]
  /\ UNCHANGED <<stopped, told>>

\* PublishForwardTask: the brokers store the message ...
Store(p, k) ==
  /\ event[p][k] = "claimed"
  /\ told' = [told EXCEPT ![k] = TRUE]
  /\ SetEvent(p, k, "stored")
  /\ UNCHANGED <<rowVars, stopped>>

\* ... and acknowledge it; ...
Acknowledge(p, k) ==
  /\ event[p][k] = "stored"
  /\ SetEvent(p, k, "acked")
  /\ UNCHANGED <<rowVars, stopped, told>>

\* ... or the call ends in an error, before or after the message is stored.
PublishFails(p, k) ==
  /\ event[p][k] \in {"claimed", "stored"}
  /\ SetEvent(p, k, "failed")
  /\ UNCHANGED <<rowVars, stopped, told>>

\* Fault: the row is found by its id alone.
ReleaseById(p, k, status) ==
  /\ row'      = [row EXCEPT ![k] = status]
  /\ lockedBy' = [lockedBy EXCEPT ![k] = NoPublisher]
  /\ expired'  = [expired EXCEPT ![k] = FALSE]

Release(p, k, status) ==
  /\ row[k] = "processing" /\ lockedBy[k] = p
  /\ row'      = [row EXCEPT ![k] = status]
  /\ lockedBy' = [lockedBy EXCEPT ![k] = NoPublisher]
  /\ expired'  = [expired EXCEPT ![k] = FALSE]

MarkPublished(p, k) ==
  /\ event[p][k] = "acked"
  /\ Release(p, k, "published")
  /\ SetEvent(p, k, "none")
  /\ UNCHANGED <<stopped, told>>

\* ErrForwardTaskState (the row is not the publisher's) or a database error.
MarkPublishedFails(p, k) ==
  /\ event[p][k] = "acked"
  /\ SetEvent(p, k, "failed")
  /\ UNCHANGED <<rowVars, stopped, told>>

MarkRetry(p, k) ==
  /\ event[p][k] = "failed"
  /\ Release(p, k, "pending")
  /\ SetEvent(p, k, "none")
  /\ UNCHANGED <<stopped, told>>

\* The row is not the publisher's any more, or the statement fails: only logged.
MarkRetryFails(p, k) ==
  /\ event[p][k] = "failed"
  /\ SetEvent(p, k, "none")
  /\ UNCHANGED <<rowVars, stopped, told>>

LockExpires(k) ==
  /\ row[k] = "processing"
  /\ ~expired[k]
  /\ expired' = [expired EXCEPT ![k] = TRUE]
  /\ UNCHANGED <<row, lockedBy, event, stopped, told>>

\* A process stops at any point; the last one does not.
Stop(p) ==
  /\ p \notin stopped
  /\ Publishers \ stopped # {p}
  /\ stopped' = stopped \cup {p}
  /\ event'   = [event EXCEPT ![p] = [k \in Tasks |-> "none"]]
  /\ UNCHANGED <<rowVars, told>>

Publish(p, k) == Store(p, k) \/ Acknowledge(p, k) \/ PublishFails(p, k)
Mark(p, k) ==
  \/ MarkPublished(p, k) \/ MarkPublishedFails(p, k)
  \/ MarkRetry(p, k) \/ MarkRetryFails(p, k)

OutboxNext ==
  \/ \E k \in Tasks : Enqueue(k) \/ LockExpires(k)
  \/ \E p \in Publishers :
       \/ Stop(p)
       \/ \E batch \in SUBSET Tasks : Claim(p, batch)
       \/ \E k \in Tasks : Publish(p, k) \/ Mark(p, k)

OutboxSpec == OutboxInit /\ [][OutboxNext]_outboxVars

\* A publisher that is up keeps publishing and marking, leases run out, a row
\* is not passed over for ever (rows are claimed by next_attempt_at), a claim
\* is not always unreadable and the brokers do not refuse every time.
ClaimRead(k) ==
  \E p \in Publishers, batch \in SUBSET Tasks :
    k \in batch /\ Claim(p, batch) /\ event'[p][k] = "claimed"

OutboxFairness ==
  \A k \in Tasks :
    /\ WF_outboxVars(LockExpires(k))
    /\ SF_outboxVars(ClaimRead(k))
    /\ \A p \in Publishers : /\ WF_outboxVars(Publish(p, k)) /\ WF_outboxVars(Mark(p, k))
                             /\ SF_outboxVars(Store(p, k))

OutboxFairSpec == OutboxSpec /\ OutboxFairness

-----------------------------------------------------------------------------
(* Properties                                                              *)

OutboxTypeOK ==
  /\ row      \in [Tasks -> {"none", "pending", "processing", "published"}]
  /\ lockedBy \in [Tasks -> Publishers \cup {NoPublisher}]
  /\ expired  \in [Tasks -> BOOLEAN]
  /\ event    \in [Publishers ->
                    [Tasks -> {"none", "claimed", "stored", "acked", "failed"}]]
  /\ stopped  \subseteq Publishers
  /\ told     \in [Tasks -> BOOLEAN]

\* "published" means that the broker got the task after it was last submitted,
\* resumed or retried: a publisher that was at work when the row started over
\* cannot mark the new round as done with its message of the old one.
PublishedIsTold == \A k \in Tasks : row[k] = "published" => told[k]

\* The lock column names a publisher exactly while the row is being processed.
LockedWhileProcessing ==
  \A k \in Tasks : (row[k] = "processing") <=> (lockedBy[k] # NoPublisher)

\* Each round of a task reaches the broker, whatever stops on the way.
EnqueuedIsTold == \A k \in Tasks : row[k] = "pending" ~> told[k]
=============================================================================
