--------------------------- MODULE IMReservation ---------------------------
(***************************************************************************)
(* What the server does in OpenIM once per request: a system message under *)
(* an idempotency key (im_system_message_requests), or the recall of a     *)
(* message (im_message_recalls).  A request reserves the row, calls OpenIM *)
(* and records the result; a row that failed, or that has been pending for *)
(* more than a minute, may be reserved again by a later request.           *)
(*                                                                         *)
(* A behaviour is about one row, of either table.  Requests under the same *)
(* key with other content, which are refused before they reserve anything, *)
(* and requests that validation or permissions refuse do not appear.       *)
(*                                                                         *)
(* A definition under a comment "Fault" is no part of the specification:   *)
(* it is a wrong form of the definition that follows it, one that a        *)
(* property below must reject.                                             *)
(***************************************************************************)
EXTENDS Naturals, Sequences, SequencesExt

CONSTANTS
  Requests,  \* HTTP requests, each with an operator of its own
  Nobody,
  Admin      \* who recalls from the admin console, without a row

ASSUME ReservationAssumption == Nobody \notin Requests /\ Admin \notin Requests

VARIABLES
  kind,      \* "message" or "recall"
  row,       \* status, operator, message id, pending for more than a minute
  at,        \* where a request stands
  effects,   \* what OpenIM has done: by whose calls, in order
  late,      \* calls that were given up and may yet take effect
  answer,    \* the message or operator a successful answer tells of
  excused    \* ghost: a slow row was taken over, or an answer was lost

reservationVars == <<kind, row, at, effects, late, answer, excused>>

NoRow == [status |-> "none", operator |-> Nobody, msgId |-> Nobody, stale |-> FALSE]

ReservationInit ==
  /\ kind \in {"message", "recall"}
  /\ row = NoRow
  /\ at = [r \in Requests |-> "idle"]
  /\ effects = <<>> /\ late = {}
  /\ answer = [r \in Requests |-> Nobody]
  /\ excused = FALSE

Goes(r, place) == at' = [at EXCEPT ![r] = place]

\* What becomes of OpenIM when a call of r takes effect: messages add up, and
\* a message is recalled once.
Effect(r) ==
  IF kind = "recall" /\ effects # <<>> THEN effects ELSE Append(effects, r)

-----------------------------------------------------------------------------
(* Reserving                                                               *)

\* A new reservation; it may be made without the request learning of it.
Reserve(r) ==
  /\ row' = [row EXCEPT !.status = "pending", !.operator = r, !.stale = FALSE]
  /\ Goes(r, "call") \/ Goes(r, "end")

\* Fault: a conflicting row starts over.
InsertOver(r) ==
  /\ at[r] = "idle"
  /\ Reserve(r)
  /\ UNCHANGED <<kind, effects, late, answer, excused>>

\* INSERT ... ON CONFLICT DO NOTHING.
Insert(r) ==
  /\ at[r] = "idle"
  /\ IF row.status = "none" THEN Reserve(r) ELSE Goes(r, "read") /\ UNCHANGED row
  /\ UNCHANGED <<kind, effects, late, answer, excused>>

\* Fault: a message row that is pending is taken over whenever it is met.
MayTakeAny(s) == s.status \in {"failed", "pending"}

MayTake(s) == s.status = "failed" \/ (s.status = "pending" /\ s.stale)

\* The row is read: the result of an earlier request is answered again.
Read(r) ==
  /\ at[r] = "read"
  /\ IF row.status = "done"
       THEN /\ answer' = [answer EXCEPT ![r] = IF kind = "recall" THEN row.operator
                                                                 ELSE row.msgId]
            /\ Goes(r, "end")
       ELSE /\ Goes(r, IF kind = "recall" \/ MayTake(row) THEN "take" ELSE "end")
            /\ UNCHANGED answer
  /\ UNCHANGED <<kind, row, effects, late, excused>>

\* The guarded UPDATE; without a row the request is one too many at a time.
Take(r) ==
  /\ at[r] = "take"
  /\ IF MayTake(row)
       THEN Reserve(r) /\ excused' = (excused \/ row.stale)
       ELSE Goes(r, "end") /\ UNCHANGED <<row, excused>>
  /\ UNCHANGED <<kind, effects, late, answer>>

-----------------------------------------------------------------------------
(* Calling OpenIM                                                          *)

CallOpenIM(r) ==
  /\ at[r] = "call"
  /\ effects' = Effect(r)
  /\ Goes(r, "complete")
  /\ UNCHANGED <<kind, row, late, answer, excused>>

CallRefused(r) ==
  /\ at[r] = "call"
  /\ Goes(r, "fail")
  /\ UNCHANGED <<kind, row, effects, late, answer, excused>>

\* The call runs out of time: it has taken effect, or may yet.
CallUnanswered(r) ==
  /\ at[r] = "call"
  /\ \/ effects' = Effect(r) /\ UNCHANGED late
     \/ late' = late \cup {r} /\ UNCHANGED effects
  /\ Goes(r, "fail")
  /\ excused' = TRUE
  /\ UNCHANGED <<kind, row, answer>>

LateEffect(r) ==
  /\ r \in late
  /\ late' = late \ {r}
  /\ effects' = Effect(r)
  /\ UNCHANGED <<kind, row, at, answer, excused>>

\* The admin console recalls without a reservation.
AdminRecalls ==
  /\ kind = "recall" /\ effects = <<>>
  /\ effects' = <<Admin>>
  /\ UNCHANGED <<kind, row, at, late, answer, excused>>

-----------------------------------------------------------------------------
(* Recording                                                               *)

\* A recall is completed whatever its row says, a message only while pending.
Completed(r) ==
  IF kind = "recall" THEN [row EXCEPT !.status = "done", !.stale = FALSE]
  ELSE IF row.status = "pending"
    THEN [row EXCEPT !.status = "done", !.msgId = r, !.stale = FALSE]
  ELSE row

\* The answer tells of the request's own call, whatever its row has become.
Complete(r) ==
  /\ at[r] = "complete"
  /\ row' = Completed(r)
  /\ answer' = [answer EXCEPT ![r] = r]
  /\ Goes(r, "end")
  /\ UNCHANGED <<kind, effects, late, excused>>

\* The database fails, before or after the update.
CompleteFails(r) ==
  /\ at[r] = "complete"
  /\ row' \in {row, Completed(r)}
  /\ Goes(r, "end")
  /\ UNCHANGED <<kind, effects, late, answer, excused>>

\* Fault: the time of the row is left as it was.
FailedAsOld ==
  IF row.status = "pending" THEN [row EXCEPT !.status = "failed"] ELSE row

\* Fault: the row fails whatever it has become.
FailedAlways == [row EXCEPT !.status = "failed", !.stale = FALSE]

Failed ==
  IF row.status = "pending" THEN [row EXCEPT !.status = "failed", !.stale = FALSE]
                            ELSE row

\* Its own error is dropped.
Fail(r) ==
  /\ at[r] = "fail"
  /\ row' \in {row, Failed}
  /\ Goes(r, "end")
  /\ UNCHANGED <<kind, effects, late, answer, excused>>

-----------------------------------------------------------------------------
(* Time and crashes                                                        *)

MinutePasses ==
  /\ row.status = "pending" /\ ~row.stale
  /\ row' = [row EXCEPT !.stale = TRUE]
  /\ UNCHANGED <<kind, at, effects, late, answer, excused>>

\* The request is cancelled or the process stops; a call may be on its way.
Abort(r) ==
  /\ at[r] \notin {"idle", "end"}
  /\ late' \in IF at[r] = "call" THEN {late, late \cup {r}} ELSE {late}
  /\ excused' = (excused \/ late' # late)
  /\ Goes(r, "end")
  /\ UNCHANGED <<kind, row, effects, answer>>

ReservationNext ==
  \/ MinutePasses \/ AdminRecalls
  \/ \E r \in Requests :
       \/ Insert(r) \/ Read(r) \/ Take(r)
       \/ CallOpenIM(r) \/ CallRefused(r) \/ CallUnanswered(r) \/ LateEffect(r)
       \/ Complete(r) \/ CompleteFails(r) \/ Fail(r) \/ Abort(r)

ReservationSpec == ReservationInit /\ [][ReservationNext]_reservationVars

-----------------------------------------------------------------------------
(* Properties                                                              *)

Actors == Requests \cup {Nobody}

ReservationTypeOK ==
  /\ kind \in {"message", "recall"}
  /\ row \in [status : {"none", "pending", "failed", "done"},
              operator : Actors, msgId : Actors, stale : BOOLEAN]
  /\ row.stale => row.status = "pending"
  /\ at \in [Requests -> {"idle", "read", "take", "call", "complete", "fail", "end"}]
  /\ effects \in Seq(Requests \cup {Admin})
  /\ late \subseteq Requests
  /\ answer \in [Requests -> Actors]
  /\ excused \in BOOLEAN

\* One key is one message, unless an attempt was slower than a minute or an answer
\* of OpenIM was lost, however requests, failures of the database and stops of the
\* process fall together.
SentOnceUnlessExcused == Len(effects) <= 1 \/ excused

\* What the row and the answers say is true.  A row says "sent" or "recalled" only of
\* what OpenIM has done, with the id of a message that was sent and the operator whose
\* call recalled the message, unless that was the admin console; and two requests that
\* are answered with success are answered with the same message.
ResultsAreTrue ==
  /\ row.status = "done" =>
       /\ effects # <<>>
       /\ kind = "message" => row.msgId \in ToSet(effects)
       /\ kind = "recall" => Head(effects) \in {row.operator, Admin} \/ excused
  /\ \A r \in Requests :
       answer[r] # Nobody =>
         \/ row.status = "done" /\ (kind = "message" => answer[r] = row.msgId)
         \/ excused

\* Such a row stays as it is: no request that was slow, failed or came late
\* changes what it says.
DoneStands ==
  [][row.status = "done" => row' = row]_row

\* One key is one message, without a reservation.
NeverSentTwice == kind = "message" => Len(effects) <= 1
=============================================================================
