---------------------------- MODULE ForwardDraft ----------------------------
(***************************************************************************)
(* How a forwarding task is assembled before it enters the queue of module *)
(* ForwardQueue: one row of forward_tasks under an idempotency key, its    *)
(* target rows, and the requests of one owner that create it, add and      *)
(* remove targets and submit it, alone or as one CreateBatch call          *)
(* (internal/service/forward.go, internal/repository/forward.go).          *)
(*                                                                         *)
(* Additions lock the task row and recount inside one transaction: one     *)
(* step.  RemoveTargets and ClearTargets are two statements outside any    *)
(* transaction, and under READ COMMITTED each of them reads its snapshot   *)
(* before it waits for the rows it writes: four steps.                     *)
(*                                                                         *)
(* A definition under a comment "Fault" is no part of the specification:   *)
(* it is a wrong form of the definition that follows it, one that a        *)
(* property below must reject.                                             *)
(***************************************************************************)
EXTENDS Integers, Sequences, FiniteSets

CONSTANTS
  Requests,  \* HTTP requests, each served once
  Selected,  \* peers the selector of GenerateTargets finds
  Chosen,    \* peers listed in targetUserIds
  Excluded,  \* peers listed in excludeUserIds
  Groups     \* groups listed in targetGroupIds

Peers == Selected \cup Chosen \cup Groups

ASSUME DraftAssumption ==
  /\ IsFiniteSet(Peers)
  /\ Excluded \subseteq Selected \cup Chosen
  /\ Excluded \cap Groups = {}

VARIABLES
  status,       \* forward_tasks.status; "none" before the row exists
  rows,         \* the peers that have a row in forward_task_targets
  targetCount,  \* forward_tasks.target_count
  kind,         \* what each request is
  todo,         \* the statements each request has still to run
  named,        \* the peers a request wants removed
  victims,      \* the rows a DELETE has selected and not yet deleted
  counted,      \* the count an UPDATE has read and not yet written
  submitter,    \* the kind of the request that submitted the task
  overlap,      \* two requests have been under way at the same time
  torn          \* a removal was cut short, or met another request's write

taskVars    == <<status, rows, targetCount, submitter>>
requestVars == <<kind, todo, named, victims, counted>>
ghostVars   == <<overlap, torn>>
vars == <<taskVars, requestVars, ghostVars>>

Removal == <<"check", "select", "delete", "count", "refresh">>

\* Fault: the excluded peers are removed before the rest is added.
AssemblyReversed == Removal \o <<"add", "generate">>

Assembly == <<"add", "generate">> \o Removal

\* The statements of each request, in the order the code issues them.
Program ==
  [batch    |-> <<"create">> \o Assembly \o <<"groups", "total", "submit">>,
   create   |-> <<"create", "add">>,
   add      |-> <<"add">>,
   generate |-> <<"generate">>,
   remove   |-> Removal,
   clear    |-> Removal,
   submit   |-> <<"submit">>,
   cancel   |-> <<"cancel">>]

Kinds == DOMAIN Program
Ops   == {"create", "add", "generate", "groups", "total", "submit", "cancel",
          "check", "select", "delete", "count", "refresh"}

\* What a request of kind c may name for removal.
Removable(c) ==
  CASE c = "batch"  -> {Excluded}
    [] c = "remove" -> SUBSET (Selected \cup Chosen) \ {{}}
    [] c = "clear"  -> {Peers}
    [] OTHER        -> {{}}

Init ==
  /\ status      = "none"
  /\ rows        = {}
  /\ targetCount = 0
  /\ kind        = [r \in Requests |-> "none"]
  /\ todo        = [r \in Requests |-> <<>>]
  /\ named       = [r \in Requests |-> {}]
  /\ victims     = [r \in Requests |-> {}]
  /\ counted     = [r \in Requests |-> 0]
  /\ submitter   = "none"
  /\ overlap     = FALSE
  /\ torn        = FALSE

Active(r)  == todo[r] # <<>>
At(r, op)  == Active(r) /\ Head(todo[r]) = op
Advance(r) == todo' = [todo EXCEPT ![r] = Tail(@)]
Abort(r)   == todo' = [todo EXCEPT ![r] = <<>>]

\* A removal has selected its rows and not yet written the count.
Removing(r) == At(r, "delete") \/ At(r, "count") \/ At(r, "refresh")

-----------------------------------------------------------------------------
(* Requests arrive, and break off                                          *)

Begin(r) ==
  /\ kind[r] = "none"
  /\ \E c \in Kinds : \E peers \in Removable(c) :
       /\ kind'  = [kind EXCEPT ![r] = c]
       /\ todo'  = [todo EXCEPT ![r] = Program[c]]
       /\ named' = [named EXCEPT ![r] = peers]
  /\ overlap' = (overlap \/ \E q \in Requests : Active(q))
  /\ UNCHANGED <<taskVars, victims, counted, torn>>

\* A statement fails, the client hangs up or the process stops: what was
\* committed stays, the rest is not done.
Fail(r) ==
  /\ Active(r)
  /\ Abort(r)
  /\ victims' = [victims EXCEPT ![r] = {}]
  /\ torn'    = (torn \/ Removing(r))
  /\ UNCHANGED <<taskVars, kind, named, counted, overlap>>

-----------------------------------------------------------------------------
(* One statement or transaction of a request                               *)

\* CreateTask: INSERT ... ON CONFLICT DO NOTHING, else the existing task,
\* which Create returns as it is once it is no longer a draft.
CreateTask(r) ==
  /\ At(r, "create")
  /\ status' = IF status = "none" THEN "draft" ELSE status
  /\ IF status' = "draft" THEN Advance(r) ELSE Abort(r)
  /\ UNCHANGED <<rows, targetCount, submitter, kind, named, victims, counted>>

\* AddTargets, GenerateTargets and AddGroupTargets: lock the task, require a
\* draft, insert whichever peers are eligible now, recount (refreshTargetCountTx).
AddRows(r, op, peers) ==
  /\ At(r, op)
  /\ \/ /\ status = "draft"
        /\ \E found \in SUBSET peers : rows' = rows \cup found
        /\ targetCount' = Cardinality(rows')
        /\ Advance(r)
     \/ /\ status # "draft"
        /\ Abort(r)
        /\ UNCHANGED <<rows, targetCount>>
  /\ UNCHANGED <<status, submitter, kind, named, victims, counted>>

AddTargets(r)      == AddRows(r, "add", Chosen)
GenerateTargets(r) == AddRows(r, "generate", Selected)
AddGroupTargets(r) == AddRows(r, "groups", Groups)

\* RemoveTargets and ClearTargets read the status first ...
CheckDraft(r) ==
  /\ At(r, "check")
  /\ IF status = "draft" THEN Advance(r) ELSE Abort(r)
  /\ UNCHANGED <<taskVars, kind, named, victims, counted>>

\* ... the DELETE selects rows of a task that is a draft in its snapshot ...
SelectVictims(r) ==
  /\ At(r, "select")
  /\ victims' = [victims EXCEPT ![r] = IF status = "draft" THEN rows \cap named[r]
                                       ELSE {}]
  /\ Advance(r)
  /\ UNCHANGED <<taskVars, kind, named, counted>>

\* ... and deletes those that nobody else has deleted meanwhile.
DeleteVictims(r) ==
  /\ At(r, "delete")
  /\ rows'    = rows \ victims[r]
  /\ victims' = [q \in Requests |-> victims[q] \ victims[r]]
  /\ Advance(r)
  /\ UNCHANGED <<status, targetCount, submitter, kind, named, counted>>

\* The subquery of the UPDATE (ClearTargets writes a literal 0) ...
CountRows(r) ==
  /\ At(r, "count")
  /\ counted' = [counted EXCEPT ![r] = IF kind[r] = "clear" THEN 0
                                       ELSE Cardinality(rows)]
  /\ Advance(r)
  /\ UNCHANGED <<taskVars, kind, named, victims>>

\* Fault: the peers named in the request are subtracted from the count.
RefreshByNames(r) ==
  /\ At(r, "refresh")
  /\ targetCount' = targetCount - Cardinality(named[r])
  /\ Advance(r)
  /\ UNCHANGED <<status, rows, submitter, kind, named, victims, counted>>

\* ... is not evaluated again when the UPDATE gets the row; its WHERE is.
RefreshCount(r) ==
  /\ At(r, "refresh")
  /\ targetCount' = IF status = "draft" THEN counted[r] ELSE targetCount
  /\ counted'     = [counted EXCEPT ![r] = 0]
  /\ Advance(r)
  /\ UNCHANGED <<status, rows, submitter, kind, named, victims>>

\* CreateBatch reads the task again: "no eligible targets".
CheckTotal(r) ==
  /\ At(r, "total")
  /\ IF targetCount > 0 THEN Advance(r) ELSE Abort(r)
  /\ UNCHANGED <<taskVars, kind, named, victims, counted>>

SubmitTask(r) ==
  /\ At(r, "submit")
  /\ IF status = "draft" /\ targetCount > 0
     THEN status' = "submitted" /\ submitter' = kind[r]
     ELSE UNCHANGED <<status, submitter>>
  /\ Advance(r)
  /\ UNCHANGED <<rows, targetCount, kind, named, victims, counted>>

\* CancelTask; what it does to the targets is in module ForwardQueue.  A
\* submitted task may have ended by now, and is then refused.
CancelTask(r) ==
  /\ At(r, "cancel")
  /\ status' \in CASE status = "draft"     -> {"cancelled"}
                  [] status = "submitted" -> {"cancelled", "submitted"}
                  [] OTHER                -> {status}
  /\ Advance(r)
  /\ UNCHANGED <<rows, targetCount, submitter, kind, named, victims, counted>>

Statement(r) ==
  \/ CreateTask(r) \/ AddTargets(r) \/ GenerateTargets(r) \/ AddGroupTargets(r)
  \/ CheckDraft(r) \/ SelectVictims(r) \/ DeleteVictims(r)
  \/ CountRows(r) \/ RefreshCount(r) \/ CheckTotal(r)
  \/ SubmitTask(r) \/ CancelTask(r)

\* The ghost variable torn watches the statements of the others.
Step(r) ==
  /\ Statement(r)
  /\ torn' = (torn \/ /\ <<status, rows, targetCount>>' # <<status, rows, targetCount>>
                      /\ \E q \in Requests \ {r} : Removing(q))
  /\ UNCHANGED overlap

Next == \E r \in Requests : Begin(r) \/ Step(r) \/ Fail(r)

Spec == Init /\ [][Next]_vars

-----------------------------------------------------------------------------
(* Properties                                                              *)

TypeOK ==
  /\ status \in {"none", "draft", "submitted", "cancelled"}
  /\ rows \subseteq Peers
  /\ targetCount \in 0..Cardinality(Peers)
  /\ kind \in [Requests -> Kinds \cup {"none"}]
  /\ todo \in [Requests -> Seq(Ops)]
  /\ named \in [Requests -> SUBSET Peers]
  /\ victims \in [Requests -> SUBSET Peers]
  /\ counted \in [Requests -> 0..Cardinality(Peers)]
  /\ submitter \in Kinds \cup {"none"}
  /\ overlap \in BOOLEAN /\ torn \in BOOLEAN

\* The task counts the rows it has, whatever requests run side by side,
\* except through a removal: one that is under way, or that broke off half
\* way, or that another request's write came between.
CountWrongOnlyByRemoval ==
  torn \/ (\E r \in Requests : Removing(r)) \/ targetCount = Cardinality(rows)

\* A batch that is retried after it broke off anywhere still leaves out the
\* excluded peers: only requests running side by side can bring them back.
ExclusionHolds ==
  submitter = "batch" /\ ~overlap => rows \cap Excluded = {}

\* The number of targets that a submitted task waits for (finalizeTaskTx) is
\* the number of its rows.
SubmittedCountExact ==
  status = "submitted" => targetCount = Cardinality(rows)
=============================================================================
