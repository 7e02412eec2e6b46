--------------------------- MODULE ForwardPromise ---------------------------
(***************************************************************************)
(* What message forwarding promises, without workers, leases or counters.  *)
(* A forwarding task has a set of targets.  Once accepted, each target is  *)
(* eventually reported as delivered, refused or cancelled, "delivered"     *)
(* only if the message reached it; the task ends in the same step as its   *)
(* last open target, and only an ended task can be reopened, for the       *)
(* targets that were refused.                                              *)
(***************************************************************************)
CONSTANTS Tasks, Targets, TaskOf

VARIABLES
  phase,    \* of a task: draft, running, held, ended or cancelled
  report,   \* what the owner is told of a target: open, delivered, refused, cancelled
  reached   \* the message has reached the target

vars == <<phase, report, reached>>

TargetsOf(k) == {t \in Targets : TaskOf[t] = k}

Init ==
  /\ phase   = [k \in Tasks |-> "draft"]
  /\ report  = [t \in Targets |-> "open"]
  /\ reached = [t \in Targets |-> FALSE]

Move(k, from, to) ==
  /\ phase[k] = from
  /\ phase' = [phase EXCEPT ![k] = to]
  /\ UNCHANGED <<report, reached>>

Accept(k)  == Move(k, "draft", "running")
Hold(k)    == Move(k, "running", "held")
Release(k) == Move(k, "held", "running")

\* The owner withdraws the task; targets being served are settled later.
Withdraw(k) ==
  /\ phase[k] \notin {"ended", "cancelled"}
  /\ phase' = [phase EXCEPT ![k] = "cancelled"]
  /\ \E dropped \in SUBSET {t \in TargetsOf(k) : report[t] = "open"} :
       report' = [t \in Targets |->
                    IF t \in dropped THEN "cancelled" ELSE report[t]]
  /\ UNCHANGED reached

Deliver(t) ==
  /\ phase[TaskOf[t]] # "draft"
  /\ reached' = [reached EXCEPT ![t] = TRUE]
  /\ UNCHANGED <<phase, report>>

LastOpen(t) ==
  \A u \in TargetsOf(TaskOf[t]) \ {t} : report[u] # "open"

Settle(t, r) ==
  /\ phase[TaskOf[t]] \in {"running", "held", "cancelled"}
  /\ report[t] = "open"
  /\ r = "delivered" => reached[t]
  /\ r = "cancelled" => phase[TaskOf[t]] = "cancelled"
  /\ report' = [report EXCEPT ![t] = r]
  /\ phase'  = [phase EXCEPT ![TaskOf[t]] =
                  IF @ # "cancelled" /\ LastOpen(t) THEN "ended" ELSE @]
  /\ UNCHANGED reached

Reopen(k) ==
  /\ phase[k] = "ended"
  /\ phase' = [phase EXCEPT ![k] = "running"]
  /\ \E again \in SUBSET {t \in TargetsOf(k) : report[t] = "refused"} :
       /\ again # {}
       /\ report' = [t \in Targets |->
                       IF t \in again THEN "open" ELSE report[t]]
  /\ UNCHANGED reached

Next ==
  \/ \E k \in Tasks :
       Accept(k) \/ Hold(k) \/ Release(k) \/ Withdraw(k) \/ Reopen(k)
  \/ \E t \in Targets :
       \/ Deliver(t)
       \/ \E r \in {"delivered", "refused", "cancelled"} : Settle(t, r)

Spec == Init /\ [][Next]_vars
=============================================================================
