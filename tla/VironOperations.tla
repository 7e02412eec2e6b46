--------------------------- MODULE VironOperations ---------------------------
(***************************************************************************)
(* The operations an agent asks Viron for over MCP and a user confirms     *)
(* (IM-ops/viron/src/server/mcp/operation-store.ts, the routes in          *)
(* server/routes/mcp-operations.ts, and the App's side of them in          *)
(* desktop/main.ts).  The server keeps the status; it executes the request *)
(* itself, or the App does and posts the result under a one-time lease.    *)
(*                                                                         *)
(* A route runs from one await to the next in one step.  What the App gets *)
(* back is a status of the past: the answer lands in a step of its own.    *)
(***************************************************************************)
EXTENDS Integers

CONSTANT Ops

Targets == {"credential", "server", "desktop"}
Open == {"awaiting_purpose", "pending", "approved"}
Terminal == {"completed", "failed", "cancelled", "expired"}
Statuses == {"none", "gone", "running"} \cup Open \cup Terminal

VARIABLES
  \* The server.
  target,    \* who executes: the server (a credential form, a request), the App
  asks,      \* the user has to approve it
  viaApp,    \* asked through the App, or by an MCP client of the server
  status,    \* "none": not created, "gone": not in the map any more
  overdue,   \* its ten minutes are over
  route,     \* the handler that has the operation in hand
  \* The App.
  known,     \* it is in desktopMcpOperationIds
  held,      \* it is in desktopMcpPendingOperations, with its lease
  run,       \* where completeDesktopMcpOperation stands
  cached,    \* pending.response
  window,    \* its window is open
  poll,      \* what the window's last look read, still to be handled
  tool,      \* what the last tool call read, still to be handled
  deleting,  \* a DELETE of it is on its way
  \* What the properties speak of.
  consent,   \* the user has submitted its page
  started    \* how often its request was executed

fixed  == <<target, asks, viaApp>>
server == <<status, overdue, route>>
app    == <<known, held, run, cached, window, poll, tool, deleting>>
ghosts == <<consent, started>>
vars   == <<fixed, server, app, ghosts>>

Nothing == [tool |-> "none", status |-> "none"]

Init ==
  /\ target \in [Ops -> Targets]
  /\ asks \in [Ops -> BOOLEAN]
  /\ viaApp \in [Ops -> BOOLEAN]
  /\ \A op \in Ops : /\ target[op] = "credential" => asks[op]
                     /\ target[op] = "desktop" => viaApp[op]
  /\ status = [op \in Ops |-> "none"]
  /\ overdue = [op \in Ops |-> FALSE]
  /\ route = [op \in Ops |-> "none"]
  /\ known = [op \in Ops |-> FALSE]
  /\ held = [op \in Ops |-> FALSE]
  /\ run = [op \in Ops |-> "idle"]
  /\ cached = [op \in Ops |-> FALSE]
  /\ window = [op \in Ops |-> FALSE]
  /\ poll = [op \in Ops |-> "none"]
  /\ tool = [op \in Ops |-> Nothing]
  /\ deleting = [op \in Ops |-> FALSE]
  /\ consent = [op \in Ops |-> FALSE]
  /\ started = [op \in Ops |-> 0]

-----------------------------------------------------------------------------
(* McpOperationStore                                                       *)

\* The status once expire has run, as every method of the store lets it.
Now(op) == IF overdue[op] /\ status[op] \in Open THEN "expired" ELSE status[op]

Exists(op) == status[op] \notin {"none", "gone"}

Becomes(op, s) == status' = [status EXCEPT ![op] = s]

\* Fault: a running operation is cancelled as well.
CancelRunning(op) ==
  Becomes(op, IF Now(op) \in Open \cup {"running"} THEN "cancelled" ELSE Now(op))

Cancel(op) ==
  Becomes(op, IF Now(op) \in Open THEN "cancelled" ELSE Now(op))

\* approveDesktop and startServer go on only while it is pending.
IsPending(op) == Now(op) = "pending"

\* startDesktop and complete.
ReportDone(op, good) ==
  IF Now(op) = "approved"
  THEN Becomes(op, IF good THEN "completed" ELSE "failed")
  ELSE Becomes(op, Now(op))

\* complete, once the server has run the request.
Complete(op, good) ==
  /\ status[op] = "running"
  /\ Becomes(op, IF good THEN "completed" ELSE "failed")

TimePasses(op) ==
  /\ status[op] \in Open /\ ~overdue[op]
  /\ overdue' = [overdue EXCEPT ![op] = TRUE]
  /\ UNCHANGED <<fixed, status, route, app, ghosts>>

\* The timer's cleanup; the second for an operation an hour after its end.
Expires(op) ==
  /\ overdue[op] /\ status[op] \in Open
  /\ Becomes(op, "expired")
  /\ UNCHANGED <<fixed, overdue, route, app, ghosts>>

Forgets(op) ==
  /\ status[op] \in Terminal /\ route[op] = "none"
  /\ Becomes(op, "gone")
  /\ UNCHANGED <<fixed, overdue, route, app, ghosts>>

\* The map is not persisted.
ServerRestarts ==
  /\ status' = [op \in Ops |-> IF Exists(op) THEN "gone" ELSE status[op]]
  /\ route' = [op \in Ops |-> "none"]
  /\ UNCHANGED <<fixed, overdue, app, ghosts>>

\* An MCP session of the server ends: cancelScope, of what it has asked for.
SessionEnds ==
  \E mine \in SUBSET {op \in Ops : ~viaApp[op]} :
    /\ status' = [op \in Ops |->
                    CASE op \notin mine -> status[op]
                      [] op \in mine /\ Now(op) \in Open -> "cancelled"
                      [] op \in mine /\ Now(op) \notin Open -> Now(op)]
    /\ UNCHANGED <<fixed, overdue, route, app, ghosts>>

-----------------------------------------------------------------------------
(* The routes                                                              *)

\* What the tool call of the App gets back.
Answered(op, name, s) ==
  tool' = IF viaApp[op] THEN [tool EXCEPT ![op] = [tool |-> name, status |-> s]]
                        ELSE tool

\* The answer to the creation has told the id and the page.
Told(op) == route[op] \notin {"creating", "auto"} /\ tool[op].tool # "create"

Create(op) ==
  /\ status[op] = "none" /\ route[op] = "none"
  /\ Becomes(op, IF asks[op] /\ target[op] # "credential"
                 THEN "awaiting_purpose" ELSE "pending")
  /\ route' = [route EXCEPT ![op] = "creating"]
  /\ UNCHANGED <<fixed, overdue, app, ghosts>>

Starts(op, where) ==
  /\ Becomes(op, "running")
  /\ route' = [route EXCEPT ![op] = where]
  /\ started' = [started EXCEPT ![op] = @ + 1]

\* The audit of the creation is written, or has failed.
CreateGoesOn(op) ==
  /\ route[op] = "creating"
  /\ UNCHANGED <<fixed, overdue, known, held, run, cached, window, poll,
                 deleting, consent>>
  /\ \/ /\ asks[op]
        /\ Becomes(op, Now(op)) /\ Answered(op, "create", Now(op))
        /\ route' = [route EXCEPT ![op] = "none"]
        /\ UNCHANGED started
     \/ /\ ~asks[op] /\ target[op] = "desktop" /\ IsPending(op)
        /\ Becomes(op, "approved") /\ Answered(op, "create", "approved")
        /\ route' = [route EXCEPT ![op] = "none"]
        /\ UNCHANGED started
     \/ /\ ~asks[op] /\ target[op] = "server" /\ IsPending(op)
        /\ Starts(op, "auto")
        /\ UNCHANGED tool
     \/ \* an error of the audit, or it is not pending any more
        /\ route' = [route EXCEPT ![op] = "none"]
        /\ Becomes(op, Now(op))
        /\ UNCHANGED <<tool, started>>

\* The automatic execution ends.  If it throws nothing records a failure.
AutoEnds(op) ==
  /\ route[op] = "auto"
  /\ route' = [route EXCEPT ![op] = "none"]
  /\ \/ \E good \in BOOLEAN :
          /\ Complete(op, good)
          /\ Answered(op, "create", IF good THEN "completed" ELSE "failed")
     \/ UNCHANGED <<status, tool>>
  /\ UNCHANGED <<fixed, overdue, known, held, run, cached, window, poll,
                 deleting, ghosts>>

\* The user submits the page of the operation.
Submit(op) ==
  /\ Told(op) /\ IsPending(op)
  /\ consent' = [consent EXCEPT ![op] = TRUE]
  /\ IF target[op] = "desktop"
     THEN Becomes(op, "approved") /\ UNCHANGED <<route, started>>
     ELSE Starts(op, "submit")
  /\ UNCHANGED <<fixed, overdue, app>>

\* The form of a credential is not valid: nothing is executed.
SubmitRefused(op) ==
  /\ Told(op) /\ target[op] = "credential" /\ IsPending(op)
  /\ Becomes(op, "failed")
  /\ UNCHANGED <<fixed, overdue, route, app, ghosts>>

SubmitEnds(op) ==
  /\ route[op] = "submit"
  /\ \E good \in BOOLEAN : Complete(op, good)
  /\ route' = [route EXCEPT ![op] = "none"]
  /\ UNCHANGED <<fixed, overdue, app, ghosts>>

\* The user cancels on the page.
CancelOnPage(op) ==
  /\ Told(op) /\ Exists(op)
  /\ Cancel(op)
  /\ UNCHANGED <<fixed, overdue, route, app, ghosts>>

-----------------------------------------------------------------------------
(* The tools of the agent; App or not, they reach the same routes          *)

CanCall(op) == Exists(op) /\ Told(op) /\ tool[op] = Nothing

CallPurpose(op) ==
  /\ CanCall(op) /\ Now(op) = "awaiting_purpose"
  /\ Becomes(op, "pending")
  /\ Answered(op, "purpose", "pending")
  /\ UNCHANGED <<fixed, overdue, route, known, held, run, cached, window, poll,
                 deleting, ghosts>>

CallGet(op) ==
  /\ CanCall(op)
  /\ Becomes(op, Now(op))
  /\ Answered(op, "get", Now(op))
  /\ UNCHANGED <<fixed, overdue, route, known, held, run, cached, window, poll,
                 deleting, ghosts>>

CallCancel(op) ==
  /\ CanCall(op) /\ Now(op) \in Open
  /\ Cancel(op)
  /\ Answered(op, "cancel", "cancelled")
  /\ UNCHANGED <<fixed, overdue, route, known, held, run, cached, window, poll,
                 deleting, ghosts>>

-----------------------------------------------------------------------------
(* The App                                                                 *)

\* Fault: a response that could not be posted is not kept.
RunAnew(op) ==
  IF run[op] # "idle" THEN UNCHANGED <<run, started>>
  ELSE /\ run' = [run EXCEPT ![op] = "executing"]
       /\ started' = [started EXCEPT ![op] = @ + 1]

\* pending.running ??= completeDesktopMcpOperation: execute, unless that was
\* done before, then post.
Run(op) ==
  CASE run[op] # "idle" -> UNCHANGED <<run, started>>
    [] run[op] = "idle" /\ cached[op] ->
         run' = [run EXCEPT ![op] = "posting"] /\ UNCHANGED started
    [] run[op] = "idle" /\ ~cached[op] ->
         /\ run' = [run EXCEPT ![op] = "executing"]
         /\ started' = [started EXCEPT ![op] = @ + 1]

\* Fault: the App runs what it was given the lease of.
WantsEager(op, s) == held[op] /\ s \in Open

\* It runs what the server has said is approved and it holds the lease of.
Wants(op, s) == held[op] /\ s = "approved"

RunIf(op, wanted) == IF wanted THEN Run(op) ELSE UNCHANGED <<run, started>>

\* handleDesktopMcpOperationResponse, of the answer to the creation.
CreateLands(op) ==
  LET s == tool[op].status
      lease == s \in Open /\ target[op] = "desktop"
  IN
  /\ tool[op].tool = "create"
  /\ tool' = [tool EXCEPT ![op] = Nothing]
  /\ known' = [known EXCEPT ![op] = s \in Open]
  /\ held' = [held EXCEPT ![op] = @ \/ lease]
  /\ window' = [window EXCEPT ![op] = @ \/ s = "pending"]
  /\ RunIf(op, lease /\ s = "approved")
  /\ UNCHANGED <<fixed, server, cached, poll, deleting, consent>>

\* ... and of the answers to the other tools.
AnswerLands(op) ==
  LET s == tool[op].status
  IN
  /\ tool[op].tool \in {"get", "purpose", "cancel"}
  /\ tool' = [tool EXCEPT ![op] = Nothing]
  /\ known' = [known EXCEPT ![op] = (@ \/ s \in Open) /\ s \notin Terminal]
  /\ held' = [held EXCEPT ![op] = @ /\ tool[op].tool # "cancel"]
  /\ window' = [window EXCEPT ![op] = @ \/ s = "pending"]
  /\ RunIf(op, Wants(op, s))
  /\ UNCHANGED <<fixed, server, cached, poll, deleting, consent>>

AnswerLost(op) ==
  /\ tool[op] # Nothing
  /\ tool' = [tool EXCEPT ![op] = Nothing]
  /\ UNCHANGED <<fixed, server, known, held, run, cached, window, poll,
                 deleting, ghosts>>

\* The window looks at the status every 750 ms.
WindowAsks(op) ==
  /\ window[op] /\ poll[op] = "none" /\ Exists(op)
  /\ Becomes(op, Now(op))
  /\ poll' = [poll EXCEPT ![op] = Now(op)]
  /\ UNCHANGED <<fixed, overdue, route, known, held, run, cached, window, tool,
                 deleting, ghosts>>

WindowSees(op) ==
  LET s == poll[op]
      ended == s \in Terminal
  IN
  /\ s # "none"
  /\ poll' = [poll EXCEPT ![op] = "none"]
  /\ RunIf(op, Wants(op, s))
  /\ held' = [held EXCEPT ![op] = @ /\ ~ended]
  /\ known' = [known EXCEPT ![op] = @ /\ ~ended]
  /\ window' = [window EXCEPT ![op] = @ /\ ~ended /\ s # "approved"]
  /\ UNCHANGED <<fixed, server, cached, tool, deleting, consent>>

\* The user closes the window.
UserCloses(op) ==
  /\ window[op]
  /\ window' = [window EXCEPT ![op] = FALSE]
  /\ IF known[op]
     THEN /\ known' = [known EXCEPT ![op] = FALSE]
          /\ held' = [held EXCEPT ![op] = FALSE]
          /\ deleting' = [deleting EXCEPT ![op] = TRUE]
     ELSE UNCHANGED <<known, held, deleting>>
  /\ UNCHANGED <<fixed, server, run, cached, poll, tool, ghosts>>

\* closeDesktopMcpOperations: the mode, the endpoint or the login changes.
ClosesAll ==
  /\ known' = [op \in Ops |-> FALSE]
  /\ held' = [op \in Ops |-> FALSE]
  /\ window' = [op \in Ops |-> FALSE]
  /\ deleting' = [op \in Ops |-> deleting[op] \/ known[op]]
  /\ UNCHANGED <<fixed, server, run, cached, poll, tool, ghosts>>

\* The DELETE reaches the server, or is lost.
DeleteLands(op) ==
  /\ deleting[op]
  /\ deleting' = [deleting EXCEPT ![op] = FALSE]
  /\ Cancel(op) \/ UNCHANGED status
  /\ UNCHANGED <<fixed, overdue, route, known, held, run, cached, window, poll,
                 tool, ghosts>>

\* The App has executed the request and keeps the response.
Executed(op) ==
  /\ run[op] = "executing"
  /\ run' = [run EXCEPT ![op] = "posting"]
  /\ cached' = [cached EXCEPT ![op] = TRUE]
  /\ UNCHANGED <<fixed, server, known, held, window, poll, tool, deleting,
                 ghosts>>

\* The post reaches the server and its answer the App.
Posted(op, good) ==
  /\ run[op] = "posting"
  /\ ReportDone(op, good)
  /\ run' = [run EXCEPT ![op] = "idle"]
  /\ LET taken == Now(op) = "approved"
     IN  /\ held' = [held EXCEPT ![op] = @ /\ ~taken]
         /\ known' = [known EXCEPT ![op] = @ /\ ~taken]
  /\ UNCHANGED <<fixed, overdue, route, cached, window, poll, tool, deleting,
                 ghosts>>

\* The post or its answer is lost.
PostLost(op, good) ==
  /\ run[op] = "posting"
  /\ ReportDone(op, good) \/ UNCHANGED status
  /\ run' = [run EXCEPT ![op] = "idle"]
  /\ UNCHANGED <<fixed, overdue, route, known, held, cached, window, poll, tool,
                 deleting, ghosts>>

\* The App quits and starts again with nothing in its memory.
AppRestarts ==
  /\ known' = [op \in Ops |-> FALSE]
  /\ held' = [op \in Ops |-> FALSE]
  /\ run' = [op \in Ops |-> "idle"]
  /\ cached' = [op \in Ops |-> FALSE]
  /\ window' = [op \in Ops |-> FALSE]
  /\ poll' = [op \in Ops |-> "none"]
  /\ tool' = [op \in Ops |-> Nothing]
  /\ deleting' = [op \in Ops |-> FALSE]
  /\ UNCHANGED <<fixed, server, ghosts>>

-----------------------------------------------------------------------------
Next ==
  \/ \E op \in Ops :
       \/ TimePasses(op) \/ Expires(op) \/ Forgets(op)
       \/ Create(op) \/ CreateGoesOn(op) \/ AutoEnds(op)
       \/ Submit(op) \/ SubmitRefused(op) \/ SubmitEnds(op) \/ CancelOnPage(op)
       \/ CallPurpose(op) \/ CallGet(op) \/ CallCancel(op)
       \/ CreateLands(op) \/ AnswerLands(op) \/ AnswerLost(op)
       \/ WindowAsks(op) \/ WindowSees(op) \/ UserCloses(op) \/ DeleteLands(op)
       \/ Executed(op)
       \/ \E good \in BOOLEAN : Posted(op, good) \/ PostLost(op, good)
  \/ ServerRestarts \/ SessionEnds \/ ClosesAll \/ AppRestarts

Spec == Init /\ [][Next]_vars

-----------------------------------------------------------------------------
TypeOK ==
  /\ target \in [Ops -> Targets]
  /\ asks \in [Ops -> BOOLEAN] /\ viaApp \in [Ops -> BOOLEAN]
  /\ status \in [Ops -> Statuses]
  /\ overdue \in [Ops -> BOOLEAN]
  /\ route \in [Ops -> {"none", "creating", "auto", "submit"}]
  /\ known \in [Ops -> BOOLEAN] /\ held \in [Ops -> BOOLEAN]
  /\ run \in [Ops -> {"idle", "executing", "posting"}]
  /\ cached \in [Ops -> BOOLEAN] /\ window \in [Ops -> BOOLEAN]
  /\ poll \in [Ops -> Statuses]
  /\ tool \in [Ops -> [tool : {"none", "create", "purpose", "get", "cancel"},
                       status : Statuses]]
  /\ deleting \in [Ops -> BOOLEAN]
  /\ consent \in [Ops -> BOOLEAN]
  /\ started \in [Ops -> Nat]

\* The request of an operation is executed at most once, by the server or by
\* the App, whatever answers are lost, repeated or late.
StartedOnce == \A op \in Ops : started[op] <= 1

\* What needs the user's approval is never executed without it: not by a
\* status read too early, a second window or a lost answer.
StartedWithConsent == \A op \in Ops : started[op] > 0 /\ asks[op] => consent[op]

\* A status says what happened: completed was executed, and what the server
\* executes was not executed when it ends cancelled or expired.
OutcomeIsTrue ==
  \A op \in Ops :
    /\ status[op] = "completed" => started[op] > 0
    /\ status[op] \in {"cancelled", "expired"} /\ target[op] # "desktop"
         => started[op] = 0

\* A terminal status stays until the record is dropped.
Finality ==
  [][\A op \in Ops : status[op] \in Terminal
                       => status'[op] \in {status[op], "gone"}]_vars

\* The App claims the lease and executes then: nothing that ended cancelled or
\* expired was executed by it.
LeaseBeforeExecution ==
  \A op \in Ops : status[op] \in {"cancelled", "expired"} => started[op] = 0

=============================================================================
