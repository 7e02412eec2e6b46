------------------------ MODULE VironOperationsProofs ------------------------
(***************************************************************************)
(* What holds of the operations of Viron for every set of operations.      *)
(* Each part of the invariant is about one operation; a step of one        *)
(* operation leaves the others alone, and the four steps that touch all of *)
(* them only forget or withdraw.                                           *)
(***************************************************************************)
EXTENDS VironOperations, TLAPS

\* Nothing has been executed of what the server has not begun, and only the
\* App executes what is meant for it.
ServerInv(op) ==
  /\ status[op] \in {"none", "awaiting_purpose", "pending"} => started[op] = 0
  /\ "approved" \in {poll[op], tool[op].status}
       => status[op] \notin {"none", "awaiting_purpose", "pending"}
  /\ status[op] = "none" => route[op] = "none" /\ tool[op] = Nothing
  /\ route[op] \in {"creating", "auto"} => tool[op] = Nothing
  /\ target[op] # "desktop" =>
       /\ status[op] \in {"approved", "cancelled", "expired"} => started[op] = 0
       /\ status[op] \in {"running", "completed"} => started[op] > 0
  /\ target[op] = "desktop" =>
       /\ status[op] # "running" /\ route[op] \in {"none", "creating"}
       /\ status[op] = "completed" => started[op] > 0

\* The App executes under a lease, once: after that it has the response.
AppInv(op) ==
  /\ held[op] => target[op] = "desktop"
  /\ run[op] # "idle" \/ cached[op] => started[op] > 0 /\ target[op] = "desktop"
  /\ run[op] = "posting" => cached[op]
  /\ held[op] /\ started[op] > 0 => run[op] # "idle" \/ cached[op]
  /\ target[op] = "desktop" /\ (\/ status[op] = "none" \/ route[op] # "none"
                                \/ tool[op].tool = "create")
       => started[op] = 0 /\ ~held[op]

\* An approval that is known anywhere was given.
ConsentInv(op) ==
  /\ asks[op] /\ "approved" \in {status[op], poll[op], tool[op].status}
       => consent[op]
  /\ asks[op] /\ started[op] > 0 => consent[op]
  /\ asks[op] => route[op] # "auto"

OpInv(op) ==
  ServerInv(op) /\ AppInv(op) /\ ConsentInv(op) /\ started[op] <= 1

IInv == TypeOK /\ \A op \in Ops : OpInv(op)

\* What expire leaves.
LEMMA NowIs ==
  ASSUME NEW op \in Ops, TypeOK
  PROVE  /\ Now(op) \in Statuses
         /\ \/ Now(op) = status[op] /\ (overdue[op] => status[op] \notin Open)
            \/ Now(op) = "expired" /\ status[op] \in Open
BY DEF Now, TypeOK, Statuses, Terminal

\* What Run does: it begins, it posts again, or it is under way.
LEMMA RunEffect ==
  ASSUME NEW op \in Ops, TypeOK, NEW wanted \in BOOLEAN, RunIf(op, wanted)
  PROVE  /\ run' \in [Ops -> {"idle", "executing", "posting"}]
         /\ started' \in [Ops -> Nat]
         /\ \A q \in Ops : q # op => run'[q] = run[q] /\ started'[q] = started[q]
         /\ \/ /\ run'[op] = run[op] /\ started'[op] = started[op]
               /\ ~wanted \/ run[op] # "idle"
            \/ /\ wanted /\ cached[op] /\ run'[op] = "posting"
               /\ started'[op] = started[op]
            \/ /\ wanted /\ ~cached[op] /\ run[op] = "idle"
               /\ run'[op] = "executing" /\ started'[op] = started[op] + 1
<1>1. CASE ~wanted \/ run[op] # "idle"
  BY <1>1 DEF RunIf, Run, TypeOK
<1>2. CASE wanted /\ run[op] = "idle" /\ cached[op]
  BY <1>2 DEF RunIf, Run, TypeOK
<1>3. CASE wanted /\ run[op] = "idle" /\ ~cached[op]
  <2>1. /\ run' = [run EXCEPT ![op] = "executing"]
        /\ started' = [started EXCEPT ![op] = started[op] + 1]
    BY <1>3 DEF RunIf, Run
  <2> QED
    BY <1>3, <2>1 DEF TypeOK
<1> QED
  BY <1>1, <1>2, <1>3 DEF TypeOK

LEMMA TimePassesKeeps ==
  ASSUME IInv, NEW op \in Ops, TimePasses(op)
  PROVE  IInv'
<1>1. TypeOK'
  BY DEF IInv, TypeOK, Statuses, Open, Terminal, fixed, server, app, ghosts,
     Becomes, Now, Nothing,
         TimePasses
<1>2. ASSUME NEW q \in Ops PROVE OpInv(q)'
  BY DEF IInv, OpInv, ServerInv, AppInv, ConsentInv, TypeOK, Statuses, Open,
         Terminal, fixed, server, app, ghosts, Becomes, Now, Nothing,
         TimePasses
<1> QED
  BY <1>1, <1>2 DEF IInv

LEMMA ExpiresKeeps ==
  ASSUME IInv, NEW op \in Ops, Expires(op)
  PROVE  IInv'
<1>1. TypeOK'
  BY DEF IInv, TypeOK, Statuses, Open, Terminal, fixed, server, app, ghosts,
     Becomes, Now, Nothing,
         Expires
<1>2. ASSUME NEW q \in Ops PROVE OpInv(q)'
  BY DEF IInv, OpInv, ServerInv, AppInv, ConsentInv, TypeOK, Statuses, Open,
         Terminal, fixed, server, app, ghosts, Becomes, Now, Nothing,
         Expires
<1> QED
  BY <1>1, <1>2 DEF IInv

LEMMA ForgetsKeeps ==
  ASSUME IInv, NEW op \in Ops, Forgets(op)
  PROVE  IInv'
<1>1. TypeOK'
  BY DEF IInv, TypeOK, Statuses, Open, Terminal, fixed, server, app, ghosts,
     Becomes, Now, Nothing,
         Forgets
<1>2. ASSUME NEW q \in Ops PROVE OpInv(q)'
  BY DEF IInv, OpInv, ServerInv, AppInv, ConsentInv, TypeOK, Statuses, Open,
         Terminal, fixed, server, app, ghosts, Becomes, Now, Nothing,
         Forgets
<1> QED
  BY <1>1, <1>2 DEF IInv

LEMMA CreateKeeps ==
  ASSUME IInv, NEW op \in Ops, Create(op)
  PROVE  IInv'
<1>1. TypeOK'
  BY DEF IInv, TypeOK, Statuses, Open, Terminal, fixed, server, app, ghosts,
     Becomes, Now, Nothing,
         Create
<1>2. ASSUME NEW q \in Ops PROVE OpInv(q)'
  BY DEF IInv, OpInv, ServerInv, AppInv, ConsentInv, TypeOK, Statuses, Open,
         Terminal, fixed, server, app, ghosts, Becomes, Now, Nothing,
         Create
<1> QED
  BY <1>1, <1>2 DEF IInv

LEMMA CreateGoesOnKeeps ==
  ASSUME IInv, NEW op \in Ops, CreateGoesOn(op)
  PROVE  IInv'
<1>1. TypeOK'
  <2>1. /\ target' \in [Ops -> Targets] /\ asks' \in [Ops -> BOOLEAN]
        /\ viaApp' \in [Ops -> BOOLEAN]
    BY DEF IInv, TypeOK, fixed, CreateGoesOn
  <2>2. status' \in [Ops -> Statuses]
    <3>1. PICK s \in Statuses : status' = [status EXCEPT ![op] = s]
      <4>1. {Now(op), "approved", "running"} \subseteq Statuses
        BY NowIs DEF IInv, Statuses, Open
      <4> QED
        BY <4>1 DEF CreateGoesOn, Becomes, Starts
    <3> QED
      BY <3>1 DEF IInv, TypeOK
  <2>3. /\ overdue' \in [Ops -> BOOLEAN]
        /\ route' \in [Ops -> {"none", "creating", "auto", "submit"}]
    BY DEF IInv, TypeOK, fixed, server, app, ghosts, Becomes, Now, Nothing,
       Starts, Answered, IsPending, CreateGoesOn
  <2>4. /\ known' \in [Ops -> BOOLEAN] /\ held' \in [Ops -> BOOLEAN]
        /\ cached' \in [Ops -> BOOLEAN] /\ window' \in [Ops -> BOOLEAN]
        /\ deleting' \in [Ops -> BOOLEAN] /\ consent' \in [Ops -> BOOLEAN]
    BY DEF IInv, TypeOK, fixed, server, app, ghosts, Becomes, Now, Nothing,
       Starts, Answered, IsPending, CreateGoesOn
  <2>5. run' \in [Ops -> {"idle", "executing", "posting"}] /\ started' \in [Ops -> Nat]
    BY DEF IInv, TypeOK, fixed, server, app, ghosts, Becomes, Now, Nothing,
       Starts, Answered, IsPending, CreateGoesOn
  <2>6. poll' \in [Ops -> Statuses]
    BY DEF IInv, TypeOK, Statuses, Open, Terminal, fixed, server, app, ghosts,
       Becomes, Now, Nothing, Starts, Answered, IsPending, CreateGoesOn
  <2>7. tool' \in [Ops -> [tool : {"none", "create", "purpose", "get", "cancel"},
                           status : Statuses]]
    BY DEF IInv, TypeOK, Statuses, Open, Terminal, fixed, server, app, ghosts,
       Becomes, Now, Nothing, Starts, Answered, IsPending, CreateGoesOn
  <2> QED
    BY <2>1, <2>2, <2>3, <2>4, <2>5, <2>6, <2>7 DEF TypeOK
<1>2. ASSUME NEW q \in Ops PROVE OpInv(q)'
  BY DEF IInv, OpInv, ServerInv, AppInv, ConsentInv, TypeOK, Statuses, Open,
         Terminal, fixed, server, app, ghosts, Becomes, Now, Nothing,
         Starts, Answered, IsPending, CreateGoesOn
<1> QED
  BY <1>1, <1>2 DEF IInv

LEMMA AutoEndsKeeps ==
  ASSUME IInv, NEW op \in Ops, AutoEnds(op)
  PROVE  IInv'
<1>1. TypeOK'
  BY DEF IInv, TypeOK, Statuses, Open, Terminal, fixed, server, app, ghosts,
     Becomes, Now, Nothing,
         Complete, Answered, AutoEnds
<1>2. ASSUME NEW q \in Ops PROVE OpInv(q)'
  BY DEF IInv, OpInv, ServerInv, AppInv, ConsentInv, TypeOK, Statuses, Open,
         Terminal, fixed, server, app, ghosts, Becomes, Now, Nothing,
         Complete, Answered, AutoEnds
<1> QED
  BY <1>1, <1>2 DEF IInv

LEMMA SubmitKeeps ==
  ASSUME IInv, NEW op \in Ops, Submit(op)
  PROVE  IInv'
<1>1. TypeOK'
  <2>1. /\ target' \in [Ops -> Targets] /\ asks' \in [Ops -> BOOLEAN]
        /\ viaApp' \in [Ops -> BOOLEAN]
    BY DEF IInv, TypeOK, fixed, Submit
  <2>2. status' \in [Ops -> Statuses]
    BY DEF IInv, TypeOK, Statuses, Open, Terminal, fixed, server, app, ghosts,
       Becomes, Now, Nothing, Told, IsPending, Starts, Submit
  <2>3. /\ overdue' \in [Ops -> BOOLEAN]
        /\ route' \in [Ops -> {"none", "creating", "auto", "submit"}]
    BY DEF IInv, TypeOK, fixed, server, app, ghosts, Becomes, Now, Nothing,
       Told, IsPending, Starts, Submit
  <2>4. /\ known' \in [Ops -> BOOLEAN] /\ held' \in [Ops -> BOOLEAN]
        /\ cached' \in [Ops -> BOOLEAN] /\ window' \in [Ops -> BOOLEAN]
        /\ deleting' \in [Ops -> BOOLEAN] /\ consent' \in [Ops -> BOOLEAN]
    BY DEF IInv, TypeOK, fixed, server, app, ghosts, Becomes, Now, Nothing,
       Told, IsPending, Starts, Submit
  <2>5. run' \in [Ops -> {"idle", "executing", "posting"}] /\ started' \in [Ops -> Nat]
    BY DEF IInv, TypeOK, fixed, server, app, ghosts, Becomes, Now, Nothing,
       Told, IsPending, Starts, Submit
  <2>6. poll' \in [Ops -> Statuses]
    BY DEF IInv, TypeOK, Statuses, Open, Terminal, fixed, server, app, ghosts,
       Becomes, Now, Nothing, Told, IsPending, Starts, Submit
  <2>7. tool' \in [Ops -> [tool : {"none", "create", "purpose", "get", "cancel"},
                           status : Statuses]]
    BY DEF IInv, TypeOK, Statuses, Open, Terminal, fixed, server, app, ghosts,
       Becomes, Now, Nothing, Told, IsPending, Starts, Submit
  <2> QED
    BY <2>1, <2>2, <2>3, <2>4, <2>5, <2>6, <2>7 DEF TypeOK
<1>2. ASSUME NEW q \in Ops PROVE OpInv(q)'
  BY DEF IInv, OpInv, ServerInv, AppInv, ConsentInv, TypeOK, Statuses, Open,
         Terminal, fixed, server, app, ghosts, Becomes, Now, Nothing,
         Told, IsPending, Starts, Submit
<1> QED
  BY <1>1, <1>2 DEF IInv

LEMMA SubmitRefusedKeeps ==
  ASSUME IInv, NEW op \in Ops, SubmitRefused(op)
  PROVE  IInv'
<1>1. TypeOK'
  BY DEF IInv, TypeOK, Statuses, Open, Terminal, fixed, server, app, ghosts,
     Becomes, Now, Nothing,
         Told, IsPending, SubmitRefused
<1>2. ASSUME NEW q \in Ops PROVE OpInv(q)'
  BY DEF IInv, OpInv, ServerInv, AppInv, ConsentInv, TypeOK, Statuses, Open,
         Terminal, fixed, server, app, ghosts, Becomes, Now, Nothing,
         Told, IsPending, SubmitRefused
<1> QED
  BY <1>1, <1>2 DEF IInv

LEMMA SubmitEndsKeeps ==
  ASSUME IInv, NEW op \in Ops, SubmitEnds(op)
  PROVE  IInv'
<1>1. TypeOK'
  BY DEF IInv, TypeOK, Statuses, Open, Terminal, fixed, server, app, ghosts,
     Becomes, Now, Nothing,
         Complete, SubmitEnds
<1>2. ASSUME NEW q \in Ops PROVE OpInv(q)'
  BY DEF IInv, OpInv, ServerInv, AppInv, ConsentInv, TypeOK, Statuses, Open,
         Terminal, fixed, server, app, ghosts, Becomes, Now, Nothing,
         Complete, SubmitEnds
<1> QED
  BY <1>1, <1>2 DEF IInv

LEMMA CancelOnPageKeeps ==
  ASSUME IInv, NEW op \in Ops, CancelOnPage(op)
  PROVE  IInv'
<1>1. TypeOK'
  BY DEF IInv, TypeOK, Statuses, Open, Terminal, fixed, server, app, ghosts,
     Becomes, Now, Nothing,
         Cancel, Exists, CancelOnPage
<1>2. ASSUME NEW q \in Ops PROVE OpInv(q)'
  BY DEF IInv, OpInv, ServerInv, AppInv, ConsentInv, TypeOK, Statuses, Open,
         Terminal, fixed, server, app, ghosts, Becomes, Now, Nothing,
         Cancel, Exists, CancelOnPage
<1> QED
  BY <1>1, <1>2 DEF IInv

LEMMA CallPurposeKeeps ==
  ASSUME IInv, NEW op \in Ops, CallPurpose(op)
  PROVE  IInv'
<1>1. TypeOK'
  BY DEF IInv, TypeOK, Statuses, Open, Terminal, fixed, server, app, ghosts,
     Becomes, Now, Nothing,
         CanCall, Exists, Told, Answered, CallPurpose
<1>2. ASSUME NEW q \in Ops PROVE OpInv(q)'
  BY DEF IInv, OpInv, ServerInv, AppInv, ConsentInv, TypeOK, Statuses, Open,
         Terminal, fixed, server, app, ghosts, Becomes, Now, Nothing,
         CanCall, Exists, Told, Answered, CallPurpose
<1> QED
  BY <1>1, <1>2 DEF IInv

LEMMA CallGetKeeps ==
  ASSUME IInv, NEW op \in Ops, CallGet(op)
  PROVE  IInv'
<1>1. TypeOK'
  BY DEF IInv, TypeOK, Statuses, Open, Terminal, fixed, server, app, ghosts,
     Becomes, Now, Nothing,
         CanCall, Exists, Told, Answered, CallGet
<1>2. ASSUME NEW q \in Ops PROVE OpInv(q)'
  BY DEF IInv, OpInv, ServerInv, AppInv, ConsentInv, TypeOK, Statuses, Open,
         Terminal, fixed, server, app, ghosts, Becomes, Now, Nothing,
         CanCall, Exists, Told, Answered, CallGet
<1> QED
  BY <1>1, <1>2 DEF IInv

LEMMA CallCancelKeeps ==
  ASSUME IInv, NEW op \in Ops, CallCancel(op)
  PROVE  IInv'
<1>1. TypeOK'
  BY DEF IInv, TypeOK, Statuses, Open, Terminal, fixed, server, app, ghosts,
     Becomes, Now, Nothing,
         CanCall, Exists, Told, Cancel, Answered, CallCancel
<1>2. ASSUME NEW q \in Ops PROVE OpInv(q)'
  BY DEF IInv, OpInv, ServerInv, AppInv, ConsentInv, TypeOK, Statuses, Open,
         Terminal, fixed, server, app, ghosts, Becomes, Now, Nothing,
         CanCall, Exists, Told, Cancel, Answered, CallCancel
<1> QED
  BY <1>1, <1>2 DEF IInv

LEMMA CreateLandsKeeps ==
  ASSUME IInv, NEW op \in Ops, CreateLands(op)
  PROVE  IInv'
<1> DEFINE wanted == LET s == tool[op].status IN s \in Open /\ target[op] = "desktop" /\ s = "approved"
<1>0. RunIf(op, wanted)
  BY DEF CreateLands
<1>r. wanted \in BOOLEAN
  BY DEF Wants, IInv, TypeOK
<1>e. /\ run' \in [Ops -> {"idle", "executing", "posting"}]
      /\ started' \in [Ops -> Nat]
      /\ \A q \in Ops : q # op => run'[q] = run[q] /\ started'[q] = started[q]
      /\ \/ /\ run'[op] = run[op] /\ started'[op] = started[op]
            /\ ~wanted \/ run[op] # "idle"
         \/ /\ wanted /\ cached[op] /\ run'[op] = "posting"
            /\ started'[op] = started[op]
         \/ /\ wanted /\ ~cached[op] /\ run[op] = "idle"
            /\ run'[op] = "executing" /\ started'[op] = started[op] + 1
  BY <1>0, <1>r, RunEffect DEF IInv
<1> HIDE DEF wanted
<1>1. TypeOK'
  <2>1. /\ target' \in [Ops -> Targets] /\ asks' \in [Ops -> BOOLEAN]
        /\ viaApp' \in [Ops -> BOOLEAN]
    BY DEF IInv, TypeOK, fixed, CreateLands
  <2>2. status' \in [Ops -> Statuses]
    BY DEF IInv, TypeOK, Statuses, Open, Terminal, fixed, server, app, ghosts,
       Becomes, Now, Nothing, CreateLands
  <2>3. /\ overdue' \in [Ops -> BOOLEAN]
        /\ route' \in [Ops -> {"none", "creating", "auto", "submit"}]
    BY DEF IInv, TypeOK, fixed, server, app, ghosts, Becomes, Now, Nothing,
       CreateLands
  <2>4. /\ known' \in [Ops -> BOOLEAN] /\ held' \in [Ops -> BOOLEAN]
        /\ cached' \in [Ops -> BOOLEAN] /\ window' \in [Ops -> BOOLEAN]
        /\ deleting' \in [Ops -> BOOLEAN] /\ consent' \in [Ops -> BOOLEAN]
    BY DEF IInv, TypeOK, fixed, server, app, ghosts, Becomes, Now, Nothing,
       CreateLands
  <2>5. run' \in [Ops -> {"idle", "executing", "posting"}] /\ started' \in [Ops -> Nat]
    BY <1>e
  <2>6. poll' \in [Ops -> Statuses]
    BY DEF IInv, TypeOK, Statuses, Open, Terminal, fixed, server, app, ghosts,
       Becomes, Now, Nothing, CreateLands
  <2>7. tool' \in [Ops -> [tool : {"none", "create", "purpose", "get", "cancel"},
                           status : Statuses]]
    BY DEF IInv, TypeOK, Statuses, Open, Terminal, fixed, server, app, ghosts,
       Becomes, Now, Nothing, CreateLands
  <2> QED
    BY <2>1, <2>2, <2>3, <2>4, <2>5, <2>6, <2>7 DEF TypeOK
<1>2. ASSUME NEW q \in Ops PROVE OpInv(q)'
  <2> USE DEF IInv, OpInv, ServerInv, AppInv, ConsentInv, TypeOK,
              Statuses, Open, Terminal, fixed, server, app, ghosts,
              Becomes, Now, Nothing, CreateLands
  <2>1. CASE q # op
    BY <2>1, <1>e
  <2>2. CASE q = op
    <3>1. ServerInv(op)'
      BY <1>e DEF wanted
    <3>2. AppInv(op)'
      <4>1. CASE target[op] = "desktop"
        <5>1. started[op] = 0 /\ ~held[op] /\ run[op] = "idle" /\ ~cached[op]
          BY <4>1
        <5>2. /\ status[op] # "none" /\ route[op] = "none"
              /\ cached' = cached /\ target' = target
          BY <4>1 DEF wanted
        <5>3. tool'[op].tool = "none" /\ status' = status /\ route' = route
          BY <1>e DEF wanted
        <5>4. CASE wanted
          BY <5>1, <5>2, <5>3, <5>4, <4>1, <1>e
        <5>5. CASE ~wanted
          BY <5>1, <5>2, <5>3, <5>5, <4>1, <1>e
        <5> QED
          BY <5>4, <5>5
      <4>2. CASE target[op] # "desktop"
        BY <4>2, <1>e DEF wanted
      <4> QED
        BY <4>1, <4>2
    <3>3. ConsentInv(op)'
      BY <1>e DEF wanted
    <3>4. started'[op] <= 1
      BY <1>e DEF wanted
    <3> QED
      BY <2>2, <3>1, <3>2, <3>3, <3>4
  <2> QED
    BY <2>1, <2>2
<1> QED
  BY <1>1, <1>2 DEF IInv

LEMMA AnswerLandsKeeps ==
  ASSUME IInv, NEW op \in Ops, AnswerLands(op)
  PROVE  IInv'
<1> DEFINE wanted == Wants(op, tool[op].status)
<1>0. RunIf(op, wanted)
  BY DEF AnswerLands
<1>r. wanted \in BOOLEAN
  BY DEF Wants, IInv, TypeOK
<1>e. /\ run' \in [Ops -> {"idle", "executing", "posting"}]
      /\ started' \in [Ops -> Nat]
      /\ \A q \in Ops : q # op => run'[q] = run[q] /\ started'[q] = started[q]
      /\ \/ /\ run'[op] = run[op] /\ started'[op] = started[op]
            /\ ~wanted \/ run[op] # "idle"
         \/ /\ wanted /\ cached[op] /\ run'[op] = "posting"
            /\ started'[op] = started[op]
         \/ /\ wanted /\ ~cached[op] /\ run[op] = "idle"
            /\ run'[op] = "executing" /\ started'[op] = started[op] + 1
  BY <1>0, <1>r, RunEffect DEF IInv
<1> HIDE DEF wanted
<1>1. TypeOK'
  <2>1. /\ target' \in [Ops -> Targets] /\ asks' \in [Ops -> BOOLEAN]
        /\ viaApp' \in [Ops -> BOOLEAN]
    BY DEF IInv, TypeOK, fixed, AnswerLands
  <2>2. status' \in [Ops -> Statuses]
    BY DEF IInv, TypeOK, Statuses, Open, Terminal, fixed, server, app, ghosts,
       Becomes, Now, Nothing, Wants, AnswerLands
  <2>3. /\ overdue' \in [Ops -> BOOLEAN]
        /\ route' \in [Ops -> {"none", "creating", "auto", "submit"}]
    BY DEF IInv, TypeOK, fixed, server, app, ghosts, Becomes, Now, Nothing,
       Wants, AnswerLands
  <2>4. /\ known' \in [Ops -> BOOLEAN] /\ held' \in [Ops -> BOOLEAN]
        /\ cached' \in [Ops -> BOOLEAN] /\ window' \in [Ops -> BOOLEAN]
        /\ deleting' \in [Ops -> BOOLEAN] /\ consent' \in [Ops -> BOOLEAN]
    BY DEF IInv, TypeOK, fixed, server, app, ghosts, Becomes, Now, Nothing,
       Wants, AnswerLands
  <2>5. run' \in [Ops -> {"idle", "executing", "posting"}] /\ started' \in [Ops -> Nat]
    BY <1>e
  <2>6. poll' \in [Ops -> Statuses]
    BY DEF IInv, TypeOK, Statuses, Open, Terminal, fixed, server, app, ghosts,
       Becomes, Now, Nothing, Wants, AnswerLands
  <2>7. tool' \in [Ops -> [tool : {"none", "create", "purpose", "get", "cancel"},
                           status : Statuses]]
    BY DEF IInv, TypeOK, Statuses, Open, Terminal, fixed, server, app, ghosts,
       Becomes, Now, Nothing, Wants, AnswerLands
  <2> QED
    BY <2>1, <2>2, <2>3, <2>4, <2>5, <2>6, <2>7 DEF TypeOK
<1>2. ASSUME NEW q \in Ops PROVE OpInv(q)'
  <2> USE DEF IInv, OpInv, ServerInv, AppInv, ConsentInv, TypeOK,
              Statuses, Open, Terminal, fixed, server, app, ghosts,
              Becomes, Now, Nothing, Wants, AnswerLands
  <2>1. CASE q # op
    BY <2>1, <1>e
  <2>2. CASE q = op
    <3>1. ServerInv(op)'
      BY <1>e DEF wanted
    <3>2. AppInv(op)'
      BY <1>e DEF wanted
    <3>3. ConsentInv(op)'
      BY <1>e DEF wanted
    <3>4. started'[op] <= 1
      BY <1>e DEF wanted
    <3> QED
      BY <2>2, <3>1, <3>2, <3>3, <3>4
  <2> QED
    BY <2>1, <2>2
<1> QED
  BY <1>1, <1>2 DEF IInv

LEMMA AnswerLostKeeps ==
  ASSUME IInv, NEW op \in Ops, AnswerLost(op)
  PROVE  IInv'
<1>1. TypeOK'
  BY DEF IInv, TypeOK, Statuses, Open, Terminal, fixed, server, app, ghosts,
     Becomes, Now, Nothing,
         AnswerLost
<1>2. ASSUME NEW q \in Ops PROVE OpInv(q)'
  BY DEF IInv, OpInv, ServerInv, AppInv, ConsentInv, TypeOK, Statuses, Open,
         Terminal, fixed, server, app, ghosts, Becomes, Now, Nothing,
         AnswerLost
<1> QED
  BY <1>1, <1>2 DEF IInv

LEMMA WindowAsksKeeps ==
  ASSUME IInv, NEW op \in Ops, WindowAsks(op)
  PROVE  IInv'
<1>1. TypeOK'
  BY DEF IInv, TypeOK, Statuses, Open, Terminal, fixed, server, app, ghosts,
     Becomes, Now, Nothing,
         Exists, WindowAsks
<1>2. ASSUME NEW q \in Ops PROVE OpInv(q)'
  BY DEF IInv, OpInv, ServerInv, AppInv, ConsentInv, TypeOK, Statuses, Open,
         Terminal, fixed, server, app, ghosts, Becomes, Now, Nothing,
         Exists, WindowAsks
<1> QED
  BY <1>1, <1>2 DEF IInv

LEMMA WindowSeesKeeps ==
  ASSUME IInv, NEW op \in Ops, WindowSees(op)
  PROVE  IInv'
<1> DEFINE wanted == Wants(op, poll[op])
<1>0. RunIf(op, wanted)
  BY DEF WindowSees
<1>r. wanted \in BOOLEAN
  BY DEF Wants, IInv, TypeOK
<1>e. /\ run' \in [Ops -> {"idle", "executing", "posting"}]
      /\ started' \in [Ops -> Nat]
      /\ \A q \in Ops : q # op => run'[q] = run[q] /\ started'[q] = started[q]
      /\ \/ /\ run'[op] = run[op] /\ started'[op] = started[op]
            /\ ~wanted \/ run[op] # "idle"
         \/ /\ wanted /\ cached[op] /\ run'[op] = "posting"
            /\ started'[op] = started[op]
         \/ /\ wanted /\ ~cached[op] /\ run[op] = "idle"
            /\ run'[op] = "executing" /\ started'[op] = started[op] + 1
  BY <1>0, <1>r, RunEffect DEF IInv
<1> HIDE DEF wanted
<1>1. TypeOK'
  <2>1. /\ target' \in [Ops -> Targets] /\ asks' \in [Ops -> BOOLEAN]
        /\ viaApp' \in [Ops -> BOOLEAN]
    BY DEF IInv, TypeOK, fixed, WindowSees
  <2>2. status' \in [Ops -> Statuses]
    BY DEF IInv, TypeOK, Statuses, Open, Terminal, fixed, server, app, ghosts,
       Becomes, Now, Nothing, Wants, WindowSees
  <2>3. /\ overdue' \in [Ops -> BOOLEAN]
        /\ route' \in [Ops -> {"none", "creating", "auto", "submit"}]
    BY DEF IInv, TypeOK, fixed, server, app, ghosts, Becomes, Now, Nothing,
       Wants, WindowSees
  <2>4. /\ known' \in [Ops -> BOOLEAN] /\ held' \in [Ops -> BOOLEAN]
        /\ cached' \in [Ops -> BOOLEAN] /\ window' \in [Ops -> BOOLEAN]
        /\ deleting' \in [Ops -> BOOLEAN] /\ consent' \in [Ops -> BOOLEAN]
    BY DEF IInv, TypeOK, fixed, server, app, ghosts, Becomes, Now, Nothing,
       Wants, WindowSees
  <2>5. run' \in [Ops -> {"idle", "executing", "posting"}] /\ started' \in [Ops -> Nat]
    BY <1>e
  <2>6. poll' \in [Ops -> Statuses]
    BY DEF IInv, TypeOK, Statuses, Open, Terminal, fixed, server, app, ghosts,
       Becomes, Now, Nothing, Wants, WindowSees
  <2>7. tool' \in [Ops -> [tool : {"none", "create", "purpose", "get", "cancel"},
                           status : Statuses]]
    BY DEF IInv, TypeOK, Statuses, Open, Terminal, fixed, server, app, ghosts,
       Becomes, Now, Nothing, Wants, WindowSees
  <2> QED
    BY <2>1, <2>2, <2>3, <2>4, <2>5, <2>6, <2>7 DEF TypeOK
<1>2. ASSUME NEW q \in Ops PROVE OpInv(q)'
  <2> USE DEF IInv, OpInv, ServerInv, AppInv, ConsentInv, TypeOK,
              Statuses, Open, Terminal, fixed, server, app, ghosts,
              Becomes, Now, Nothing, Wants, WindowSees
  <2>1. CASE q # op
    BY <2>1, <1>e
  <2>2. CASE q = op
    <3>1. ServerInv(op)'
      BY <1>e DEF wanted
    <3>2. AppInv(op)'
      BY <1>e DEF wanted
    <3>3. ConsentInv(op)'
      BY <1>e DEF wanted
    <3>4. started'[op] <= 1
      BY <1>e DEF wanted
    <3> QED
      BY <2>2, <3>1, <3>2, <3>3, <3>4
  <2> QED
    BY <2>1, <2>2
<1> QED
  BY <1>1, <1>2 DEF IInv

LEMMA UserClosesKeeps ==
  ASSUME IInv, NEW op \in Ops, UserCloses(op)
  PROVE  IInv'
<1>1. TypeOK'
  BY DEF IInv, TypeOK, Statuses, Open, Terminal, fixed, server, app, ghosts,
     Becomes, Now, Nothing,
         UserCloses
<1>2. ASSUME NEW q \in Ops PROVE OpInv(q)'
  BY DEF IInv, OpInv, ServerInv, AppInv, ConsentInv, TypeOK, Statuses, Open,
         Terminal, fixed, server, app, ghosts, Becomes, Now, Nothing,
         UserCloses
<1> QED
  BY <1>1, <1>2 DEF IInv

LEMMA DeleteLandsKeeps ==
  ASSUME IInv, NEW op \in Ops, DeleteLands(op)
  PROVE  IInv'
<1>1. TypeOK'
  BY DEF IInv, TypeOK, Statuses, Open, Terminal, fixed, server, app, ghosts,
     Becomes, Now, Nothing,
         Cancel, DeleteLands
<1>2. ASSUME NEW q \in Ops PROVE OpInv(q)'
  BY DEF IInv, OpInv, ServerInv, AppInv, ConsentInv, TypeOK, Statuses, Open,
         Terminal, fixed, server, app, ghosts, Becomes, Now, Nothing,
         Cancel, DeleteLands
<1> QED
  BY <1>1, <1>2 DEF IInv

LEMMA ExecutedKeeps ==
  ASSUME IInv, NEW op \in Ops, Executed(op)
  PROVE  IInv'
<1>1. TypeOK'
  BY DEF IInv, TypeOK, Statuses, Open, Terminal, fixed, server, app, ghosts,
     Becomes, Now, Nothing,
         Executed
<1>2. ASSUME NEW q \in Ops PROVE OpInv(q)'
  BY DEF IInv, OpInv, ServerInv, AppInv, ConsentInv, TypeOK, Statuses, Open,
         Terminal, fixed, server, app, ghosts, Becomes, Now, Nothing,
         Executed
<1> QED
  BY <1>1, <1>2 DEF IInv

LEMMA PostedKeeps ==
  ASSUME IInv, NEW op \in Ops, NEW good \in BOOLEAN,
         Posted(op, good) \/ PostLost(op, good)
  PROVE  IInv'
<1>1. PICK s \in Statuses :
        /\ status' = [status EXCEPT ![op] = s]
        /\ \/ s = status[op]
           \/ s = "expired" /\ status[op] \in Open
           \/ s \in {"completed", "failed"} /\ status[op] = "approved"
  <2>1. status' = status => status' = [status EXCEPT ![op] = status[op]]
    BY DEF IInv, TypeOK
  <2>2. {"completed", "failed"} \subseteq Statuses /\ status[op] \in Statuses
    BY DEF IInv, TypeOK, Statuses, Terminal
  <2> QED
    BY <2>1, <2>2, NowIs DEF IInv, Posted, PostLost, ReportDone, Becomes
<1>2. /\ run' = [run EXCEPT ![op] = "idle"] /\ run[op] = "posting"
      /\ known' \in [Ops -> BOOLEAN] /\ held' \in [Ops -> BOOLEAN]
      /\ \A q \in Ops : held'[q] => held[q]
  BY DEF IInv, TypeOK, Posted, PostLost
<1>3. UNCHANGED <<fixed, overdue, route, cached, window, poll, tool, deleting,
                  ghosts>>
  BY DEF Posted, PostLost
<1>4. TypeOK'
  BY <1>1, <1>2, <1>3 DEF IInv, TypeOK, fixed, ghosts
<1>5. cached[op]
  BY <1>2 DEF IInv, OpInv, AppInv
<1>6. ASSUME NEW q \in Ops PROVE OpInv(q)'
  BY <1>1, <1>2, <1>3, <1>5 DEF IInv, OpInv, ServerInv, AppInv, ConsentInv,
     TypeOK,
     Open, fixed, ghosts, Nothing
<1> QED
  BY <1>4, <1>6 DEF IInv

\* The steps that touch every operation: the server forgets or withdraws, the
\* App forgets or lets go.
LEMMA AllKeep ==
  ASSUME IInv, ServerRestarts \/ SessionEnds \/ ClosesAll \/ AppRestarts
  PROVE  IInv'
<1>1. CASE ServerRestarts
  <2>1. TypeOK'
    BY <1>1 DEF ServerRestarts, IInv, TypeOK, Statuses, fixed, app, ghosts
  <2>2. ASSUME NEW q \in Ops PROVE OpInv(q)'
    BY <1>1 DEF ServerRestarts, Exists, IInv, OpInv, ServerInv, AppInv,
       ConsentInv, TypeOK, fixed, app, ghosts, Nothing
  <2> QED
    BY <2>1, <2>2 DEF IInv
<1>2. CASE SessionEnds
  <2> PICK mine \in SUBSET {op \in Ops : ~viaApp[op]} :
        /\ status' = [op \in Ops |->
                        CASE op \notin mine -> status[op]
                          [] op \in mine /\ Now(op) \in Open -> "cancelled"
                          [] op \in mine /\ Now(op) \notin Open -> Now(op)]
        /\ UNCHANGED <<fixed, overdue, route, app, ghosts>>
    BY <1>2 DEF SessionEnds
  <2>1. ASSUME NEW q \in Ops
        PROVE  /\ status'[q] \in Statuses
               /\ \/ status'[q] = status[q]
                  \/ /\ status'[q] \in {"cancelled", "expired"}
                     /\ status[q] \in Open /\ ~viaApp[q]
    BY <2>1, NowIs DEF IInv, TypeOK, Statuses, Open, Terminal
  <2>2. status' \in [Ops -> Statuses]
    BY <2>1
  <2>3. TypeOK'
    BY <2>2 DEF IInv, TypeOK, fixed, app, ghosts
  <2>4. ASSUME NEW q \in Ops PROVE OpInv(q)'
    BY <2>1, <2>4 DEF IInv, OpInv, ServerInv, AppInv, ConsentInv,
       TypeOK, Open, fixed, app, ghosts, Nothing
  <2> QED
    BY <2>3, <2>4 DEF IInv
<1>3. CASE ClosesAll
  <2>1. TypeOK'
    BY <1>3 DEF ClosesAll, IInv, TypeOK, fixed, server, ghosts
  <2>2. ASSUME NEW q \in Ops PROVE OpInv(q)'
    BY <1>3 DEF ClosesAll, IInv, OpInv, ServerInv, AppInv, ConsentInv, TypeOK,
       fixed, server, ghosts, Nothing
  <2> QED
    BY <2>1, <2>2 DEF IInv
<1>4. CASE AppRestarts
  <2>1. TypeOK'
    BY <1>4 DEF AppRestarts, IInv, TypeOK, fixed, server, ghosts, Nothing,
       Statuses
  <2>2. ASSUME NEW q \in Ops PROVE OpInv(q)'
    BY <1>4 DEF AppRestarts, IInv, OpInv, ServerInv, AppInv, ConsentInv, TypeOK,
       fixed, server, ghosts, Nothing
  <2> QED
    BY <2>1, <2>2 DEF IInv
<1> QED
  BY <1>1, <1>2, <1>3, <1>4

LEMMA OperationsInit == Init => IInv
<1> SUFFICES ASSUME Init PROVE IInv
  OBVIOUS
<1>1. TypeOK
  <2>1. "none" \in Statuses
    BY DEF Statuses
  <2> QED
    BY <2>1 DEF Init, TypeOK, Nothing
<1>2. ASSUME NEW op \in Ops PROVE OpInv(op)
  BY DEF Init, OpInv, ServerInv, AppInv, ConsentInv, Nothing
<1> QED
  BY <1>1, <1>2 DEF IInv

LEMMA OperationsNext == IInv /\ [Next]_vars => IInv'
<1> SUFFICES ASSUME IInv, [Next]_vars PROVE IInv'
  OBVIOUS
<1>1. ASSUME UNCHANGED vars PROVE IInv'
  BY <1>1 DEF vars, fixed, server, app, ghosts, IInv, OpInv, ServerInv, AppInv,
     ConsentInv, TypeOK
<1>2. ASSUME NEW op \in Ops,
             \/ TimePasses(op) \/ Expires(op) \/ Forgets(op)
             \/ Create(op) \/ CreateGoesOn(op) \/ AutoEnds(op)
             \/ Submit(op) \/ SubmitRefused(op) \/ SubmitEnds(op)
             \/ CancelOnPage(op)
      PROVE  IInv'
  BY <1>2, TimePassesKeeps, ExpiresKeeps, ForgetsKeeps, CreateKeeps,
     CreateGoesOnKeeps, AutoEndsKeeps, SubmitKeeps, SubmitRefusedKeeps,
     SubmitEndsKeeps, CancelOnPageKeeps
<1>3. ASSUME NEW op \in Ops,
             \/ CallPurpose(op) \/ CallGet(op) \/ CallCancel(op)
             \/ CreateLands(op) \/ AnswerLands(op) \/ AnswerLost(op)
             \/ WindowAsks(op) \/ WindowSees(op) \/ UserCloses(op)
             \/ DeleteLands(op) \/ Executed(op)
      PROVE  IInv'
  BY <1>3, CallPurposeKeeps, CallGetKeeps, CallCancelKeeps, CreateLandsKeeps,
     AnswerLandsKeeps, AnswerLostKeeps, WindowAsksKeeps, WindowSeesKeeps,
     UserClosesKeeps, DeleteLandsKeeps, ExecutedKeeps
<1> QED
  BY <1>1, <1>2, <1>3, PostedKeeps, AllKeep DEF Next

\* Type correctness, for every set of operations.
THEOREM OperationsTypeCorrect == Spec => []TypeOK
<1>1. IInv => TypeOK
  BY DEF IInv
<1> QED
  BY <1>1, OperationsInit, OperationsNext, PTL DEF Spec

\* A request is executed at most once, by the server or the App
\* (pending.running and pending.response of desktop/main.ts, startServer).
THEOREM ExecutedAtMostOnce == Spec => []StartedOnce
<1>1. IInv => StartedOnce
  BY DEF IInv, OpInv, StartedOnce
<1> QED
  BY <1>1, OperationsInit, OperationsNext, PTL DEF Spec

\* What asks for the user's approval is executed with it only.
THEOREM ExecutedWithConsent == Spec => []StartedWithConsent
<1>1. IInv => StartedWithConsent
  BY DEF IInv, OpInv, ConsentInv, StartedWithConsent
<1> QED
  BY <1>1, OperationsInit, OperationsNext, PTL DEF Spec

\* The statuses of the store tell the truth about the execution.
THEOREM OutcomesTrue == Spec => []OutcomeIsTrue
<1>1. IInv => OutcomeIsTrue
  BY DEF IInv, OpInv, ServerInv, OutcomeIsTrue, TypeOK
<1> QED
  BY <1>1, OperationsInit, OperationsNext, PTL DEF Spec

LEMMA FinalStep ==
  ASSUME TypeOK, Next, NEW q \in Ops, status[q] \in Terminal
  PROVE  status'[q] \in {status[q], "gone"}
<1> USE DEF TypeOK, Open, Terminal, Becomes
<1>1. ASSUME NEW op \in Ops,
             \/ TimePasses(op) \/ Expires(op) \/ Forgets(op) \/ AnswerLost(op)
             \/ CreateLands(op) \/ AnswerLands(op) \/ WindowSees(op)
             \/ UserCloses(op) \/ Executed(op)
      PROVE  status'[q] \in {status[q], "gone"}
  BY <1>1 DEF TimePasses, Expires, Forgets, AnswerLost, CreateLands,
     AnswerLands,
     WindowSees, UserCloses, Executed, server
<1>2. ASSUME NEW op \in Ops,
             \/ Create(op) \/ CreateGoesOn(op) \/ AutoEnds(op) \/ Submit(op)
             \/ SubmitRefused(op) \/ SubmitEnds(op)
      PROVE  status'[q] = status[q]
  BY <1>2 DEF Create, CreateGoesOn, AutoEnds, Submit, SubmitRefused, SubmitEnds,
     Starts, Complete, IsPending, Now
<1>3. ASSUME NEW op \in Ops, NEW good \in BOOLEAN,
             \/ CancelOnPage(op) \/ CallPurpose(op) \/ CallGet(op)
             \/ CallCancel(op) \/ WindowAsks(op) \/ DeleteLands(op)
             \/ Posted(op, good) \/ PostLost(op, good)
      PROVE  status'[q] = status[q]
  BY <1>3 DEF CancelOnPage, CallPurpose, CallGet, CallCancel, WindowAsks,
     DeleteLands, Posted, PostLost, Cancel, ReportDone, Now
<1>4. ASSUME ServerRestarts \/ SessionEnds \/ ClosesAll \/ AppRestarts
      PROVE  status'[q] \in {status[q], "gone"}
  BY <1>4 DEF ServerRestarts, SessionEnds, ClosesAll, AppRestarts, Now, server
<1> QED
  BY <1>1, <1>2, <1>3, <1>4 DEF Next

\* An end is final: a late result, answer or cancellation does not change it.
THEOREM EndsAreFinal == Spec => Finality
<1>1. TypeOK /\ [Next]_vars
        => [\A op \in Ops : status[op] \in Terminal
                              => status'[op] \in {status[op], "gone"}]_vars
  BY FinalStep DEF vars
<1> QED
  BY <1>1, OperationsTypeCorrect, PTL DEF Spec, Finality

=============================================================================
