---------------------------- MODULE ClientSession ----------------------------
(***************************************************************************)
(* The OpenIM session of the client (IM-APP-fronend/src/utils/openim.ts,   *)
(* called from src/stores/user.ts): ensureIMLogin reuses the session or    *)
(* logs in, logoutOpenIM closes it, reopenClosedSdkDatabase logs in again. *)
(* They share a cache of who is logged in, an epoch that a logout moves    *)
(* on, a promise of the one login under way and a chain of session tasks.  *)
(*                                                                         *)
(* A step runs from one await to the next.  The SDK is external: a Login   *)
(* or Logout takes time, may fail, and takes effect when it ends.          *)
(***************************************************************************)
EXTENDS Integers, Sequences, FiniteSets

CONSTANTS
  Accounts,  \* 1..n: business accounts, and their access tokens
  Ensurers,  \* callers of ensureIMLogin
  MaxActs    \* bound of the model: calls, kicks, expiries and reconnections

ASSUME SessionAssumption ==
  /\ Accounts \subseteq Nat \ {0}
  /\ Ensurers \cap {"out", "in", "fix"} = {}
  /\ MaxActs \in Nat

Actors == Ensurers \cup {"out", "in", "fix"}
  \* logout and invalidateSession, afterLogin, reopenClosedSdkDatabase

VARIABLES
  token,   \* getToken(): the account whose business token is stored, or 0
  coming,  \* the account that afterLogin has still to store
  im,      \* imUserId, boundAccessToken, connected, and the expiry of the token
  epoch,   \* loginEpoch
  force,   \* forceNextLogin
  depth,   \* sessionDepth
  chain,   \* the tasks of sessionChain that wait
  actor,   \* where each call stands
  login,   \* loginPromise: where doLogin stands
  sdk,     \* the user the SDK is logged in with, 0: none
  orphan,  \* a Logout of the SDK is under way that nobody waits for
  acts

cache == <<im, epoch, force>>
tasks == <<depth, chain>>
vars  == <<token, coming, cache, tasks, actor, login, sdk, orphan, acts>>

Out == [user |-> 0, bound |-> 0, connected |-> FALSE, expired |-> TRUE]
NoLogin == [at |-> "none", epoch |-> 0, force |-> FALSE, user |-> 0]
Idle == [at |-> "idle", epoch |-> 0, chained |-> FALSE]

Init ==
  /\ token \in Accounts /\ coming = 0
  /\ im = Out /\ epoch = 0 /\ force = FALSE
  /\ depth = 0 /\ chain = <<>>
  /\ actor = [a \in Actors |-> Idle]
  /\ login = NoLogin
  /\ sdk \in {0, token}  \* a page that is loaded again finds the SDK logged in
  /\ orphan = FALSE
  /\ acts = 0

At(a, place) == actor' = [actor EXCEPT ![a].at = place]

\* Fault: the depth of what the call ran in is not counted down.
ReturnsDeep(a) ==
  /\ actor' = [actor EXCEPT ![a] = Idle]
  /\ depth' = depth

\* A call is over.
Returns(a) ==
  /\ actor' = [actor EXCEPT ![a] = Idle]
  /\ depth' = IF actor[a].chained THEN depth - 1 ELSE depth

Act == acts < MaxActs /\ acts' = acts + 1

-----------------------------------------------------------------------------
(* reuseLiveSession: a look at the cache, then one at the SDK              *)

Reusable == /\ ~force
            /\ im.user # 0 /\ token # 0 /\ token = im.bound /\ ~im.expired

\* What it answers once the SDK has: the user of the cache, or 0.
Reused == IF sdk \notin {0, im.user} THEN 0
          ELSE IF im.connected \/ sdk # 0 THEN im.user ELSE 0

-----------------------------------------------------------------------------
(* reloginSession                                                          *)

\* Join the login under way or begin one.
Join(a, chained, forced) ==
  /\ actor' = [actor EXCEPT ![a].at = "waiting", ![a].epoch = epoch,
                            ![a].chained = chained]
  /\ login' = IF login.at = "none"
              THEN [at |-> "fetch", epoch |-> epoch, force |-> forced,
                    user |-> token]
              ELSE login
  /\ force' = (forced /\ login.at # "none")
  /\ UNCHANGED <<im, epoch>>

\* Another account is in the cache than the token is of: the epoch moves on.
Switching == token = 0 \/ (im.bound # 0 /\ token # im.bound)

Clear(a, chained, forced) ==
  IF im.user # 0 \/ im.connected \/ im.bound # 0
  THEN /\ epoch' = IF Switching THEN epoch + 1 ELSE epoch
       /\ im' = Out
       /\ actor' = [actor EXCEPT ![a].at = "closing", ![a].chained = chained]
       /\ force' = forced
       /\ UNCHANGED login
  ELSE Join(a, chained, forced)

Relogin(a, chained) ==
  IF Reusable
  THEN /\ actor' = [actor EXCEPT ![a].at = "checking", ![a].chained = chained]
       /\ UNCHANGED <<cache, login>>
  ELSE Clear(a, chained, force)

-----------------------------------------------------------------------------
(* enqueueSession                                                          *)

\* invalidatePendingLogin and the logout of the SDK.
LogoutBegins(a, chained) ==
  /\ epoch' = epoch + 1
  /\ im' = Out
  /\ actor' = [actor EXCEPT ![a].at = "leaving", ![a].chained = chained]
  /\ UNCHANGED <<force, login>>

\* It waits for the login under way, if there is one.
ReopenBegins(a, chained) ==
  /\ actor' = [actor EXCEPT ![a].at = "pausing", ![a].chained = chained]
  /\ UNCHANGED <<cache, login>>

TaskBegins(a, chained) ==
  CASE a \in Ensurers      -> Relogin(a, chained)
    [] a \in {"out", "in"} -> LogoutBegins(a, chained)
    [] a = "fix"           -> ReopenBegins(a, chained)

\* Fault: a task that a task calls waits for its turn.
EnqueueAlways(a) ==
  /\ At(a, "queued")
  /\ chain' = Append(chain, a)
  /\ UNCHANGED <<depth, cache, login>>

\* Inline while any task runs, whoever runs it.
Enqueue(a) ==
  IF depth > 0
  THEN TaskBegins(a, actor[a].chained) /\ UNCHANGED tasks
  ELSE /\ At(a, "queued")
       /\ chain' = Append(chain, a)
       /\ UNCHANGED <<depth, cache, login>>

NextTask ==
  /\ depth = 0 /\ chain # <<>>
  /\ depth' = 1 /\ chain' = Tail(chain)
  /\ TaskBegins(Head(chain), TRUE)
  /\ UNCHANGED <<token, coming, sdk, orphan, acts>>

-----------------------------------------------------------------------------
(* The calls, from one await to the next                                   *)

Still == UNCHANGED <<token, coming, sdk, orphan>>

\* ensureIMLogin, called anew or by itself.
Ensures(a) ==
  IF Reusable THEN At(a, "asking") /\ UNCHANGED <<cache, tasks, login>>
              ELSE Enqueue(a)

EnsureIMLogin(a) ==
  /\ a \in Ensurers /\ actor[a].at = "idle" /\ Act
  /\ Ensures(a)
  /\ Still

Asked(a) ==
  /\ actor[a].at = "asking"
  /\ IF Reused # 0
     THEN Returns(a) /\ UNCHANGED <<cache, chain, login>>
     ELSE Enqueue(a)
  /\ Still /\ UNCHANGED acts

Checked(a) ==
  /\ actor[a].at = "checking"
  /\ IF Reused # 0
     THEN Returns(a) /\ UNCHANGED <<cache, chain, login>>
     ELSE Clear(a, actor[a].chained, force) /\ UNCHANGED tasks
  /\ Still /\ UNCHANGED acts

\* forceSdkLogout: no Logout if the SDK says it is logged out.
Closes(a) ==
  /\ actor[a].at = "closing"
  /\ IF sdk = 0 THEN Join(a, actor[a].chained, force)
     ELSE At(a, "closing sdk") /\ UNCHANGED <<cache, login>>
  /\ Still /\ UNCHANGED <<tasks, acts>>

Closed(a) ==
  /\ actor[a].at = "closing sdk"
  /\ sdk' \in {0, sdk}
  /\ Join(a, actor[a].chained, force)
  /\ UNCHANGED <<token, coming, orphan, tasks, acts>>

\* The login under way has ended: with this epoch, or with another one.
Resumes(a) ==
  /\ actor[a].at = "answered"
  /\ IF actor[a].epoch = epoch
     THEN Returns(a) /\ UNCHANGED <<cache, chain, login>>
     ELSE Ensures(a)
  /\ Still /\ UNCHANGED acts

\* closedDbRecovery
Reopen ==
  /\ actor["fix"].at = "idle" /\ im.user # 0 /\ Act
  /\ IF depth > 0
     THEN /\ actor' = [actor EXCEPT !["fix"].at = "pausing",
                                   !["fix"].epoch = epoch]
          /\ UNCHANGED chain
     ELSE /\ actor' = [actor EXCEPT !["fix"].at = "queued",
                                   !["fix"].epoch = epoch]
          /\ chain' = Append(chain, "fix")
  /\ UNCHANGED <<cache, depth, login>>
  /\ Still

Reopens(a) ==
  /\ actor[a].at = "pausing"
  /\ IF actor[a].epoch # epoch
     THEN Returns(a) /\ UNCHANGED <<cache, chain, login>>
     ELSE /\ login.at = "none"
          /\ Clear(a, actor[a].chained, TRUE)
          /\ UNCHANGED tasks
  /\ Still /\ UNCHANGED acts

\* logout, invalidateSession: the token is gone before the SDK is asked.
LogOut ==
  /\ token # 0 /\ actor["out"].at = "idle" /\ Act
  /\ token' = 0
  /\ Enqueue("out")
  /\ UNCHANGED <<coming, sdk, orphan>>

\* afterLogin: the token is stored after logoutOpenIM.
LogIn(b) ==
  /\ token = 0 /\ coming = 0 /\ Act
  /\ coming' = b
  /\ Enqueue("in")
  /\ UNCHANGED <<token, sdk, orphan>>

LogoutEnds(a) ==
  /\ im' = Out
  /\ Returns(a)
  /\ IF a = "in" THEN token' = coming /\ coming' = 0
                 ELSE UNCHANGED <<token, coming>>
  /\ UNCHANGED <<epoch, force, chain, login, acts>>

Leaves(a) ==
  /\ actor[a].at = "leaving"
  /\ IF sdk = 0 THEN LogoutEnds(a)
     ELSE /\ At(a, "leaving sdk")
          /\ UNCHANGED <<token, coming, cache, tasks, login, acts>>
  /\ UNCHANGED <<sdk, orphan>>

Left(a) ==
  /\ actor[a].at = "leaving sdk"
  /\ sdk' \in {0, sdk}
  /\ LogoutEnds(a)
  /\ UNCHANGED orphan

\* After three seconds logoutOpenIM goes on; the Logout does, too.
LogoutTimesOut(a) ==
  /\ actor[a].at = "leaving sdk" /\ ~orphan
  /\ orphan' = TRUE
  /\ LogoutEnds(a)
  /\ UNCHANGED sdk

OrphanEnds ==
  /\ orphan /\ orphan' = FALSE
  /\ sdk' \in {0, sdk}
  /\ UNCHANGED <<token, coming, cache, tasks, actor, login, acts>>

-----------------------------------------------------------------------------
(* doLogin                                                                 *)

DoLogin == UNCHANGED <<token, coming, epoch, force, tasks, orphan, acts>>

LoginAt(place) == login' = [login EXCEPT !.at = place] /\ UNCHANGED <<actor, im>>

LoginEnds ==
  /\ login' = NoLogin
  /\ actor' = [a \in Actors |-> IF actor[a].at = "waiting"
                                THEN [actor[a] EXCEPT !.at = "answered"]
                                ELSE actor[a]]

Fails == LoginEnds /\ UNCHANGED im

\* rememberLogin binds the session to the business token of this moment.
RememberLogin ==
  /\ im' = [user |-> login.user, bound |-> token, connected |-> TRUE,
            expired |-> FALSE]
  /\ LoginEnds

Current == epoch = login.epoch

Fetched ==
  /\ login.at = "fetch"
  /\ \/ Fails
     \/ login.user # 0 /\ Current /\ LoginAt("status")
  /\ DoLogin /\ UNCHANGED sdk

GetsStatus ==
  /\ login.at = "status"
  /\ IF sdk = 0 THEN LoginAt("login")
     ELSE IF ~login.force /\ sdk = login.user
     THEN IF Current THEN RememberLogin ELSE Fails
     ELSE LoginAt("logout")
  /\ DoLogin /\ UNCHANGED sdk

LoggedOut ==
  /\ login.at \in {"logout", "swap"}
  /\ sdk' \in {0, sdk}
  /\ LoginAt(IF login.at = "swap" THEN "login again" ELSE "login")
  /\ DoLogin

\* Fault: the epoch is not looked at again after the Login of the SDK.
AfterLoginBlind == RememberLogin

\* The epoch is looked at again after the Login of the SDK.
AfterLogin == IF Current THEN RememberLogin ELSE LoginAt("undo")

\* loginSdk: when another user is logged in, a Logout and one more Login, whose
\* answer "repeated" is taken for a success whoever is logged in.
LoginAnswers ==
  /\ login.at \in {"login", "login again"}
  /\ \/ Fails /\ UNCHANGED sdk
     \/ /\ sdk \in {0, login.user}
        /\ sdk' = login.user
        /\ AfterLogin
     \/ /\ sdk \notin {0, login.user} /\ UNCHANGED sdk
        /\ IF login.at = "login" THEN LoginAt("swap") ELSE AfterLogin
  /\ DoLogin

Undone ==
  /\ login.at = "undo"
  /\ sdk' \in {0, sdk}
  /\ Fails
  /\ DoLogin

-----------------------------------------------------------------------------
(* What the SDK tells                                                      *)

\* OnKickedOffline, OnUserTokenExpired
Kicked ==
  /\ sdk # 0 /\ Act
  /\ sdk' = 0 /\ im' = Out /\ epoch' = epoch + 1
  /\ UNCHANGED <<token, coming, force, tasks, actor, login, orphan>>

\* OnConnectFailed and OnConnectSuccess; a token of OpenIM runs out.
Changes ==
  /\ sdk # 0 /\ Act
  /\ \E c \in BOOLEAN, e \in {TRUE, im.expired} :
       im' = [im EXCEPT !.connected = c, !.expired = e]
  /\ im' # im
  /\ UNCHANGED <<token, coming, epoch, force, tasks, actor, login, sdk, orphan>>

Call(a) == \/ Asked(a) \/ Checked(a) \/ Closes(a) \/ Closed(a) \/ Resumes(a)
           \/ Reopens(a) \/ Leaves(a) \/ Left(a) \/ LogoutTimesOut(a)

LoginStep == Fetched \/ GetsStatus \/ LoggedOut \/ LoginAnswers \/ Undone

Next ==
  \/ \E a \in Actors : EnsureIMLogin(a) \/ Call(a)
  \/ LogOut \/ Reopen \/ NextTask \/ LoginStep \/ OrphanEnds
  \/ Kicked \/ Changes
  \/ \E b \in Accounts : LogIn(b)

Spec == Init /\ [][Next]_vars

\* The SDK answers every call, and the event loop serves every continuation.
FairSpec == /\ Spec
            /\ WF_vars(NextTask) /\ WF_vars(LoginStep)
            /\ \A a \in Actors : WF_vars(Call(a))

-----------------------------------------------------------------------------
Places == {"idle", "asking", "queued", "checking", "closing", "closing sdk",
           "waiting", "answered", "pausing", "leaving", "leaving sdk"}

\* The state has its shape: a task runs alone at the head of the chain, what
\* waits in the chain is queued, and who waits for a login has one to wait for.
TypeOK ==
  /\ {token, coming, sdk, im.user, im.bound, login.user} \subseteq Accounts \cup {0}
  /\ {epoch, login.epoch} \cup {actor[a].epoch : a \in Actors} \subseteq Nat
  /\ {force, orphan, im.connected, im.expired, login.force} \subseteq BOOLEAN
  /\ depth \in 0..1
  /\ \A a \in Actors : actor[a].at \in Places
  /\ {chain[i] : i \in DOMAIN chain} = {a \in Actors : actor[a].at = "queued"}
  /\ depth = Cardinality({a \in Actors : actor[a].chained})
  /\ (\E a \in Actors : actor[a].at = "waiting") => login.at # "none"
  /\ acts \in 0..MaxActs

\* The user of a session that is reused is the account whose token is stored:
\* a login that began for another account never writes its user back.
SessionIsOfToken ==
  im.user # 0 /\ im.bound # 0 /\ im.bound = token => im.user = token

\* Every call of ensureIMLogin returns or throws.
EnsureSettles == \A a \in Ensurers : actor[a].at # "idle" ~> actor[a].at = "idle"

\* "Logout and Login run one after the other": the SDK is in at most one.
InSdk == {a \in Actors : actor[a].at \in {"closing sdk", "leaving sdk"}}

SessionsSerial ==
  Cardinality(InSdk) + (IF login.at \in {"logout", "swap", "login", "login again", "undo"}
                        THEN 1 ELSE 0) <= 1

=============================================================================
