------------------------ MODULE ClientSessionProofs ------------------------
(***************************************************************************)
(* Proofs about ClientSession for every set of accounts, of callers and    *)
(* for runs of every length: a session that is reused is the session of    *)
(* the account whose business token is stored.                             *)
(*                                                                         *)
(* The argument follows the epoch.  A login writes its user back only if   *)
(* the epoch is still its own, and the token cannot have changed owner     *)
(* within an epoch: afterLogin stores a token only after its own logout    *)
(* has moved the epoch on, and a login that begins between the two has no  *)
(* token to begin with.                                                    *)
(***************************************************************************)
EXTENDS ClientSession, FiniteSetTheorems, TLAPS

-----------------------------------------------------------------------------
(* The invariant                                                           *)

Users  == Accounts \cup {0}
Entry  == [at : Places, epoch : Nat, chained : BOOLEAN]
Cached == [user : Users, bound : Users, connected : BOOLEAN, expired : BOOLEAN]

LoginPlaces ==
  {"none", "fetch", "status", "logout", "swap", "login", "login again", "undo"}

LoginEntry == [at : LoginPlaces, epoch : Nat, force : BOOLEAN, user : Users]

Shape ==
  /\ token \in Users /\ coming \in Users
  /\ im \in Cached
  /\ epoch \in Nat
  /\ force \in BOOLEAN
  /\ actor \in [Actors -> Entry]
  /\ login \in LoginEntry

\* What waits in the chain is queued, and waits once.
Queue ==
  /\ chain \in Seq(Actors)
  /\ \A i \in 1..Len(chain) : actor[chain[i]].at = "queued"
  /\ \A i, j \in 1..Len(chain) : i # j => chain[i] # chain[j]

Leaving(a) == actor[a].at \in {"leaving", "leaving sdk"}

\* The login under way belongs to the present epoch.
CurrentLogin == login.at # "none" /\ login.epoch = epoch

\* What ties the login under way to the token.
LoginIsOfToken ==
  /\ login.at # "none" => login.epoch <= epoch
  /\ login.at \notin {"none", "fetch"} => login.user # 0
  /\ CurrentLogin => login.user = 0 \/ token = 0 \/ login.user = token

\* While an account is to come there is no token, and once its logout has
\* begun nobody is logged in for another one.
ComingIsAlone ==
  /\ coming # 0 => token = 0
  /\ actor["in"].at # "idle" => coming # 0
  /\ Leaving("in") /\ CurrentLogin => login.user = 0

IInv == Shape /\ Queue /\ LoginIsOfToken /\ ComingIsAlone /\ SessionIsOfToken

LEMMA ActorNames ==
  /\ "out" \in Actors /\ "in" \in Actors /\ "fix" \in Actors
  /\ Ensurers \subseteq Actors
  /\ "out" \notin Ensurers /\ "in" \notin Ensurers /\ "fix" \notin Ensurers
  /\ \A a \in Actors : a \in Ensurers \/ a \in {"out", "in", "fix"}
BY SessionAssumption DEF Actors

LEMMA Entries ==
  /\ Idle \in Entry /\ Idle.at = "idle" /\ Idle.chained = FALSE
  /\ Out \in Cached /\ Out.user = 0 /\ Out.bound = 0
  /\ NoLogin \in LoginEntry /\ NoLogin.at = "none"
BY DEF Idle, Out, NoLogin, Entry, Cached, LoginEntry, Places, LoginPlaces, Users

LEMMA SessionInit == Init => IInv
<1> SUFFICES ASSUME Init PROVE IInv
  OBVIOUS
<1>1. Shape
  BY Entries, SessionAssumption DEF Init, Shape, Users
<1>2. Queue
  BY DEF Init, Queue
<1>3. LoginIsOfToken /\ SessionIsOfToken
  BY Entries DEF Init, LoginIsOfToken, SessionIsOfToken, CurrentLogin
<1>4. ComingIsAlone
  BY Entries, ActorNames DEF Init, ComingIsAlone, CurrentLogin, Leaving
<1> QED
  BY <1>1, <1>2, <1>3, <1>4 DEF IInv

-----------------------------------------------------------------------------
(* The chain                                                               *)

\* A step of a call that does not wait leaves the queue alone ...
LEMMA QueueSame ==
  ASSUME Shape, Queue, NEW a \in Actors, actor[a].at # "queued", NEW e \in Entry,
         actor' = [actor EXCEPT ![a] = e], chain' = chain
  PROVE  Queue'
<1>1. \A i \in 1..Len(chain) : chain[i] \in Actors /\ chain[i] # a
  BY DEF Queue
<1> QED
  BY <1>1 DEF Shape, Queue

\* ... or puts the call at its end.
LEMMA QueueAppend ==
  ASSUME Shape, Queue, NEW a \in Actors, actor[a].at # "queued", NEW e \in Entry,
         actor' = [actor EXCEPT ![a] = e], e.at = "queued", chain' = Append(chain, a)
  PROVE  Queue'
<1>1. \A i \in 1..Len(chain) : chain[i] \in Actors /\ chain[i] # a
  BY DEF Queue
<1>2. /\ chain' \in Seq(Actors) /\ Len(chain') = Len(chain) + 1 /\ Len(chain) \in Nat
      /\ \A i \in 1..Len(chain) : chain'[i] = chain[i]
      /\ chain'[Len(chain) + 1] = a
  BY DEF Queue
<1>3. \A i \in 1..Len(chain') : i \in 1..Len(chain) \/ i = Len(chain) + 1
  BY <1>2
<1>4. \A i \in 1..Len(chain') : actor'[chain'[i]].at = "queued"
  BY <1>1, <1>2, <1>3 DEF Shape, Queue
<1>5. \A i, j \in 1..Len(chain') : i # j => chain'[i] # chain'[j]
  BY <1>1, <1>2, <1>3 DEF Queue
<1> QED
  BY <1>2, <1>4, <1>5 DEF Queue

\* The head of the chain is taken out and waits no more.
LEMMA QueueTail ==
  ASSUME Shape, Queue, chain # <<>>, NEW e \in Entry,
         actor' = [actor EXCEPT ![Head(chain)] = e], chain' = Tail(chain)
  PROVE  /\ Head(chain) \in Actors /\ actor[Head(chain)].at = "queued"
         /\ Queue'
<1>1. /\ Len(chain) \in Nat /\ Len(chain) > 0
      /\ chain[1] = Head(chain) /\ Head(chain) \in Actors
      /\ chain' \in Seq(Actors) /\ Len(chain') = Len(chain) - 1
      /\ \A i \in 1..Len(chain') : chain'[i] = chain[i + 1]
  BY DEF Queue
<1>2. actor[Head(chain)].at = "queued"
  BY <1>1 DEF Queue
<1>3. \A i \in 1..Len(chain') : i + 1 \in 1..Len(chain) /\ i + 1 # 1
  BY <1>1
<1>4. \A i \in 1..Len(chain') : /\ chain'[i] \in Actors /\ chain'[i] # Head(chain)
                                /\ actor[chain'[i]].at = "queued"
  BY <1>1, <1>3 DEF Queue
<1>5. \A i \in 1..Len(chain') : actor'[chain'[i]].at = "queued"
  BY <1>1, <1>4 DEF Shape
<1>6. \A i, j \in 1..Len(chain') : i # j => chain'[i] # chain'[j]
  <2> SUFFICES ASSUME NEW i \in 1..Len(chain'), NEW j \in 1..Len(chain'), i # j
               PROVE  chain'[i] # chain'[j]
    OBVIOUS
  <2>1. i + 1 \in 1..Len(chain) /\ j + 1 \in 1..Len(chain) /\ i + 1 # j + 1
    BY <1>1
  <2> QED
    BY <1>1, <2>1 DEF Queue
<1> QED
  BY <1>1, <1>2, <1>5, <1>6 DEF Queue

-----------------------------------------------------------------------------
(* What a step of a call does to the session                               *)

\* It forgets the cache or keeps it, moves the epoch on or not, leaves the
\* login under way alone or begins one for the token of this moment, and
\* starts to leave only when it moves the epoch on.
CallEffect(a, e) ==
  /\ actor' = [actor EXCEPT ![a] = e]
  /\ im' \in {im, Out}
  /\ force' \in BOOLEAN
  /\ epoch' \in {epoch, epoch + 1}
  /\ \/ login' = login
     \/ /\ epoch' = epoch /\ login' \in LoginEntry
        /\ login'.at = "fetch" /\ login'.epoch = epoch /\ login'.user = token
  /\ e.at \in {"leaving", "leaving sdk"} => Leaving(a) \/ epoch' = epoch + 1

\* A call moves to another place and keeps the rest of its entry.
LEMMA AtEffect ==
  ASSUME Shape, NEW a \in Actors, NEW place \in Places
  PROVE  /\ [actor[a] EXCEPT !.at = place] \in Entry
         /\ [actor[a] EXCEPT !.at = place].at = place
         /\ At(a, place) <=> actor' = [actor EXCEPT ![a] = [actor[a] EXCEPT !.at = place]]
BY DEF Shape, Entry, At

LEMMA JoinEffect ==
  ASSUME Shape, NEW a \in Actors, NEW chained \in BOOLEAN, NEW forced \in BOOLEAN,
         Join(a, chained, forced)
  PROVE  \E e \in Entry : CallEffect(a, e)
<1> DEFINE e == [actor[a] EXCEPT !.at = "waiting", !.epoch = epoch, !.chained = chained]
           l == [at |-> "fetch", epoch |-> epoch, force |-> forced, user |-> token]
<1>1. e \in Entry /\ e.at = "waiting"
  BY DEF Shape, Entry, Places
<1>2. l \in LoginEntry /\ l.at = "fetch" /\ l.epoch = epoch /\ l.user = token
  BY DEF Shape, LoginEntry, LoginPlaces
<1>3. actor' = [actor EXCEPT ![a] = e]
  BY DEF Join
<1>4. login' \in {login, l} /\ force' \in BOOLEAN /\ im' = im /\ epoch' = epoch
  BY DEF Join
<1> QED
  BY <1>1, <1>2, <1>3, <1>4 DEF CallEffect

LEMMA ClearEffect ==
  ASSUME Shape, NEW a \in Actors, NEW chained \in BOOLEAN, NEW forced \in BOOLEAN,
         Clear(a, chained, forced)
  PROVE  \E e \in Entry : CallEffect(a, e)
<1> DEFINE used == im.user # 0 \/ im.connected \/ im.bound # 0
           e == [actor[a] EXCEPT !.at = "closing", !.chained = chained]
<1>1. CASE used
  <2>1. e \in Entry /\ e.at = "closing"
    BY DEF Shape, Entry, Places
  <2>2. /\ actor' = [actor EXCEPT ![a] = e] /\ im' = Out /\ force' = forced
        /\ login' = login /\ epoch' \in {epoch, epoch + 1}
    BY <1>1 DEF Clear
  <2> QED
    BY <2>1, <2>2 DEF CallEffect
<1>2. CASE ~used
  BY <1>2, JoinEffect DEF Clear
<1> QED
  BY <1>1, <1>2

\* A task that begins, in the chain or inline.
LEMMA TaskEffect ==
  ASSUME Shape, NEW a \in Actors, NEW chained \in BOOLEAN, TaskBegins(a, chained)
  PROVE  \E e \in Entry : CallEffect(a, e)
<1> DEFINE entry(place) == [actor[a] EXCEPT !.at = place, !.chained = chained]
<1>0. \A place \in Places : entry(place) \in Entry /\ entry(place).at = place
  BY DEF Shape, Entry
<1>1. {"checking", "leaving", "pausing"} \subseteq Places /\ force \in BOOLEAN
  BY DEF Places, Shape
<1>2. CASE a \in Ensurers
  <2>1. Relogin(a, chained)
    BY <1>2, ActorNames DEF TaskBegins
  <2>2. CASE Reusable
    <3>1. actor' = [actor EXCEPT ![a] = entry("checking")] /\ UNCHANGED <<cache, login>>
      BY <2>1, <2>2 DEF Relogin
    <3> QED
      BY <1>0, <1>1, <3>1 DEF CallEffect, cache
  <2>3. CASE ~Reusable
    BY <1>1, <2>1, <2>3, ClearEffect DEF Relogin
  <2> QED
    BY <2>2, <2>3
<1>3. CASE a \in {"out", "in"}
  <2>1. LogoutBegins(a, chained)
    BY <1>3, ActorNames DEF TaskBegins
  <2>2. actor' = [actor EXCEPT ![a] = entry("leaving")]
    BY <2>1 DEF LogoutBegins
  <2> QED
    BY <1>0, <1>1, <2>1, <2>2 DEF CallEffect, LogoutBegins
<1>4. CASE a = "fix"
  <2>1. ReopenBegins(a, chained)
    BY <1>4, ActorNames DEF TaskBegins
  <2>2. actor' = [actor EXCEPT ![a] = entry("pausing")]
    BY <2>1 DEF ReopenBegins
  <2> QED
    BY <1>0, <1>1, <2>1, <2>2 DEF CallEffect, ReopenBegins, cache
<1> QED
  BY <1>2, <1>3, <1>4, ActorNames

LEMMA EnqueueEffect ==
  ASSUME Shape, Queue, NEW a \in Actors, actor[a].at # "queued", Enqueue(a)
  PROVE  (\E e \in Entry : CallEffect(a, e)) /\ Queue'
<1>0. actor[a].chained \in BOOLEAN /\ force \in BOOLEAN
  BY DEF Shape, Entry
<1>1. CASE depth > 0
  <2>1. PICK e \in Entry : CallEffect(a, e)
    BY <1>0, <1>1, TaskEffect DEF Enqueue
  <2>2. chain' = chain /\ actor' = [actor EXCEPT ![a] = e]
    BY <1>1, <2>1 DEF Enqueue, tasks, CallEffect
  <2> QED
    BY <2>1, <2>2, QueueSame
<1>2. CASE ~(depth > 0)
  <2> DEFINE e == [actor[a] EXCEPT !.at = "queued"]
  <2>1. /\ At(a, "queued") /\ chain' = Append(chain, a) /\ UNCHANGED <<depth, cache, login>>
    BY <1>2 DEF Enqueue
  <2>2. e \in Entry /\ e.at = "queued" /\ actor' = [actor EXCEPT ![a] = e]
    BY <2>1, AtEffect DEF Places
  <2>3. CallEffect(a, e)
    BY <1>0, <2>1, <2>2 DEF CallEffect, cache
  <2> HIDE DEF e
  <2>4. Queue'
    BY <2>1, <2>2, QueueAppend
  <2> QED
    BY <2>2, <2>3, <2>4
<1> QED
  BY <1>1, <1>2

LEMMA EnsuresEffect ==
  ASSUME Shape, Queue, NEW a \in Actors, actor[a].at # "queued", Ensures(a)
  PROVE  (\E e \in Entry : CallEffect(a, e)) /\ Queue'
<1>1. CASE Reusable
  <2> DEFINE e == [actor[a] EXCEPT !.at = "asking"]
  <2>1. At(a, "asking") /\ UNCHANGED <<cache, tasks, login>>
    BY <1>1 DEF Ensures
  <2>2. e \in Entry /\ e.at = "asking" /\ actor' = [actor EXCEPT ![a] = e]
    BY <2>1, AtEffect DEF Places
  <2>3. CallEffect(a, e)
    BY <2>1, <2>2 DEF CallEffect, cache, Shape
  <2> HIDE DEF e
  <2>4. Queue'
    BY <2>1, <2>2, QueueSame DEF tasks
  <2> QED
    BY <2>2, <2>3, <2>4
<1>2. CASE ~Reusable
  BY <1>2, EnqueueEffect DEF Ensures
<1> QED
  BY <1>1, <1>2

\* A call that returns leaves the session alone.
LEMMA ReturnsEffect ==
  ASSUME Shape, Queue, NEW a \in Actors, actor[a].at # "queued",
         Returns(a), UNCHANGED <<cache, chain, login>>
  PROVE  (\E e \in Entry : CallEffect(a, e)) /\ Queue'
<1>1. actor' = [actor EXCEPT ![a] = Idle]
  BY DEF Returns
<1>2. CallEffect(a, Idle)
  BY <1>1, Entries DEF CallEffect, cache, Shape
<1>3. Queue'
  BY <1>1, Entries, QueueSame
<1> QED
  BY <1>2, <1>3, Entries

-----------------------------------------------------------------------------
(* Every step keeps the invariant                                          *)

\* A step of a call keeps the invariant, even if it takes the token away.
LEMMA EffectKeeps ==
  ASSUME IInv, NEW a \in Actors, NEW e \in Entry, CallEffect(a, e), Queue',
         token' \in {token, 0}, coming' \in Users, coming' # 0 => token = 0,
         actor'["in"].at # "idle" => coming' # 0
  PROVE  IInv'
<1> USE ActorNames
<1>1. /\ token \in Users /\ im \in Cached /\ epoch \in Nat /\ login \in LoginEntry
      /\ actor \in [Actors -> Entry] /\ login.epoch \in Nat
  BY DEF IInv, Shape, LoginEntry
<1>2. /\ actor' = [actor EXCEPT ![a] = e] /\ im' \in {im, Out} /\ force' \in BOOLEAN
      /\ epoch' \in {epoch, epoch + 1}
  BY DEF CallEffect
<1>3. \/ login' = login
      \/ /\ epoch' = epoch /\ login' \in LoginEntry
         /\ login'.at = "fetch" /\ login'.epoch = epoch /\ login'.user = token
  BY DEF CallEffect
<1>4. Shape'
  BY <1>1, <1>2, <1>3, Entries DEF Shape, Users
<1>5. LoginIsOfToken'
  <2>1. CASE login' = login
    BY <1>1, <1>2, <2>1 DEF IInv, LoginIsOfToken, CurrentLogin
  <2>2. CASE login' # login
    BY <1>1, <1>2, <1>3, <2>2 DEF LoginIsOfToken, CurrentLogin
  <2> QED
    BY <2>1, <2>2
<1>6. Leaving("in")' /\ CurrentLogin' => login'.user = 0
  <2> SUFFICES ASSUME Leaving("in")', CurrentLogin' PROVE login'.user = 0
    OBVIOUS
  <2>1. token = 0
    BY <1>1 DEF Leaving
  <2>2. CASE login' = login
    <3>1. epoch' = epoch
      BY <1>1, <1>2, <2>2 DEF IInv, LoginIsOfToken, CurrentLogin
    <3>2. epoch' # epoch + 1
      BY <1>1, <3>1
    <3>3. e.at \in {"leaving", "leaving sdk"} => Leaving(a)
      BY <3>2 DEF CallEffect
    <3>4. Leaving("in")
      BY <1>1, <1>2, <3>3 DEF Leaving
    <3> QED
      BY <2>2, <3>1, <3>4 DEF IInv, ComingIsAlone, CurrentLogin
  <2>3. CASE login' # login
    BY <1>3, <2>1, <2>3
  <2> QED
    BY <2>2, <2>3
<1>7. ComingIsAlone'
  BY <1>6 DEF ComingIsAlone
<1>8. SessionIsOfToken'
  BY <1>2, Entries DEF IInv, SessionIsOfToken
<1> QED
  BY <1>4, <1>5, <1>7, <1>8 DEF IInv

\* A call that goes on, with the token as it is.
LEMMA StillKeeps ==
  ASSUME IInv, NEW a \in Actors, \E e \in Entry : CallEffect(a, e), Queue',
         actor[a].at # "idle" \/ a # "in", token' = token, coming' = coming
  PROVE  IInv'
<1>1. PICK e \in Entry : CallEffect(a, e)
  OBVIOUS
<1>2. actor'["in"].at # "idle" => actor["in"].at # "idle"
  BY <1>1, ActorNames DEF CallEffect, IInv, Shape
<1> QED
  BY <1>1, <1>2, EffectKeeps DEF IInv, Shape, ComingIsAlone

\* The end of a logout: a token comes only with an account that was to come.
LEMMA LogoutKeeps ==
  ASSUME IInv, NEW a \in Actors, actor[a].at \in {"leaving", "leaving sdk"},
         LogoutEnds(a)
  PROVE  IInv'
<1> USE ActorNames
<1>1. actor' = [actor EXCEPT ![a] = Idle] /\ im' = Out /\ UNCHANGED <<epoch, force, chain, login>>
  BY DEF LogoutEnds, Returns
<1>2. Queue'
  BY <1>1, Entries, QueueSame DEF IInv
<1>3. CASE a = "in"
  <2>1. token' = coming /\ coming' = 0 /\ Leaving("in") /\ actor'["in"].at = "idle"
    BY <1>1, <1>3, Entries DEF LogoutEnds, Leaving, IInv, Shape
  <2>2. Shape'
    BY <1>1, <2>1, Entries DEF IInv, Shape, Users
  <2>3. LoginIsOfToken'
    BY <1>1, <2>1 DEF IInv, LoginIsOfToken, ComingIsAlone, CurrentLogin
  <2>4. ComingIsAlone' /\ SessionIsOfToken'
    BY <1>1, <2>1, Entries DEF ComingIsAlone, SessionIsOfToken, Leaving
  <2> QED
    BY <1>2, <2>2, <2>3, <2>4 DEF IInv
<1>4. CASE a # "in"
  <2>1. token' = token /\ coming' = coming
    BY <1>4 DEF LogoutEnds
  <2>2. CallEffect(a, Idle)
    BY <1>1, Entries DEF CallEffect, IInv, Shape
  <2> QED
    BY <1>2, <1>4, <2>1, <2>2, StillKeeps, Entries
<1> QED
  BY <1>3, <1>4

\* doLogin goes on to another call of the SDK, ...
LEMMA LoginGoesOn ==
  ASSUME IInv, DoLogin, NEW place \in LoginPlaces \ {"none"}, LoginAt(place),
         login.at # "none", login.user # 0
  PROVE  IInv'
<1>1. /\ login' = [login EXCEPT !.at = place] /\ actor' = actor /\ im' = im
      /\ token' = token /\ coming' = coming /\ epoch' = epoch /\ force' = force
      /\ chain' = chain
  BY DEF DoLogin, LoginAt, tasks
<1>2. /\ login' \in LoginEntry /\ login'.epoch = login.epoch /\ login'.user = login.user
  BY <1>1 DEF IInv, Shape, LoginEntry
<1>3. Shape' /\ Queue' /\ SessionIsOfToken'
  BY <1>1, <1>2 DEF IInv, Shape, Queue, SessionIsOfToken
<1>4. LoginIsOfToken' /\ ComingIsAlone'
  BY <1>1, <1>2 DEF IInv, LoginIsOfToken, ComingIsAlone, CurrentLogin, Leaving
<1> QED
  BY <1>3, <1>4 DEF IInv

\* ... or ends, and everybody who waited for it goes on.
LEMMA LoginOver ==
  ASSUME IInv, DoLogin, LoginEnds, im' \in Cached, SessionIsOfToken'
  PROVE  IInv'
<1>1. /\ login' = NoLogin /\ token' = token /\ coming' = coming /\ epoch' = epoch
      /\ force' = force /\ chain' = chain
      /\ actor' = [a \in Actors |-> IF actor[a].at = "waiting"
                                    THEN [actor[a] EXCEPT !.at = "answered"]
                                    ELSE actor[a]]
  BY DEF DoLogin, LoginEnds, tasks
<1>2. \A a \in Actors :
        /\ actor'[a] \in Entry
        /\ \/ actor'[a] = actor[a]
           \/ actor[a].at = "waiting" /\ actor'[a].at = "answered"
  <2> SUFFICES ASSUME NEW a \in Actors
               PROVE  /\ actor'[a] \in Entry
                      /\ \/ actor'[a] = actor[a]
                         \/ actor[a].at = "waiting" /\ actor'[a].at = "answered"
    OBVIOUS
  <2>1. [actor[a] EXCEPT !.at = "answered"] \in Entry
        /\ [actor[a] EXCEPT !.at = "answered"].at = "answered"
    BY DEF IInv, Shape, Entry, Places
  <2> QED
    BY <1>1, <2>1 DEF IInv, Shape
<1>3. Shape'
  <2>1. actor' \in [Actors -> Entry]
    BY <1>1, <1>2
  <2> QED
    BY <1>1, <2>1, Entries DEF IInv, Shape
<1>4. Queue'
  <2>1. \A i \in 1..Len(chain) : chain[i] \in Actors
    BY DEF IInv, Queue
  <2> QED
    BY <1>1, <1>2, <2>1 DEF IInv, Queue
<1>5. LoginIsOfToken'
  BY <1>1, Entries DEF LoginIsOfToken, CurrentLogin
<1>6. ComingIsAlone'
  BY <1>1, <1>2, Entries, ActorNames DEF IInv, ComingIsAlone, CurrentLogin
<1> QED
  BY <1>3, <1>4, <1>5, <1>6 DEF IInv

LEMMA FailsKeeps ==
  ASSUME IInv, DoLogin, Fails
  PROVE  IInv'
<1>1. im' = im /\ token' = token /\ LoginEnds
  BY DEF Fails, DoLogin
<1> QED
  BY <1>1, LoginOver DEF IInv, Shape, SessionIsOfToken

\* The user is written back in the epoch of the login: the token is still of
\* the account the login began for, or gone.
LEMMA RememberKeeps ==
  ASSUME IInv, DoLogin, RememberLogin, Current, login.at \notin {"none", "fetch"}
  PROVE  IInv'
<1>1. /\ im' = [user |-> login.user, bound |-> token, connected |-> TRUE, expired |-> FALSE]
      /\ token' = token /\ LoginEnds
  BY DEF RememberLogin, DoLogin
<1>2. im' \in Cached
  BY <1>1 DEF IInv, Shape, LoginEntry, Cached
<1>3. login.user # 0 /\ (login.user = 0 \/ token = 0 \/ login.user = token)
  BY DEF IInv, LoginIsOfToken, CurrentLogin, Current
<1>4. im'.user = login.user /\ im'.bound = token
  BY <1>1
<1>5. SessionIsOfToken'
  BY <1>1, <1>3, <1>4 DEF SessionIsOfToken
<1> QED
  BY <1>1, <1>2, <1>5, LoginOver

LEMMA LoginKeeps ==
  ASSUME IInv, LoginStep
  PROVE  IInv'
<1>0. login.at \notin {"none", "fetch"} => login.user # 0
  BY DEF IInv, LoginIsOfToken
<1>1. CASE Fetched
  BY <1>1, FailsKeeps, LoginGoesOn DEF Fetched, LoginPlaces
<1>2. CASE GetsStatus
  BY <1>0, <1>2, FailsKeeps, LoginGoesOn, RememberKeeps DEF GetsStatus, LoginPlaces
<1>3. CASE LoggedOut
  BY <1>0, <1>3, LoginGoesOn DEF LoggedOut, LoginPlaces
<1>4. CASE LoginAnswers
  <2>1. AfterLogin => IInv'
    BY <1>0, <1>4, LoginGoesOn, RememberKeeps DEF LoginAnswers, AfterLogin, LoginPlaces
  <2> QED
    BY <1>0, <1>4, <2>1, FailsKeeps, LoginGoesOn DEF LoginAnswers, LoginPlaces
<1>5. CASE Undone
  BY <1>5, FailsKeeps DEF Undone
<1> QED
  BY <1>1, <1>2, <1>3, <1>4, <1>5 DEF LoginStep

LEMMA CallKeeps ==
  ASSUME IInv, NEW a \in Actors, Call(a)
  PROVE  IInv'
<1>0. /\ Shape /\ Queue /\ actor[a] \in Entry /\ force \in BOOLEAN
      /\ actor[a].chained \in BOOLEAN
  BY DEF IInv, Shape, Entry
<1>1. CASE Asked(a) \/ Checked(a) \/ Resumes(a) \/ Reopens(a)
  <2>1. actor[a].at \notin {"queued", "idle"} /\ token' = token /\ coming' = coming
    BY <1>1 DEF Asked, Checked, Resumes, Reopens, Still
  <2>2. \/ Returns(a) /\ UNCHANGED <<cache, chain, login>>
        \/ Enqueue(a)
        \/ Ensures(a)
        \/ \E forced \in BOOLEAN : Clear(a, actor[a].chained, forced) /\ UNCHANGED tasks
    BY <1>0, <1>1 DEF Asked, Checked, Resumes, Reopens
  <2>3. CASE \E forced \in BOOLEAN : Clear(a, actor[a].chained, forced) /\ UNCHANGED tasks
    <3>1. PICK e \in Entry : CallEffect(a, e)
      BY <1>0, <2>3, ClearEffect
    <3>2. actor' = [actor EXCEPT ![a] = e] /\ chain' = chain
      BY <2>3, <3>1 DEF CallEffect, tasks
    <3>3. Queue'
      BY <1>0, <2>1, <3>2, QueueSame
    <3> QED
      BY <2>1, <3>1, <3>3, StillKeeps
  <2>4. ~(\E forced \in BOOLEAN : Clear(a, actor[a].chained, forced) /\ UNCHANGED tasks)
          => (\E e \in Entry : CallEffect(a, e)) /\ Queue'
    BY <1>0, <2>1, <2>2, ReturnsEffect, EnqueueEffect, EnsuresEffect
  <2> QED
    BY <2>1, <2>3, <2>4, StillKeeps
<1>2. CASE Closes(a) \/ Closed(a)
  <2>1. /\ actor[a].at \in {"closing", "closing sdk"} /\ token' = token /\ coming' = coming
        /\ chain' = chain
    BY <1>2 DEF Closes, Closed, Still, tasks
  <2>2. \/ Join(a, actor[a].chained, force)
        \/ At(a, "closing sdk") /\ UNCHANGED <<cache, login>>
    BY <1>2 DEF Closes, Closed
  <2>3. \E e \in Entry : CallEffect(a, e)
    <3>1. CASE Join(a, actor[a].chained, force)
      BY <1>0, <3>1, JoinEffect
    <3>2. CASE At(a, "closing sdk") /\ UNCHANGED <<cache, login>>
      <4> DEFINE e == [actor[a] EXCEPT !.at = "closing sdk"]
      <4>1. e \in Entry /\ e.at = "closing sdk" /\ actor' = [actor EXCEPT ![a] = e]
        BY <1>0, <3>2, AtEffect DEF Places
      <4> QED
        BY <1>0, <3>2, <4>1 DEF CallEffect, cache
    <3> QED
      BY <2>2, <3>1, <3>2
  <2>4. PICK e \in Entry : actor' = [actor EXCEPT ![a] = e]
    BY <2>3 DEF CallEffect
  <2>5. Queue'
    BY <1>0, <2>1, <2>4, QueueSame
  <2> QED
    BY <2>1, <2>3, <2>5, StillKeeps
<1>3. CASE Leaves(a) /\ sdk # 0
  <2> DEFINE e == [actor[a] EXCEPT !.at = "leaving sdk"]
  <2>1. /\ actor[a].at = "leaving" /\ At(a, "leaving sdk")
        /\ UNCHANGED <<token, coming, cache, tasks, login>>
    BY <1>3 DEF Leaves
  <2>2. e \in Entry /\ e.at = "leaving sdk" /\ actor' = [actor EXCEPT ![a] = e]
    BY <1>0, <2>1, AtEffect DEF Places
  <2>3. CallEffect(a, e)
    BY <1>0, <2>1, <2>2 DEF CallEffect, cache, Leaving
  <2> HIDE DEF e
  <2>4. Queue'
    BY <1>0, <2>1, <2>2, QueueSame DEF tasks
  <2> QED
    BY <2>1, <2>2, <2>3, <2>4, StillKeeps
<1>4. CASE (Leaves(a) /\ sdk = 0) \/ Left(a) \/ LogoutTimesOut(a)
  BY <1>4, LogoutKeeps DEF Leaves, Left, LogoutTimesOut
<1> QED
  BY <1>1, <1>2, <1>3, <1>4 DEF Call

\* The steps that begin a call, or a task of the chain.
LEMMA BeginKeeps ==
  ASSUME IInv,
         \/ \E a \in Actors : EnsureIMLogin(a)
         \/ NextTask \/ LogOut \/ Reopen
         \/ \E b \in Accounts : LogIn(b)
  PROVE  IInv'
<1>0. Shape /\ Queue /\ 0 \in Users /\ Accounts \subseteq Users /\ 0 \notin Accounts
  BY SessionAssumption DEF IInv, Users
<1>1. ASSUME NEW a \in Actors, EnsureIMLogin(a)
      PROVE  IInv'
  <2>1. /\ a # "in" /\ actor[a].at = "idle" /\ Ensures(a)
        /\ token' = token /\ coming' = coming
    BY <1>1, ActorNames DEF EnsureIMLogin, Still
  <2> QED
    BY <1>0, <2>1, EnsuresEffect, StillKeeps
<1>2. CASE NextTask
  <2> DEFINE a == Head(chain)
  <2>1. chain # <<>> /\ chain' = Tail(chain) /\ token' = token /\ coming' = coming
        /\ TaskBegins(a, TRUE)
    BY <1>2 DEF NextTask
  <2>2. a \in Actors /\ actor[a].at = "queued"
    <3>1. Len(chain) \in Nat /\ Len(chain) > 0 /\ chain[1] = a
      BY <1>0, <2>1 DEF Queue
    <3> QED
      BY <1>0, <3>1 DEF Queue
  <2>3. PICK e \in Entry : CallEffect(a, e)
    BY <1>0, <2>1, <2>2, TaskEffect
  <2>4. Queue'
    BY <1>0, <2>1, <2>3, QueueTail DEF CallEffect
  <2> HIDE DEF a
  <2> QED
    BY <2>1, <2>2, <2>3, <2>4, StillKeeps
<1>3. CASE LogOut
  <2>1. /\ token # 0 /\ actor["out"].at = "idle" /\ token' = 0 /\ coming' = coming
        /\ Enqueue("out")
    BY <1>3 DEF LogOut
  <2>2. Queue' /\ \E e \in Entry : CallEffect("out", e)
    BY <1>0, <2>1, ActorNames, EnqueueEffect
  <2>3. PICK e \in Entry : CallEffect("out", e)
    BY <2>2
  <2>4. actor'["in"] = actor["in"] /\ (coming # 0 => token = 0)
        /\ (actor["in"].at # "idle" => coming # 0)
    BY <2>3, ActorNames DEF CallEffect, IInv, Shape, ComingIsAlone
  <2> QED
    BY <1>0, <2>1, <2>2, <2>3, <2>4, ActorNames, EffectKeeps DEF Shape
<1>4. ASSUME NEW b \in Accounts, LogIn(b)
      PROVE  IInv'
  <2>1. token = 0 /\ coming = 0 /\ token' = token /\ coming' = b /\ Enqueue("in")
    BY <1>4 DEF LogIn
  <2>2. actor["in"].at = "idle"
    BY <2>1 DEF IInv, ComingIsAlone
  <2>3. Queue' /\ \E e \in Entry : CallEffect("in", e)
    BY <1>0, <2>1, <2>2, ActorNames, EnqueueEffect
  <2>4. PICK e \in Entry : CallEffect("in", e)
    BY <2>3
  <2> QED
    BY <1>0, <2>1, <2>3, <2>4, ActorNames, EffectKeeps
<1>5. CASE Reopen
  <2>0. /\ actor["fix"] \in Entry /\ actor["fix"].at = "idle" /\ epoch \in Nat
        /\ token' = token /\ coming' = coming /\ UNCHANGED <<cache, login>>
    BY <1>0, <1>5, ActorNames DEF Reopen, Still, Shape
  <2>1. PICK place \in {"pausing", "queued"} :
          /\ actor' = [actor EXCEPT !["fix"].at = place, !["fix"].epoch = epoch]
          /\ chain' = IF place = "pausing" THEN chain ELSE Append(chain, "fix")
    BY <1>5 DEF Reopen
  <2> DEFINE e == [actor["fix"] EXCEPT !.at = place, !.epoch = epoch]
  <2>2. e \in Entry /\ e.at = place /\ actor' = [actor EXCEPT !["fix"] = e]
    BY <2>0, <2>1 DEF Entry, Places
  <2>3. CallEffect("fix", e)
    BY <1>0, <2>0, <2>1, <2>2 DEF CallEffect, cache, Shape
  <2> HIDE DEF e
  <2>4. Queue'
    BY <1>0, <2>0, <2>1, <2>2, ActorNames, QueueSame, QueueAppend
  <2> QED
    BY <2>0, <2>2, <2>3, <2>4, ActorNames, StillKeeps
<1> QED
  BY <1>1, <1>2, <1>3, <1>4, <1>5

LEMMA SessionNext == IInv /\ [Next]_vars => IInv'
<1> SUFFICES ASSUME IInv, [Next]_vars PROVE IInv'
  OBVIOUS
<1>1. CASE Kicked
  <2>1. /\ im' = Out /\ epoch' = epoch + 1 /\ epoch \in Nat /\ login.epoch \in Nat
        /\ UNCHANGED <<token, coming, force, tasks, actor, login>>
    BY <1>1 DEF Kicked, IInv, Shape, LoginEntry
  <2>2. ~CurrentLogin'
    BY <2>1 DEF IInv, LoginIsOfToken, CurrentLogin
  <2>3. Shape' /\ Queue' /\ SessionIsOfToken'
    BY <2>1, Entries DEF IInv, Shape, Queue, SessionIsOfToken, tasks
  <2>4. LoginIsOfToken' /\ ComingIsAlone'
    BY <2>1, <2>2 DEF IInv, LoginIsOfToken, ComingIsAlone
  <2> QED
    BY <2>3, <2>4 DEF IInv
<1>2. CASE Changes
  <2>1. PICK c \in BOOLEAN, x \in {TRUE, im.expired} :
          im' = [im EXCEPT !.connected = c, !.expired = x]
    BY <1>2 DEF Changes
  <2>2. im \in Cached /\ UNCHANGED <<token, coming, epoch, force, tasks, actor, login>>
    BY <1>2 DEF Changes, IInv, Shape
  <2>3. im' \in Cached /\ im'.user = im.user /\ im'.bound = im.bound
    BY <2>1, <2>2 DEF Cached
  <2> QED
    BY <2>2, <2>3 DEF IInv, Shape, Queue, SessionIsOfToken, LoginIsOfToken, ComingIsAlone,
                      CurrentLogin, Leaving, tasks
<1>3. CASE OrphanEnds \/ UNCHANGED vars
  BY <1>3 DEF OrphanEnds, vars, cache, tasks, IInv, Shape, Queue, SessionIsOfToken,
              LoginIsOfToken, ComingIsAlone, CurrentLogin, Leaving
<1> QED
  BY <1>1, <1>2, <1>3, BeginKeeps, CallKeeps, LoginKeeps DEF Next

\* A session that ensureIMLogin reuses for the stored business token is the
\* session of the token's account, whatever logins, logouts, kicks and
\* timeouts of the SDK's Logout overlap, for any number of callers.
THEOREM SessionBelongsToToken == Spec => []SessionIsOfToken
<1>1. IInv => SessionIsOfToken
  BY DEF IInv
<1> QED
  BY <1>1, SessionInit, SessionNext, PTL DEF Spec

\* A task waits in the chain at most once and as itself, and a token is never
\* stored while another account's is still there.
THEOREM ChainAndToken == Spec => [](Queue /\ (coming # 0 => token = 0))
<1>1. IInv => Queue /\ (coming # 0 => token = 0)
  BY DEF IInv, ComingIsAlone
<1> QED
  BY <1>1, SessionInit, SessionNext, PTL DEF Spec

-----------------------------------------------------------------------------
(* Turns                                                                   *)

\* One task of the chain runs at a time, and sessionDepth says whether one does;
\* what is queued is in the chain, and who waits for a login has one to wait for.
Turns ==
  /\ depth \in {0, 1}
  /\ \A a \in Actors : actor[a].chained => depth = 1
  /\ depth = 1 => \E a \in Actors : actor[a].chained
  /\ \A a, b \in Actors : actor[a].chained /\ actor[b].chained => a = b
  /\ \A a \in Actors : actor[a].at = "queued" => \E i \in 1..Len(chain) : chain[i] = a
  /\ \A a \in Actors : actor[a].at = "waiting" => login.at # "none"

\* A call goes on, in the chain or out of it, and no login ends.
Goes(a, chained) ==
  /\ \A b \in Actors \ {a} : actor'[b] = actor[b]
  /\ actor'[a].chained = chained
  /\ actor'[a].at # "queued"
  /\ actor'[a].at = "waiting" \/ login.at # "none" => login'.at # "none"

LEMMA JoinGoes ==
  ASSUME Shape, NEW a \in Actors, NEW chained, NEW forced, Join(a, chained, forced)
  PROVE  Goes(a, chained)
<1>1. actor' = [actor EXCEPT ![a].at = "waiting", ![a].epoch = epoch,
                             ![a].chained = chained]
  BY DEF Join
<1>2. actor'[a].chained = chained /\ actor'[a].at = "waiting"
  BY <1>1 DEF Shape, Entry
<1>3. \A b \in Actors \ {a} : actor'[b] = actor[b]
  BY <1>1 DEF Shape
<1>4. login'.at # "none"
  BY DEF Join
<1> QED
  BY <1>2, <1>3, <1>4 DEF Goes

LEMMA PlaceGoes ==
  ASSUME Shape, NEW a \in Actors, NEW chained, NEW place,
         place \notin {"queued", "waiting"}, login' = login,
         actor' = [actor EXCEPT ![a].at = place, ![a].chained = chained]
  PROVE  Goes(a, chained)
<1>1. actor'[a].chained = chained /\ actor'[a].at = place
  BY DEF Shape, Entry
<1>2. \A b \in Actors \ {a} : actor'[b] = actor[b]
  BY DEF Shape
<1> QED
  BY <1>1, <1>2 DEF Goes

LEMMA AtGoes ==
  ASSUME Shape, NEW a \in Actors, NEW place, place \notin {"queued", "waiting"},
         login' = login, At(a, place)
  PROVE  Goes(a, actor[a].chained)
<1>1. actor' = [actor EXCEPT ![a].at = place]
  BY DEF At
<1>2. actor'[a].chained = actor[a].chained /\ actor'[a].at = place
  BY <1>1 DEF Shape, Entry
<1>3. \A b \in Actors \ {a} : actor'[b] = actor[b]
  BY <1>1 DEF Shape
<1> QED
  BY <1>2, <1>3 DEF Goes

LEMMA ClearGoes ==
  ASSUME Shape, NEW a \in Actors, NEW chained, NEW forced, Clear(a, chained, forced)
  PROVE  Goes(a, chained)
<1>1. CASE im.user # 0 \/ im.connected \/ im.bound # 0
  BY <1>1, PlaceGoes DEF Clear
<1>2. CASE ~(im.user # 0 \/ im.connected \/ im.bound # 0)
  BY <1>2, JoinGoes DEF Clear
<1> QED
  BY <1>1, <1>2

LEMMA TaskGoes ==
  ASSUME Shape, NEW a \in Actors, NEW chained, TaskBegins(a, chained)
  PROVE  Goes(a, chained)
<1>1. CASE a \in Ensurers
  <2>1. Relogin(a, chained)
    BY <1>1, ActorNames DEF TaskBegins
  <2> QED
    BY <2>1, PlaceGoes, ClearGoes DEF Relogin
<1>2. CASE a \in {"out", "in"}
  <2>1. LogoutBegins(a, chained)
    BY <1>2, ActorNames DEF TaskBegins
  <2>2. /\ actor' = [actor EXCEPT ![a].at = "leaving", ![a].chained = chained]
        /\ login' = login
    BY <2>1 DEF LogoutBegins
  <2> QED
    <3>1. actor'[a].chained = chained /\ actor'[a].at \notin {"queued", "waiting"}
      BY <2>2 DEF Shape, Entry
    <3>2. \A b \in Actors \ {a} : actor'[b] = actor[b]
      BY <2>2 DEF Shape
    <3> QED
      BY <2>2, <3>1, <3>2 DEF Goes
<1>3. CASE a = "fix"
  <2>1. ReopenBegins(a, chained)
    BY <1>3, ActorNames DEF TaskBegins
  <2>2. /\ actor' = [actor EXCEPT ![a].at = "pausing", ![a].chained = chained]
        /\ login' = login
    BY <2>1 DEF ReopenBegins
  <2> QED
    <3>1. actor'[a].chained = chained /\ actor'[a].at \notin {"queued", "waiting"}
      BY <2>2 DEF Shape, Entry
    <3>2. \A b \in Actors \ {a} : actor'[b] = actor[b]
      BY <2>2 DEF Shape
    <3> QED
      BY <2>2, <3>1, <3>2 DEF Goes
<1> QED
  BY <1>1, <1>2, <1>3, ActorNames

\* A step that neither queues a call nor begins or ends a task.
LEMMA TurnsSame ==
  ASSUME Turns, depth' = depth, chain' = chain,
         \A a \in Actors :
           /\ actor'[a].chained = actor[a].chained
           /\ actor'[a].at = "queued" => actor[a].at = "queued"
           /\ actor'[a].at = "waiting" => login'.at # "none"
  PROVE  Turns'
BY DEF Turns

LEMMA TurnsGo ==
  ASSUME Turns, NEW a \in Actors, Goes(a, actor[a].chained), UNCHANGED tasks
  PROVE  Turns'
<1>1. \A b \in Actors : /\ actor'[b].chained = actor[b].chained
                        /\ actor'[b].at = "queued" => actor[b].at = "queued"
                        /\ actor'[b].at = "waiting" => login'.at # "none"
  BY DEF Goes, Turns
<1> QED
  BY <1>1, TurnsSame DEF tasks

\* A call that waits for its turn.
LEMMA TurnsQueue ==
  ASSUME Shape, Queue, Turns, NEW a \in Actors, NEW e \in Entry,
         e.chained = actor[a].chained, e.at = "queued",
         actor' = [actor EXCEPT ![a] = e], chain' = Append(chain, a),
         depth' = depth, login' = login
  PROVE  Turns'
<1>1. \A b \in Actors : /\ actor'[b].chained = actor[b].chained
                        /\ actor'[b].at = "queued" => b = a \/ actor[b].at = "queued"
                        /\ actor'[b].at = "waiting" => actor[b].at = "waiting"
  BY DEF Shape
<1>2. /\ Len(chain) \in Nat /\ Len(chain') = Len(chain) + 1
      /\ chain'[Len(chain) + 1] = a
      /\ \A i \in 1..Len(chain) : i \in 1..Len(chain') /\ chain'[i] = chain[i]
  BY DEF Queue
<1>3. ASSUME NEW b \in Actors, actor'[b].at = "queued"
      PROVE  \E i \in 1..Len(chain') : chain'[i] = b
  <2>1. CASE b = a
    <3>1. Len(chain) + 1 \in 1..Len(chain')
      BY <1>2
    <3> QED
      BY <1>2, <2>1, <3>1
  <2>2. CASE b # a
    BY <1>1, <1>2, <1>3, <2>2 DEF Turns
  <2> QED
    BY <2>1, <2>2
<1> QED
  BY <1>1, <1>3 DEF Turns

LEMMA TurnsEnqueue ==
  ASSUME Shape, Queue, Turns, NEW a \in Actors, Enqueue(a)
  PROVE  Turns'
<1>1. CASE depth > 0
  BY <1>1, TaskGoes, TurnsGo DEF Enqueue
<1>2. CASE ~(depth > 0)
  <2> DEFINE e == [actor[a] EXCEPT !.at = "queued"]
  <2>1. At(a, "queued") /\ chain' = Append(chain, a) /\ UNCHANGED <<depth, cache, login>>
    BY <1>2 DEF Enqueue
  <2>2. e \in Entry /\ e.at = "queued" /\ actor' = [actor EXCEPT ![a] = e]
    BY <2>1, AtEffect DEF Places
  <2>3. e.chained = actor[a].chained
    BY DEF Shape, Entry
  <2> HIDE DEF e
  <2> QED
    BY <2>1, <2>2, <2>3, TurnsQueue
<1> QED
  BY <1>1, <1>2

LEMMA TurnsEnsure ==
  ASSUME Shape, Queue, Turns, NEW a \in Actors, Ensures(a)
  PROVE  Turns'
<1>1. CASE Reusable
  <2>1. At(a, "asking") /\ UNCHANGED <<cache, tasks, login>>
    BY <1>1 DEF Ensures
  <2> QED
    BY <2>1, AtGoes, TurnsGo
<1>2. CASE ~Reusable
  BY <1>2, TurnsEnqueue DEF Ensures
<1> QED
  BY <1>1, <1>2

\* The depth is counted down by the one call that was counted.
LEMMA TurnsReturn ==
  ASSUME Shape, Turns, NEW a \in Actors, Returns(a), chain' = chain, login' = login
  PROVE  Turns'
<1>1. /\ actor' = [actor EXCEPT ![a] = Idle]
      /\ depth' = IF actor[a].chained THEN depth - 1 ELSE depth
  BY DEF Returns
<1>2. /\ actor'[a].at = "idle" /\ actor'[a].chained = FALSE
      /\ \A b \in Actors \ {a} : actor'[b] = actor[b]
  BY <1>1 DEF Shape, Idle
<1>3. CASE actor[a].chained
  <2>1. depth' = 0
    BY <1>1, <1>3 DEF Turns
  <2>2. \A b \in Actors : ~actor'[b].chained
    BY <1>2, <1>3 DEF Turns
  <2>3. \A b \in Actors : actor'[b].at # "idle" => actor'[b] = actor[b]
    BY <1>2
  <2> QED
    BY <2>1, <2>2, <2>3 DEF Turns
<1>4. CASE ~actor[a].chained
  <2>1. depth' = depth
    BY <1>1, <1>4
  <2>2. \A b \in Actors : actor'[b].chained <=> actor[b].chained
    BY <1>2, <1>4
  <2>3. \A b \in Actors : actor'[b].at # "idle" => actor'[b] = actor[b]
    BY <1>2
  <2> QED
    BY <2>1, <2>2, <2>3 DEF Turns
<1> QED
  BY <1>3, <1>4

LEMMA TurnsLogin ==
  ASSUME IInv, Turns, LoginStep
  PROVE  Turns'
<1>1. UNCHANGED tasks /\ login.at # "none"
  BY DEF LoginStep, Fetched, GetsStatus, LoggedOut, LoginAnswers, Undone, DoLogin
<1>2. \/ LoginEnds
      \/ \E place \in LoginPlaces \ {"none"} : LoginAt(place)
  BY DEF LoginStep, Fetched, GetsStatus, LoggedOut, LoginAnswers, Undone, LoginPlaces,
         Fails, RememberLogin, AfterLogin
<1>3. CASE LoginEnds
  <2>1. \A a \in Actors :
          \/ actor'[a] = actor[a] /\ actor[a].at # "waiting"
          \/ actor'[a] = [actor[a] EXCEPT !.at = "answered"]
    BY <1>3 DEF LoginEnds
  <2>2. \A a \in Actors : /\ actor'[a].chained = actor[a].chained
                          /\ actor'[a].at = "queued" => actor[a].at = "queued"
                          /\ actor'[a].at # "waiting"
    BY <2>1 DEF IInv, Shape, Entry
  <2> QED
    BY <1>1, <2>2, TurnsSame DEF tasks
<1>4. CASE \E place \in LoginPlaces \ {"none"} : LoginAt(place)
  <2>1. login'.at # "none" /\ actor' = actor
    BY <1>4 DEF LoginAt, IInv, Shape, LoginEntry
  <2> QED
    BY <1>1, <2>1, TurnsSame DEF tasks
<1> QED
  BY <1>2, <1>3, <1>4

LEMMA TurnsNext ==
  ASSUME IInv, Turns, [Next]_vars
  PROVE  Turns'
<1>0. Shape /\ Queue /\ "out" \in Actors /\ "in" \in Actors /\ "fix" \in Actors
  BY ActorNames DEF IInv
<1>1. ASSUME NEW a \in Actors, EnsureIMLogin(a) PROVE Turns'
  BY <1>0, <1>1, TurnsEnsure DEF EnsureIMLogin
<1>2. ASSUME NEW a \in Actors, Call(a) PROVE Turns'
  <2>1. CASE Returns(a) /\ chain' = chain /\ login' = login
    BY <1>0, <2>1, TurnsReturn
  <2>2. CASE Enqueue(a) \/ Ensures(a)
    BY <1>0, <2>2, TurnsEnqueue, TurnsEnsure
  <2>3. CASE UNCHANGED tasks /\ \E forced : Clear(a, actor[a].chained, forced)
                                          \/ Join(a, actor[a].chained, forced)
    BY <1>0, <2>3, ClearGoes, JoinGoes, TurnsGo
  <2>4. CASE /\ UNCHANGED tasks /\ login' = login
             /\ At(a, "closing sdk") \/ At(a, "leaving sdk")
    BY <1>0, <2>4, AtGoes, TurnsGo
  <2>5. Asked(a) \/ Checked(a) \/ Resumes(a) \/ Reopens(a) =>
          \/ Returns(a) /\ chain' = chain /\ login' = login
          \/ Enqueue(a) \/ Ensures(a)
          \/ UNCHANGED tasks /\ \E forced : Clear(a, actor[a].chained, forced)
    BY DEF Asked, Checked, Resumes, Reopens
  <2>6. Closes(a) \/ Closed(a) =>
          /\ UNCHANGED tasks
          /\ \/ \E forced : Join(a, actor[a].chained, forced)
             \/ At(a, "closing sdk") /\ login' = login
    BY DEF Closes, Closed
  <2>7. Leaves(a) \/ Left(a) \/ LogoutTimesOut(a) =>
          \/ Returns(a) /\ chain' = chain /\ login' = login
          \/ UNCHANGED tasks /\ login' = login /\ At(a, "leaving sdk")
    BY DEF Leaves, Left, LogoutTimesOut, LogoutEnds
  <2> QED
    BY <1>2, <2>1, <2>2, <2>3, <2>4, <2>5, <2>6, <2>7 DEF Call
<1>3. CASE NextTask
  <2> DEFINE a == Head(chain)
  <2>1. depth = 0 /\ depth' = 1 /\ chain # <<>> /\ chain' = Tail(chain) /\ TaskBegins(a, TRUE)
    BY <1>3 DEF NextTask
  <2>2. /\ Len(chain) \in Nat /\ Len(chain) > 0 /\ chain[1] = a /\ a \in Actors
        /\ Len(chain') = Len(chain) - 1
        /\ \A i \in 1..Len(chain') : chain'[i] = chain[i + 1]
    BY <1>0, <2>1 DEF Queue
  <2>3. Goes(a, TRUE)
    BY <1>0, <2>1, <2>2, TaskGoes
  <2> HIDE DEF a
  <2>4. \A b \in Actors : actor'[b].chained <=> b = a
    BY <2>1, <2>2, <2>3 DEF Goes, Turns
  <2>5. ASSUME NEW b \in Actors, actor'[b].at = "queued"
        PROVE  \E i \in 1..Len(chain') : chain'[i] = b
    <3>1. b # a /\ actor[b].at = "queued"
      BY <2>3, <2>5 DEF Goes
    <3>2. PICK i \in 1..Len(chain) : chain[i] = b
      BY <3>1 DEF Turns
    <3>3. i # 1
      BY <2>2, <3>1, <3>2
    <3>4. i - 1 \in 1..Len(chain') /\ (i - 1) + 1 = i
      BY <2>2, <3>2, <3>3
    <3> QED
      BY <2>2, <3>2, <3>4
  <2>6. \A b \in Actors : actor'[b].at = "waiting" => login'.at # "none"
    BY <2>3 DEF Goes, Turns
  <2> QED
    BY <2>1, <2>2, <2>4, <2>5, <2>6 DEF Turns
<1>4. CASE LogOut \/ \E b \in Accounts : LogIn(b)
  BY <1>0, <1>4, TurnsEnqueue DEF LogOut, LogIn
<1>5. CASE Reopen
  <2>1. /\ actor["fix"] \in Entry /\ epoch \in Nat /\ UNCHANGED <<depth, login>>
    BY <1>0, <1>5 DEF Reopen, Shape
  <2>2. PICK place \in {"pausing", "queued"} :
          /\ actor' = [actor EXCEPT !["fix"].at = place, !["fix"].epoch = epoch]
          /\ chain' = IF place = "pausing" THEN chain ELSE Append(chain, "fix")
    BY <1>5 DEF Reopen
  <2> DEFINE e == [actor["fix"] EXCEPT !.at = place, !.epoch = epoch]
  <2>3. /\ e \in Entry /\ e.at = place /\ e.chained = actor["fix"].chained
        /\ actor' = [actor EXCEPT !["fix"] = e]
    BY <2>1, <2>2 DEF Entry, Places
  <2> HIDE DEF e
  <2>4. CASE place = "queued"
    BY <1>0, <2>1, <2>2, <2>3, <2>4, TurnsQueue
  <2>5. CASE place = "pausing"
    <3>1. Goes("fix", actor["fix"].chained)
      BY <1>0, <2>1, <2>3, <2>5 DEF Goes, Shape
    <3> QED
      BY <1>0, <2>1, <2>2, <2>5, <3>1, TurnsGo DEF tasks
  <2> QED
    BY <2>4, <2>5
<1>6. CASE Kicked \/ Changes \/ OrphanEnds \/ UNCHANGED vars
  <2>1. UNCHANGED <<depth, chain, actor, login>>
    BY <1>6 DEF Kicked, Changes, OrphanEnds, tasks, vars
  <2> QED
    BY <2>1, TurnsSame DEF Turns
<1> QED
  BY <1>1, <1>2, <1>3, <1>4, <1>5, <1>6, TurnsLogin DEF Next

Rest == sdk \in Users /\ orphan \in BOOLEAN /\ acts \in 0..MaxActs

LEMMA RestNext ==
  ASSUME IInv, Rest, [Next]_vars
  PROVE  Rest'
<1>1. sdk' \in {0, sdk, login.user}
  BY DEF Next, vars, EnsureIMLogin, Call, Still, Asked, Checked, Closes, Closed, Resumes,
         Reopens, Leaves, Left, LogoutTimesOut, LogOut, Reopen, NextTask, LoginStep,
         Fetched, GetsStatus, LoggedOut, LoginAnswers, Undone, OrphanEnds, Kicked, Changes,
         LogIn
<1>2. orphan' \in {orphan, TRUE, FALSE}
  BY DEF Next, vars, EnsureIMLogin, Call, Still, Asked, Checked, Closes, Closed, Resumes,
         Reopens, Leaves, Left, LogoutTimesOut, LogOut, Reopen, NextTask, LoginStep,
         Fetched, GetsStatus, LoggedOut, LoginAnswers, Undone, OrphanEnds, Kicked, Changes,
         LogIn, DoLogin
<1>3. acts' = acts \/ Act
  BY DEF Next, vars, EnsureIMLogin, Call, Still, Asked, Checked, Closes, Closed, Resumes,
         Reopens, Leaves, Left, LogoutTimesOut, LogOut, Reopen, NextTask, LoginStep,
         Fetched, GetsStatus, LoggedOut, LoginAnswers, Undone, OrphanEnds, Kicked, Changes,
         LogIn, DoLogin, LogoutEnds
<1>4. acts' \in 0..MaxActs
  BY <1>3, SessionAssumption DEF Rest, Act
<1> QED
  BY <1>1, <1>2, <1>4 DEF Rest, IInv, Shape, LoginEntry, Users

LEMMA TurnsInit == Init => Turns /\ Rest
<1> SUFFICES ASSUME Init PROVE Turns /\ Rest
  OBVIOUS
<1>1. \A a \in Actors : actor[a].at = "idle" /\ actor[a].chained = FALSE
  BY Entries DEF Init
<1>2. Turns
  BY <1>1 DEF Init, Turns
<1>3. Rest
  <2>1. sdk \in Users
    BY DEF Init, Users
  <2>2. acts \in 0..MaxActs
    BY SessionAssumption DEF Init
  <2> QED
    BY <2>1, <2>2 DEF Init, Rest
<1> QED
  BY <1>2, <1>3

\* The session keeps its shape: enqueueSession lets one task run at a time and
\* counts it in sessionDepth, whatever is called inline meanwhile, and a call that
\* waits for loginPromise has a login to wait for.
THEOREM SessionTypes == Spec => []TypeOK
<1>1. IInv /\ Turns /\ Rest => TypeOK
  <2> SUFFICES ASSUME IInv, Turns, Rest PROVE TypeOK
    OBVIOUS
  <2>1. Shape /\ Queue
    BY DEF IInv
  <2>2. /\ {token, coming, sdk, im.user, im.bound, login.user} \subseteq Accounts \cup {0}
        /\ {force, orphan, im.connected, im.expired, login.force} \subseteq BOOLEAN
    BY <2>1 DEF Shape, Rest, Cached, LoginEntry, Users
  <2>3. /\ {epoch, login.epoch} \cup {actor[a].epoch : a \in Actors} \subseteq Nat
        /\ \A a \in Actors : actor[a].at \in Places
    BY <2>1 DEF Shape, LoginEntry, Entry
  <2>4. {chain[i] : i \in DOMAIN chain} = {a \in Actors : actor[a].at = "queued"}
    <3>1. DOMAIN chain = 1..Len(chain) /\ \A i \in 1..Len(chain) : chain[i] \in Actors
      BY <2>1 DEF Queue
    <3> QED
      BY <2>1, <3>1 DEF Queue, Turns
  <2>5. depth = Cardinality({a \in Actors : actor[a].chained})
    <3>1. CASE depth = 0
      <4>1. {a \in Actors : actor[a].chained} = {}
        BY <3>1 DEF Turns
      <4> QED
        BY <3>1, <4>1, FS_EmptySet
    <3>2. CASE depth = 1
      <4>1. PICK a \in Actors : actor[a].chained
        BY <3>2 DEF Turns
      <4>2. {b \in Actors : actor[b].chained} = {a}
        BY <4>1 DEF Turns
      <4> QED
        BY <3>2, <4>2, FS_Singleton
    <3> QED
      BY <3>1, <3>2 DEF Turns
  <2> QED
    BY <2>2, <2>3, <2>4, <2>5 DEF TypeOK, Turns, Rest
<1>2. IInv /\ Turns /\ Rest /\ [Next]_vars => (IInv /\ Turns /\ Rest)'
  BY SessionNext, TurnsNext, RestNext
<1>3. Init => IInv /\ Turns /\ Rest
  BY SessionInit, TurnsInit
<1> QED
  BY <1>1, <1>2, <1>3, PTL DEF Spec
=============================================================================
