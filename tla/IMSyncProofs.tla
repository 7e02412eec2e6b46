---------------------------- MODULE IMSyncProofs ----------------------------
(***************************************************************************)
(* Proofs about the two ways the server writes to OpenIM.                  *)
(*                                                                         *)
(* IMSync, for every set of workers, every bound of the outbox and every   *)
(* size of a batch: what was written in the database and is not yet        *)
(* synchronised has a row that brings it about.                            *)
(*                                                                         *)
(* IMReservation, for every set of requests: whoever works on a            *)
(* reservation owns its row, as long as no slow row was taken over and no  *)
(* answer of OpenIM was lost; from this follows that OpenIM does once what *)
(* it is asked for, and that the row and the answers tell of it.           *)
(***************************************************************************)
EXTENDS IMSync, IMReservation, SequenceTheorems, TLAPS

-----------------------------------------------------------------------------
(* The calls of a row                                                      *)

OpenIMSet == [links : SUBSET Both, black : BOOLEAN, group : GroupSet]

CallSet ==
  [op : {"import", "unlink"}, value : SUBSET Both]
    \cup [op : {"black", "member", "fill", "mute", "dismiss"}, value : BOOLEAN]
    \cup [op : {"ensure"}, value : GroupSet]
    \cup [op : {"rename"}, value : [group : GroupSet, name : Names]]

\* What OpenIM holds after the next call, and after both calls that are left.
Rest(c)     == IF c = <<>> THEN <<>> ELSE Tail(c)
First(c, s) == IF c = <<>> THEN s ELSE After(Head(c), s)
Final(c, s) == First(Rest(c), First(c, s))

Short(c) == c \in Seq(CallSet) /\ Rest(Rest(c)) = <<>>

Request(o, v) == [op |-> o, value |-> v]

LEMMA NoCall == Short(<<>>) /\ \A s : First(<<>>, s) = s /\ Final(<<>>, s) = s
BY DEF Short, Rest, First, Final

LEMMA OneCall ==
  ASSUME NEW o, NEW v, Request(o, v) \in CallSet
  PROVE  /\ Short(Ask(o, v))
         /\ \A s : /\ First(Ask(o, v), s) = After(Request(o, v), s)
                   /\ Final(Ask(o, v), s) = After(Request(o, v), s)
<1> DEFINE x == Request(o, v)
<1>1. Ask(o, v) = <<x>>
  BY DEF Ask, Request
<1> HIDE DEF x
<1>2. <<x>> \in Seq(CallSet) /\ <<x>> # <<>> /\ Head(<<x>>) = x /\ Tail(<<x>>) = <<>>
  BY DEF x
<1> QED
  BY <1>1, <1>2 DEF Short, Rest, First, Final, x

LEMMA TwoCalls ==
  ASSUME NEW o, NEW v, NEW p, NEW u,
         Request(o, v) \in CallSet, Request(p, u) \in CallSet
  PROVE  LET c == Ask(o, v) \o Ask(p, u) IN
         /\ Short(c)
         /\ \A s : /\ First(c, s) = After(Request(o, v), s)
                   /\ Final(c, s) = After(Request(p, u), After(Request(o, v), s))
<1> DEFINE x == Request(o, v)
           y == Request(p, u)
           c == Ask(o, v) \o Ask(p, u)
<1>1. c = <<x>> \o <<y>>
  BY DEF Ask, Request
<1>2. x \in CallSet /\ y \in CallSet
  OBVIOUS
<1> HIDE DEF x, y, c
<1>3. c = <<x, y>>
  <2>1. /\ <<x>> \in Seq(CallSet) /\ Len(<<x>>) = 1 /\ <<x>>[1] = x
        /\ <<y>> \in Seq(CallSet) /\ Len(<<y>>) = 1 /\ <<y>>[1] = y
        /\ <<x, y>> \in Seq(CallSet) /\ Len(<<x, y>>) = 2
        /\ <<x, y>>[1] = x /\ <<x, y>>[2] = y
    BY <1>2
  <2>2. c \in Seq(CallSet) /\ Len(c) = 2 /\ c[1] = x /\ c[2] = y
    BY <1>1, <2>1, ConcatProperties
  <2> QED
    BY <2>1, <2>2, SeqEqual
<1>4. /\ c \in Seq(CallSet) /\ c # <<>> /\ Head(c) = x
      /\ Tail(c) = <<y>> /\ <<y>> # <<>> /\ Head(<<y>>) = y /\ Tail(<<y>>) = <<>>
  BY <1>2, <1>3
<1>5. Rest(c) = <<y>> /\ Rest(<<y>>) = <<>>
  BY <1>4 DEF Rest
<1>6. Short(c)
  BY <1>4, <1>5 DEF Short
<1>7. \A s : First(c, s) = After(x, s) /\ Final(c, s) = After(y, After(x, s))
  BY <1>4, <1>5 DEF First, Final
<1> QED
  BY <1>6, <1>7 DEF x, y, c

\* What is read of the group, a banned member left out.
LEMMA SeenType ==
  ASSUME group \in GroupSet, userActive \in BOOLEAN
  PROVE  /\ Listed \in BOOLEAN /\ GroupSeen \in GroupSet
         /\ GroupSeen.member = Listed /\ GroupSeen.status = group.status
BY DEF Listed, GroupSeen, GroupSet

\* What the calls of one row do, for each kind of row and each state it finds.
LEMMA FriendCalls ==
  ASSUME TypeOK, NEW job \in RowSet, job.event = "friend"
  PROVE  LET c == CallsFor(job) IN
         /\ Short(c)
         /\ friends => \A s : /\ First(c, s) = After(Request("import", Both), s)
                              /\ Final(c, s) = First(c, s)
         /\ ~friends => \A s :
              /\ First(c, s) = After(Request("unlink", {"ab"}), s)
              /\ Final(c, s) = After(Request("unlink", {"ba"}), First(c, s))
<1>1. /\ Request("import", Both) \in CallSet
      /\ Request("unlink", {"ab"}) \in CallSet /\ Request("unlink", {"ba"}) \in CallSet
  BY DEF Request, CallSet, Both
<1>2. CallsFor(job) = RelationCalls("friend")
  BY DEF CallsFor, GroupEvents
<1>3. CASE friends
  <2>1. RelationCalls("friend") = Ask("import", Both)
    BY <1>3 DEF RelationCalls
  <2> QED
    BY <1>1, <1>2, <1>3, <2>1, OneCall
<1>4. CASE ~friends
  <2>1. RelationCalls("friend") = Ask("unlink", {"ab"}) \o Ask("unlink", {"ba"})
    BY <1>4 DEF RelationCalls
  <2> DEFINE c == Ask("unlink", {"ab"}) \o Ask("unlink", {"ba"})
  <2>2. /\ Short(c)
        /\ \A s : /\ First(c, s) = After(Request("unlink", {"ab"}), s)
                  /\ Final(c, s) = After(Request("unlink", {"ba"}),
                                        After(Request("unlink", {"ab"}), s))
    BY <1>1, TwoCalls
  <2>3. CallsFor(job) = c
    BY <1>2, <2>1
  <2> HIDE DEF c
  <2> QED
    BY <1>4, <2>2, <2>3
<1> QED
  BY <1>3, <1>4

LEMMA BlockCalls ==
  ASSUME TypeOK, NEW job \in RowSet, job.event = "block"
  PROVE  LET c == CallsFor(job) IN
         /\ Short(c)
         /\ \A s : /\ First(c, s) = After(Request("black", blocked), s)
                   /\ Final(c, s) = First(c, s)
<1>1. Request("black", blocked) \in CallSet
  BY DEF Request, CallSet, TypeOK
<1>2. CallsFor(job) = Ask("black", blocked)
  BY DEF CallsFor, GroupEvents, RelationCalls
<1> QED
  BY <1>1, <1>2, OneCall

LEMMA DismissCalls ==
  ASSUME NEW job \in RowSet, job.event = "dismissed"
  PROVE  LET c == CallsFor(job) IN
         /\ Short(c)
         /\ \A s : /\ First(c, s) = After(Request("dismiss", TRUE), s)
                   /\ Final(c, s) = First(c, s)
<1>1. Request("dismiss", TRUE) \in CallSet
  BY DEF Request, CallSet
<1>2. CallsFor(job) = Ask("dismiss", TRUE)
  BY DEF CallsFor, GroupEvents, Events, GroupCalls
<1> QED
  BY <1>1, <1>2, OneCall

LEMMA ClosedCalls ==
  ASSUME NEW job \in RowSet, job.event \in GroupEvents \ {"dismissed"},
         group.status # "active"
  PROVE  CallsFor(job) = <<>>
BY DEF CallsFor, GroupCalls

LEMMA CreateCalls ==
  ASSUME TypeOK, NEW job \in RowSet, job.event = "created", group.status = "active"
  PROVE  LET c == CallsFor(job) IN
         /\ Short(c)
         /\ \A s : /\ First(c, s) = After(Request("ensure", GroupSeen), s)
                   /\ Final(c, s) = After(Request("fill", Listed), First(c, s))
<1>1. Request("ensure", GroupSeen) \in CallSet /\ Request("fill", Listed) \in CallSet
  BY SeenType DEF Request, CallSet, TypeOK, GroupSet
<1>2. CallsFor(job) = Ask("ensure", GroupSeen) \o Ask("fill", Listed)
  BY DEF CallsFor, GroupEvents, Events, GroupCalls
<1> QED
  BY <1>1, <1>2, TwoCalls

LEMMA RenameCalls ==
  ASSUME TypeOK, NEW job \in RowSet, job.event = "updated", job.name \in Names,
         group.status = "active"
  PROVE  LET c == CallsFor(job)
             v == [group |-> GroupSeen, name |-> job.name] IN
         /\ Short(c)
         /\ \A s : /\ First(c, s) = After(Request("rename", v), s)
                   /\ Final(c, s) = First(c, s)
<1> DEFINE v == [group |-> GroupSeen, name |-> job.name]
<1>1. Request("rename", v) \in CallSet
  BY SeenType DEF Request, CallSet, TypeOK
<1>2. CallsFor(job) = Ask("rename", v)
  BY DEF CallsFor, GroupEvents, Events, GroupCalls
<1> QED
  BY <1>1, <1>2, OneCall

LEMMA MuteCalls ==
  ASSUME TypeOK, NEW job \in RowSet, job.event = "muted", group.status = "active"
  PROVE  LET c == CallsFor(job) IN
         /\ Short(c)
         /\ \A s : /\ First(c, s) = After(Request("ensure", GroupSeen), s)
                   /\ Final(c, s) = After(Request("mute", group.muted), First(c, s))
<1>1. Request("ensure", GroupSeen) \in CallSet /\ Request("mute", group.muted) \in CallSet
  BY SeenType DEF Request, CallSet, TypeOK, GroupSet
<1>2. CallsFor(job) = Ask("ensure", GroupSeen) \o Ask("mute", group.muted)
  BY DEF CallsFor, GroupEvents, Events, GroupCalls
<1> QED
  BY <1>1, <1>2, TwoCalls

LEMMA JoinCalls ==
  ASSUME TypeOK, NEW job \in RowSet, job.event \in {"joined", "left"},
         group.status = "active"
  PROVE  LET c == CallsFor(job)
             due == Listed = (job.event = "joined") IN
         /\ Short(c)
         /\ \A s : First(c, s) = After(Request("ensure", GroupSeen), s)
         /\ due => \A s :
              Final(c, s) = After(Request("member", Listed), First(c, s))
         /\ ~due => \A s : Final(c, s) = First(c, s)
<1> DEFINE due == Listed = (job.event = "joined")
<1>1. Request("ensure", GroupSeen) \in CallSet /\ Request("member", Listed) \in CallSet
  BY SeenType DEF Request, CallSet, TypeOK, GroupSet
<1>2. CallsFor(job) =
        Ask("ensure", GroupSeen) \o (IF due THEN Ask("member", Listed) ELSE <<>>)
  BY DEF CallsFor, GroupEvents, Events, GroupCalls, MemberCalls
<1>3. CASE due
  <2>1. CallsFor(job) = Ask("ensure", GroupSeen) \o Ask("member", Listed)
    BY <1>2, <1>3
  <2> QED
    BY <1>1, <1>3, <2>1, TwoCalls
<1>4. CASE ~due
  <2>1. CallsFor(job) = Ask("ensure", GroupSeen) \o <<>>
    BY <1>2, <1>4
  <2>2. Ask("ensure", GroupSeen) \in Seq(CallSet)
    BY <1>1, OneCall DEF Short
  <2>3. CallsFor(job) = Ask("ensure", GroupSeen)
    BY <2>1, <2>2, ConcatEmptySeq
  <2> QED
    BY <1>1, <1>4, <2>3, OneCall
<1> QED
  BY <1>3, <1>4

LEMMA CallsType ==
  ASSUME TypeOK, NEW job \in RowSet, job.event = "updated" => job.name \in Names
  PROVE  Short(CallsFor(job))
<1>1. CASE job.event \notin GroupEvents \ {"dismissed"}
  <2>1. job.event \in {"friend", "block", "dismissed"}
    BY <1>1 DEF RowSet, Events, GroupEvents
  <2> QED
    BY <2>1, FriendCalls, BlockCalls, DismissCalls
<1>2. CASE job.event \in GroupEvents \ {"dismissed"} /\ group.status # "active"
  BY <1>2, ClosedCalls, NoCall
<1>3. CASE job.event \in GroupEvents \ {"dismissed"} /\ group.status = "active"
  <2>1. job.event \in {"created", "updated", "joined", "left", "muted"}
    BY <1>3 DEF Events, GroupEvents
  <2> QED
    BY <1>3, <2>1, CreateCalls, RenameCalls, MuteCalls, JoinCalls
<1> QED
  BY <1>1, <1>2, <1>3

LEMMA AfterType ==
  ASSUME NEW s \in OpenIMSet, NEW x \in CallSet
  PROVE  After(x, s) \in OpenIMSet
<1>1. ASSUME x \in [op : {"import", "unlink"}, value : SUBSET Both]
      PROVE  After(x, s) \in OpenIMSet
  BY <1>1 DEF After, OpenIMSet
<1>2. ASSUME x.op \in {"member", "fill", "mute", "dismiss", "ensure", "rename"},
             GroupAfter(x, s.group) \in GroupSet
      PROVE  After(x, s) \in OpenIMSet
  BY <1>2 DEF After, OpenIMSet
<1>3. s.group \in GroupSet
  BY DEF OpenIMSet
<1>4. ASSUME x \in [op : {"black", "member", "fill", "mute", "dismiss"}, value : BOOLEAN]
      PROVE  After(x, s) \in OpenIMSet
  <2>1. CASE x.op = "black"
    BY <1>4, <2>1 DEF After, OpenIMSet
  <2>2. CASE x.op # "black"
    <3>1. GroupAfter(x, s.group) \in GroupSet
      BY <1>3, <1>4, <2>2 DEF GroupAfter, GroupSet
    <3> QED
      BY <1>2, <1>4, <2>2, <3>1
  <2> QED
    BY <2>1, <2>2
<1>5. ASSUME x \in [op : {"ensure"}, value : GroupSet]
      PROVE  After(x, s) \in OpenIMSet
  <2>1. GroupAfter(x, s.group) \in GroupSet
    BY <1>3, <1>5 DEF GroupAfter, GroupSet
  <2> QED
    BY <1>2, <1>5, <2>1
<1>6. ASSUME x \in [op : {"rename"}, value : [group : GroupSet, name : Names]]
      PROVE  After(x, s) \in OpenIMSet
  <2>1. GroupAfter(x, s.group) \in GroupSet
    BY <1>3, <1>6 DEF GroupAfter, GroupSet
  <2> QED
    BY <1>2, <1>6, <2>1
<1> QED
  BY <1>1, <1>4, <1>5, <1>6 DEF CallSet

-----------------------------------------------------------------------------
(* What each relation asks for                                             *)

\* What OpenIM is to hold, and whether it may do without the member.
Want == [links |-> IF friends THEN Both ELSE {}, black |-> blocked, group |-> group,
         missed |-> missed]

\* The agreement of OpenIM with the database, taken apart: each part depends on
\* the rows of a few events only.  The last two depend on no row: OpenIM has
\* not dismissed a group that is open, and knows nothing of one there is not.
Parts == {"friend", "block", "exists", "joined", "left", "muted", "dismissed",
          "open", "unknown"}

Brings(event, a) ==
  \/ a \in {"friend", "block", "left", "muted", "dismissed"} /\ event = a
  \/ a = "exists" /\ event = "created"
  \/ a = "joined" /\ event \in {"joined", "created"}

GroupAgrees(a, g, m, h) ==
  /\ a = "exists"    => (g.status = "active" => h.status # "none")
  /\ a = "joined"    => (g.status = "active" /\ g.member /\ ~m =>
                           h.member /\ h.status # "none")
  /\ a = "left"      => (g.status = "active" /\ ~g.member => ~h.member)
  /\ a = "muted"     => (g.status = "active" =>
                           h.muted = g.muted /\ (g.muted => h.status # "none"))
  /\ a = "dismissed" => (g.status = "dismissed" => h.status # "active")
  /\ a = "open"      => (g.status # "dismissed" => h.status # "dismissed")
  /\ a = "unknown"   => (g.status = "none" => h.status = "none" /\ h.muted = FALSE /\ ~h.member)

Agree(a, want, s) ==
  /\ a = "friend" => s.links = want.links
  /\ a = "block"  => s.black = want.black
  /\ GroupAgrees(a, want.group, want.missed, s.group)

\* What is wanted once the row has been read.
WantNow(job) == [Want EXCEPT !.missed = NowMissed(job.event)]

\* A row's calls keep every agreement there is that another row brings about, and
\* bring about their own.
Serves(job, a, s) ==
  /\ ~Brings(job.event, a) /\ Agree(a, Want, s) =>
       /\ Agree(a, WantNow(job), s)
       /\ Agree(a, WantNow(job), First(CallsFor(job), s))
       /\ Agree(a, WantNow(job), Final(CallsFor(job), s))
  /\ Brings(job.event, a) => Agree(a, WantNow(job), Final(CallsFor(job), s))

LEMMA WantIs ==
  ASSUME NEW job
  PROVE  /\ WantNow(job).links = Want.links /\ WantNow(job).black = Want.black
         /\ Want.group = group /\ WantNow(job).group = group
         /\ Want.missed = missed /\ WantNow(job).missed = NowMissed(job.event)
BY DEF Want, WantNow

\* A row that is not to bring the member in asks for no more than was asked before.
LEMMA MissedMore ==
  ASSUME NEW event, NEW a \in Parts, ~Brings(event, a), NEW h,
         GroupAgrees(a, group, missed, h)
  PROVE  GroupAgrees(a, group, NowMissed(event), h)
<1>1. CASE a = "joined"
  <2>1. event \notin {"joined", "created"}
    BY <1>1 DEF Brings
  <2>2. missed => NowMissed(event)
    BY <2>1 DEF NowMissed
  <2> QED
    BY <1>1, <2>2 DEF GroupAgrees
<1>2. CASE a # "joined"
  BY <1>2 DEF GroupAgrees
<1> QED
  BY <1>1, <1>2

\* Calls about the pair leave the group alone, and the other way round.
LEMMA PairServes ==
  ASSUME TypeOK, NEW job \in RowSet, job.event \in {"friend", "block"},
         NEW a \in Parts, NEW s \in OpenIMSet
  PROVE  Serves(job, a, s)
<1> DEFINE c == CallsFor(job)
<1>0. WantNow(job) = Want
  <2>1. NowMissed(job.event) = missed
    BY DEF NowMissed
  <2> QED
    BY <2>1 DEF WantNow, Want
<1>1. CASE job.event = "friend" /\ friends
  <2>1. /\ First(c, s) = [s EXCEPT !.links = Both] /\ Final(c, s) = First(c, s)
    BY <1>1, FriendCalls DEF After, Request
  <2>2. First(c, s).links = Want.links
    BY <1>1, <2>1 DEF OpenIMSet, Want
  <2>3. First(c, s).black = s.black /\ First(c, s).group = s.group
    BY <2>1 DEF OpenIMSet
  <2> HIDE DEF c
  <2>4. Brings(job.event, a) => a = "friend"
    BY <1>1 DEF Brings
  <2>5. Agree(a, Want, s) => Agree(a, Want, First(c, s))
    BY <2>2, <2>3 DEF Agree
  <2>6. a = "friend" => Agree(a, Want, First(c, s))
    BY <2>2 DEF Agree, GroupAgrees
  <2> QED
    BY <1>0, <2>1, <2>4, <2>5, <2>6 DEF Serves, c
<1>2. CASE job.event = "friend" /\ ~friends
  <2>1. /\ First(c, s) = [s EXCEPT !.links = @ \ {"ab"}]
        /\ Final(c, s) = [First(c, s) EXCEPT !.links = @ \ {"ba"}]
    BY <1>2, FriendCalls DEF After, Request
  <2>2. /\ First(c, s).black = s.black /\ First(c, s).group = s.group
        /\ Final(c, s).black = s.black /\ Final(c, s).group = s.group
        /\ First(c, s).links = s.links \ {"ab"}
        /\ Final(c, s).links = (s.links \ {"ab"}) \ {"ba"}
    BY <2>1 DEF OpenIMSet
  <2>3. Want.links = {} /\ s.links \subseteq {"ab", "ba"}
    BY <1>2 DEF Want, OpenIMSet, Both
  <2> HIDE DEF c
  <2>4. Final(c, s).links = {} /\ (s.links = {} => First(c, s).links = {})
    BY <2>2, <2>3
  <2>5. Brings(job.event, a) => a = "friend"
    BY <1>2 DEF Brings
  <2>6. Agree(a, Want, s) => Agree(a, Want, First(c, s)) /\ Agree(a, Want, Final(c, s))
    BY <2>2, <2>3, <2>4 DEF Agree
  <2>7. a = "friend" => Agree(a, Want, Final(c, s))
    BY <2>3, <2>4 DEF Agree, GroupAgrees
  <2> QED
    BY <1>0, <2>5, <2>6, <2>7 DEF Serves, c
<1>3. CASE job.event = "block"
  <2>1. /\ First(c, s) = [s EXCEPT !.black = blocked] /\ Final(c, s) = First(c, s)
    BY <1>3, BlockCalls DEF After, Request
  <2>2. First(c, s).black = Want.black
    BY <2>1 DEF OpenIMSet, Want
  <2>3. First(c, s).links = s.links /\ First(c, s).group = s.group
    BY <2>1 DEF OpenIMSet
  <2> HIDE DEF c
  <2>4. Brings(job.event, a) => a = "block"
    BY <1>3 DEF Brings
  <2>5. Agree(a, Want, s) => Agree(a, Want, First(c, s))
    BY <2>2, <2>3 DEF Agree
  <2>6. a = "block" => Agree(a, Want, First(c, s))
    BY <2>2 DEF Agree, GroupAgrees
  <2> QED
    BY <1>0, <2>1, <2>4, <2>5, <2>6 DEF Serves, c
<1> QED
  BY <1>1, <1>2, <1>3

\* The group OpenIM holds once it is asked for one.
Known(h) == IF h.status = "none" THEN [GroupSeen EXCEPT !.status = "active", !.muted = FALSE]
            ELSE h

LEMMA EnsureServes ==
  ASSUME group \in GroupSet, userActive \in BOOLEAN, group.status = "active",
         NEW h \in GroupSet, NEW a \in Parts, NEW m
  PROVE  /\ Known(h) \in GroupSet /\ Known(h).status # "none"
         /\ GroupAgrees(a, group, m, h) => GroupAgrees(a, group, m, Known(h))
<1>1. CASE h.status = "none"
  <2>1. Known(h) = [GroupSeen EXCEPT !.status = "active", !.muted = FALSE]
    BY <1>1 DEF Known
  <2>2. /\ Known(h) \in GroupSet /\ Known(h).status = "active"
        /\ Known(h).member = Listed /\ Known(h).muted = FALSE
    BY <2>1, SeenType DEF GroupSet
  <2>3. group.muted \in BOOLEAN /\ group.member \in BOOLEAN /\ (Listed => group.member)
    BY DEF GroupSet, Listed
  <2> HIDE DEF Known
  <2>4. GroupAgrees(a, group, m, h) => GroupAgrees(a, group, m, Known(h))
    BY <1>1, <2>2, <2>3 DEF GroupAgrees
  <2> QED
    BY <2>2, <2>4
<1>2. CASE h.status # "none"
  BY <1>2 DEF Known
<1> QED
  BY <1>1, <1>2

\* A call about the group changes what OpenIM holds of the group only.
LEMMA GroupCall ==
  ASSUME NEW s \in OpenIMSet, NEW x,
         x.op \in {"ensure", "rename", "member", "fill", "mute", "dismiss"}
  PROVE  /\ After(x, s).links = s.links /\ After(x, s).black = s.black
         /\ After(x, s).group = GroupAfter(x, s.group)
<1>1. After(x, s) = [s EXCEPT !.group = GroupAfter(x, @)]
  BY DEF After
<1> QED
  BY <1>1 DEF OpenIMSet

LEMMA GroupServesBy ==
  ASSUME NEW job \in RowSet, job.event \in GroupEvents, NEW a \in Parts,
         NEW s, NEW m, NEW e,
         First(CallsFor(job), s) = m, Final(CallsFor(job), s) = e,
         m.links = s.links, m.black = s.black, e.links = s.links, e.black = s.black,
         LET n == NowMissed(job.event) IN
         /\ ~Brings(job.event, a) /\ GroupAgrees(a, group, n, s.group) =>
              GroupAgrees(a, group, n, m.group) /\ GroupAgrees(a, group, n, e.group)
         /\ Brings(job.event, a) => GroupAgrees(a, group, n, e.group)
  PROVE  Serves(job, a, s)
<1> DEFINE n == NowMissed(job.event)
<1> HIDE DEF n
<1>1. /\ WantNow(job).links = Want.links /\ WantNow(job).black = Want.black
      /\ Want.group = group /\ WantNow(job).group = group
      /\ Want.missed = missed /\ WantNow(job).missed = n
  BY WantIs DEF n
<1>2. Brings(job.event, a) => a \notin {"friend", "block"}
  BY DEF Brings, GroupEvents
<1>3. ASSUME ~Brings(job.event, a), Agree(a, Want, s)
      PROVE  /\ Agree(a, WantNow(job), s)
             /\ Agree(a, WantNow(job), m) /\ Agree(a, WantNow(job), e)
  <2>1. GroupAgrees(a, group, missed, s.group)
    BY <1>1, <1>3 DEF Agree
  <2>2. GroupAgrees(a, group, n, s.group)
    BY <1>3, <2>1, MissedMore DEF n
  <2>3. GroupAgrees(a, group, n, m.group) /\ GroupAgrees(a, group, n, e.group)
    BY <1>3, <2>2 DEF n
  <2> QED
    BY <1>1, <1>3, <2>2, <2>3 DEF Agree
<1>4. Brings(job.event, a) => Agree(a, WantNow(job), e)
  BY <1>1, <1>2 DEF Agree, n
<1> QED
  BY <1>3, <1>4 DEF Serves

LEMMA DismissServes ==
  ASSUME TypeOK, NEW job \in RowSet, job.event = "dismissed", group.status = "dismissed",
         NEW a \in Parts, NEW s \in OpenIMSet
  PROVE  Serves(job, a, s)
<1> DEFINE x == Request("dismiss", TRUE)
           m == After(x, s)
           h == s.group
           n == NowMissed(job.event)
<1>1. First(CallsFor(job), s) = m /\ Final(CallsFor(job), s) = m
  BY DismissCalls
<1>2. m.links = s.links /\ m.black = s.black /\ m.group = GroupAfter(x, h)
  BY GroupCall DEF Request
<1>3. h \in GroupSet /\ group \in GroupSet
  BY DEF OpenIMSet, TypeOK
<1>4. GroupAfter(x, h) = IF h.status = "none" THEN h ELSE [h EXCEPT !.status = "dismissed"]
  BY DEF GroupAfter, Request
<1>5. /\ m.group.status # "active"
      /\ m.group.member = h.member /\ m.group.muted = h.muted
  BY <1>2, <1>3, <1>4 DEF GroupSet
<1> HIDE DEF x, m, h, n
<1>6. GroupAgrees(a, group, n, m.group)
  BY <1>5 DEF GroupAgrees
<1> QED
  BY <1>1, <1>2, <1>6, GroupServesBy DEF GroupEvents, Events, n

LEMMA CreateServes ==
  ASSUME TypeOK, NEW job \in RowSet, job.event = "created", group.status = "active",
         NEW a \in Parts, NEW s \in OpenIMSet
  PROVE  Serves(job, a, s)
<1> DEFINE x == Request("ensure", GroupSeen)
           y == Request("fill", Listed)
           m == After(x, s)
           e == After(y, m)
           h == s.group
           n == NowMissed(job.event)
<1>1. First(CallsFor(job), s) = m /\ Final(CallsFor(job), s) = e
  BY CreateCalls
<1>2. h \in GroupSet /\ group \in GroupSet /\ userActive \in BOOLEAN
  BY DEF OpenIMSet, TypeOK
<1>3. m.links = s.links /\ m.black = s.black /\ m.group = Known(h)
  <2>1. x.op = "ensure" /\ x.value = GroupSeen
    BY DEF Request
  <2>2. GroupAfter(x, h) = Known(h)
    BY <2>1 DEF GroupAfter, Known
  <2> HIDE DEF x
  <2> QED
    BY <2>1, <2>2, GroupCall
<1>4. m \in OpenIMSet
  BY <1>2, SeenType, AfterType DEF CallSet, Request
<1> HIDE DEF m
<1>5. e.links = m.links /\ e.black = m.black /\ e.group = GroupAfter(y, m.group)
  BY <1>4, GroupCall DEF Request
<1>6. e.group = [m.group EXCEPT !.member = @ \/ Listed]
  BY <1>5 DEF GroupAfter, Request
<1>7. /\ m.group \in GroupSet /\ m.group.status # "none"
      /\ GroupAgrees(a, group, n, h) => GroupAgrees(a, group, n, m.group)
  BY <1>2, <1>3, EnsureServes
<1>8. /\ e.group.status = m.group.status /\ e.group.muted = m.group.muted
      /\ e.group.member = (m.group.member \/ Listed)
  BY <1>6, <1>7 DEF GroupSet
<1>12. (Listed => group.member) /\ (group.member /\ ~n => Listed)
  BY DEF Listed, NowMissed
<1> HIDE DEF x, y, e, h, n
<1>9. GroupAgrees(a, group, n, m.group) => GroupAgrees(a, group, n, e.group)
  BY <1>7, <1>8, <1>12 DEF GroupAgrees
<1>10. a \in {"exists", "joined"} => GroupAgrees(a, group, n, e.group)
  BY <1>7, <1>8, <1>12 DEF GroupAgrees
<1>11. Brings(job.event, a) => a \in {"exists", "joined"}
  BY DEF Brings
<1> QED
  BY <1>1, <1>3, <1>5, <1>7, <1>9, <1>10, <1>11, GroupServesBy DEF GroupEvents, Events, h, n

LEMMA RenameServes ==
  ASSUME TypeOK, NEW job \in RowSet, job.event = "updated", job.name \in Names,
         group.status = "active", NEW a \in Parts, NEW s \in OpenIMSet
  PROVE  Serves(job, a, s)
<1> DEFINE v == [group |-> GroupSeen, name |-> job.name]
           x == Request("rename", v)
           m == After(x, s)
           h == s.group
           n == NowMissed(job.event)
<1>1. First(CallsFor(job), s) = m /\ Final(CallsFor(job), s) = m
  BY RenameCalls
<1>2. h \in GroupSet /\ group \in GroupSet /\ userActive \in BOOLEAN
  BY DEF OpenIMSet, TypeOK
<1>3. m.links = s.links /\ m.black = s.black /\ m.group = GroupAfter(x, h)
  BY GroupCall DEF Request
<1>4. CASE h.status = "none"
  <2>1. m.group = Known(h)
    BY <1>3, <1>4 DEF GroupAfter, Request, Known
  <2> HIDE DEF x, m, n
  <2>2. GroupAgrees(a, group, n, h) => GroupAgrees(a, group, n, m.group)
    BY <1>2, <2>1, EnsureServes
  <2>3. ~Brings(job.event, a)
    BY DEF Brings
  <2> QED
    BY <1>1, <1>3, <2>2, <2>3, GroupServesBy DEF GroupEvents, Events, n
<1>5. CASE h.status # "none"
  <2>1. m.group = [h EXCEPT !.name = job.name]
    BY <1>3, <1>5 DEF GroupAfter, Request
  <2>2. m.group.status = h.status /\ m.group.member = h.member /\ m.group.muted = h.muted
    BY <1>2, <2>1 DEF GroupSet
  <2> HIDE DEF x, m, n
  <2>3. GroupAgrees(a, group, n, h) => GroupAgrees(a, group, n, m.group)
    BY <2>2 DEF GroupAgrees
  <2>4. ~Brings(job.event, a)
    BY DEF Brings
  <2> QED
    BY <1>1, <1>3, <2>3, <2>4, GroupServesBy DEF GroupEvents, Events, n
<1> QED
  BY <1>4, <1>5

LEMMA MuteServes ==
  ASSUME TypeOK, NEW job \in RowSet, job.event = "muted", group.status = "active",
         NEW a \in Parts, NEW s \in OpenIMSet
  PROVE  Serves(job, a, s)
<1> DEFINE x == Request("ensure", GroupSeen)
           y == Request("mute", group.muted)
           m == After(x, s)
           e == After(y, m)
           h == s.group
           n == NowMissed(job.event)
<1>1. First(CallsFor(job), s) = m /\ Final(CallsFor(job), s) = e
  BY MuteCalls
<1>2. h \in GroupSet /\ group \in GroupSet /\ userActive \in BOOLEAN
  BY DEF OpenIMSet, TypeOK
<1>3. m.links = s.links /\ m.black = s.black /\ m.group = Known(h)
  <2>1. x.op = "ensure" /\ x.value = GroupSeen
    BY DEF Request
  <2>2. GroupAfter(x, h) = Known(h)
    BY <2>1 DEF GroupAfter, Known
  <2> HIDE DEF x
  <2> QED
    BY <2>1, <2>2, GroupCall
<1>4. m \in OpenIMSet
  BY <1>2, SeenType, AfterType DEF CallSet, Request
<1> HIDE DEF m
<1>5. e.links = m.links /\ e.black = m.black /\ e.group = GroupAfter(y, m.group)
  BY <1>4, GroupCall DEF Request
<1>6. e.group = [m.group EXCEPT !.muted = group.muted]
  BY <1>5 DEF GroupAfter, Request
<1>7. /\ m.group \in GroupSet /\ m.group.status # "none"
      /\ GroupAgrees(a, group, n, h) => GroupAgrees(a, group, n, m.group)
  BY <1>2, <1>3, EnsureServes
<1>8. /\ e.group.status = m.group.status /\ e.group.muted = group.muted
      /\ e.group.member = m.group.member
  BY <1>6, <1>7 DEF GroupSet
<1> HIDE DEF x, y, e, h, n
<1>9. GroupAgrees(a, group, n, m.group) => GroupAgrees(a, group, n, e.group)
  BY <1>7, <1>8 DEF GroupAgrees
<1>10. a = "muted" => GroupAgrees(a, group, n, e.group)
  BY <1>7, <1>8 DEF GroupAgrees
<1>11. Brings(job.event, a) => a = "muted"
  BY DEF Brings
<1> QED
  BY <1>1, <1>3, <1>5, <1>7, <1>9, <1>10, <1>11, GroupServesBy DEF GroupEvents, Events, h, n

LEMMA JoinServes ==
  ASSUME TypeOK, NEW job \in RowSet, job.event \in {"joined", "left"},
         group.status = "active", NEW a \in Parts, NEW s \in OpenIMSet
  PROVE  Serves(job, a, s)
<1> DEFINE x == Request("ensure", GroupSeen)
           y == Request("member", Listed)
           m == After(x, s)
           e == After(y, m)
           h == s.group
           n == NowMissed(job.event)
           due == Listed = (job.event = "joined")
<1>1. /\ First(CallsFor(job), s) = m
      /\ Final(CallsFor(job), s) = IF due THEN e ELSE m
  BY JoinCalls
<1>2. h \in GroupSet /\ group \in GroupSet /\ userActive \in BOOLEAN
  BY DEF OpenIMSet, TypeOK, GroupSet
<1>3. m.links = s.links /\ m.black = s.black /\ m.group = Known(h)
  <2>1. x.op = "ensure" /\ x.value = GroupSeen
    BY DEF Request
  <2>2. GroupAfter(x, h) = Known(h)
    BY <2>1 DEF GroupAfter, Known
  <2> HIDE DEF x
  <2> QED
    BY <2>1, <2>2, GroupCall
<1>4. m \in OpenIMSet
  BY <1>2, SeenType, AfterType DEF CallSet, Request
<1> HIDE DEF m
<1>5. e.links = m.links /\ e.black = m.black /\ e.group = GroupAfter(y, m.group)
  BY <1>4, GroupCall DEF Request
<1>6. e.group = [m.group EXCEPT !.member = Listed]
  BY <1>5 DEF GroupAfter, Request
<1>7. /\ m.group \in GroupSet /\ m.group.status # "none"
      /\ GroupAgrees(a, group, n, h) => GroupAgrees(a, group, n, m.group)
  BY <1>2, <1>3, EnsureServes
<1>8. /\ e.group.status = m.group.status /\ e.group.muted = m.group.muted
      /\ e.group.member = Listed
  BY <1>6, <1>7 DEF GroupSet
<1>9. Brings(job.event, a) => a \in {"joined", "left"} /\ a = job.event
  BY DEF Brings
<1>12. /\ Listed => group.member
       /\ group.member /\ ~n => Listed
       /\ group.member \in BOOLEAN /\ Listed \in BOOLEAN
  BY <1>2, SeenType DEF Listed, NowMissed, GroupSet
<1> HIDE DEF x, y, e, h, n
<1>10. CASE due
  <2>1. GroupAgrees(a, group, n, m.group) => GroupAgrees(a, group, n, e.group)
    BY <1>7, <1>8, <1>10, <1>12 DEF GroupAgrees
  <2>2. Brings(job.event, a) => GroupAgrees(a, group, n, e.group)
    <3>1. a \in {"joined", "left"} /\ a = job.event => GroupAgrees(a, group, n, e.group)
      BY <1>7, <1>8, <1>9, <1>10, <1>12 DEF GroupAgrees
    <3> QED
      BY <1>9, <3>1
  <2>3. Final(CallsFor(job), s) = e
    BY <1>1, <1>10
  <2> QED
    BY <1>1, <1>3, <1>5, <1>7, <2>1, <2>2, <2>3, GroupServesBy
    DEF GroupEvents, Events, h, n
<1>11. CASE ~due
  <2>1. Brings(job.event, a) => GroupAgrees(a, group, n, m.group)
    <3>1. a = "joined" /\ job.event = "joined" => GroupAgrees(a, group, n, m.group)
      BY <1>11, <1>12 DEF GroupAgrees
    <3>2. a = "left" /\ job.event = "left" => GroupAgrees(a, group, n, m.group)
      BY <1>11, <1>12 DEF GroupAgrees
    <3> QED
      BY <1>9, <3>1, <3>2
  <2>2. Final(CallsFor(job), s) = m
    BY <1>1, <1>11
  <2> QED
    BY <1>1, <1>3, <1>7, <2>1, <2>2, GroupServesBy DEF GroupEvents, Events, h, n
<1> QED
  BY <1>10, <1>11

LEMMA ClosedServes ==
  ASSUME NEW job \in RowSet, job.event \in GroupEvents \ {"dismissed"},
         group.status # "active", NEW a \in Parts, NEW s
  PROVE  Serves(job, a, s)
<1> DEFINE n == NowMissed(job.event)
<1>1. First(CallsFor(job), s) = s /\ Final(CallsFor(job), s) = s
  BY ClosedCalls, NoCall
<1>2. Brings(job.event, a) => a \in {"exists", "joined", "left", "muted"}
  BY DEF Brings, GroupEvents
<1>3. a \in {"exists", "joined", "left", "muted"} => GroupAgrees(a, group, n, s.group)
  BY DEF GroupAgrees
<1> QED
  BY <1>1, <1>2, <1>3, GroupServesBy DEF n

\* What a renaming brings is a name; the rows of a group exist once it does, and a
\* dismissal's once it is dismissed.
RowMeans(job, g) ==
  /\ job.event = "updated" => job.name \in Names
  /\ job.event \in GroupEvents => g.status # "none"
  /\ job.event = "dismissed" => g.status = "dismissed"

LEMMA RowServes ==
  ASSUME TypeOK, NEW job \in RowSet, RowMeans(job, group), NEW a \in Parts, NEW s \in OpenIMSet
  PROVE  Serves(job, a, s)
<1>1. job.event \in Events
  BY DEF RowSet
<1>2. CASE job.event \in {"friend", "block"}
  BY <1>2, PairServes
<1>3. CASE job.event = "dismissed"
  BY <1>3, DismissServes DEF RowMeans
<1>4. CASE job.event \in GroupEvents \ {"dismissed"} /\ group.status # "active"
  BY <1>4, ClosedServes
<1>5. CASE job.event \in GroupEvents \ {"dismissed"} /\ group.status = "active"
  <2>1. job.event \in {"created", "updated", "joined", "left", "muted"}
    BY <1>5 DEF Events, GroupEvents
  <2> QED
    BY <1>5, <2>1, CreateServes, RenameServes, MuteServes, JoinServes DEF RowMeans
<1> QED
  BY <1>1, <1>2, <1>3, <1>4, <1>5 DEF Events, GroupEvents

-----------------------------------------------------------------------------
(* Typing                                                                  *)

CallsOK ==
  calls \in [Workers -> Seq(CallSet)] /\ \A w \in Workers : Short(calls[w])

\* A worker's calls change to another plan.
LEMMA PlanType ==
  ASSUME CallsOK, NEW w \in Workers, NEW c, Short(c), calls' = [calls EXCEPT ![w] = c]
  PROVE  /\ CallsOK' /\ calls'[w] = c
         /\ \A v \in Workers \ {w} : calls'[v] = calls[v]
<1>1. calls \in [Workers -> Seq(CallSet)] /\ c \in Seq(CallSet)
  BY DEF CallsOK, Short
<1>2. /\ calls' \in [Workers -> Seq(CallSet)] /\ calls'[w] = c
      /\ \A v \in Workers \ {w} : calls'[v] = calls[v]
  BY <1>1
<1> QED
  BY <1>2 DEF CallsOK

Stages ==
  /\ \A j \in Ids : RowMeans(jobs[j], group)
  /\ group.status = "none" => ~group.member /\ ~group.muted

\* A row is in the hands of a worker that calls OpenIM or has failed to.
NowOK == \A w \in Workers : state[w] \in {"calling", "failed"} => now[w] \in Ids

SyncInv == TypeOK /\ CallsOK /\ NowOK /\ Stages

LEMMA SyncInit == Init => SyncInv
<1> SUFFICES ASSUME Init PROVE SyncInv
  OBVIOUS
<1>1. PICK n \in Names :
        group = [status |-> "none", name |-> n, member |-> FALSE, muted |-> FALSE]
  BY DEF Init
<1>2. /\ group \in GroupSet /\ group.status = "none"
      /\ group.member = FALSE /\ group.muted = FALSE
  BY <1>1 DEF GroupSet
<1>3. /\ jobs = <<>> /\ jobs \in Seq(RowSet) /\ Len(jobs) = 0 /\ Ids = {}
  <2>1. jobs = <<>>
    BY DEF Init
  <2>2. jobs \in Seq(RowSet) /\ Len(jobs) = 0
    BY <2>1, EmptySeq
  <2>3. Ids = 1..0
    BY <2>2, LenProperties DEF Ids
  <2> QED
    BY <2>1, <2>2, <2>3
<1>4. 0 <= MaxJobs
  BY SyncAssumption
<1>5. openim \in [links : SUBSET Both, black : BOOLEAN, group : GroupSet]
  BY <1>2 DEF Init
<1>6. /\ state \in [Workers -> {"new", "idle", "calling", "failed", "down"}]
      /\ todo \in [Workers -> SUBSET Ids]
      /\ now \in [Workers -> Ids \cup {0}]
  <2>1. state \in [Workers -> {"new", "idle", "calling", "failed", "down"}]
    BY DEF Init
  <2>2. todo = [w \in Workers |-> {}] /\ now = [w \in Workers |-> 0]
    BY DEF Init
  <2>3. todo \in [Workers -> SUBSET Ids]
    BY <2>2
  <2>4. now \in [Workers -> Ids \cup {0}]
    BY <2>2
  <2> QED
    BY <2>1, <2>3, <2>4
<1>7. TypeOK
  BY <1>2, <1>3, <1>4, <1>5, <1>6 DEF Init, TypeOK
<1>8. CallsOK
  <2>1. calls = [w \in Workers |-> <<>>]
    BY DEF Init
  <2>2. <<>> \in Seq(CallSet)
    BY EmptySeq
  <2> QED
    BY <2>1, <2>2, NoCall DEF CallsOK
<1>9. Stages
  BY <1>2, <1>3 DEF Stages
<1>10. NowOK
  BY DEF Init, NowOK
<1> QED
  BY <1>7, <1>8, <1>9, <1>10 DEF SyncInv

\* Rows keep their place, their event and their name; a row that was not completed
\* is completed by MarkCompleted only.
Kept(settles) ==
  /\ jobs' \in Seq(RowSet) /\ Len(jobs') <= MaxJobs
  /\ Ids \subseteq Ids'
  /\ \A j \in Ids : /\ jobs'[j].event = jobs[j].event /\ jobs'[j].name = jobs[j].name
                    /\ jobs'[j].status = "completed" /\ j \notin settles
                         => jobs[j].status = "completed"

LEMMA JobsType ==
  ASSUME TypeOK
  PROVE  /\ Len(jobs) \in Nat /\ Ids = 1..Len(jobs) /\ 0 \notin Ids
         /\ \A j \in Ids : jobs[j] \in RowSet
<1>1. jobs \in Seq(RowSet)
  BY DEF TypeOK
<1> QED
  BY <1>1, LenProperties, ElementOfSeq DEF Ids

LEMMA SameJobs == ASSUME TypeOK, UNCHANGED jobs PROVE Kept({}) /\ Ids' = Ids
BY DEF TypeOK, Kept, Ids

LEMMA RowType ==
  ASSUME NEW event \in Events, NEW name \in Names \cup {"none"}
  PROVE  /\ Row(event, name) \in RowSet
         /\ Row(event, name).event = event /\ Row(event, name).name = name
         /\ Row(event, name).status = "pending"
<1>1. 0 \in 0..MaxAttempts
  BY SyncAssumption
<1> QED
  BY <1>1 DEF Row, RowSet, Unsettled

LEMMA Enqueued ==
  ASSUME TypeOK, NEW R, R \subseteq RowSet, NEW rows \in Seq(R), Enqueue(rows)
  PROVE  /\ Kept({})
         /\ \A j \in Ids : jobs'[j] = jobs[j]
         /\ \A j \in Ids' \ Ids : jobs'[j] \in R
         /\ \A i \in 1..Len(rows) : \E j \in Ids' \ Ids : jobs'[j] = rows[i]
         /\ UNCHANGED <<state, todo, now, calls, openim, missed>>
<1>1. /\ jobs' = jobs \o rows /\ Len(jobs) + Len(rows) <= MaxJobs
      /\ UNCHANGED <<state, todo, now, calls, openim, missed>>
  BY DEF Enqueue, worker
<1>2. jobs \in Seq(RowSet) /\ rows \in Seq(RowSet)
  BY SeqMonotonic DEF TypeOK
<1>3. /\ Len(jobs) \in Nat /\ Len(rows) \in Nat /\ Ids = 1..Len(jobs)
      /\ \A i \in 1..Len(rows) : rows[i] \in R
  BY <1>2, LenProperties, ElementOfSeq DEF Ids
<1>4. /\ jobs' \in Seq(RowSet) /\ Len(jobs') = Len(jobs) + Len(rows)
      /\ \A i \in 1..(Len(jobs) + Len(rows)) :
           jobs'[i] = IF i <= Len(jobs) THEN jobs[i] ELSE rows[i - Len(jobs)]
  BY <1>1, <1>2, ConcatProperties
<1>5. Ids' = 1..(Len(jobs) + Len(rows))
  BY <1>4, LenProperties DEF Ids
<1>6. \A j \in Ids : j \in Ids' /\ jobs'[j] = jobs[j]
  BY <1>3, <1>4, <1>5
<1>7. \A j \in Ids' \ Ids : jobs'[j] \in R
  <2>1. SUFFICES ASSUME NEW j \in Ids' \ Ids PROVE jobs'[j] \in R
    OBVIOUS
  <2>2. j - Len(jobs) \in 1..Len(rows) /\ jobs'[j] = rows[j - Len(jobs)]
    BY <1>3, <1>4, <1>5, <2>1
  <2> QED
    BY <1>3, <2>2
<1>8. ASSUME NEW i \in 1..Len(rows)
      PROVE  \E j \in Ids' \ Ids : jobs'[j] = rows[i]
  <2>1. /\ Len(jobs) + i \in Ids' \ Ids
        /\ jobs'[Len(jobs) + i] = rows[(Len(jobs) + i) - Len(jobs)]
    BY <1>3, <1>4, <1>5
  <2>2. (Len(jobs) + i) - Len(jobs) = i
    BY <1>3
  <2> QED
    BY <2>1, <2>2
<1>9. Kept({})
  BY <1>1, <1>4, <1>6 DEF Kept
<1> QED
  BY <1>1, <1>6, <1>7, <1>8, <1>9

\* One row for one change.
LEMMA EnqueuedOne ==
  ASSUME TypeOK, NEW event \in Events, NEW name \in Names \cup {"none"},
         Enqueue(<<Row(event, name)>>)
  PROVE  /\ Kept({})
         /\ \A j \in Ids : jobs'[j] = jobs[j]
         /\ \A j \in Ids' \ Ids : jobs'[j] = Row(event, name)
         /\ \E j \in Ids' \ Ids : jobs'[j] = Row(event, name)
         /\ UNCHANGED <<state, todo, now, calls, openim, missed>>
<1> DEFINE x == Row(event, name)
<1>1. x \in RowSet
  BY RowType
<1> HIDE DEF x
<1>2. /\ {x} \subseteq RowSet /\ <<x>> \in Seq({x}) /\ Len(<<x>>) = 1 /\ <<x>>[1] = x
      /\ 1 \in 1..1
  BY <1>1
<1>3. Enqueue(<<x>>)
  BY DEF x
<1>4. /\ Kept({})
      /\ \A j \in Ids : jobs'[j] = jobs[j]
      /\ \A j \in Ids' \ Ids : jobs'[j] \in {x}
      /\ \A i \in 1..Len(<<x>>) : \E j \in Ids' \ Ids : jobs'[j] = <<x>>[i]
      /\ UNCHANGED <<state, todo, now, calls, openim, missed>>
  BY <1>2, <1>3, Enqueued
<1>5. \E j \in Ids' \ Ids : jobs'[j] = x
  BY <1>2, <1>4
<1> QED
  BY <1>4, <1>5 DEF x

\* A business transaction writes a row for each agreement it may end, or leaves the
\* agreement as it is.
Announced(a) ==
  \/ \E j \in Ids' \ Ids : Brings(jobs'[j].event, a)
  \/ \A s : Agree(a, Want, s) /\ Agree("unknown", Want, s) => Agree(a, Want', s)

BusinessKeeps ==
  /\ Kept({})
  /\ about' \in {"pair", "group"} /\ friends' \in BOOLEAN /\ blocked' \in BOOLEAN
  /\ group' \in GroupSet /\ userActive' \in BOOLEAN
  /\ group.status # "none" => group'.status # "none"
  /\ group.status = "dismissed" => group'.status = "dismissed"
  /\ group'.status = "none" => group' = group
  /\ \A j \in Ids : jobs[j].status # "dead" => jobs'[j] = jobs[j]
  /\ \A j \in Ids' \ Ids : jobs'[j].status = "pending" /\ RowMeans(jobs'[j], group')
  /\ \A a \in Parts : Announced(a)
  /\ UNCHANGED <<state, todo, now, calls, openim, missed>>

LEMMA WantSame ==
  ASSUME UNCHANGED <<friends, blocked, group, missed>>
  PROVE  \A a \in Parts : Announced(a)
BY DEF Announced, Want

LEMMA PairKeeps ==
  ASSUME SyncInv, ChangeFriendship \/ ChangeBlock
  PROVE  BusinessKeeps
<1> DEFINE e == IF ChangeFriendship THEN "friend" ELSE "block"
<1>1. /\ UNCHANGED <<about, group, userActive>>
      /\ e = "friend" => friends' \in BOOLEAN /\ UNCHANGED blocked
      /\ e = "block" => blocked' \in BOOLEAN /\ UNCHANGED friends
      /\ e \in {"friend", "block"} /\ Enqueue(<<Row(e, "none")>>)
  BY DEF ChangeFriendship, ChangeBlock, Event
<1> HIDE DEF e
<1>2. TypeOK /\ e \in Events
  BY <1>1 DEF SyncInv, Events
<1>3. /\ Kept({})
      /\ \A j \in Ids : jobs'[j] = jobs[j]
      /\ \A j \in Ids' \ Ids : jobs'[j] = Row(e, "none")
      /\ \E j \in Ids' \ Ids : jobs'[j] = Row(e, "none")
      /\ UNCHANGED <<state, todo, now, calls, openim, missed>>
  BY <1>1, <1>2, EnqueuedOne
<1>4. Row(e, "none").event = e /\ Row(e, "none").status = "pending"
  BY <1>2, RowType
<1>5. \A j \in Ids' \ Ids : jobs'[j].status = "pending" /\ RowMeans(jobs'[j], group')
  BY <1>1, <1>3, <1>4 DEF RowMeans, GroupEvents
<1>6. ASSUME NEW a \in Parts PROVE Announced(a)
  <2>1. CASE a = e
    BY <1>1, <1>3, <1>4, <2>1 DEF Announced, Brings
  <2>2. CASE a # e
    <3>1. Want'.group = Want.group /\ Want'.missed = Want.missed
      BY <1>1, <1>3 DEF Want
    <3>2. a = "friend" => Want'.links = Want.links
      BY <1>1, <2>2 DEF Want
    <3>3. a = "block" => Want'.black = Want.black
      BY <1>1, <2>2 DEF Want
    <3>4. \A s : Agree(a, Want, s) => Agree(a, Want', s)
      BY <3>1, <3>2, <3>3 DEF Agree
    <3> QED
      BY <3>4 DEF Announced
  <2> QED
    BY <2>1, <2>2
<1>7. /\ about' \in {"pair", "group"} /\ friends' \in BOOLEAN /\ blocked' \in BOOLEAN
      /\ group' \in GroupSet /\ userActive' \in BOOLEAN
  BY <1>1, <1>2 DEF TypeOK
<1> QED
  BY <1>1, <1>3, <1>5, <1>6, <1>7 DEF BusinessKeeps

\* A change of the group with one row.
GroupRow(e, n) ==
  /\ UNCHANGED <<about, friends, blocked, userActive>>
  /\ group' \in GroupSet
  /\ Enqueue(<<Row(e, n)>>)

\* The agreements that need no row of event e.
Spares(e) ==
  \A a \in Parts : \A h :
    ~Brings(e, a) /\ GroupAgrees(a, group, missed, h)
        /\ GroupAgrees("unknown", group, missed, h)
      => GroupAgrees(a, group', missed, h)

LEMMA GroupKeeps ==
  ASSUME SyncInv, NEW e \in GroupEvents, NEW n \in Names \cup {"none"}, GroupRow(e, n),
         e = "updated" => n \in Names,
         group'.status # "none",
         group.status = "dismissed" \/ e = "dismissed" => group'.status = "dismissed",
         Spares(e)
  PROVE  BusinessKeeps
<1>1. TypeOK /\ e \in Events
  BY DEF SyncInv, GroupEvents
<1>2. /\ Kept({})
      /\ \A j \in Ids : jobs'[j] = jobs[j]
      /\ \A j \in Ids' \ Ids : jobs'[j] = Row(e, n)
      /\ \E j \in Ids' \ Ids : jobs'[j] = Row(e, n)
      /\ UNCHANGED <<state, todo, now, calls, openim, missed>>
  BY <1>1, EnqueuedOne DEF GroupRow
<1>3. Row(e, n).event = e /\ Row(e, n).name = n /\ Row(e, n).status = "pending"
  BY <1>1, RowType
<1>4. \A j \in Ids' \ Ids : jobs'[j].status = "pending" /\ RowMeans(jobs'[j], group')
  BY <1>2, <1>3 DEF RowMeans
<1>5. ASSUME NEW a \in Parts PROVE Announced(a)
  <2>1. CASE Brings(e, a)
    BY <1>2, <1>3, <2>1 DEF Announced
  <2>2. CASE ~Brings(e, a)
    <3>1. \A h : GroupAgrees(a, group, missed, h) /\ GroupAgrees("unknown", group, missed, h)
                   => GroupAgrees(a, group', missed, h)
      BY <2>2 DEF Spares
    <3>2. /\ Want.group = group /\ Want'.group = group'
          /\ Want'.links = Want.links /\ Want'.black = Want.black
          /\ Want.missed = missed /\ Want'.missed = missed
      BY <1>2 DEF Want, GroupRow
    <3>3. \A s : Agree(a, Want, s) /\ Agree("unknown", Want, s) => Agree(a, Want', s)
      BY <3>1, <3>2 DEF Agree
    <3> QED
      BY <3>3 DEF Announced
  <2> QED
    BY <2>1, <2>2
<1>6. /\ about' \in {"pair", "group"} /\ friends' \in BOOLEAN /\ blocked' \in BOOLEAN
      /\ group' \in GroupSet /\ userActive' \in BOOLEAN
  BY <1>1 DEF TypeOK, GroupRow
<1> QED
  BY <1>2, <1>4, <1>5, <1>6 DEF BusinessKeeps

LEMMA CreateKeeps == ASSUME SyncInv, CreateGroup PROVE BusinessKeeps
<1>1. PICK m \in BOOLEAN : group' = [group EXCEPT !.status = "active", !.member = m]
  BY DEF CreateGroup
<1>2. group \in GroupSet /\ group.status = "none" /\ group.muted = FALSE
  BY DEF SyncInv, TypeOK, Stages, CreateGroup, GroupSet
<1>3. /\ group' \in GroupSet /\ group'.status = "active" /\ group'.muted = FALSE
      /\ group'.member \in BOOLEAN
  BY <1>1, <1>2 DEF GroupSet
<1>4. GroupRow("created", "none")
  BY <1>3 DEF CreateGroup, Event, GroupRow
<1>5. ASSUME NEW a \in Parts, ~Brings("created", a), NEW h,
             GroupAgrees(a, group, missed, h), GroupAgrees("unknown", group, missed, h)
      PROVE  GroupAgrees(a, group', missed, h)
  <2>1. a \notin {"exists", "joined"}
    BY <1>5 DEF Brings
  <2>2. h.status = "none" /\ h.muted = FALSE /\ ~h.member
    BY <1>2, <1>5 DEF GroupAgrees
  <2> QED
    BY <1>3, <2>1, <2>2 DEF GroupAgrees
<1>s. Spares("created")
  BY <1>5 DEF Spares
<1>6. "created" \in GroupEvents
  BY DEF GroupEvents, Events
<1> QED
  BY <1>2, <1>3, <1>4, <1>s, <1>6, GroupKeeps

LEMMA RenameKeeps == ASSUME SyncInv, NEW n \in Names, RenameGroup(n) PROVE BusinessKeeps
<1>1. group \in GroupSet /\ group.status = "active" /\ group' = [group EXCEPT !.name = n]
  BY DEF SyncInv, TypeOK, RenameGroup
<1>2. /\ group' \in GroupSet /\ group'.status = "active"
      /\ group'.muted = group.muted /\ group'.member = group.member
  BY <1>1 DEF GroupSet
<1>3. GroupRow("updated", n)
  BY <1>2 DEF RenameGroup, GroupRow
<1>4. ASSUME NEW a \in Parts, NEW h, GroupAgrees(a, group, missed, h)
      PROVE  GroupAgrees(a, group', missed, h)
  BY <1>1, <1>2, <1>4 DEF GroupAgrees
<1>s. Spares("updated")
  BY <1>4 DEF Spares
<1>5. "updated" \in GroupEvents
  BY DEF GroupEvents, Events
<1> QED
  BY <1>1, <1>2, <1>3, <1>s, <1>5, GroupKeeps

LEMMA JoinKeeps == ASSUME SyncInv, MemberJoins \/ InviteAgain PROVE BusinessKeeps
<1>1. /\ group \in GroupSet /\ group.status = "active"
      /\ group' = [group EXCEPT !.member = TRUE] \/ group' = group
  BY DEF SyncInv, TypeOK, MemberJoins, InviteAgain, business
<1>2. /\ group' \in GroupSet /\ group'.status = "active" /\ group'.muted = group.muted
      /\ group'.member = group.member \/ group'.member = TRUE
  BY <1>1 DEF GroupSet
<1>3. GroupRow("joined", "none")
  BY <1>2 DEF MemberJoins, InviteAgain, Event, GroupRow, business
<1>4. ASSUME NEW a \in Parts, ~Brings("joined", a), NEW h, GroupAgrees(a, group, missed, h)
      PROVE  GroupAgrees(a, group', missed, h)
  <2>1. a # "joined"
    BY <1>4 DEF Brings
  <2> QED
    BY <1>1, <1>2, <1>4, <2>1 DEF GroupAgrees
<1>s. Spares("joined")
  BY <1>4 DEF Spares
<1>5. "joined" \in GroupEvents
  BY DEF GroupEvents, Events
<1> QED
  BY <1>1, <1>2, <1>3, <1>s, <1>5, GroupKeeps

LEMMA LeaveKeeps == ASSUME SyncInv, MemberLeaves PROVE BusinessKeeps
<1>1. /\ group \in GroupSet /\ group.status # "none"
      /\ group' = [group EXCEPT !.member = FALSE]
  BY DEF SyncInv, TypeOK, MemberLeaves
<1>2. /\ group' \in GroupSet /\ group'.status = group.status
      /\ group'.muted = group.muted /\ group'.member = FALSE
  BY <1>1 DEF GroupSet
<1>3. GroupRow("left", "none")
  BY <1>2 DEF MemberLeaves, Event, GroupRow
<1>4. ASSUME NEW a \in Parts, ~Brings("left", a), NEW h, GroupAgrees(a, group, missed, h)
      PROVE  GroupAgrees(a, group', missed, h)
  <2>1. a # "left"
    BY <1>4 DEF Brings
  <2> QED
    BY <1>1, <1>2, <1>4, <2>1 DEF GroupAgrees
<1>s. Spares("left")
  BY <1>4 DEF Spares
<1>5. "left" \in GroupEvents
  BY DEF GroupEvents, Events
<1> QED
  BY <1>1, <1>2, <1>3, <1>s, <1>5, GroupKeeps

LEMMA MuteKeeps == ASSUME SyncInv, UpdateGroupMute PROVE BusinessKeeps
<1>1. PICK m \in BOOLEAN : group' = [group EXCEPT !.muted = m]
  BY DEF UpdateGroupMute
<1>2. group \in GroupSet /\ group.status = "active"
  BY DEF SyncInv, TypeOK, UpdateGroupMute
<1>3. /\ group' \in GroupSet /\ group'.status = "active" /\ group'.member = group.member
  BY <1>1, <1>2 DEF GroupSet
<1>4. GroupRow("muted", "none")
  BY <1>3 DEF UpdateGroupMute, Event, GroupRow
<1>5. ASSUME NEW a \in Parts, ~Brings("muted", a), NEW h, GroupAgrees(a, group, missed, h)
      PROVE  GroupAgrees(a, group', missed, h)
  <2>1. a # "muted"
    BY <1>5 DEF Brings
  <2> QED
    BY <1>2, <1>3, <1>5, <2>1 DEF GroupAgrees
<1>s. Spares("muted")
  BY <1>5 DEF Spares
<1>6. "muted" \in GroupEvents
  BY DEF GroupEvents, Events
<1> QED
  BY <1>2, <1>3, <1>4, <1>s, <1>6, GroupKeeps

LEMMA DismissKeeps == ASSUME SyncInv, Dismiss PROVE BusinessKeeps
<1>1. /\ group \in GroupSet /\ group.status = "active"
      /\ group' = [group EXCEPT !.status = "dismissed"]
  BY DEF SyncInv, TypeOK, Dismiss
<1>2. group' \in GroupSet /\ group'.status = "dismissed"
  BY <1>1 DEF GroupSet
<1>3. GroupRow("dismissed", "none")
  BY <1>2 DEF Dismiss, Event, GroupRow
<1>4. ASSUME NEW a \in Parts, ~Brings("dismissed", a), NEW h
      PROVE  GroupAgrees(a, group', missed, h)
  <2>1. a # "dismissed"
    BY <1>4 DEF Brings
  <2> QED
    BY <1>2, <2>1 DEF GroupAgrees
<1>s. Spares("dismissed")
  BY <1>4 DEF Spares
<1>5. "dismissed" \in GroupEvents
  BY DEF GroupEvents, Events
<1> QED
  BY <1>1, <1>2, <1>3, <1>s, <1>5, GroupKeeps

LEMMA StatusKeeps == ASSUME SyncInv, SetUserStatus PROVE BusinessKeeps
<1>1. /\ UNCHANGED <<about, friends, blocked, group, jobs, state, todo, now, calls, openim,
                     missed>>
      /\ userActive' \in BOOLEAN
  BY DEF SetUserStatus, worker, SyncInv, TypeOK
<1>2. Kept({}) /\ Ids' = Ids
  BY <1>1, SameJobs DEF SyncInv
<1>3. \A a \in Parts : Announced(a)
  BY <1>1, WantSame
<1> QED
  BY <1>1, <1>2, <1>3 DEF BusinessKeeps, SyncInv, TypeOK

LEMMA ReconcileKeeps == ASSUME SyncInv, EnqueueReconciliation PROVE BusinessKeeps
<1> DEFINE job(exists, event) == IF exists THEN <<Row(event, "none")>> ELSE <<>>
           active == group.status = "active"
           R == {x \in RowSet : /\ x.status = "pending"
                                /\ x.event \in {"friend", "block", "created"}
                                /\ x.event = "created" => active}
           f == job(friends, "friend")
           b == job(blocked, "block")
           g == job(active, "created")
<1>1. Enqueue(f \o b \o g) /\ UNCHANGED <<about, friends, blocked, group, userActive>>
  BY DEF EnqueueReconciliation, business
<1>2. /\ \A e \in {"friend", "block", "created"} :
           /\ Row(e, "none") \in RowSet /\ Row(e, "none").event = e
           /\ Row(e, "none").status = "pending"
      /\ R \subseteq RowSet
  BY RowType DEF Events
<1>3. f \in Seq(R)
  <2>1. Row("friend", "none") \in R
    BY <1>2
  <2> HIDE DEF R
  <2> QED
    BY <2>1
<1>4. b \in Seq(R)
  <2>1. Row("block", "none") \in R
    BY <1>2
  <2> HIDE DEF R
  <2> QED
    BY <2>1
<1>5. g \in Seq(R)
  <2>1. active => Row("created", "none") \in R
    BY <1>2
  <2> HIDE DEF R
  <2> QED
    BY <2>1
<1> HIDE DEF f, b, g, job
<1>6. f \o b \o g \in Seq(R)
  <2> HIDE DEF R
  <2>1. f \o b \in Seq(R)
    BY <1>3, <1>4, ConcatProperties
  <2> QED
    BY <1>5, <2>1, ConcatProperties
<1>7. /\ Kept({})
      /\ \A j \in Ids : jobs'[j] = jobs[j]
      /\ \A j \in Ids' \ Ids : jobs'[j] \in R
      /\ UNCHANGED <<state, todo, now, calls, openim, missed>>
  <2>1. TypeOK
    BY DEF SyncInv
  <2> HIDE DEF R
  <2> QED
    BY <1>1, <1>2, <1>6, <2>1, Enqueued
<1>8. \A j \in Ids' \ Ids : jobs'[j].status = "pending" /\ RowMeans(jobs'[j], group')
  BY <1>1, <1>7 DEF RowMeans, GroupEvents
<1>9. \A a \in Parts : Announced(a)
  BY <1>1, <1>7, WantSame
<1> QED
  BY <1>1, <1>7, <1>8, <1>9 DEF BusinessKeeps, SyncInv, TypeOK

LEMMA ReplayKeeps == ASSUME SyncInv, NEW i \in Ids, ReplayDead(i) PROVE BusinessKeeps
<1> DEFINE x == [jobs[i] EXCEPT !.status = "pending", !.attempts = 0]
<1>1. /\ jobs \in Seq(RowSet) /\ Len(jobs) <= MaxJobs /\ TypeOK
      /\ jobs[i] \in RowSet /\ jobs[i].status = "dead" /\ Ids = 1..Len(jobs)
  BY JobsType DEF SyncInv, TypeOK, ReplayDead
<1>2. /\ x \in RowSet /\ x.event = jobs[i].event /\ x.name = jobs[i].name
      /\ x.status = "pending"
  <2>1. 0 \in 0..MaxAttempts
    BY SyncAssumption
  <2> QED
    BY <1>1, <2>1 DEF RowSet, Unsettled
<1>3. jobs' = [jobs EXCEPT ![i] = x]
  BY DEF ReplayDead
<1>a. UNCHANGED <<about, friends, blocked, group, userActive, missed, state, todo, now, calls, openim>>
  BY DEF ReplayDead, business, worker
<1> HIDE DEF x
<1>4. /\ jobs' \in Seq(RowSet) /\ Len(jobs') = Len(jobs)
      /\ \A j \in Ids : jobs'[j] = IF j = i THEN x ELSE jobs[j]
  BY <1>1, <1>2, <1>3, ExceptSeq
<1>5. Ids' = Ids
  BY <1>1, <1>4, LenProperties DEF Ids
<1>6. Kept({})
  BY <1>1, <1>2, <1>4, <1>5 DEF Kept
<1>7. \A a \in Parts : Announced(a)
  BY <1>a, WantSame
<1> QED
  BY <1>1, <1>a, <1>4, <1>5, <1>6, <1>7 DEF BusinessKeeps, TypeOK

LEMMA BusinessStep == ASSUME SyncInv, Business PROVE BusinessKeeps
BY PairKeeps, CreateKeeps, RenameKeeps, JoinKeeps, LeaveKeeps, MuteKeeps, DismissKeeps,
   StatusKeeps, ReconcileKeeps, ReplayKeeps DEF Business

LEMMA BusinessTypes == ASSUME SyncInv, BusinessKeeps PROVE SyncInv'
<1>1. /\ Kept({}) /\ UNCHANGED <<state, todo, now, calls, openim, missed>> /\ Ids \subseteq Ids'
      /\ \A j \in Ids : jobs'[j].event = jobs[j].event /\ jobs'[j].name = jobs[j].name
      /\ \A j \in Ids' \ Ids : RowMeans(jobs'[j], group')
  BY DEF BusinessKeeps, Kept
<1>2. TypeOK'
  <2>1. todo' \in [Workers -> SUBSET Ids']
    BY <1>1 DEF SyncInv, TypeOK
  <2>2. now' \in [Workers -> Ids' \cup {0}]
    BY <1>1 DEF SyncInv, TypeOK
  <2> QED
    BY <1>1, <2>1, <2>2 DEF SyncInv, TypeOK, BusinessKeeps, Kept
<1>3. CallsOK' /\ NowOK'
  BY <1>1 DEF SyncInv, CallsOK, NowOK
<1>4. Stages'
  <2>1. /\ group.status # "none" => group'.status # "none"
        /\ group.status = "dismissed" => group'.status = "dismissed"
        /\ group'.status = "none" => group' = group
    BY DEF BusinessKeeps
  <2>2. \A j \in Ids : RowMeans(jobs[j], group)
    BY DEF SyncInv, Stages
  <2>3. \A j \in Ids : RowMeans(jobs'[j], group')
    BY <1>1, <2>1, <2>2 DEF RowMeans
  <2>4. group'.status = "none" => ~group'.member /\ ~group'.muted
    BY <2>1 DEF SyncInv, Stages
  <2> QED
    BY <1>1, <2>3, <2>4 DEF Stages
<1> QED
  BY <1>2, <1>3, <1>4 DEF SyncInv

\* A step of a worker leaves the business alone and keeps the rows.
LEMMA WorkerTypes ==
  ASSUME SyncInv, NEW S, Kept(S), Ids' = Ids, UNCHANGED business, missed' \in BOOLEAN,
         state' \in [Workers -> {"new", "idle", "calling", "failed", "down"}],
         todo' \in [Workers -> SUBSET Ids], now' \in [Workers -> Ids \cup {0}],
         openim' \in OpenIMSet, CallsOK', NowOK'
  PROVE  SyncInv'
<1>1. TypeOK'
  BY DEF SyncInv, TypeOK, Kept, business, OpenIMSet
<1>2. Stages'
  BY DEF SyncInv, Stages, RowMeans, Kept, business
<1> QED
  BY <1>1, <1>2 DEF SyncInv

\* What a step that writes rows but changes none of their events does to them.
LEMMA Rewritten ==
  ASSUME TypeOK, NEW S, NEW f \in [Ids -> RowSet], jobs' = f,
         \A j \in Ids : /\ f[j].event = jobs[j].event /\ f[j].name = jobs[j].name
                        /\ f[j].status = "completed" /\ j \notin S
                             => jobs[j].status = "completed"
  PROVE  Kept(S) /\ Ids' = Ids
<1>1. Len(jobs) \in Nat /\ Ids = 1..Len(jobs) /\ Len(jobs) <= MaxJobs
  BY JobsType DEF TypeOK
<1>2. f \in Seq(RowSet)
  BY <1>1, SeqDef
<1>3. DOMAIN f = Ids /\ DOMAIN f = 1..Len(f) /\ Len(f) \in Nat
  BY <1>2, LenProperties
<1>4. Len(f) = Len(jobs)
  BY <1>1, <1>3
<1>5. Ids' = Ids
  BY <1>3 DEF Ids
<1>6. jobs' \in Seq(RowSet) /\ Len(jobs') <= MaxJobs
  BY <1>1, <1>2, <1>4
<1>7. \A j \in Ids : /\ jobs'[j].event = jobs[j].event /\ jobs'[j].name = jobs[j].name
                     /\ jobs'[j].status = "completed" /\ j \notin S
                          => jobs[j].status = "completed"
  OBVIOUS
<1> QED
  BY <1>5, <1>6, <1>7 DEF Kept

LEMMA Claimed ==
  ASSUME TypeOK, NEW w \in Workers, ClaimBatch(w)
  PROVE  /\ Kept({}) /\ Ids' = Ids
         /\ \E batch \in SUBSET Ids, read \in SUBSET Ids :
              /\ read \subseteq batch
              /\ todo' = [todo EXCEPT ![w] = read]
              /\ \A j \in batch : jobs'[j].status = "processing"
              /\ \A j \in Ids \ batch : jobs'[j] = jobs[j]
<1>1. PICK batch \in SUBSET Ids :
        /\ jobs' = [j \in Ids |->
             IF j \in batch
             THEN [jobs[j] EXCEPT !.status = "processing", !.lockedBy = w,
                     !.expired = FALSE,
                     !.attempts = IF @ < MaxAttempts THEN @ + 1 ELSE @]
             ELSE jobs[j]]
        /\ \E read \in {batch, {}} : todo' = [todo EXCEPT ![w] = read]
  BY DEF ClaimBatch, Claimable
<1> DEFINE x(j) == [jobs[j] EXCEPT !.status = "processing", !.lockedBy = w,
                      !.expired = FALSE,
                      !.attempts = IF @ < MaxAttempts THEN @ + 1 ELSE @]
           f == [j \in Ids |-> IF j \in batch THEN x(j) ELSE jobs[j]]
<1>2. ASSUME NEW j \in Ids
      PROVE  /\ x(j) \in RowSet /\ x(j).status = "processing"
             /\ x(j).event = jobs[j].event /\ x(j).name = jobs[j].name
             /\ jobs[j] \in RowSet
  <2>1. jobs[j] \in RowSet /\ MaxAttempts \in Nat
    BY <1>2, JobsType, SyncAssumption
  <2>2. (IF jobs[j].attempts < MaxAttempts THEN jobs[j].attempts + 1 ELSE jobs[j].attempts)
          \in 0..MaxAttempts
    BY <2>1 DEF RowSet
  <2> QED
    BY <2>1, <2>2 DEF RowSet, Unsettled
<1>3. jobs' = f
  BY <1>1
<1> HIDE DEF x
<1>4. f \in [Ids -> RowSet]
  BY <1>2
<1>5. \A j \in Ids : f[j] = IF j \in batch THEN x(j) ELSE jobs[j]
  OBVIOUS
<1> HIDE DEF f
<1>6. \A j \in Ids : /\ f[j].event = jobs[j].event /\ f[j].name = jobs[j].name
                     /\ f[j].status = "completed" => jobs[j].status = "completed"
  BY <1>2, <1>5
<1>7. Kept({}) /\ Ids' = Ids
  BY <1>3, <1>4, <1>6, Rewritten
<1>8. /\ \A j \in batch : jobs'[j].status = "processing"
      /\ \A j \in Ids \ batch : jobs'[j] = jobs[j]
  BY <1>2, <1>3, <1>5
<1> QED
  BY <1>1, <1>7, <1>8

LEMMA Marked ==
  ASSUME TypeOK, NEW w \in Workers, now[w] \in Ids,
         NEW st \in {"completed", "dead", "retry"}, Mark(w, st)
  PROVE  /\ Kept({now[w]}) /\ Ids' = Ids
         /\ st # "completed" => Kept({})
         /\ \A j \in Ids \ {now[w]} : jobs'[j] = jobs[j]
<1> DEFINE j == now[w]
           x == [jobs[j] EXCEPT !.status = st, !.lockedBy = NoWorker, !.expired = FALSE]
<1>1. /\ jobs[j] \in RowSet /\ Ids = 1..Len(jobs) /\ jobs \in Seq(RowSet)
      /\ Len(jobs) <= MaxJobs
  BY JobsType DEF TypeOK
<1>2. /\ x \in RowSet /\ x.status = st
      /\ x.event = jobs[j].event /\ x.name = jobs[j].name
  BY <1>1 DEF RowSet, Unsettled
<1>3. jobs' = jobs \/ jobs' = [jobs EXCEPT ![j] = x]
  BY DEF Mark
<1> HIDE DEF x
<1>4. CASE jobs' = jobs
  BY <1>1, <1>4 DEF Kept, Ids
<1>5. CASE jobs' = [jobs EXCEPT ![j] = x]
  <2>1. /\ jobs' \in Seq(RowSet) /\ Len(jobs') = Len(jobs)
        /\ \A i \in Ids : jobs'[i] = IF i = j THEN x ELSE jobs[i]
    BY <1>1, <1>2, <1>5, ExceptSeq
  <2>2. Ids' = Ids
    BY <1>1, <2>1, LenProperties DEF Ids
  <2> QED
    BY <1>1, <1>2, <2>1, <2>2 DEF Kept
<1> QED
  BY <1>3, <1>4, <1>5

LEMMA Expired ==
  ASSUME TypeOK, NEW i \in Ids, LockExpires(i)
  PROVE  /\ Kept({}) /\ Ids' = Ids /\ \A j \in Ids : jobs'[j].status = jobs[j].status
<1> DEFINE x == [jobs[i] EXCEPT !.expired = TRUE]
<1>1. /\ jobs[i] \in RowSet /\ Ids = 1..Len(jobs) /\ jobs \in Seq(RowSet)
      /\ Len(jobs) <= MaxJobs
  BY JobsType DEF TypeOK
<1>2. /\ x \in RowSet /\ x.status = jobs[i].status
      /\ x.event = jobs[i].event /\ x.name = jobs[i].name
  BY <1>1 DEF RowSet
<1>3. jobs' = [jobs EXCEPT ![i] = x]
  BY DEF LockExpires
<1> HIDE DEF x
<1>4. /\ jobs' \in Seq(RowSet) /\ Len(jobs') = Len(jobs)
      /\ \A j \in Ids : jobs'[j] = IF j = i THEN x ELSE jobs[j]
  BY <1>1, <1>2, <1>3, ExceptSeq
<1>5. Ids' = Ids
  BY <1>1, <1>4, LenProperties DEF Ids
<1> QED
  BY <1>1, <1>2, <1>4, <1>5 DEF Kept

\* What a call does to OpenIM, whether or not the others are made.
LEMMA Called ==
  ASSUME SyncInv, NEW w \in Workers, calls[w] # <<>>
  PROVE  /\ After(Head(calls[w]), openim) = First(calls[w], openim)
         /\ Tail(calls[w]) = Rest(calls[w])
         /\ First(calls[w], openim) \in OpenIMSet
         /\ Rest(calls[w]) \in Seq(CallSet)
         /\ First(Rest(calls[w]), First(calls[w], openim)) = Final(calls[w], openim)
         /\ Final(Rest(calls[w]), First(calls[w], openim)) = Final(calls[w], openim)
         /\ Short(Rest(calls[w]))
<1>1. calls[w] \in Seq(CallSet) /\ Rest(Rest(calls[w])) = <<>>
  BY DEF SyncInv, CallsOK, Short
<1>2. Head(calls[w]) \in CallSet /\ Tail(calls[w]) \in Seq(CallSet)
  BY <1>1, HeadTailProperties
<1>3. openim \in OpenIMSet
  BY DEF SyncInv, TypeOK, OpenIMSet
<1>4. After(Head(calls[w]), openim) \in OpenIMSet
  BY <1>2, <1>3, AfterType
<1>5. Rest(<<>>) = <<>>
  BY DEF Rest
<1> QED
  BY <1>1, <1>2, <1>4, <1>5 DEF First, Final, Rest, Short

LEMMA HandleTypes ==
  ASSUME SyncInv, NEW w \in Workers, Handle(w)
  PROVE  SyncInv'
<1>1. /\ state \in [Workers -> {"new", "idle", "calling", "failed", "down"}]
      /\ todo \in [Workers -> SUBSET Ids] /\ now \in [Workers -> Ids \cup {0}]
      /\ openim \in OpenIMSet /\ TypeOK /\ CallsOK /\ missed \in BOOLEAN
      /\ \A v \in Workers : state[v] \in {"calling", "failed"} => now[v] \in Ids
  BY DEF SyncInv, TypeOK, CallsOK, NowOK, OpenIMSet
<1>2. CASE Load(w)
  <2>1. PICK j \in todo[w] :
          /\ now'   = [now EXCEPT ![w] = j]
          /\ todo'  = [todo EXCEPT ![w] = @ \ {j}]
          /\ calls' = [calls EXCEPT ![w] = CallsFor(jobs[j])]
          /\ missed' = NowMissed(jobs[j].event)
    BY <1>2 DEF Load
  <2>2. /\ UNCHANGED <<about, friends, blocked, group, userActive, jobs, openim>>
        /\ state' = [state EXCEPT ![w] = "calling"]
    BY <1>2 DEF Load, Become, business
  <2>3. j \in Ids
    BY <1>1, <2>1
  <2>4. jobs[j] \in RowSet /\ RowMeans(jobs[j], group)
    BY <1>1, <2>3, JobsType DEF SyncInv, Stages
  <2>5. Short(CallsFor(jobs[j]))
    BY <1>1, <2>4, CallsType DEF RowMeans
  <2>6. CallsOK'
    BY <1>1, <2>1, <2>5, PlanType
  <2>7. Kept({}) /\ Ids' = Ids
    BY <1>1, <2>2, SameJobs
  <2>8. /\ state' \in [Workers -> {"new", "idle", "calling", "failed", "down"}]
        /\ todo' \in [Workers -> SUBSET Ids] /\ now' \in [Workers -> Ids \cup {0}]
    BY <1>1, <2>1, <2>2, <2>3
  <2>9. NowOK'
    BY <1>1, <2>1, <2>2, <2>3, <2>7 DEF NowOK
  <2>10. missed' \in BOOLEAN
    BY <1>1, <2>1 DEF NowMissed, TypeOK, GroupSet
  <2> QED
    BY <1>1, <2>2, <2>6, <2>7, <2>8, <2>9, <2>10, WorkerTypes DEF business
<1>3. CASE Call(w) \/ CallFails(w)
  <2>1. /\ calls[w] # <<>> /\ state[w] = "calling"
        /\ openim' \in {openim, First(calls[w], openim)}
        /\ \E c \in {<<>>, Rest(calls[w])} : calls' = [calls EXCEPT ![w] = c]
        /\ state' = state \/ state' = [state EXCEPT ![w] = "failed"]
        /\ UNCHANGED <<about, friends, blocked, group, userActive, missed, jobs, todo, now>>
    BY <1>3, Called DEF Call, CallFails, Become, business
  <2>2. openim' \in OpenIMSet
    BY <1>1, <2>1, Called
  <2>3. CallsOK'
    <3>1. Short(<<>>) /\ Short(Rest(calls[w]))
      BY <2>1, NoCall, Called
    <3> QED
      BY <1>1, <2>1, <3>1, PlanType
  <2>4. Kept({}) /\ Ids' = Ids
    BY <1>1, <2>1, SameJobs
  <2>5. state' \in [Workers -> {"new", "idle", "calling", "failed", "down"}]
    BY <1>1, <2>1
  <2>6. NowOK'
    BY <1>1, <2>1, <2>4 DEF NowOK
  <2> QED
    BY <1>1, <2>1, <2>2, <2>3, <2>4, <2>5, <2>6, WorkerTypes DEF business
<1>4. CASE MarkCompleted(w) \/ MarkFailed(w) \/ Abandon(w)
  <2>1. /\ UNCHANGED <<about, friends, blocked, group, userActive, missed, calls, openim>>
        /\ state' = [state EXCEPT ![w] = "idle"]
        /\ now' = [now EXCEPT ![w] = 0]
        /\ todo' = todo \/ todo' = [todo EXCEPT ![w] = {}]
        /\ state[w] \in {"calling", "failed"}
    BY <1>4 DEF MarkCompleted, MarkFailed, Abandon, Done, Become, business
  <2>2. now[w] \in Ids
    BY <1>1, <2>1
  <2>3. \E S \in {{}, {now[w]}} : Kept(S) /\ Ids' = Ids
    <3>1. CASE Abandon(w)
      <4>1. UNCHANGED jobs
        BY <3>1 DEF Abandon
      <4> QED
        BY <1>1, <4>1, SameJobs
    <3>2. CASE MarkCompleted(w)
      <4>1. Mark(w, "completed")
        BY <3>2 DEF MarkCompleted
      <4> QED
        BY <1>1, <2>2, <4>1, Marked
    <3>3. CASE MarkFailed(w)
      <4>1. PICK st \in {"dead", "retry"} : Mark(w, st)
        BY <3>3 DEF MarkFailed
      <4> QED
        BY <1>1, <2>2, <4>1, Marked
    <3> QED
      BY <1>4, <3>1, <3>2, <3>3
  <2>4. PICK S \in {{}, {now[w]}} : Kept(S) /\ Ids' = Ids
    BY <2>3
  <2>5. /\ state' \in [Workers -> {"new", "idle", "calling", "failed", "down"}]
        /\ todo' \in [Workers -> SUBSET Ids] /\ now' \in [Workers -> Ids \cup {0}]
    BY <1>1, <2>1
  <2>6. CallsOK'
    BY <1>1, <2>1 DEF CallsOK
  <2>7. NowOK'
    BY <1>1, <2>1, <2>4 DEF NowOK
  <2> QED
    BY <1>1, <2>1, <2>4, <2>5, <2>6, <2>7, WorkerTypes DEF business
<1> QED
  BY <1>2, <1>3, <1>4 DEF Handle

LEMMA SyncNext == SyncInv /\ [Next]_vars => SyncInv'
<1> SUFFICES ASSUME SyncInv, [Next]_vars PROVE SyncInv'
  OBVIOUS
<1>1. /\ state \in [Workers -> {"new", "idle", "calling", "failed", "down"}]
      /\ todo \in [Workers -> SUBSET Ids] /\ now \in [Workers -> Ids \cup {0}]
      /\ openim \in OpenIMSet /\ TypeOK /\ CallsOK /\ missed \in BOOLEAN
      /\ \A v \in Workers : state[v] \in {"calling", "failed"} => now[v] \in Ids
  BY DEF SyncInv, TypeOK, CallsOK, NowOK, OpenIMSet
<1>2. CASE Business
  BY <1>2, BusinessStep, BusinessTypes
<1>3. ASSUME NEW w \in Workers, Start(w) PROVE SyncInv'
  <2>1. /\ state' = [state EXCEPT ![w] = "idle"]
        /\ UNCHANGED <<about, friends, blocked, group, userActive, missed, jobs, todo, now, calls, openim>>
    BY <1>3 DEF Start, business
  <2>2. Kept({}) /\ Ids' = Ids
    BY <1>1, <2>1, SameJobs
  <2>3. /\ state' \in [Workers -> {"new", "idle", "calling", "failed", "down"}]
        /\ CallsOK' /\ NowOK'
    BY <1>1, <2>1, <2>2 DEF CallsOK, NowOK
  <2> QED
    BY <1>1, <2>1, <2>2, <2>3, WorkerTypes DEF business
<1>4. ASSUME NEW w \in Workers, Crash(w) PROVE SyncInv'
  <2>1. /\ state' = [state EXCEPT ![w] = "down"] /\ todo' = [todo EXCEPT ![w] = {}]
        /\ now' = [now EXCEPT ![w] = 0] /\ calls' = [calls EXCEPT ![w] = <<>>]
        /\ UNCHANGED <<about, friends, blocked, group, userActive, missed, jobs, openim>>
    BY <1>4 DEF Crash, business
  <2>2. Kept({}) /\ Ids' = Ids
    BY <1>1, <2>1, SameJobs
  <2>3. /\ state' \in [Workers -> {"new", "idle", "calling", "failed", "down"}]
        /\ todo' \in [Workers -> SUBSET Ids] /\ now' \in [Workers -> Ids \cup {0}]
    BY <1>1, <2>1
  <2>4. CallsOK'
    BY <1>1, <2>1, NoCall, PlanType
  <2>5. NowOK'
    BY <1>1, <2>1, <2>2 DEF NowOK
  <2> QED
    BY <1>1, <2>1, <2>2, <2>3, <2>4, <2>5, WorkerTypes DEF business
<1>5. ASSUME NEW w \in Workers, ClaimBatch(w) PROVE SyncInv'
  <2>1. UNCHANGED <<about, friends, blocked, group, userActive, missed, state, now, calls, openim>>
    BY <1>5 DEF ClaimBatch, business
  <2>2. /\ Kept({}) /\ Ids' = Ids
        /\ \E read \in SUBSET Ids : todo' = [todo EXCEPT ![w] = read]
    BY <1>1, <1>5, Claimed
  <2>3. todo' \in [Workers -> SUBSET Ids]
    BY <1>1, <2>2
  <2>4. CallsOK' /\ NowOK'
    BY <1>1, <2>1, <2>2 DEF CallsOK, NowOK
  <2> QED
    BY <1>1, <2>1, <2>2, <2>3, <2>4, WorkerTypes DEF business
<1>6. ASSUME NEW j \in Ids, LockExpires(j) PROVE SyncInv'
  <2>1. UNCHANGED <<about, friends, blocked, group, userActive, missed, state, todo, now, calls, openim>>
    BY <1>6 DEF LockExpires, business, worker
  <2>2. Kept({}) /\ Ids' = Ids
    BY <1>1, <1>6, Expired
  <2>3. CallsOK' /\ NowOK'
    BY <1>1, <2>1, <2>2 DEF CallsOK, NowOK
  <2> QED
    BY <1>1, <2>1, <2>2, <2>3, WorkerTypes DEF business
<1>7. CASE UNCHANGED vars
  <2>1. UNCHANGED <<about, friends, blocked, group, userActive, missed, jobs, state, todo, now, calls, openim>>
    BY <1>7 DEF vars, business, worker
  <2>2. Kept({}) /\ Ids' = Ids
    BY <1>1, <2>1, SameJobs
  <2>3. CallsOK' /\ NowOK'
    BY <1>1, <2>1, <2>2 DEF CallsOK, NowOK
  <2> QED
    BY <1>1, <2>1, <2>2, <2>3, WorkerTypes DEF business
<1> QED
  BY <1>2, <1>3, <1>4, <1>5, <1>6, <1>7, HandleTypes DEF Next

\* Every reachable state of the synchronisation is well typed, with any number of
\* server instances: rows and what the workers hold of them, and what OpenIM has.
THEOREM SyncTypes == Spec => []TypeOK
<1>1. SyncInv => TypeOK
  BY DEF SyncInv
<1> QED
  BY <1>1, SyncInit, SyncNext, PTL DEF Spec

-----------------------------------------------------------------------------
(* Convergence                                                             *)

\* What one instance at a time makes of the rows: the running worker holds the rows
\* it has claimed, each of them is still processing, and it handles each once.
Place(w) ==
  /\ state[w] \in {"calling", "failed"} =>
       jobs[now[w]].status = "processing" /\ now[w] \notin todo[w]
  /\ state[w] # "calling" => calls[w] = <<>>
  /\ ~Running(w) => todo[w] = {}
  /\ \A j \in todo[w] : jobs[j].status = "processing"
  /\ \A v \in Workers : Running(v) /\ Running(w) => v = w

\* Every row that brings agreement a about is completed, row n aside.
Settled(a, n) ==
  \A j \in Ids \ {n} : Brings(jobs[j].event, a) => jobs[j].status = "completed"

\* What no row is left to bring about is there, and the calls under way keep it; what
\* only the row in hand is left to bring about is there after its calls.
Reached(a) ==
  /\ Settled(a, 0) =>
       /\ Agree(a, Want, openim)
       /\ \A w \in Workers : /\ Agree(a, Want, First(calls[w], openim))
                             /\ Agree(a, Want, Final(calls[w], openim))
  /\ \A w \in Workers : state[w] = "calling" /\ Settled(a, now[w]) =>
       Agree(a, Want, Final(calls[w], openim))

ReachInv ==
  /\ SyncInv
  /\ \A w \in Workers : Place(w)
  /\ \A a \in Parts : Reached(a)

LEMMA ReachInit == Init => ReachInv
<1> SUFFICES ASSUME Init PROVE ReachInv
  OBVIOUS
<1>1. SyncInv
  BY SyncInit
<1>2. ASSUME NEW w \in Workers PROVE Place(w)
  BY <1>2 DEF Init, Place, Running
<1>3. ASSUME NEW a \in Parts PROVE Reached(a)
  <2>1. /\ openim = [links |-> {}, black |-> FALSE, group |-> group]
        /\ friends = FALSE /\ blocked = FALSE
        /\ group.status = "none" /\ group.muted = FALSE /\ group.member = FALSE
    BY DEF Init
  <2>2. Want = [links |-> {}, black |-> FALSE, group |-> group, missed |-> missed]
    BY <2>1 DEF Want
  <2>3. Agree(a, Want, openim)
    BY <2>1, <2>2 DEF Agree, GroupAgrees
  <2>4. \A w \in Workers : calls[w] = <<>> /\ state[w] # "calling"
    BY DEF Init
  <2> QED
    BY <2>3, <2>4, NoCall DEF Reached
<1> QED
  BY <1>1, <1>2, <1>3 DEF ReachInv

LEMMA SettledBefore ==
  ASSUME Kept({}), NEW a
  PROVE  \A n : Settled(a, n)' => Settled(a, n)
BY DEF Kept, Settled

\* A step that makes no call and completes no row.
LEMMA ReachQuiet ==
  ASSUME ReachInv, Kept({}), UNCHANGED <<friends, blocked, group, missed, openim>>,
         \A v \in Workers :
           /\ calls'[v] \in {calls[v], <<>>}
           /\ state'[v] = "calling" =>
                state[v] = "calling" /\ calls'[v] = calls[v] /\ now'[v] = now[v],
         NEW a \in Parts
  PROVE  Reached(a)'
<1>1. Want' = Want /\ Reached(a)
  BY DEF Want, ReachInv
<1>2. \A n : Settled(a, n)' => Settled(a, n)
  BY SettledBefore
<1>3. ASSUME Settled(a, 0)'
      PROVE  /\ Agree(a, Want', openim')
             /\ \A w \in Workers : /\ Agree(a, Want', First(calls'[w], openim'))
                                   /\ Agree(a, Want', Final(calls'[w], openim'))
  BY <1>1, <1>2, <1>3, NoCall DEF Reached
<1>4. ASSUME NEW w \in Workers, state'[w] = "calling", Settled(a, now[w])'
      PROVE  Agree(a, Want', Final(calls'[w], openim'))
  <2>1. now'[w] = now[w]
    BY <1>4
  <2>2. Settled(a, now[w])
    BY <1>4, <2>1 DEF Kept, Settled
  <2> QED
    BY <1>1, <1>4, <2>2 DEF Reached
<1> QED
  BY <1>3, <1>4 DEF Reached

\* A business transaction, at any moment of a worker's calls.
LEMMA ReachBusiness ==
  ASSUME ReachInv, BusinessKeeps, NEW a \in Parts
  PROVE  Reached(a)'
<1>1. /\ Kept({}) /\ UNCHANGED <<state, todo, now, calls, openim, missed>> /\ Announced(a)
      /\ \A j \in Ids' \ Ids : jobs'[j].status = "pending"
      /\ TypeOK /\ Reached(a) /\ Reached("unknown")
  BY DEF BusinessKeeps, ReachInv, SyncInv, Parts
<1>2. CASE \E j \in Ids' \ Ids : Brings(jobs'[j].event, a)
  <2>1. PICK j \in Ids' \ Ids : Brings(jobs'[j].event, a)
    BY <1>2
  <2>2. j # 0 /\ jobs'[j].status # "completed"
    <3>1. 0 \notin Ids'
      <4>1. jobs' \in Seq(RowSet)
        BY <1>1 DEF Kept
      <4> QED
        BY <4>1, LenProperties DEF Ids
    <3> QED
      BY <1>1, <2>1, <3>1
  <2>3. ~Settled(a, 0)'
    BY <2>1, <2>2 DEF Settled
  <2>4. ASSUME NEW w \in Workers, state'[w] = "calling" PROVE ~Settled(a, now[w])'
    <3>1. now'[w] \in Ids
      BY <1>1, <2>4 DEF ReachInv, SyncInv, NowOK
    <3> QED
      BY <2>1, <2>2, <3>1 DEF Settled
  <2> QED
    BY <2>3, <2>4 DEF Reached
<1>3. CASE \A s : Agree(a, Want, s) /\ Agree("unknown", Want, s) => Agree(a, Want', s)
  <2>1. Settled("unknown", 0)
    BY DEF Settled, Brings
  <2>2. /\ Agree("unknown", Want, openim)
        /\ \A w \in Workers : /\ Agree("unknown", Want, First(calls[w], openim))
                              /\ Agree("unknown", Want, Final(calls[w], openim))
    BY <1>1, <2>1 DEF Reached
  <2>3. \A n : Settled(a, n)' => Settled(a, n)
    BY <1>1, SettledBefore
  <2>4. ASSUME Settled(a, 0)'
        PROVE  /\ Agree(a, Want', openim')
               /\ \A w \in Workers : /\ Agree(a, Want', First(calls'[w], openim'))
                                     /\ Agree(a, Want', Final(calls'[w], openim'))
    <3>1. /\ Agree(a, Want, openim)
          /\ \A w \in Workers : /\ Agree(a, Want, First(calls[w], openim))
                                /\ Agree(a, Want, Final(calls[w], openim))
      BY <1>1, <2>3, <2>4 DEF Reached
    <3> QED
      BY <1>1, <1>3, <2>2, <3>1
  <2>5. ASSUME NEW w \in Workers, state'[w] = "calling", Settled(a, now[w])'
        PROVE  Agree(a, Want', Final(calls'[w], openim'))
    <3>1. Settled(a, now[w])
      BY <1>1, <2>5 DEF Kept, Settled
    <3>2. Agree(a, Want, Final(calls[w], openim))
      BY <1>1, <2>5, <3>1 DEF Reached
    <3> QED
      BY <1>1, <1>3, <2>2, <3>2
  <2> QED
    BY <2>4, <2>5 DEF Reached
<1> QED
  BY <1>1, <1>2, <1>3 DEF Announced

\* The others have stopped, or have not started.
LEMMA Alone ==
  ASSUME ReachInv, NEW w \in Workers, Running(w)
  PROVE  \A v \in Workers \ {w} :
           /\ state[v] \in {"new", "down"} /\ calls[v] = <<>> /\ todo[v] = {}
<1>1. \A v \in Workers : Running(v) => v = w
  BY DEF ReachInv, Place
<1>2. \A v \in Workers : Place(v)
  BY DEF ReachInv
<1> QED
  BY <1>1, <1>2 DEF Place, Running

LEMMA ReachLoad ==
  ASSUME ReachInv, NEW w \in Workers, Load(w), NEW a \in Parts
  PROVE  Reached(a)'
<1>1. PICK j \in todo[w] :
        /\ now'   = [now EXCEPT ![w] = j]
        /\ calls' = [calls EXCEPT ![w] = CallsFor(jobs[j])]
        /\ missed' = NowMissed(jobs[j].event)
  BY DEF Load
<1>2. /\ UNCHANGED <<friends, blocked, group, jobs, openim>> /\ state[w] = "idle"
      /\ state' = [state EXCEPT ![w] = "calling"]
  BY DEF Load, Become, business
<1>3. /\ TypeOK /\ openim \in OpenIMSet /\ Reached(a) /\ Want' = WantNow(jobs[j])
      /\ j \in Ids /\ jobs[j].status = "processing"
  <2>1. Want' = WantNow(jobs[j])
    BY <1>1, <1>2 DEF Want, WantNow
  <2> QED
    BY <2>1 DEF ReachInv, SyncInv, TypeOK, OpenIMSet, Place
<1>4. \A v \in Workers \ {w} : state[v] \in {"new", "down"} /\ calls[v] = <<>>
  BY <1>2, Alone DEF Running
<1>5. jobs[j] \in RowSet /\ RowMeans(jobs[j], group)
  BY <1>3, JobsType DEF ReachInv, SyncInv, Stages
<1>6. Serves(jobs[j], a, openim)
  BY <1>3, <1>5, RowServes
<1>7. Short(CallsFor(jobs[j]))
  BY <1>3, <1>5, CallsType DEF RowMeans
<1>8. /\ calls'[w] = CallsFor(jobs[j]) /\ now'[w] = j
      /\ \A v \in Workers \ {w} : calls'[v] = <<>> /\ state'[v] # "calling"
  <2>1. calls'[w] = CallsFor(jobs[j]) /\ \A v \in Workers \ {w} : calls'[v] = <<>>
    BY <1>1, <1>4, <1>7, PlanType DEF ReachInv, SyncInv
  <2> QED
    BY <1>1, <1>2, <1>3, <1>4, <2>1 DEF TypeOK
<1>9. \A n : Settled(a, n)' <=> Settled(a, n)
  BY <1>2 DEF Settled, Ids
<1>10. ASSUME Settled(a, 0)
       PROVE  /\ Agree(a, Want', openim)
              /\ \A v \in Workers : /\ Agree(a, Want', First(calls'[v], openim))
                                    /\ Agree(a, Want', Final(calls'[v], openim))
  <2>0. ~Brings(jobs[j].event, a) /\ Agree(a, Want, openim)
    <3>1. j # 0
      BY <1>3, JobsType
    <3> QED
      BY <1>3, <1>10, <3>1 DEF Reached, Settled
  <2>1. Agree(a, Want', openim)
    BY <1>3, <1>6, <2>0 DEF Serves
  <2>2. Agree(a, Want', First(calls'[w], openim)) /\ Agree(a, Want', Final(calls'[w], openim))
    BY <1>3, <1>6, <1>8, <2>0 DEF Serves
  <2>3. ASSUME NEW v \in Workers \ {w}
        PROVE  First(calls'[v], openim) = openim /\ Final(calls'[v], openim) = openim
    BY <1>8, NoCall
  <2> QED
    BY <2>1, <2>2, <2>3
<1>11. ASSUME NEW v \in Workers, state'[v] = "calling", Settled(a, now'[v])
       PROVE  Agree(a, Want', Final(calls'[v], openim))
  <2>1. v = w /\ now'[v] = j
    BY <1>8, <1>11
  <2>2. CASE Brings(jobs[j].event, a)
    BY <1>3, <1>6, <1>8, <2>1, <2>2 DEF Serves
  <2>3. CASE ~Brings(jobs[j].event, a)
    <3>1. Settled(a, 0)
      BY <1>11, <2>1, <2>3 DEF Settled
    <3> QED
      BY <1>10, <3>1
  <2> QED
    BY <2>2, <2>3
<1>12. ASSUME NEW v \in Workers, state'[v] = "calling", Settled(a, now[v])'
       PROVE  Agree(a, Want', Final(calls'[v], openim))
  <2>1. Settled(a, now'[v])
    BY <1>2, <1>12 DEF Settled, Ids
  <2> QED
    BY <1>11, <1>12, <2>1
<1> QED
  BY <1>2, <1>3, <1>9, <1>10, <1>12 DEF Reached

LEMMA ReachCall ==
  ASSUME ReachInv, NEW w \in Workers, Call(w) \/ CallFails(w), NEW a \in Parts
  PROVE  Reached(a)'
<1> DEFINE first == First(calls[w], openim)
           final == Final(calls[w], openim)
<1>1. /\ UNCHANGED <<friends, blocked, group, missed, jobs, now>>
      /\ state[w] = "calling" /\ calls[w] # <<>>
  BY DEF Call, CallFails, business
<1>2. /\ TypeOK /\ CallsOK /\ Reached(a) /\ Want' = Want
  BY <1>1 DEF ReachInv, SyncInv, Want
<1>3. \A v \in Workers \ {w} : state[v] \in {"new", "down"} /\ calls[v] = <<>>
  BY <1>1, Alone DEF Running
<1>4. \A n : Settled(a, n)' <=> Settled(a, n)
  BY <1>1 DEF Settled, Ids
<1>a. \A v \in Workers : Settled(a, now[v])' <=> Settled(a, now[v])
  BY <1>1 DEF Settled, Ids
<1>5. Short(Rest(calls[w])) /\ Short(<<>>)
  BY <1>1, Called, NoCall DEF ReachInv
<1>6. Settled(a, 0) => /\ Agree(a, Want, openim)
                       /\ Agree(a, Want, first) /\ Agree(a, Want, final)
  BY <1>2 DEF Reached
<1>7. Settled(a, now[w]) => Agree(a, Want, final)
  BY <1>1, <1>2 DEF Reached
<1> HIDE DEF first, final
<1>8. CASE Call(w)
  <2>1. /\ calls' = [calls EXCEPT ![w] = Rest(calls[w])] /\ openim' = first
        /\ state' = state
        /\ First(Rest(calls[w]), first) = final /\ Final(Rest(calls[w]), first) = final
    BY <1>1, <1>8, Called DEF Call, ReachInv, first, final
  <2>2. /\ calls'[w] = Rest(calls[w])
        /\ \A v \in Workers \ {w} : calls'[v] = <<>>
    BY <1>2, <1>3, <1>5, <2>1, PlanType
  <2>3. \A v \in Workers : First(calls'[v], openim') \in {first, final}
    BY <2>1, <2>2, NoCall
  <2>4. \A v \in Workers : Final(calls'[v], openim') \in {first, final}
    BY <2>1, <2>2, NoCall
  <2>5. Settled(a, 0) =>
          /\ Agree(a, Want, openim')
          /\ \A v \in Workers : /\ Agree(a, Want, First(calls'[v], openim'))
                                /\ Agree(a, Want, Final(calls'[v], openim'))
    BY <1>6, <2>1, <2>3, <2>4
  <2>6. \A v \in Workers : state'[v] = "calling" /\ Settled(a, now[v]) =>
          Agree(a, Want, Final(calls'[v], openim'))
    BY <1>3, <1>7, <2>1, <2>2
  <2> QED
    BY <1>2, <1>4, <1>a, <2>5, <2>6 DEF Reached
<1>9. CASE CallFails(w)
  <2>1. /\ calls' = [calls EXCEPT ![w] = <<>>] /\ openim' \in {openim, first}
        /\ state' = [state EXCEPT ![w] = "failed"]
    BY <1>1, <1>9, Called DEF CallFails, Become, ReachInv, first
  <2>2. \A v \in Workers : calls'[v] = <<>> /\ state'[v] # "calling"
    <3>1. calls'[w] = <<>> /\ \A v \in Workers \ {w} : calls'[v] = calls[v]
      BY <1>2, <1>5, <2>1, PlanType
    <3>2. state'[w] = "failed" /\ \A v \in Workers \ {w} : state'[v] = state[v]
      BY <1>2, <2>1 DEF TypeOK
    <3> QED
      BY <1>3, <3>1, <3>2
  <2>3. Settled(a, 0) => Agree(a, Want, openim')
    BY <1>6, <2>1
  <2> QED
    BY <1>2, <1>4, <2>2, <2>3, NoCall DEF Reached
<1> QED
  BY <1>8, <1>9

LEMMA ReachComplete ==
  ASSUME ReachInv, NEW w \in Workers, MarkCompleted(w), NEW a \in Parts
  PROVE  Reached(a)'
<1>1. /\ UNCHANGED <<friends, blocked, group, missed, calls, openim>>
      /\ state[w] = "calling" /\ calls[w] = <<>> /\ Mark(w, "completed")
      /\ state' = [state EXCEPT ![w] = "idle"]
  BY DEF MarkCompleted, Done, Become, business
<1>2. /\ TypeOK /\ now[w] \in Ids /\ Reached(a) /\ Want' = Want
  BY <1>1 DEF ReachInv, SyncInv, NowOK, Want
<1>3. Kept({now[w]})
  BY <1>1, <1>2, Marked
<1>4. \A v \in Workers \ {w} : state[v] \in {"new", "down"} /\ calls[v] = <<>>
  BY <1>1, Alone DEF Running
<1>5. \A v \in Workers : calls'[v] = <<>> /\ state'[v] # "calling"
  BY <1>1, <1>2, <1>4 DEF TypeOK
<1>6. Settled(a, 0)' => Settled(a, now[w])
  BY <1>2, <1>3, JobsType DEF Kept, Settled
<1>7. Settled(a, now[w]) => Agree(a, Want, openim)
  BY <1>1, <1>2, NoCall DEF Reached
<1> QED
  BY <1>1, <1>2, <1>5, <1>6, <1>7, NoCall DEF Reached

LEMMA PlaceHandle ==
  ASSUME ReachInv, NEW w \in Workers, Handle(w), NEW x \in Workers
  PROVE  Place(x)'
<1>1. /\ TypeOK /\ CallsOK /\ NowOK /\ Place(w) /\ Place(x)
      /\ \A v \in Workers : Running(v) /\ Running(x) => v = x
  BY DEF ReachInv, SyncInv, Place
<1>2. /\ state[w] \in {"idle", "calling", "failed"}
      /\ \E st \in {"idle", "calling", "failed"} : state' = [state EXCEPT ![w] = st]
  <2>1. CASE Load(w)
    BY <2>1 DEF Load, Become
  <2>2. CASE Call(w)
    <3>1. state[w] = "calling" /\ state' = state
      BY <2>2 DEF Call
    <3>2. state' = [state EXCEPT ![w] = "calling"]
      BY <1>1, <3>1 DEF TypeOK
    <3> QED
      BY <3>1, <3>2
  <2>3. CASE CallFails(w) \/ MarkCompleted(w) \/ MarkFailed(w) \/ Abandon(w)
    BY <2>3 DEF CallFails, MarkCompleted, MarkFailed, Abandon, Done, Become
  <2> QED
    BY <2>1, <2>2, <2>3 DEF Handle
<1>3. /\ \A v \in Workers : Running(v)' <=> Running(v)
      /\ \A v \in Workers \ {w} : state'[v] = state[v]
  BY <1>1, <1>2 DEF Running, TypeOK
<1>4. \A v \in Workers \ {w} :
        state[v] \in {"new", "down"} /\ calls[v] = <<>> /\ todo[v] = {}
  BY <1>2, Alone DEF Running
<1>5. \A v \in Workers : Running(v)' /\ Running(x)' => v = x
  BY <1>1, <1>3
<1>6. CASE x # w
  <2>1. calls'[x] = <<>> /\ todo'[x] = {}
    <3>1. /\ \/ calls' = calls
             \/ \E c : Short(c) /\ calls' = [calls EXCEPT ![w] = c]
          /\ todo' = todo \/ \E t : todo' = [todo EXCEPT ![w] = t]
      <4>1. CASE Load(w)
        <5>1. PICK j \in todo[w] : calls' = [calls EXCEPT ![w] = CallsFor(jobs[j])]
          BY <4>1 DEF Load
        <5>2. j \in Ids
          BY <1>1, <5>1 DEF TypeOK
        <5>3. jobs[j] \in RowSet /\ RowMeans(jobs[j], group)
          BY <1>1, <5>2, JobsType DEF ReachInv, SyncInv, Stages
        <5>4. Short(CallsFor(jobs[j]))
          BY <1>1, <5>3, CallsType DEF RowMeans
        <5>5. \E t : todo' = [todo EXCEPT ![w] = t]
          BY <4>1 DEF Load
        <5> QED
          BY <5>1, <5>4, <5>5
      <4>2. CASE Call(w) \/ CallFails(w)
        <5>1. /\ calls[w] # <<>> /\ todo' = todo
              /\ \/ calls' = [calls EXCEPT ![w] = Tail(calls[w])]
                 \/ calls' = [calls EXCEPT ![w] = <<>>]
          BY <4>2 DEF Call, CallFails
        <5>2. Short(Tail(calls[w])) /\ Short(<<>>)
          BY <5>1, Called, NoCall DEF ReachInv
        <5> QED
          BY <5>1, <5>2
      <4>3. CASE MarkCompleted(w) \/ MarkFailed(w) \/ Abandon(w)
        BY <4>3 DEF MarkCompleted, MarkFailed, Abandon, Done
      <4> QED
        BY <4>1, <4>2, <4>3 DEF Handle
    <3>2. calls'[x] = calls[x]
      BY <1>1, <1>6, <3>1, PlanType
    <3>3. todo'[x] = todo[x]
      BY <1>1, <1>6, <3>1 DEF TypeOK
    <3> QED
      BY <1>4, <1>6, <3>2, <3>3
  <2>2. state'[x] \in {"new", "down"}
    BY <1>3, <1>4, <1>6
  <2> QED
    BY <1>5, <2>1, <2>2 DEF Place
<1>7. CASE x = w /\ Load(w)
  <2>1. PICK j \in todo[w] :
          /\ now'   = [now EXCEPT ![w] = j]
          /\ todo'  = [todo EXCEPT ![w] = @ \ {j}]
    BY <1>7 DEF Load
  <2>2. now'[w] = j /\ todo'[w] = todo[w] \ {j}
    BY <1>1, <2>1 DEF TypeOK
  <2>3. UNCHANGED jobs /\ state'[w] = "calling"
    BY <1>1, <1>7 DEF Load, Become, TypeOK
  <2>4. \A i \in todo[w] : jobs[i].status = "processing"
    BY <1>1 DEF Place
  <2>5. Running(w)'
    BY <2>3 DEF Running
  <2> QED
    BY <1>5, <1>7, <2>2, <2>3, <2>4, <2>5 DEF Place
<1>8. CASE x = w /\ (Call(w) \/ CallFails(w))
  <2>1. UNCHANGED <<jobs, todo, now>> /\ state[w] = "calling" /\ calls[w] # <<>>
    BY <1>8 DEF Call, CallFails
  <2>2. state'[w] # "calling" => calls'[w] = <<>>
    <3>1. CASE Call(w)
      BY <2>1, <3>1 DEF Call
    <3>2. CASE CallFails(w)
      <4>1. calls' = [calls EXCEPT ![w] = <<>>]
        BY <3>2 DEF CallFails
      <4> QED
        BY <1>1, <4>1, NoCall, PlanType
    <3> QED
      BY <1>8, <3>1, <3>2
  <2>3. Running(w)'
    BY <1>3, <2>1 DEF Running
  <2> QED
    BY <1>1, <1>5, <1>8, <2>1, <2>2, <2>3 DEF Place
<1>9. CASE x = w /\ (MarkCompleted(w) \/ MarkFailed(w) \/ Abandon(w))
  <2>1. /\ UNCHANGED calls /\ state[w] \in {"calling", "failed"}
        /\ state[w] = "calling" => calls[w] = <<>>
        /\ state' = [state EXCEPT ![w] = "idle"]
        /\ todo' = todo \/ todo' = [todo EXCEPT ![w] = {}]
    BY <1>9 DEF MarkCompleted, MarkFailed, Abandon, Done, Become
  <2>2. /\ calls'[w] = <<>> /\ state'[w] = "idle" /\ Running(w)'
        /\ todo'[w] = todo[w] \/ todo'[w] = {}
    BY <1>1, <2>1 DEF Place, TypeOK, Running
  <2>3. \A j \in todo[w] : jobs'[j] = jobs[j]
    <3>1. now[w] \in Ids /\ now[w] \notin todo[w] /\ todo[w] \subseteq Ids
      BY <1>1, <2>1 DEF NowOK, Place, TypeOK
    <3>2. UNCHANGED jobs \/ \E st \in {"completed", "dead", "retry"} : Mark(w, st)
      BY <1>9 DEF MarkCompleted, MarkFailed, Abandon
    <3> QED
      BY <1>1, <3>1, <3>2, Marked
  <2> QED
    BY <1>1, <1>5, <1>9, <2>2, <2>3 DEF Place
<1> QED
  BY <1>6, <1>7, <1>8, <1>9 DEF Handle

\* A step that takes no row in hand and starts no one; rows the worker holds stay
\* processing.
LEMMA PlaceQuiet ==
  ASSUME ReachInv, NEW x \in Workers, Running(x)' => Running(x),
         \A v \in Workers : Running(v)' => Running(v),
         \/ state'[x] = state[x] /\ calls'[x] = calls[x] /\ now'[x] = now[x]
         \/ state'[x] = "down" /\ calls'[x] = <<>> /\ todo'[x] = {},
         todo'[x] = todo[x] \/ todo'[x] = {},
         \A j \in Ids : jobs[j].status = "processing" => jobs'[j].status = "processing"
  PROVE  Place(x)'
<1>1. /\ Place(x) /\ todo[x] \subseteq Ids
      /\ state[x] \in {"calling", "failed"} => now[x] \in Ids
  BY DEF ReachInv, SyncInv, TypeOK, NowOK
<1>2. state'[x] = state[x] => (Running(x)' <=> Running(x))
  BY DEF Running
<1>3. state'[x] = "down" => ~Running(x)'
  BY DEF Running
<1>4. \A j \in todo'[x] : jobs'[j].status = "processing"
  BY <1>1 DEF Place
<1>5. \A v \in Workers : Running(v)' /\ Running(x)' => v = x
  BY <1>1 DEF Place
<1>6. ~Running(x)' => todo'[x] = {}
  BY <1>1, <1>2, <1>3 DEF Place
<1>7. CASE state'[x] = state[x] /\ calls'[x] = calls[x] /\ now'[x] = now[x]
  <2>1. /\ state[x] \in {"calling", "failed"} =>
             jobs[now[x]].status = "processing" /\ now[x] \notin todo[x]
        /\ state[x] # "calling" => calls[x] = <<>>
    BY <1>1 DEF Place
  <2>2. state'[x] \in {"calling", "failed"} =>
          jobs'[now'[x]].status = "processing" /\ now'[x] \notin todo'[x]
    BY <1>1, <1>7, <2>1
  <2>3. state'[x] # "calling" => calls'[x] = <<>>
    BY <1>7, <2>1
  <2> QED
    BY <1>4, <1>5, <1>6, <2>2, <2>3 DEF Place
<1>8. CASE state'[x] = "down" /\ calls'[x] = <<>> /\ todo'[x] = {}
  BY <1>4, <1>5, <1>6, <1>8 DEF Place
<1> QED
  BY <1>7, <1>8

LEMMA ReachNext ==
  ASSUME OneInstance, ReachInv, [Next]_vars
  PROVE  ReachInv'
<1>1. /\ SyncInv /\ TypeOK /\ CallsOK /\ \A w \in Workers : Place(w)
      /\ state \in [Workers -> {"new", "idle", "calling", "failed", "down"}]
      /\ todo \in [Workers -> SUBSET Ids] /\ now \in [Workers -> Ids \cup {0}]
      /\ SyncInv'
  BY SyncNext DEF ReachInv, SyncInv, TypeOK
<1>2. ASSUME \A x \in Workers : Place(x)', \A a \in Parts : Reached(a)'
      PROVE  ReachInv'
  BY <1>1, <1>2 DEF ReachInv
<1>3. CASE Business
  <2>1. BusinessKeeps
    BY <1>1, <1>3, BusinessStep
  <2>2. /\ UNCHANGED <<state, todo, now, calls>>
        /\ \A j \in Ids : jobs[j].status = "processing" => jobs'[j].status = "processing"
    BY <2>1 DEF BusinessKeeps
  <2>3. \A v \in Workers : Running(v)' <=> Running(v)
    BY <2>2 DEF Running
  <2>4. ASSUME NEW x \in Workers PROVE Place(x)'
    BY <2>2, <2>3, PlaceQuiet
  <2> QED
    BY <1>2, <2>1, <2>4, ReachBusiness
<1>4. ASSUME NEW w \in Workers, Start(w) PROVE ReachInv'
  <2>1. /\ state[w] = "new" /\ state' = [state EXCEPT ![w] = "idle"]
        /\ UNCHANGED <<friends, blocked, group, missed, jobs, todo, now, calls, openim>>
        /\ \A v \in Workers : ~Running(v)
    BY <1>4 DEF Start, business
  <2>2. /\ state'[w] = "idle" /\ \A v \in Workers \ {w} : state'[v] = state[v]
        /\ Kept({})
    BY <1>1, <2>1, SameJobs
  <2>3. \A v \in Workers \ {w} : ~Running(v)'
    BY <2>1, <2>2 DEF Running
  <2>4. ASSUME NEW x \in Workers PROVE Place(x)'
    <3>1. /\ calls[x] = <<>> /\ todo[x] = {} /\ state'[x] \in {"idle", "new", "down"}
      BY <1>1, <2>1, <2>2 DEF Place, Running
    <3>2. \A v \in Workers : Running(v)' /\ Running(x)' => v = x
      BY <2>3
    <3> QED
      BY <2>1, <3>1, <3>2 DEF Place
  <2>5. \A a \in Parts : Reached(a)'
    BY <2>1, <2>2, ReachQuiet
  <2> QED
    BY <1>2, <2>4, <2>5
<1>5. ASSUME NEW w \in Workers, Crash(w) PROVE ReachInv'
  <2>1. /\ Running(w) /\ state' = [state EXCEPT ![w] = "down"]
        /\ todo' = [todo EXCEPT ![w] = {}]
        /\ now' = [now EXCEPT ![w] = 0] /\ calls' = [calls EXCEPT ![w] = <<>>]
        /\ UNCHANGED <<friends, blocked, group, missed, jobs, openim>>
    BY <1>5 DEF Crash, business
  <2>2. /\ state'[w] = "down" /\ todo'[w] = {} /\ calls'[w] = <<>>
        /\ \A v \in Workers \ {w} : /\ state'[v] = state[v] /\ todo'[v] = todo[v]
                                     /\ now'[v] = now[v] /\ calls'[v] = calls[v]
        /\ Kept({})
    <3>1. calls'[w] = <<>> /\ \A v \in Workers \ {w} : calls'[v] = calls[v]
      BY <1>1, <2>1, NoCall, PlanType
    <3> QED
      BY <1>1, <2>1, <3>1, SameJobs
  <2>3. \A v \in Workers : Running(v)' => Running(v)
    BY <2>1, <2>2 DEF Running
  <2>4. ASSUME NEW x \in Workers PROVE Place(x)'
    <3>1. CASE x = w
      BY <2>1, <2>2, <2>3, <3>1, PlaceQuiet
    <3>2. CASE x # w
      BY <2>1, <2>2, <2>3, <3>2, PlaceQuiet
    <3> QED
      BY <3>1, <3>2
  <2>5. \A v \in Workers :
          /\ calls'[v] \in {calls[v], <<>>}
          /\ state'[v] = "calling" =>
               state[v] = "calling" /\ calls'[v] = calls[v] /\ now'[v] = now[v]
    BY <2>2
  <2>6. \A a \in Parts : Reached(a)'
    BY <2>1, <2>2, <2>5, ReachQuiet
  <2> QED
    BY <1>2, <2>4, <2>6
<1>6. ASSUME NEW w \in Workers, ClaimBatch(w) PROVE ReachInv'
  <2>1. /\ state[w] = "idle" /\ todo[w] = {}
        /\ UNCHANGED <<friends, blocked, group, missed, state, now, calls, openim>>
    BY <1>6 DEF ClaimBatch, business
  <2>2. /\ Kept({}) /\ Ids' = Ids
        /\ \E batch \in SUBSET Ids, read \in SUBSET Ids :
             /\ read \subseteq batch
             /\ todo' = [todo EXCEPT ![w] = read]
             /\ \A j \in batch : jobs'[j].status = "processing"
             /\ \A j \in Ids \ batch : jobs'[j] = jobs[j]
    BY <1>1, <1>6, Claimed
  <2>3. /\ \A j \in todo'[w] : jobs'[j].status = "processing"
        /\ \A v \in Workers \ {w} : todo'[v] = todo[v]
        /\ \A j \in Ids : jobs[j].status = "processing" => jobs'[j].status = "processing"
    BY <1>1, <2>2
  <2>4. \A v \in Workers : Running(v)' <=> Running(v)
    BY <2>1 DEF Running
  <2>5. ASSUME NEW x \in Workers PROVE Place(x)'
    <3>1. CASE x = w
      <4>1. calls'[w] = <<>> /\ state'[w] = "idle" /\ Running(w)'
        BY <1>1, <2>1, <2>4 DEF Place, Running
      <4>2. \A v \in Workers : Running(v)' /\ Running(w)' => v = w
        BY <1>1, <2>4 DEF Place
      <4> QED
        BY <2>3, <3>1, <4>1, <4>2 DEF Place
    <3>2. CASE x # w
      BY <2>1, <2>3, <2>4, <3>2, PlaceQuiet
    <3> QED
      BY <3>1, <3>2
  <2>6. \A a \in Parts : Reached(a)'
    BY <2>1, <2>2, ReachQuiet
  <2> QED
    BY <1>2, <2>5, <2>6
<1>7. ASSUME NEW w \in Workers, Handle(w) PROVE ReachInv'
  <2>1. \A x \in Workers : Place(x)'
    BY <1>7, PlaceHandle
  <2>2. ASSUME NEW a \in Parts PROVE Reached(a)'
    <3>1. CASE Load(w)
      BY <3>1, ReachLoad
    <3>2. CASE Call(w) \/ CallFails(w)
      BY <3>2, ReachCall
    <3>3. CASE MarkCompleted(w)
      BY <3>3, ReachComplete
    <3>4. CASE MarkFailed(w) \/ Abandon(w)
      <4>1. /\ UNCHANGED <<friends, blocked, group, missed, calls, openim>>
            /\ state[w] \in {"calling", "failed"}
            /\ state' = [state EXCEPT ![w] = "idle"] /\ now' = [now EXCEPT ![w] = 0]
        BY <3>4 DEF MarkFailed, Abandon, Done, Become, business
      <4>2. Kept({})
        <5>1. now[w] \in Ids
          BY <1>1, <4>1 DEF SyncInv, NowOK
        <5>2. UNCHANGED jobs \/ \E st \in {"dead", "retry"} : Mark(w, st)
          BY <3>4 DEF MarkFailed, Abandon
        <5> QED
          BY <1>1, <5>1, <5>2, SameJobs, Marked
      <4>3. \A v \in Workers :
              /\ calls'[v] \in {calls[v], <<>>}
              /\ state'[v] = "calling" =>
                   state[v] = "calling" /\ calls'[v] = calls[v] /\ now'[v] = now[v]
        BY <1>1, <4>1
      <4> QED
        BY <4>1, <4>2, <4>3, ReachQuiet
    <3> QED
      BY <1>7, <3>1, <3>2, <3>3, <3>4 DEF Handle
  <2> QED
    BY <1>2, <2>1, <2>2
<1>8. ASSUME Kept({}), UNCHANGED <<friends, blocked, group, missed, state, todo, now, calls, openim>>,
             \A j \in Ids : jobs'[j].status = jobs[j].status
      PROVE  ReachInv'
  <2>1. \A v \in Workers : Running(v)' <=> Running(v)
    BY <1>8 DEF Running
  <2>2. ASSUME NEW x \in Workers PROVE Place(x)'
    BY <1>8, <2>1, PlaceQuiet
  <2>3. \A a \in Parts : Reached(a)'
    BY <1>8, ReachQuiet
  <2> QED
    BY <1>2, <2>2, <2>3
<1>9. ASSUME NEW j \in Ids, LockExpires(j) PROVE ReachInv'
  <2>1. UNCHANGED <<friends, blocked, group, missed, state, todo, now, calls, openim>>
    BY <1>9 DEF LockExpires, business, worker
  <2> QED
    BY <1>1, <1>8, <1>9, <2>1, Expired
<1>10. CASE UNCHANGED vars
  <2>1. UNCHANGED <<friends, blocked, group, missed, jobs, state, todo, now, calls, openim>>
    BY <1>10 DEF vars, business, worker
  <2> QED
    BY <1>1, <1>8, <2>1, SameJobs
<1> QED
  BY <1>3, <1>4, <1>5, <1>6, <1>7, <1>9, <1>10 DEF Next

LEMMA AllReached ==
  ASSUME ReachInv, NEW events, AllCompleted(events), NEW a \in Parts,
         \A e \in Events : Brings(e, a) => e \in events
  PROVE  Agree(a, Want, openim)
<1>1. \A j \in Ids : jobs[j].event \in Events
  BY JobsType DEF ReachInv, SyncInv, RowSet
<1>2. Settled(a, 0)
  BY <1>1 DEF AllCompleted, Settled
<1> QED
  BY <1>2 DEF ReachInv, Reached

\* With one server instance at a time, whenever the rows of a friendship are all
\* completed OpenIM has its two links or neither, as the database says, and the same
\* of a block: in whatever order the rows were handled, however many calls failed half
\* way and wherever a worker stopped (syncFriendshipState and syncBlockState bring over
\* the state they read, not the event).
THEOREM RelationsAgree ==
  ASSUME OneInstance
  PROVE  Spec => []RelationsConverge
<1>1. ReachInv => RelationsConverge
  <2> SUFFICES ASSUME ReachInv PROVE RelationsConverge
    OBVIOUS
  <2>1. ASSUME AllCompleted({"friend"})
        PROVE  openim.links = (IF friends THEN Both ELSE {})
    <3>1. \A e \in Events : Brings(e, "friend") => e \in {"friend"}
      BY DEF Brings
    <3>2. Agree("friend", Want, openim)
      BY <2>1, <3>1, AllReached DEF Parts
    <3> QED
      BY <3>2 DEF Agree, Want
  <2>2. ASSUME AllCompleted({"block"}) PROVE openim.black = blocked
    <3>1. \A e \in Events : Brings(e, "block") => e \in {"block"}
      BY DEF Brings
    <3>2. Agree("block", Want, openim)
      BY <2>2, <3>1, AllReached DEF Parts
    <3> QED
      BY <3>2 DEF Agree, Want
  <2> QED
    BY <2>1, <2>2 DEF RelationsConverge
<1>2. ReachInv /\ [Next]_vars => ReachInv'
  BY ReachNext
<1> QED
  BY <1>1, <1>2, ReachInit, PTL DEF Spec

\* The same of a group, from its creation to its dismissal: once its rows are all
\* completed OpenIM has it open exactly while it is active, with its mute, without a
\* member who has left, and with the one there is, unless the last row about the
\* member was read while the member was banned (syncGroup reads the group and the
\* membership again before each call, and buildGroupFromState leaves the banned out).
THEOREM GroupsAgree ==
  ASSUME OneInstance
  PROVE  Spec => []GroupConverges
<1>1. ReachInv => GroupConverges
  <2> SUFFICES ASSUME ReachInv, AllCompleted(GroupEvents)
               PROVE  /\ (openim.group.status = "active") <=> (group.status = "active")
                      /\ group.status = "active" =>
                           /\ openim.group.muted = group.muted
                           /\ openim.group.member => group.member
                           /\ group.member /\ ~missed => openim.group.member
    BY DEF GroupConverges
  <2>1. ASSUME NEW a \in Parts \ {"friend", "block"}
        PROVE  GroupAgrees(a, group, missed, openim.group)
    <3>1. \A e \in Events : Brings(e, a) => e \in GroupEvents
      BY <2>1 DEF Brings, GroupEvents
    <3>2. Agree(a, Want, openim)
      BY <3>1, AllReached
    <3> QED
      BY <3>2 DEF Agree, Want
  <2>2. /\ GroupAgrees("exists", group, missed, openim.group)
        /\ GroupAgrees("open", group, missed, openim.group)
        /\ GroupAgrees("dismissed", group, missed, openim.group)
        /\ GroupAgrees("unknown", group, missed, openim.group)
        /\ GroupAgrees("joined", group, missed, openim.group)
        /\ GroupAgrees("left", group, missed, openim.group)
        /\ GroupAgrees("muted", group, missed, openim.group)
    BY <2>1 DEF Parts
  <2>3. group \in GroupSet /\ openim.group \in GroupSet
    BY DEF ReachInv, SyncInv, TypeOK
  <2>4. /\ group.status \in {"none", "active", "dismissed"}
        /\ openim.group.status \in {"none", "active", "dismissed"}
        /\ group.member \in BOOLEAN /\ openim.group.member \in BOOLEAN
    BY <2>3 DEF GroupSet
  <2>5. (openim.group.status = "active") <=> (group.status = "active")
    BY <2>2, <2>4 DEF GroupAgrees
  <2>6. group.status = "active" => openim.group.muted = group.muted
    BY <2>2 DEF GroupAgrees
  <2>7. group.status = "active" =>
          /\ openim.group.member => group.member
          /\ group.member /\ ~missed => openim.group.member
    BY <2>2, <2>4 DEF GroupAgrees
  <2> QED
    BY <2>5, <2>6, <2>7
<1>2. ReachInv /\ [Next]_vars => ReachInv'
  BY ReachNext
<1> QED
  BY <1>1, <1>2, ReachInit, PTL DEF Spec
-----------------------------------------------------------------------------
(* Reservations: typing                                                    *)

LEMMA EffectType ==
  ASSUME ReservationTypeOK, NEW r \in Requests
  PROVE  /\ Effect(r) \in Seq(Requests \cup {Admin})
         /\ Effect(r) # <<>>
BY DEF ReservationTypeOK, Effect

\* A new reservation: the row is pending and its operator's, who alone moves.
LEMMA Reserved ==
  ASSUME ReservationTypeOK, NEW r \in Requests, Reserve(r)
  PROVE  /\ row' \in [status : {"none", "pending", "failed", "done"},
                       operator : Actors, msgId : Actors, stale : BOOLEAN]
         /\ row'.status = "pending" /\ row'.operator = r /\ ~row'.stale
         /\ at' \in [Requests -> {"idle", "read", "take", "call", "complete",
                                  "fail", "end"}]
         /\ at'[r] \in {"call", "end"}
         /\ \A q \in Requests \ {r} : at'[q] = at[q]
<1>1. /\ row \in [status : {"none", "pending", "failed", "done"},
                  operator : Actors, msgId : Actors, stale : BOOLEAN]
      /\ at \in [Requests -> {"idle", "read", "take", "call", "complete",
                              "fail", "end"}]
      /\ r \in Actors
  BY DEF ReservationTypeOK, Actors
<1>2. row' = [row EXCEPT !.status = "pending", !.operator = r, !.stale = FALSE]
  BY DEF Reserve
<1>3. \/ at' = [at EXCEPT ![r] = "call"]
      \/ at' = [at EXCEPT ![r] = "end"]
  BY DEF Reserve, Goes
<1>4. /\ row' \in [status : {"none", "pending", "failed", "done"},
                   operator : Actors, msgId : Actors, stale : BOOLEAN]
      /\ row'.status = "pending" /\ row'.operator = r /\ ~row'.stale
  BY <1>1, <1>2
<1>5. CASE at' = [at EXCEPT ![r] = "call"]
  BY <1>1, <1>4, <1>5
<1>6. CASE at' = [at EXCEPT ![r] = "end"]
  BY <1>1, <1>4, <1>6
<1> QED
  BY <1>3, <1>5, <1>6

LEMMA ReservationTypeStep ==
  ReservationTypeOK /\ [ReservationNext]_reservationVars => ReservationTypeOK'
<1> SUFFICES ASSUME ReservationTypeOK, [ReservationNext]_reservationVars PROVE ReservationTypeOK'
  OBVIOUS
<1>1. ASSUME NEW r \in Requests, Insert(r) PROVE ReservationTypeOK'
  <2>1. CASE row.status = "none"
    <3>1. Reserve(r) /\ UNCHANGED <<kind, effects, late, answer, excused>>
      BY <1>1, <2>1 DEF Insert
    <3> QED
      BY <3>1, Reserved DEF ReservationTypeOK
  <2>2. CASE row.status # "none"
    <3>1. /\ at' = [at EXCEPT ![r] = "read"]
          /\ UNCHANGED <<kind, row, effects, late, answer, excused>>
      BY <1>1, <2>2 DEF Insert, Goes
    <3> QED
      BY <3>1 DEF ReservationTypeOK
  <2> QED
    BY <2>1, <2>2
<1>2. ASSUME NEW r \in Requests, Read(r) PROVE ReservationTypeOK'
  BY <1>2 DEF Read, ReservationTypeOK, Actors, Goes
<1>3. ASSUME NEW r \in Requests, Take(r) PROVE ReservationTypeOK'
  <2>1. CASE MayTake(row)
    <3>1. Reserve(r) /\ UNCHANGED <<kind, effects, late, answer>>
      BY <1>3, <2>1 DEF Take
    <3>2. excused' \in BOOLEAN
      BY <1>3, <2>1, Zenon DEF Take
    <3> QED
      BY <3>1, <3>2, Reserved DEF ReservationTypeOK
  <2>2. CASE ~MayTake(row)
    <3>1. /\ at' = [at EXCEPT ![r] = "end"]
          /\ UNCHANGED <<kind, row, effects, late, answer, excused>>
      BY <1>3, <2>2 DEF Take, Goes
    <3> QED
      BY <3>1 DEF ReservationTypeOK
  <2> QED
    BY <2>1, <2>2
<1> USE DEF ReservationTypeOK, Actors, Goes
<1>4. ASSUME NEW r \in Requests, CallOpenIM(r) \/ CallUnanswered(r) \/ LateEffect(r)
      PROVE  ReservationTypeOK'
  BY <1>4, EffectType DEF CallOpenIM, CallUnanswered, LateEffect
<1>5. ASSUME NEW r \in Requests, CallRefused(r) PROVE ReservationTypeOK'
  BY <1>5 DEF CallRefused
<1>6. ASSUME NEW r \in Requests, Complete(r) \/ CompleteFails(r) PROVE ReservationTypeOK'
  <2>1. Completed(r) \in [status : {"none", "pending", "failed", "done"},
                          operator : Actors, msgId : Actors, stale : BOOLEAN]
    BY DEF Completed
  <2>2. Completed(r).stale => Completed(r).status = "pending"
    BY DEF Completed
  <2> QED
    BY <1>6, <2>1, <2>2 DEF Complete, CompleteFails
<1>11. ASSUME NEW r \in Requests, Abort(r) PROVE ReservationTypeOK'
  <2>1. excused' \in BOOLEAN
    BY <1>11, Zenon DEF Abort
  <2> QED
    BY <1>11, <2>1 DEF Abort
<1>7. ASSUME NEW r \in Requests, Fail(r) PROVE ReservationTypeOK'
  BY <1>7 DEF Fail, Failed
<1>8. CASE MinutePasses
  BY <1>8 DEF MinutePasses
<1>9. CASE AdminRecalls
  BY <1>9 DEF AdminRecalls
<1>10. CASE UNCHANGED reservationVars
  BY <1>10 DEF reservationVars
<1> QED
  BY <1>1, <1>2, <1>3, <1>4, <1>5, <1>6, <1>7, <1>8, <1>9, <1>10,
     <1>11 DEF ReservationNext

LEMMA ReservationTypedAtFirst == ReservationInit => ReservationTypeOK
<1>1. <<>> \in Seq(Requests \cup {Admin})
  OBVIOUS
<1>2. ReservationInit => effects \in Seq(Requests \cup {Admin})
  BY <1>1, Zenon DEF ReservationInit
<1>3. ReservationInit => excused \in BOOLEAN
  BY DEF ReservationInit
<1> QED
  BY <1>2, <1>3 DEF ReservationInit, ReservationTypeOK, Actors, NoRow

\* The state of a reservation stays well typed, and only a row that is pending
\* can be too slow.
THEOREM ReservationTypes == ReservationSpec => []ReservationTypeOK
BY ReservationTypedAtFirst, ReservationTypeStep, PTL DEF ReservationSpec

-----------------------------------------------------------------------------
(* Done rows                                                               *)

\* No request that was slow, failed or came late changes a row that is done:
\* every write but the recall's own completion asks that it is not.
THEOREM DoneAlways == ReservationSpec => DoneStands
<1>1. ReservationTypeOK /\ [ReservationNext]_reservationVars => [row.status = "done" => row' = row]_row
  <2> SUFFICES ASSUME ReservationTypeOK, ReservationNext, row.status = "done" PROVE row' = row
    BY DEF reservationVars
  <2>1. row.stale = FALSE
    BY DEF ReservationTypeOK
  <2>2. ASSUME NEW r \in Requests, Complete(r) \/ CompleteFails(r) PROVE row' = row
    <3>1. Completed(r) = row
      BY <2>1 DEF Completed, ReservationTypeOK
    <3> QED
      BY <2>2, <3>1 DEF Complete, CompleteFails
  <2>3. ASSUME NEW r \in Requests,
               \/ Insert(r) \/ Read(r) \/ Take(r)
               \/ CallOpenIM(r) \/ CallRefused(r) \/ CallUnanswered(r) \/ LateEffect(r)
               \/ Fail(r) \/ Abort(r)
        PROVE  row' = row
    BY <2>3 DEF Insert, Read, Take, MayTake, CallOpenIM, CallRefused, CallUnanswered,
                LateEffect, Fail, Failed, Abort
  <2>4. CASE MinutePasses \/ AdminRecalls
    BY <2>4 DEF MinutePasses, AdminRecalls
  <2> QED
    BY <2>2, <2>3, <2>4 DEF ReservationNext
<1> QED
  BY <1>1, ReservationTypes, PTL DEF ReservationSpec, DoneStands

-----------------------------------------------------------------------------
(* Effects                                                                 *)

\* OpenIM has not been asked by any request, or has been asked by r alone.
Unsent  == effects = <<>> \/ (kind = "recall" /\ effects = <<Admin>>)
Sent(r) == effects = <<r>> \/ (kind = "recall" /\ effects = <<Admin>>)

\* As long as nothing is excused, whoever works on the row owns it, and what
\* OpenIM has done is what the row and its owner know of.
OwnerInv ==
  /\ late = {}
  /\ \A r \in Requests :
       /\ at[r] \in {"call", "complete", "fail"}
            => row.status = "pending" /\ row.operator = r
       /\ at[r] \in {"call", "fail"} => Unsent
       /\ at[r] = "complete" => Sent(r)
       /\ answer[r] # Nobody =>
            row.status = "done" /\ (kind = "message" => answer[r] = row.msgId)
  /\ row.status \in {"none", "failed"} => Unsent
  /\ row.status = "pending" => Unsent \/ Sent(row.operator)
  /\ row.status = "done" => Sent(row.operator)
  /\ row.status # "none" => row.operator \in Requests

\* Who has an answer of OpenIM, and a row that is done, tell of something.
DoneInv ==
  /\ \A r \in Requests :
       at[r] = "complete" =>
         effects # <<>> /\ (kind = "message" => r \in ToSet(effects))
  /\ row.status = "done" =>
       effects # <<>> /\ (kind = "message" => row.msgId \in ToSet(effects))
  /\ kind = "recall" => Len(effects) <= 1

ReservationInv == ReservationTypeOK /\ (~excused => OwnerInv) /\ DoneInv

LEMMA EffectGrows ==
  ASSUME ReservationTypeOK, NEW r \in Requests
  PROVE  /\ ToSet(effects) \subseteq ToSet(Effect(r))
         /\ kind = "message" => r \in ToSet(Effect(r))
         /\ kind = "recall" /\ Len(effects) <= 1 => Len(Effect(r)) <= 1
         /\ Unsent => \/ Effect(r) = <<r>>
                      \/ kind = "recall" /\ Effect(r) = <<Admin>>
<1> DEFINE e == Append(effects, r)
<1>1. /\ Len(e) = Len(effects) + 1 /\ Len(effects) \in Nat
      /\ e[Len(e)] = r /\ \A i \in 1..Len(effects) : e[i] = effects[i]
      /\ DOMAIN e = 1..Len(e) /\ DOMAIN effects = 1..Len(effects)
  BY DEF ReservationTypeOK
<1>2. ToSet(effects) \subseteq ToSet(e) /\ r \in ToSet(e)
  BY <1>1 DEF ToSet
<1>4. effects = <<>> => e = <<r>> /\ Len(effects) = 0
  BY DEF ReservationTypeOK
<1>5. CASE kind = "recall" /\ effects # <<>>
  <2>1. Effect(r) = effects
    BY <1>5 DEF Effect
  <2> QED
    BY <1>5, <2>1 DEF Unsent
<1>6. CASE ~(kind = "recall" /\ effects # <<>>)
  <2>1. Effect(r) = e
    BY <1>6 DEF Effect
  <2> QED
    BY <1>1, <1>2, <1>4, <1>6, <2>1 DEF Unsent
<1> QED
  BY <1>5, <1>6

LEMMA OwnerStep ==
  ASSUME ReservationInv, [ReservationNext]_reservationVars, ~excused'
  PROVE  OwnerInv'
<1>1. ~excused
  <2>1. CASE ReservationNext
    <3>1. ASSUME NEW r \in Requests, Take(r) \/ CallUnanswered(r) \/ Abort(r)
          PROVE  ~excused
      BY <3>1, Zenon DEF Take, CallUnanswered, Abort
    <3> QED
      BY <2>1, <3>1, Zenon DEF ReservationNext, Insert, Read, CallOpenIM, CallRefused, LateEffect,
           Complete, CompleteFails, Fail, MinutePasses, AdminRecalls
  <2> QED
    BY <2>1 DEF reservationVars
<1>2. ReservationTypeOK /\ OwnerInv /\ DoneInv
  BY <1>1 DEF ReservationInv
<1>a. ASSUME NEW r \in Requests, Reserve(r), row.status \in {"none", "failed"},
             UNCHANGED <<kind, effects, late, answer>>
      PROVE  OwnerInv'
  <2>1. /\ row'.status = "pending" /\ row'.operator = r
        /\ at'[r] \in {"call", "end"}
        /\ \A q \in Requests \ {r} : at'[q] = at[q]
    BY <1>2, <1>a, Reserved
  <2>2. Unsent /\ Unsent'
    BY <1>2, <1>a DEF OwnerInv, Unsent
  <2>3. \A q \in Requests : /\ at[q] \notin {"call", "complete", "fail"}
                            /\ answer'[q] = Nobody
    BY <1>2, <1>a DEF OwnerInv
  <2>4. late' = {}
    BY <1>2, <1>a DEF OwnerInv
  <2> QED
    BY <2>1, <2>2, <2>3, <2>4 DEF OwnerInv
<1> USE DEF ReservationTypeOK, Goes
<1>3. ASSUME NEW r \in Requests, Insert(r) PROVE OwnerInv'
  <2>1. CASE row.status = "none"
    <3>1. Reserve(r) /\ UNCHANGED <<kind, effects, late, answer>>
      BY <1>3, <2>1 DEF Insert
    <3> QED
      BY <1>a, <2>1, <3>1
  <2>2. CASE row.status # "none"
    <3>1. /\ at' = [at EXCEPT ![r] = "read"]
          /\ UNCHANGED <<kind, row, effects, late, answer>>
      BY <1>3, <2>2 DEF Insert
    <3> QED
      BY <1>2, <3>1 DEF OwnerInv, Unsent, Sent
  <2> QED
    BY <2>1, <2>2
<1>5. ASSUME NEW r \in Requests, Take(r) PROVE OwnerInv'
  <2>1. CASE MayTake(row)
    <3>1. Reserve(r) /\ UNCHANGED <<kind, effects, late, answer>>
      BY <1>5, <2>1 DEF Take
    <3>2. ~row.stale
      BY <1>5, <2>1, Zenon DEF Take
    <3>3. row.status = "failed"
      BY <2>1, <3>2 DEF MayTake
    <3> QED
      BY <1>a, <3>1, <3>3
  <2>2. CASE ~MayTake(row)
    <3>1. /\ at' = [at EXCEPT ![r] = "end"]
          /\ UNCHANGED <<kind, row, effects, late, answer>>
      BY <1>5, <2>2 DEF Take
    <3> QED
      BY <1>2, <3>1 DEF OwnerInv, Unsent, Sent
  <2> QED
    BY <2>1, <2>2
<1> USE DEF OwnerInv, Unsent, Sent
<1>4. ASSUME NEW r \in Requests, Read(r) PROVE OwnerInv'
  BY <1>2, <1>4 DEF Read
<1>6. ASSUME NEW r \in Requests, CallOpenIM(r) PROVE OwnerInv'
  <2>1. Unsent /\ row.status = "pending" /\ row.operator = r
    BY <1>2, <1>6 DEF CallOpenIM
  <2>2. Sent(r)'
    BY <1>2, <1>6, <2>1, EffectGrows DEF CallOpenIM
  <2> QED
    BY <1>2, <1>6, <2>1, <2>2 DEF CallOpenIM
<1>7. ASSUME NEW r \in Requests, CallRefused(r) PROVE OwnerInv'
  BY <1>2, <1>7 DEF CallRefused
<1>8. ASSUME NEW r \in Requests, CallUnanswered(r) \/ LateEffect(r) PROVE OwnerInv'
  BY <1>2, <1>8 DEF CallUnanswered, LateEffect
<1>9. ASSUME NEW r \in Requests, Complete(r) \/ CompleteFails(r) PROVE OwnerInv'
  <2>1. row.status = "pending" /\ row.operator = r /\ Sent(r)
    BY <1>2, <1>9 DEF Complete, CompleteFails
  <2>2. /\ Completed(r).status = "done" /\ Completed(r).operator = r
        /\ kind = "message" => Completed(r).msgId = r
    BY <1>2, <2>1 DEF Completed
  <2> QED
    BY <1>2, <1>9, <2>1, <2>2 DEF Complete, CompleteFails
<1>10. ASSUME NEW r \in Requests, Fail(r) PROVE OwnerInv'
  BY <1>2, <1>10 DEF Fail, Failed
<1>11. ASSUME NEW r \in Requests, Abort(r) PROVE OwnerInv'
  <2>1. late' = late
    BY <1>11, Zenon DEF Abort
  <2> QED
    BY <1>2, <1>11, <2>1 DEF Abort
<1>12. CASE MinutePasses
  BY <1>2, <1>12 DEF MinutePasses
<1>13. CASE AdminRecalls
  BY <1>2, <1>13 DEF AdminRecalls
<1>14. CASE UNCHANGED reservationVars
  BY <1>2, <1>14 DEF reservationVars
<1> QED
  BY <1>3, <1>4, <1>5, <1>6, <1>7, <1>8, <1>9, <1>10, <1>11, <1>12, <1>13, <1>14
  DEF ReservationNext

LEMMA DoneStep ==
  ASSUME ReservationInv, [ReservationNext]_reservationVars
  PROVE  DoneInv'
<1>1. ReservationTypeOK /\ DoneInv
  BY DEF ReservationInv
<1> USE DEF DoneInv, ReservationTypeOK, Goes
<1>2. ASSUME NEW r \in Requests,
             \/ Insert(r) \/ Read(r) \/ Take(r) \/ CallRefused(r) \/ Fail(r)
             \/ Abort(r)
      PROVE  DoneInv'
  BY <1>1, <1>2 DEF Insert, Read, Take, Reserve, CallRefused, Fail, Failed, Abort
<1>3. ASSUME NEW r \in Requests, CallOpenIM(r) \/ CallUnanswered(r) \/ LateEffect(r)
      PROVE  DoneInv'
  <2>1. /\ ToSet(effects) \subseteq ToSet(Effect(r)) /\ Effect(r) # <<>>
        /\ kind = "message" => r \in ToSet(Effect(r))
        /\ kind = "recall" => Len(Effect(r)) <= 1
    BY <1>1, EffectGrows, EffectType
  <2>2. effects' \in {effects, Effect(r)} /\ row' = row /\ kind' = kind
    BY <1>3 DEF CallOpenIM, CallUnanswered, LateEffect
  <2>3. \A s \in Requests :
          at'[s] = "complete" => at[s] = "complete" \/ (s = r /\ effects' = Effect(r))
    BY <1>1, <1>3 DEF CallOpenIM, CallUnanswered, LateEffect
  <2> HIDE DEF ReservationTypeOK
  <2> QED
    BY <1>1, <2>1, <2>2, <2>3
<1>4. ASSUME NEW r \in Requests, Complete(r) \/ CompleteFails(r) PROVE DoneInv'
  <2>1. at[r] = "complete" /\ row' \in {row, Completed(r)} /\ UNCHANGED <<kind, effects>>
    BY <1>4 DEF Complete, CompleteFails
  <2>2. Completed(r).status = "done" =>
          \/ row.status = "done" /\ Completed(r).msgId = row.msgId
          \/ kind = "recall" \/ Completed(r).msgId = r
    BY <1>1 DEF Completed
  <2>3. \A s \in Requests : at'[s] = "complete" => at[s] = "complete"
    BY <1>1, <1>4 DEF Complete, CompleteFails
  <2> QED
    BY <1>1, <2>1, <2>2, <2>3
<1>5. CASE MinutePasses
  BY <1>1, <1>5 DEF MinutePasses
<1>6. CASE AdminRecalls
  BY <1>1, <1>6 DEF AdminRecalls
<1>7. CASE UNCHANGED reservationVars
  BY <1>1, <1>7 DEF reservationVars
<1> QED
  BY <1>2, <1>3, <1>4, <1>5, <1>6, <1>7 DEF ReservationNext

LEMMA Reservations == ReservationSpec => []ReservationInv
<1>1. ReservationInit => ReservationInv
  <2> SUFFICES ASSUME ReservationInit PROVE (~excused => OwnerInv) /\ DoneInv
    BY ReservationTypedAtFirst DEF ReservationInv
  <2> QED
    BY DEF ReservationInit, NoRow, OwnerInv, DoneInv, Unsent
<1>2. ReservationInv /\ [ReservationNext]_reservationVars => ReservationInv'
  BY ReservationTypeStep, OwnerStep, DoneStep DEF ReservationInv
<1> QED
  BY <1>1, <1>2, PTL DEF ReservationSpec

\* OpenIM does once what is asked under one key, for any number of requests that
\* overlap, fail, stop or come late, unless a row was taken over from a request
\* slower than a minute, or an answer of OpenIM was lost.
THEOREM SentOnce == ReservationSpec => []SentOnceUnlessExcused
<1>1. ReservationInv => SentOnceUnlessExcused
  <2> SUFFICES ASSUME ReservationInv, ~excused PROVE Len(effects) <= 1
    BY Zenon DEF SentOnceUnlessExcused
  <2>1. PICK r : Unsent \/ Sent(r)
    BY DEF ReservationInv, OwnerInv, ReservationTypeOK
  <2>2. effects = <<>> \/ effects = <<r>> \/ effects = <<Admin>>
    BY <2>1 DEF Unsent, Sent
  <2>3. Len(<<>>) = 0 /\ Len(<<r>>) = 1 /\ Len(<<Admin>>) = 1
    OBVIOUS
  <2>4. Len(<<>>) <= 1 /\ Len(<<r>>) <= 1 /\ Len(<<Admin>>) <= 1
    BY <2>3
  <2> QED
    BY <2>2, <2>4, Zenon
<1> QED
  BY <1>1, Reservations, PTL

\* A row that is done and every answer of success tell what OpenIM has done.
THEOREM ResultsTrue == ReservationSpec => []ResultsAreTrue
<1>1. ReservationInv => ResultsAreTrue
  <2> SUFFICES ASSUME ReservationInv PROVE ResultsAreTrue
    OBVIOUS
  <2>1. row.status = "done" =>
          effects # <<>> /\ (kind = "message" => row.msgId \in ToSet(effects))
    BY DEF ReservationInv, DoneInv
  <2>2. ~excused /\ row.status = "done" /\ kind = "recall" =>
          Head(effects) \in {row.operator, Admin}
    BY DEF ReservationInv, OwnerInv, Sent
  <2>3. \A r \in Requests : ~excused /\ answer[r] # Nobody =>
          row.status = "done" /\ (kind = "message" => answer[r] = row.msgId)
    BY DEF ReservationInv, OwnerInv
  <2> QED
    BY <2>1, <2>2, <2>3, Zenon DEF ResultsAreTrue
<1> QED
  BY <1>1, Reservations, PTL
=============================================================================
