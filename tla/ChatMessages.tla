---------------------------- MODULE ChatMessages ----------------------------
(***************************************************************************)
(* The bubbles of one conversation in the client                           *)
(* (IM-APP-fronend/src/stores/chat.ts): what the OpenIM SDK stores and     *)
(* pushes, what loadMessages, loadMoreMessages and a refresh after a       *)
(* server sync bring, and what sendWithPlaceholder puts in all write the   *)
(* same list.  Each of them reads the list, waits for the SDK and writes   *)
(* it, and everything else runs in between.                                *)
(*                                                                         *)
(* The SDK is external: its database grows, it emits events in order, and  *)
(* it reads a page at some moment between the question and the answer.     *)
(* Another account may log in (reset) while answers are on their way.      *)
(***************************************************************************)
EXTENDS Integers, Sequences, FiniteSets

CONSTANTS
  PageSize,     \* CHAT_HISTORY_PAGE_SIZE
  Window,       \* MESSAGE_WINDOW_SIZE
  Sends,        \* 1..n: messages the user sends
  MaxMessages,  \* bound of the model: messages the SDK ever stores
  MaxSessions,  \* bound of the model: accounts that log in one after another
  UntilTorn,    \* bound of the model: nothing new begins where torn is true
  MaxActs       \* bound of the model: receipts, recalls, sends, loads of the
                \* user and changes of the account, together

ASSUME ChatAssumption ==
  /\ {PageSize, Window, MaxSessions} \subseteq Nat \ {0}
  /\ {MaxMessages, MaxActs} \subseteq Nat
  /\ Sends \subseteq Nat \ {0}
  /\ UntilTorn \in BOOLEAN

VARIABLES
  group,     \* the conversation is a group's
  session,   \* sessionGeneration
  db,        \* the SDK's history of the conversation
  stored,    \* messages ever stored: the next id
  events,    \* emitted by the SDK and not yet handled
  open,      \* activeConversationId is this conversation
  list,      \* messagesMap[conversationId]
  ended,     \* historyEnd[conversationId]
  calls,     \* the pending loadMessages and loadMoreMessages
  again,     \* pendingSyncRefresh
  sends,     \* each sendWithPlaceholder: its message, the account it runs
             \* under and the account that began it
  acts,      \* the steps that MaxActs bounds
  fresh,     \* ghost: the open room has had a page since it was opened
  torn,      \* ghost: a page has met a list that is not the one its
             \* question saw, messages came out of order, a mark came before
             \* its message, or a refresh has failed
  spoilt     \* ghost: messages whose own send has taken their marks back,
             \* or has shown them as failed

sdk  == <<db, stored, events>>
room == <<open, ended, fresh>>
vars == <<group, session, sdk, room, list, calls, again, sends, acts, torn, spoilt>>

Calls == {"load", "sync", "older"}  \* at most one of each is pending

Bubble(id, status, ms, of) == [id |-> id, status |-> status, marks |-> ms,
                               of |-> of]
\* Fault: a status that no bubble has.
PlaceholderPending(s) == Bubble(-s, "pending", {}, session)

Placeholder(s) == Bubble(-s, "sending", {}, session)

\* filter: what l has at the positions I.
At(l, I) ==
  [k \in 1..Cardinality(I) |->
     l[CHOOSE i \in I : Cardinality({j \in I : j <= i}) = k]]

Newest(l, n)   == IF Len(l) > n THEN SubSeq(l, Len(l) - n + 1, Len(l)) ELSE l
Ids(l)         == {l[i].id : i \in DOMAIN l}
Idle           == [at |-> "idle", kept |-> <<>>, page |-> <<>>, end |-> FALSE,
                   of |-> 0]

Init ==
  /\ group \in BOOLEAN
  /\ session = 1
  /\ db = <<>> /\ stored = 0 /\ events = <<>>
  /\ open = FALSE /\ list = <<>> /\ ended = FALSE
  /\ calls = [c \in Calls |-> Idle]
  /\ again = FALSE
  /\ sends = [s \in Sends |-> [at |-> "none", msg |-> 0, of |-> 0, by |-> 0]]
  /\ acts = 0
  /\ fresh = FALSE /\ torn = FALSE /\ spoilt = {}

-----------------------------------------------------------------------------
(* The SDK                                                                 *)

Goes == ~(UntilTorn /\ torn)

Act == Goes /\ acts < MaxActs /\ acts' = acts + 1

Event(kind, id) == [kind |-> kind, id |-> id]

Store(newEvents) ==
  /\ Goes /\ stored < MaxMessages
  /\ stored' = stored + 1
  /\ db' = Append(db, [id |-> stored + 1, marks |-> {}])
  /\ events' = events \o newEvents

\* A message of the peer: OnRecvNewMessage.
PeerSends ==
  /\ Store(<<Event("new", stored + 1)>>)
  /\ UNCHANGED <<session, room, list, calls, again, sends, acts,
                 torn, spoilt>>

\* Messages of an offline time get into the database in silence, and
\* OnSyncServerFinish follows.
SyncsFromServer ==
  /\ Store(<<Event("synced", 0)>>)
  /\ UNCHANGED <<session, room, list, calls, again, sends, acts,
                 torn, spoilt>>

\* OnRecvC2CReadReceipt, OnNewRecvMessageRevoked.
PeerMarks(i, mark) ==
  /\ Act
  /\ mark \notin db[i].marks /\ ~(group /\ mark = "read")
  /\ db' = [db EXCEPT ![i].marks = @ \cup {mark}]
  /\ events' = Append(events, Event(mark, db[i].id))
  /\ UNCHANGED <<session, stored, room, list, calls, again, sends,
                 torn, spoilt>>

\* sendMessage succeeds; the message may come as an event, too.
SdkSends(s) ==
  /\ sends[s].at = "asked" /\ sends[s].of = session
  /\ \E told \in BOOLEAN :
       Store(IF told THEN <<Event("new", stored + 1)>> ELSE <<>>)
  /\ sends' = [sends EXCEPT ![s].at = "sent", ![s].msg = stored + 1]
  /\ UNCHANGED <<session, room, list, calls, again, acts, torn, spoilt>>

SdkFails(s) ==
  /\ sends[s].at = "asked"
  /\ sends' = [sends EXCEPT ![s].at = "failed"]
  /\ UNCHANGED <<session, sdk, room, list, calls, again, acts,
                 torn, spoilt>>

\* getHistoryMessages: the page before the anchor, or the newest one.  An
\* answer may be empty for no reason, and its read marks may be late.
UpTo(c, n) == IF c = "older"
              THEN n < Len(db) /\ db[n + 1].id = calls[c].kept[1].id
              ELSE n = Len(db)

PageOf(n, late) ==
  LET page == Newest(SubSeq(db, 1, n), PageSize)
  IN  [i \in DOMAIN page |->
         Bubble(page[i].id, "sent",
                page[i].marks \ IF late THEN {"read"} ELSE {}, session)]

SdkReads(c) ==
  /\ calls[c].at = "asked"
  /\ \E n \in 0..Len(db), late \in BOOLEAN, empty \in BOOLEAN :
       /\ UpTo(c, n)
       /\ calls' = [calls EXCEPT ![c].at   = "answered",
                                 ![c].page = IF empty THEN <<>> ELSE PageOf(n, late),
                                 ![c].end  = n <= PageSize /\ (n = 0 \/ ~empty)]
  /\ UNCHANGED <<session, sdk, room, list, again, sends, acts,
                 torn, spoilt>>

-----------------------------------------------------------------------------
(* What the list is made of                                                *)

OutOfOrder(l) == \E i, j \in DOMAIN l : i < j /\ l[j].id \in 1..(l[i].id - 1)

\* trimMessageWindow; a trimmed list has no end any more.
Trimmed(l) == list' = Newest(l, Window)

EndAfter(l, end) == end /\ Len(l) <= Window

\* appendMessage
Appended(l, b) == IF b.id \in Ids(l) THEN l ELSE Append(l, b)

\* markLoadedMessagesRead, dropRevokedMessage
Marked(l, id, mark) ==
  [i \in DOMAIN l |-> IF l[i].id = id
                      THEN [l[i] EXCEPT !.marks = @ \cup {mark}] ELSE l[i]]

\* Fault: the event that came before the answer stays.
ReplacedOnly(l, temp, b) ==
  IF temp \in Ids(l)
  THEN [i \in DOMAIN l |-> IF l[i].id = temp THEN b ELSE l[i]]
  ELSE Appended(l, b)

\* replaceMessage
Replaced(l, temp, b) ==
  LET rest == At(l, {i \in DOMAIN l : l[i].id # b.id \/ l[i].id = temp})
  IN  IF temp \in Ids(l)
      THEN [i \in DOMAIN rest |-> IF rest[i].id = temp THEN b ELSE rest[i]]
      ELSE Append(rest, b)

\* mergeLocalPending; messages up to aged are older than a minute.
Pending(page, kept, aged) ==
  At(kept, {i \in DOMAIN kept :
    /\ kept[i].id \notin Ids(page)
    /\ kept[i].status = "sent" => kept[i].id > aged})

\* Fault: the page as it comes.
PageAsRead(page, kept) == page

\* A receipt that came before the page is not taken back.
WithRead(page, kept) ==
  [i \in DOMAIN page |->
     IF \E j \in DOMAIN kept : kept[j].id = page[i].id /\ "read" \in kept[j].marks
     THEN [page[i] EXCEPT !.marks = @ \cup {"read"}] ELSE page[i]]

-----------------------------------------------------------------------------
(* The client                                                              *)

\* The mark is here before the answer that brings its message.
TooEarly(e) == /\ e.kind # "new" /\ e.id \notin Ids(list)
               /\ \/ \E c \in Calls : e.id \in Ids(calls[c].page)
                  \/ \E s \in Sends : sends[s].at = "sent" /\ sends[s].msg = e.id

\* The handlers of subscribeRealtime for a message, a receipt and a recall.
HandlesMessage ==
  /\ events # <<>> /\ Head(events).kind # "synced"
  /\ events' = Tail(events)
  /\ LET e == Head(events)
         l == IF e.kind = "new" THEN Appended(list, Bubble(e.id, "sent", {}, session))
              ELSE Marked(list, e.id, e.kind)
     IN  /\ IF open \/ e.kind # "new" THEN list' = l /\ ended' = ended
            ELSE Trimmed(l) /\ ended' = EndAfter(l, ended)
         /\ torn' = (torn \/ OutOfOrder(l) \/ TooEarly(e))
  /\ UNCHANGED <<session, db, stored, open, fresh, calls, again, sends,
                 acts, spoilt>>

Asks(c) == calls' = [calls EXCEPT ![c] =
             [Idle EXCEPT !.at = "asked", !.kept = list, !.of = session]]

\* refreshAfterServerSync: one at a time, and once more if another sync ends
\* meanwhile.  "rows" is the time of its loadConversations.
Refreshing == calls["sync"].at # "idle"

\* Fault: a sync that ends during a refresh is not followed by another one.
AskNoMore == FALSE

AskAgain == Refreshing

HandlesSynced ==
  /\ events # <<>> /\ Head(events).kind = "synced"
  /\ events' = Tail(events)
  /\ IF Refreshing
     THEN again' = AskAgain /\ UNCHANGED calls
     ELSE calls' = [calls EXCEPT !["sync"].at = "rows"] /\ UNCHANGED again
  /\ UNCHANGED <<session, db, stored, room, list, sends, acts,
                 torn, spoilt>>

RefreshEnds == [calls EXCEPT !["sync"] =
                  IF again THEN [Idle EXCEPT !.at = "rows"] ELSE Idle]

RefreshesRoom ==
  /\ calls["sync"].at = "rows"
  /\ IF open THEN Asks("sync") /\ UNCHANGED again
             ELSE calls' = RefreshEnds /\ again' = FALSE
  /\ UNCHANGED <<session, sdk, room, list, sends, acts, torn, spoilt>>

\* room.vue: opening the room loads; any later load of the open room
\* (resyncAfterResume) is the same call.
OpenRoom ==
  /\ ~open /\ open' = TRUE /\ fresh' = FALSE
  /\ calls["load"].at = "idle" /\ Act
  /\ Asks("load")
  /\ UNCHANGED <<session, sdk, ended, list, again, sends, torn, spoilt>>

Resync ==
  /\ open /\ calls["load"].at = "idle" /\ Act
  /\ Asks("load")
  /\ UNCHANGED <<session, sdk, room, list, again, sends, torn, spoilt>>

\* onUnload: trimConversationMemory of this conversation.
LeaveRoom ==
  /\ open /\ open' = FALSE /\ fresh' = FALSE
  /\ Trimmed(list) /\ ended' = EndAfter(list, ended)
  /\ UNCHANGED <<session, sdk, calls, again, sends, acts, torn, spoilt>>

\* The same when another room is left: this list goes altogether.
LeaveOtherRoom ==
  /\ ~open /\ list # <<>>
  /\ list' = <<>>
  /\ torn' = (torn \/ \E c \in Calls : calls[c].of # 0)
  /\ UNCHANGED <<session, sdk, room, calls, again, sends, acts, spoilt>>

Done(c) == IF c = "sync" THEN RefreshEnds ELSE [calls EXCEPT ![c] = Idle]

Settle(c) == /\ calls' = Done(c)
             /\ again' = (again /\ c # "sync")

\* The answer comes to another list than the question was asked of.
Meets(c) == calls[c].kept = list /\ calls[c].of = session

\* loadMessages after its await; no look at the session.
LoadAnswered(c) ==
  /\ c \in {"load", "sync"} /\ calls[c].at = "answered"
  /\ \E aged \in 0..stored :
     LET kept == calls[c].kept
         page == calls[c].page
         l    == WithRead(page, kept) \o Pending(page, kept, aged)
     IN  IF page = <<>> /\ kept # <<>>
         THEN /\ ended' = FALSE
              /\ torn' = (torn \/ c = "sync")
              /\ UNCHANGED <<list, fresh>>
         ELSE /\ Trimmed(l) /\ ended' = EndAfter(l, calls[c].end)
              /\ fresh' = (open /\ (fresh \/ page # <<>>))
              /\ torn' = (torn \/ ~Meets(c) \/ (page = <<>> /\ c = "sync")
                          \/ OutOfOrder(l))
  /\ Settle(c)
  /\ UNCHANGED <<session, sdk, open, sends, acts, spoilt>>

\* The call rejects.
CallFails(c) ==
  /\ calls[c].at = "asked"
  /\ Settle(c)
  /\ torn' = (torn \/ c = "sync")
  /\ UNCHANGED <<session, sdk, room, list, sends, acts, spoilt>>

\* loadMoreMessages; room.vue asks for one at a time.
LoadMore ==
  /\ open /\ ~ended /\ list # <<>>
  /\ calls["older"].at = "idle" /\ Act
  /\ Asks("older")
  /\ UNCHANGED <<session, sdk, room, list, again, sends, torn, spoilt>>

MoreAnswered ==
  /\ calls["older"].at = "answered"
  /\ LET page == calls["older"].page
     IN  /\ ended' = calls["older"].end
         /\ list' = IF page = <<>> THEN list ELSE page \o calls["older"].kept
         /\ torn' = (torn \/ ~Meets("older"))
  /\ Settle("older")
  /\ UNCHANGED <<session, sdk, open, fresh, sends, acts, spoilt>>

\* sendWithPlaceholder up to its await.  Of an image the placeholder is there
\* before: deliverOutgoingImage waits for the preview first.
Send(s) ==
  /\ open /\ sends[s].at = "none" /\ Act
  /\ \E at \in {"asked", "preview"} :
       sends' = [sends EXCEPT ![s] = [at |-> at, msg |-> 0, of |-> session,
                                      by |-> session]]
  /\ list' = Append(list, Placeholder(s))
  /\ UNCHANGED <<session, sdk, room, calls, again, torn, spoilt>>

\* The bubble of a send whose message the list does not have.
Unsent(s, status) == Bubble(-s, status, {}, sends[s].by)

\* deliverOutgoingImage after its await: no look at the session.  A changed
\* preview is put in, and the send goes on under the account of now; or there
\* is no such conversation, and nothing will ever replace the placeholder.
PreviewAnswered(s) ==
  /\ sends[s].at = "preview"
  /\ list' \in {list, Replaced(list, -s, Unsent(s, "sending"))}
  /\ \E at \in {"asked", "lost"} :
       sends' = [sends EXCEPT ![s].at = at, ![s].of = session]
  /\ UNCHANGED <<session, sdk, room, calls, again, acts, torn, spoilt>>

\* Fault: the generation is not looked at.
OfAnySession(s) == TRUE

\* generation !== sessionGeneration
OfThisSession(s) == sends[s].of = session

Became(s, at) == sends' = [sends EXCEPT ![s].at = at]

\* The message of a send as its answer has it: without the marks of now.
Bare(s) == Bubble(sends[s].msg, "sent", {}, sends[s].of)

MarksLost(s) == {m \in {sends[s].msg} :
                   \E i \in DOMAIN list : list[i].id = m /\ list[i].marks # {}}

\* The SDK has sent the message.
SendDelivered(s) ==
  /\ sends[s].at = "sent" /\ OfThisSession(s)
  /\ list' = Replaced(list, -s, Bare(s))
  /\ Became(s, "appearing")
  /\ torn' = (torn \/ OutOfOrder(list'))
  /\ spoilt' = spoilt \cup MarksLost(s)
  /\ UNCHANGED <<session, sdk, room, calls, again, acts>>

\* After reappearConversation: in a group the seq is asked for in the
\* background.
Reappeared(s) ==
  /\ sends[s].at = "appearing" /\ OfThisSession(s)
  /\ Became(s, IF group THEN "resolving" ELSE "done")
  /\ UNCHANGED <<session, sdk, room, list, calls, again, acts, torn, spoilt>>

\* resolveMessageSeq finds it, or gives up: the bubble becomes the copy of the
\* time of the answer.
SeqResolved(s) ==
  /\ sends[s].at = "resolving" /\ Became(s, "done")
  /\ \/ UNCHANGED <<list, spoilt>>
     \/ /\ OfThisSession(s) /\ sends[s].msg \in Ids(list)
        /\ list' = Replaced(list, sends[s].msg, Bare(s))
        /\ spoilt' = spoilt \cup MarksLost(s)
  /\ UNCHANGED <<session, sdk, room, calls, again, acts, torn>>

\* The catch: the send has failed; or it has succeeded, and then there is no
\* such conversation.
SendRejected(s) ==
  /\ sends[s].at \in {"sent", "failed", "appearing"} /\ OfThisSession(s)
  /\ list' = Replaced(list, -s, Unsent(s, "failed"))
  /\ Became(s, "done")
  /\ spoilt' = spoilt \cup {m \in {sends[s].msg} : sends[s].at = "sent"}
  /\ UNCHANGED <<session, sdk, room, calls, again, acts, torn>>

\* The catch, when another account has come.
SendForgotten(s) ==
  /\ sends[s].at \in {"sent", "failed", "appearing"} /\ ~OfThisSession(s)
  /\ Became(s, "done")
  /\ UNCHANGED <<session, sdk, room, list, calls, again, acts, torn, spoilt>>

\* reset, and another account logs in to its own history.
Reset ==
  /\ session < MaxSessions /\ Act
  /\ session' = session + 1
  /\ db' = <<>> /\ events' = <<>>
  /\ list' = <<>> /\ ended' = FALSE
  /\ open' = FALSE /\ fresh' = FALSE
  /\ UNCHANGED <<stored, calls, again, sends, torn, spoilt>>

Next ==
  /\ UNCHANGED group
  /\ \/ PeerSends \/ SyncsFromServer
     \/ \E i \in DOMAIN db, mark \in {"read", "recalled"} : PeerMarks(i, mark)
     \/ \E s \in Sends :
          \/ SdkSends(s) \/ SdkFails(s)
          \/ Send(s) \/ PreviewAnswered(s) \/ SendDelivered(s) \/ Reappeared(s)
          \/ SeqResolved(s) \/ SendRejected(s) \/ SendForgotten(s)
     \/ \E c \in Calls : SdkReads(c) \/ CallFails(c) \/ LoadAnswered(c)
     \/ HandlesMessage \/ HandlesSynced \/ RefreshesRoom
     \/ OpenRoom \/ Resync \/ LeaveRoom \/ LeaveOtherRoom
     \/ LoadMore \/ MoreAnswered \/ Reset

Spec == Init /\ [][Next]_vars

-----------------------------------------------------------------------------
MarkKinds == {"read", "recalled"}

BubbleSet == [id : 1..MaxMessages \cup {-s : s \in Sends},
              status : {"sending", "sent", "failed"},
              marks : SUBSET MarkKinds, of : 1..MaxSessions]

MessageSet == [id : 1..stored, marks : SUBSET MarkKinds]

EventSet == [kind : {"new"} \cup MarkKinds, id : 1..stored] \cup {Event("synced", 0)}

CallSet == [at : {"idle", "rows", "asked", "answered"},
            kept : Seq(BubbleSet), page : Seq(BubbleSet),
            end : BOOLEAN, of : 0..MaxSessions]

SendSet == [at : {"none", "preview", "asked", "sent", "failed", "appearing",
                  "resolving", "done", "lost"},
            msg : 0..stored, of : 0..MaxSessions, by : 0..MaxSessions]

TypeOK ==
  /\ group \in BOOLEAN
  /\ session \in 1..MaxSessions
  /\ db \in Seq(MessageSet)
  /\ stored \in 0..MaxMessages
  /\ events \in Seq(EventSet)
  /\ {open, ended, again, fresh, torn} \subseteq BOOLEAN
  /\ list \in Seq(BubbleSet)
  /\ calls \in [Calls -> CallSet]
  /\ sends \in [Sends -> SendSet]
  /\ \A s \in Sends :
       /\ sends[s].at \in {"sent", "appearing", "resolving"} => sends[s].msg # 0
       /\ sends[s].at # "none" => 0 \notin {sends[s].of, sends[s].by}
  /\ acts \in 0..MaxActs
  /\ spoilt \subseteq 1..stored

\* A message is one bubble, whether the event, the answer of the send or a
\* page brings it first (appendMessage, replaceMessage, mergeLocalPending),
\* as long as no answer has met another list.
NoBubbleTwice ==
  torn \/ \A i, j \in DOMAIN list : list[i].id = list[j].id => i = j

Quiet == /\ events = <<>> /\ ~again
         /\ \A c \in Calls : calls[c].at = "idle"
         /\ \A s \in Sends : sends[s].at \in {"none", "done", "lost"}

Shown(id) == \E i \in DOMAIN list : list[i].id = id

\* The open room, once nothing is under way: from the first message shown to
\* the newest nothing is missing, offline messages included; a recalled
\* message is shown as recalled; the list that says it is complete is; and no
\* bubble says it is being sent, but of an image whose conversation was gone
\* when its preview came.  Not what a message's own send has spoilt.
WindowExact ==
  open /\ fresh /\ Quiet /\ ~torn =>
    /\ \A i, j \in DOMAIN db :
         i <= j /\ Shown(db[i].id) => Shown(db[j].id) \/ db[j].id \in spoilt
    /\ \A i \in DOMAIN db, k \in DOMAIN list :
         list[k].id = db[i].id /\ "recalled" \in db[i].marks
           => "recalled" \in list[k].marks \/ list[k].id \in spoilt
    /\ ended /\ db # <<>> => Shown(db[1].id)
    /\ \A i \in DOMAIN list : list[i].status = "sending"
         => \E s \in Sends : list[i].id = -s /\ sends[s].at = "lost"

\* What a send of an earlier account leaves never comes into the list of the
\* next one, unless a load has carried it over, or it is the placeholder of an
\* image whose preview came under the next account.
SendsStayInSession ==
  torn \/ \A i \in DOMAIN list :
    \/ list[i].of = session
    \/ \E s \in Sends : /\ list[i].id = -s /\ list[i].of = sends[s].by
                        /\ sends[s].of = session

\* A bubble that shows as read or recalled is never shown as before again,
\* late read marks of a page included, unless a page meets another list, or
\* the answer or the late seq of its own send comes.
MarksStay ==
  [][torn' \/ \A i \in DOMAIN list : \A j \in DOMAIN list' :
       list[i].id = list'[j].id =>
         \/ list[i].marks \subseteq list'[j].marks
         \/ \E s \in Sends : sends[s].msg = list[i].id /\ sends'[s] # sends[s]]_vars

-----------------------------------------------------------------------------
(* What comments of chat.ts say, and the code does not do                  *)

\* "A send/seq callback from the previous account must not reinsert its
\* placeholder ... into the next account's store after reset" (1524).
NoneOfEarlierAccount ==
  torn \/ \A i \in DOMAIN list : list[i].id < 0 => list[i].of = session

\* The messages that are being sent are kept when the history comes, so that
\* they do not vanish (1165).
SendingKept ==
  [][\A c \in {"load", "sync"}, i \in DOMAIN list :
       /\ calls[c].at = "answered" /\ calls'[c].at # "answered"
       /\ list[i].status = "sending"
       => list[i].id \in Ids(list')]_vars

\* The placeholder is replaced by the message, or turns red if the send has
\* failed (1456): what a finished send leaves never shows as being sent,
SettledSendShown ==
  \A i \in DOMAIN list, s \in Sends :
    list[i].id = -s /\ list[i].status = "sending" => sends[s].at # "done"

\* and what is red was not sent.
RedMeansFailed ==
  \A i \in DOMAIN list, s \in Sends :
    list[i].id = -s /\ list[i].status = "failed" => sends[s].msg = 0

=============================================================================
