------------------------- MODULE ChatMessagesProofs -------------------------
(***************************************************************************)
(* Proofs about ChatMessages, for every page size, window, set of sends    *)
(* and number of messages and accounts.  What the SDK has told of a        *)
(* message, by an event or in a page, is true of its database as long as   *)
(* the message is in it; a page is in the order of the database, and older *)
(* than the anchor it was asked for.  So an answer that meets the list it  *)
(* was asked of leaves every message one bubble, of this account, with the *)
(* marks it had.  The steps of a send put in its placeholder again, or its *)
(* message without the marks; under another account than the one that      *)
(* began it only where the preview of an image came under that account.    *)
(***************************************************************************)
EXTENDS ChatMessages, FiniteSetTheorems, TLAPS

-----------------------------------------------------------------------------
(* The invariant                                                           *)

\* Ids grow along the database.
Ordered(l) == \A i, j \in DOMAIN l : i < j => l[i].id < l[j].id

\* The receipts and recalls on their way are in the database.
EventsTrue ==
  \A i \in DOMAIN events, m \in DOMAIN db :
    events[i].kind \in MarkKinds /\ events[i].id = db[m].id
      => events[i].kind \in db[m].marks

\* What a bubble shows is true of its message in the database d of n messages,
\* and a placeholder is of a send that has begun, and has no marks.
Backs(b, d, n, q) ==
  /\ b.id <= n
  /\ \A m \in DOMAIN d : d[m].id = b.id => b.marks \subseteq d[m].marks
  /\ \A s \in Sends : b.id = -s => b.marks = {} /\ q[s].at # "none"

Backed(l, d, n, q) == \A i \in DOMAIN l : Backs(l[i], d, n, q)

\* The page of a call has the recalls of the list it was asked for, and is older
\* than the anchor.
PageTrue(c, r, now) ==
  /\ Ordered(r.page)
  /\ \A i \in DOMAIN r.page :
       /\ r.page[i].id > 0
       /\ r.page[i].of \in r.of..now
       /\ \A j \in DOMAIN r.kept :
            r.kept[j].id = r.page[i].id /\ "recalled" \in r.kept[j].marks
              => "recalled" \in r.page[i].marks
       /\ c = "older" => r.page[i].id < r.kept[1].id
  /\ c = "older" /\ r.at \in {"asked", "answered"} => r.kept # <<>>
  /\ r.at # "answered" => r.page = <<>>
  /\ r.of <= now

CallTrue(c, r, d, n, q, now) ==
  Backed(r.kept, d, n, q) /\ Backed(r.page, d, n, q) /\ PageTrue(c, r, now)

\* The SDK, and what it has told.
ToldInv ==
  /\ Ordered(db) /\ EventsTrue
  /\ Backed(list, db, stored, sends)
  /\ \A c \in Calls : CallTrue(c, calls[c], db, stored, sends, session)

Distinct(l) == \A i, j \in DOMAIN l : l[i].id = l[j].id => i = j

\* A bubble of the account now, or the placeholder of an image that another one
\* began and the send of which runs under now.
Mine(b, q, now) ==
  b.of = now \/ \E s \in Sends : b.id = -s /\ b.of = q[s].by /\ q[s].of = now

OneAccount(l, q, now) == \A i \in DOMAIN l : Mine(l[i], q, now)

Tidy(l, q, now) == Distinct(l) /\ ~OutOfOrder(l) /\ OneAccount(l, q, now)

\* The list while no answer has met another one.
ListInv == torn \/ Tidy(list, sends, session)

\* What m shows of the messages of l.
Keeps(l, m) ==
  \A i \in DOMAIN l : \A j \in DOMAIN m :
    l[i].id = m[j].id => l[i].marks \subseteq m[j].marks

\* What a step may do to the marks of a bubble: see MarksStay.
MarksKept ==
  \A i \in DOMAIN list : \A j \in DOMAIN list' :
    list[i].id = list'[j].id =>
      \/ list[i].marks \subseteq list'[j].marks
      \/ \E s \in Sends : sends[s].msg = list[i].id /\ sends'[s] # sends[s]

ChatInv == TypeOK /\ ToldInv /\ ListInv

-----------------------------------------------------------------------------
(* Sequences                                                               *)

\* m is what a filter leaves of l.
Within(m, l) ==
  \E f \in [DOMAIN m -> DOMAIN l] :
    /\ \A a, b \in DOMAIN m : a < b => f[a] < f[b]
    /\ \A k \in DOMAIN m : m[k] = l[f[k]]

\* The members of a finite set of numbers, in their order.
LEMMA Ranks ==
  ASSUME NEW n \in Nat, NEW I \in SUBSET (1..n)
  PROVE  /\ Cardinality(I) \in Nat
         /\ \A k \in 1..Cardinality(I) :
              \E i \in I : Cardinality({j \in I : j <= i}) = k
         /\ \A i, k \in I :
              Cardinality({j \in I : j <= i}) < Cardinality({j \in I : j <= k})
                <=> i < k
         /\ \A i \in I : Cardinality({j \in I : j <= i}) \in 1..Cardinality(I)
<1> DEFINE Below(i) == {j \in I : j <= i}
           rank == [i \in I |-> Cardinality(Below(i))]
<1>1. IsFiniteSet(I) /\ Cardinality(I) \in Nat
  <2>1. IsFiniteSet(1..n)
    BY FS_Interval
  <2> QED
    BY <2>1, FS_Subset, FS_CardinalityType
<1>2. ASSUME NEW i \in I PROVE Cardinality(Below(i)) \in 1..Cardinality(I)
  <2>1. IsFiniteSet(Below(i)) /\ Cardinality(Below(i)) <= Cardinality(I)
    BY <1>1, FS_Subset
  <2>2. Cardinality(Below(i)) \in Nat
    BY <2>1, FS_CardinalityType
  <2>3. i \in Below(i)
    OBVIOUS
  <2>4. Cardinality(Below(i)) # 0
    BY <2>1, <2>3, FS_EmptySet
  <2> QED
    BY <1>1, <2>1, <2>2, <2>4
<1>3. ASSUME NEW i \in I, NEW k \in I, i < k
      PROVE  Cardinality(Below(i)) < Cardinality(Below(k))
  <2>0. \A j \in I : j \in Int
    OBVIOUS
  <2>1. Below(i) \in SUBSET Below(k) /\ k \in Below(k) /\ k \notin Below(i)
    <3>1. i \in Int /\ k \in Int /\ k <= k /\ ~(k <= i)
      BY <1>3, <2>0
    <3>2. \A j \in I : j <= i => j <= k
      BY <1>3, <2>0, <3>1
    <3> QED
      BY <3>1, <3>2, Zenon
  <2>2. IsFiniteSet(Below(k))
    BY <1>1, FS_Subset
  <2>3. /\ Cardinality(Below(i)) <= Cardinality(Below(k))
        /\ Cardinality(Below(k)) = Cardinality(Below(i)) => Below(k) = Below(i)
    BY <2>1, <2>2, FS_Subset
  <2>4. Cardinality(Below(i)) # Cardinality(Below(k))
    BY <2>1, <2>3
  <2>5. Cardinality(Below(i)) \in Int /\ Cardinality(Below(k)) \in Int
    BY <1>2, <1>1
  <2> HIDE DEF Below
  <2> QED
    BY <2>3, <2>4, <2>5
<1>4. rank \in Injection(I, 1..Cardinality(I))
  <2>1. rank \in [I -> 1..Cardinality(I)]
    BY <1>2
  <2>2. ASSUME NEW i \in I, NEW k \in I, i # k PROVE rank[i] # rank[k]
    <3>1. i < k \/ k < i
      BY <2>2
    <3>2. rank[i] = Cardinality(Below(i)) /\ rank[k] = Cardinality(Below(k))
      OBVIOUS
    <3>3. /\ i < k => Cardinality(Below(i)) < Cardinality(Below(k))
          /\ k < i => Cardinality(Below(k)) < Cardinality(Below(i))
      BY <1>3
    <3>4. Cardinality(Below(i)) \in Int /\ Cardinality(Below(k)) \in Int
      BY <1>1, <1>2
    <3> HIDE DEF Below, rank
    <3> QED
      BY <3>1, <3>2, <3>3, <3>4
  <2> HIDE DEF rank
  <2> QED
    BY <2>1, <2>2 DEF Injection, IsInjective
<1>5. rank \in Surjection(I, 1..Cardinality(I))
  <2>1. /\ IsFiniteSet(1..Cardinality(I))
        /\ Cardinality(1..Cardinality(I)) = Cardinality(I)
    BY <1>1, FS_Interval
  <2> HIDE DEF rank
  <2> QED
    BY <1>4, <2>1, FS_Injection
<1>6. ASSUME NEW k \in 1..Cardinality(I)
      PROVE  \E i \in I : Cardinality(Below(i)) = k
  <2>1. \E i \in I : rank[i] = k
    <3> HIDE DEF rank
    <3> QED
      BY <1>5 DEF Surjection
  <2> QED
    BY <2>1
<1>7. ASSUME NEW i \in I, NEW k \in I,
             Cardinality(Below(i)) < Cardinality(Below(k))
      PROVE  i < k
  <2>1. CASE k = i
    BY <1>2, <1>7, <1>1, <2>1
  <2>2. CASE k < i
    <3>1. Cardinality(Below(k)) < Cardinality(Below(i))
      BY <1>3, <2>2
    <3>2. Cardinality(Below(i)) \in Int /\ Cardinality(Below(k)) \in Int
      BY <1>1, <1>2
    <3> HIDE DEF Below
    <3> QED
      BY <1>7, <3>1, <3>2
  <2> QED
    BY <2>1, <2>2
<1> HIDE DEF Below
<1>8. \A i, k \in I : Cardinality(Below(i)) < Cardinality(Below(k)) <=> i < k
  BY <1>3, <1>7
<1>9. \A i \in I : Cardinality(Below(i)) \in 1..Cardinality(I)
  BY <1>2
<1> QED
  BY <1>1, <1>6, <1>8, <1>9 DEF Below

\* A filter leaves all that it lets pass, in its order.
LEMMA Filtered ==
  ASSUME NEW S, NEW l \in Seq(S), NEW I \in SUBSET (DOMAIN l)
  PROVE  /\ At(l, I) \in Seq(S)
         /\ Within(At(l, I), l)
         /\ \A k \in DOMAIN At(l, I) : \E i \in I : At(l, I)[k] = l[i]
<1> DEFINE n == Cardinality(I)
           Rank(i) == Cardinality({j \in I : j <= i})
           f == [k \in 1..n |-> CHOOSE i \in I : Rank(i) = k]
<1>1. DOMAIN l = 1..Len(l) /\ Len(l) \in Nat
  OBVIOUS
<1>2. /\ n \in Nat
      /\ \A k \in 1..n : \E i \in I : Rank(i) = k
      /\ \A i, k \in I : Rank(i) < Rank(k) <=> i < k
      /\ \A i \in I : Rank(i) \in 1..n
  BY <1>1, Ranks
<1>3. \A k \in 1..n : f[k] \in I /\ Rank(f[k]) = k
  BY <1>2
<1>4. At(l, I) = [k \in 1..n |-> l[f[k]]]
  BY DEF At
<1> HIDE DEF n, f, Rank
<1>5. At(l, I) \in Seq(S) /\ DOMAIN At(l, I) = 1..n
  <2>1. \A k \in 1..n : l[f[k]] \in S
    BY <1>1, <1>3
  <2> QED
    BY <1>2, <1>4, <2>1
<1>6. \A a, b \in 1..n : a < b => f[a] < f[b]
  BY <1>2, <1>3
<1>7. f \in [1..n -> DOMAIN l]
  BY <1>3 DEF f
<1>8. Within(At(l, I), l)
  BY <1>4, <1>5, <1>6, <1>7 DEF Within
<1> QED
  BY <1>3, <1>4, <1>5, <1>8

LEMMA Newer ==
  ASSUME NEW S, NEW l \in Seq(S), NEW n \in Nat \ {0}
  PROVE  /\ Newest(l, n) \in Seq(S)
         /\ Within(Newest(l, n), l)
<1>1. CASE Len(l) > n
  <2> DEFINE d == Len(l) - n
             f == [k \in 1..n |-> k + d]
  <2>1. Newest(l, n) = SubSeq(l, d + 1, Len(l)) /\ d \in Nat /\ Len(l) = d + n
    BY <1>1 DEF Newest
  <2>2. /\ Newest(l, n) \in Seq(S) /\ DOMAIN Newest(l, n) = 1..n
        /\ \A k \in 1..n : Newest(l, n)[k] = l[k + d]
    BY <2>1
  <2>3. f \in [1..n -> DOMAIN l]
    BY <2>1
  <2>4. /\ \A a, b \in 1..n : a < b => f[a] < f[b]
        /\ \A k \in 1..n : Newest(l, n)[k] = l[f[k]]
    <3>1. d \in Int /\ \A k \in 1..n : f[k] = k + d
      BY <2>1
    <3>2. \A k \in 1..n : k \in Int
      OBVIOUS
    <3> HIDE DEF f, d
    <3> QED
      BY <2>2, <3>1, <3>2
  <2> HIDE DEF f
  <2> QED
    BY <2>2, <2>3, <2>4 DEF Within
<1>2. CASE ~(Len(l) > n)
  <2> DEFINE f == [k \in DOMAIN l |-> k]
  <2>1. Newest(l, n) = l
    BY <1>2 DEF Newest
  <2>2. /\ f \in [DOMAIN l -> DOMAIN l]
        /\ \A a, b \in DOMAIN l : a < b => f[a] < f[b]
        /\ \A k \in DOMAIN l : l[k] = l[f[k]]
    OBVIOUS
  <2> HIDE DEF f
  <2> QED
    BY <2>1, <2>2 DEF Within
<1> QED
  BY <1>1, <1>2

LEMMA WithinItself ==
  ASSUME NEW S, NEW l \in Seq(S)
  PROVE  Within(l, l)
<1> DEFINE f == [k \in DOMAIN l |-> k]
<1>1. /\ f \in [DOMAIN l -> DOMAIN l]
      /\ \A a, b \in DOMAIN l : a < b => f[a] < f[b]
      /\ \A k \in DOMAIN l : l[k] = l[f[k]]
  OBVIOUS
<1> HIDE DEF f
<1> QED
  BY <1>1 DEF Within

\* What a filter leaves has the order, the ids and the accounts it had.
LEMMA WithinKeeps ==
  ASSUME NEW l \in Seq(BubbleSet), NEW m \in Seq(BubbleSet), Within(m, l)
  PROVE  /\ Distinct(l) => Distinct(m)
         /\ ~OutOfOrder(l) => ~OutOfOrder(m)
         /\ \A q, now : OneAccount(l, q, now) => OneAccount(m, q, now)
         /\ \A k \in DOMAIN m : \E i \in DOMAIN l : m[k] = l[i]
<1>1. PICK f \in [DOMAIN m -> DOMAIN l] :
        /\ \A a, b \in DOMAIN m : a < b => f[a] < f[b]
        /\ \A k \in DOMAIN m : m[k] = l[f[k]]
  BY DEF Within
<1>2. DOMAIN l = 1..Len(l) /\ DOMAIN m = 1..Len(m)
  OBVIOUS
<1>3. ASSUME Distinct(l), NEW a \in DOMAIN m, NEW b \in DOMAIN m, m[a].id = m[b].id
      PROVE  a = b
  <2>1. f[a] = f[b]
    BY <1>1, <1>3 DEF Distinct
  <2>2. a \in Int /\ b \in Int /\ f[a] \in Int
    BY <1>1, <1>2
  <2>3. ~(a < b) /\ ~(b < a)
    BY <1>1, <2>1, <2>2
  <2> QED
    BY <2>2, <2>3
<1>4. ASSUME OutOfOrder(m) PROVE OutOfOrder(l)
  BY <1>1, <1>4 DEF OutOfOrder
<1> QED
  BY <1>1, <1>3, <1>4 DEF Distinct, OneAccount
-----------------------------------------------------------------------------
(* What the list is made of                                                *)

LEMMA BubbleTypes ==
  ASSUME NEW b \in BubbleSet
  PROVE  /\ b.id \in Int /\ b.of \in 1..MaxSessions /\ b.marks \subseteq MarkKinds
         /\ b.id \in 1..MaxMessages \/ \E s \in Sends : b.id = -s
         /\ b.id > 0 => b.id \in 1..MaxMessages
         /\ b.status \in {"sending", "sent", "failed"}
BY ChatAssumption DEF BubbleSet

LEMMA MarkedList ==
  ASSUME NEW l \in Seq(BubbleSet), NEW id, NEW mark \in MarkKinds
  PROVE  /\ Marked(l, id, mark) \in Seq(BubbleSet)
         /\ DOMAIN Marked(l, id, mark) = DOMAIN l
         /\ \A i \in DOMAIN l :
              /\ Marked(l, id, mark)[i].id = l[i].id
              /\ Marked(l, id, mark)[i].of = l[i].of
              /\ l[i].id = id => Marked(l, id, mark)[i].marks = l[i].marks \cup {mark}
              /\ l[i].id # id => Marked(l, id, mark)[i].marks = l[i].marks
<1>1. ASSUME NEW i \in DOMAIN l
      PROVE  /\ [l[i] EXCEPT !.marks = @ \cup {mark}] \in BubbleSet
             /\ [l[i] EXCEPT !.marks = @ \cup {mark}].id = l[i].id
             /\ [l[i] EXCEPT !.marks = @ \cup {mark}].of = l[i].of
             /\ [l[i] EXCEPT !.marks = @ \cup {mark}].marks = l[i].marks \cup {mark}
             /\ l[i] \in BubbleSet
  <2>1. l[i] \in BubbleSet
    OBVIOUS
  <2> QED
    BY <2>1 DEF BubbleSet
<1>2. DOMAIN Marked(l, id, mark) = DOMAIN l
  BY DEF Marked
<1>3. \A i \in DOMAIN l :
        Marked(l, id, mark)[i] = IF l[i].id = id
                                 THEN [l[i] EXCEPT !.marks = @ \cup {mark}] ELSE l[i]
  BY DEF Marked
<1>4. Marked(l, id, mark) \in Seq(BubbleSet)
  <2>1. \A i \in DOMAIN l : Marked(l, id, mark)[i] \in BubbleSet
    BY <1>1, <1>3
  <2> QED
    BY <2>1 DEF Marked
<1> QED
  BY <1>1, <1>2, <1>3, <1>4

\* What replaces a bubble replaces it once, and what came before under the
\* new id goes.
LEMMA ReplacedList ==
  ASSUME NEW l \in Seq(BubbleSet), NEW temp, NEW b \in BubbleSet
  PROVE  /\ Replaced(l, temp, b) \in Seq(BubbleSet)
         /\ \A k \in DOMAIN Replaced(l, temp, b) :
              \/ Replaced(l, temp, b)[k] = b
              \/ \E i \in DOMAIN l : /\ Replaced(l, temp, b)[k] = l[i]
                                     /\ l[i].id # b.id /\ l[i].id # temp
         /\ Distinct(l) => Distinct(Replaced(l, temp, b))
         /\ b.id = temp /\ (temp < 0 \/ temp \in Ids(l)) /\ ~OutOfOrder(l)
              => ~OutOfOrder(Replaced(l, temp, b))
<1> DEFINE I == {i \in DOMAIN l : l[i].id # b.id \/ l[i].id = temp}
           rest == At(l, I)
           R == Replaced(l, temp, b)
<1>1. /\ rest \in Seq(BubbleSet) /\ Within(rest, l)
      /\ \A k \in DOMAIN rest : \E i \in I : rest[k] = l[i]
  <2>1. I \in SUBSET (DOMAIN l)
    OBVIOUS
  <2> HIDE DEF I
  <2> QED
    BY <2>1, Filtered
<1>2. (Distinct(l) => Distinct(rest)) /\ (~OutOfOrder(l) => ~OutOfOrder(rest))
  BY <1>1, WithinKeeps
<1>3. R = IF temp \in Ids(l)
          THEN [i \in DOMAIN rest |-> IF rest[i].id = temp THEN b ELSE rest[i]]
          ELSE Append(rest, b)
  BY DEF Replaced
<1>4. \A k \in DOMAIN rest : \E i \in DOMAIN l :
        rest[k] = l[i] /\ (l[i].id # b.id \/ l[i].id = temp)
  BY <1>1
<1> HIDE DEF rest, R
<1>5. CASE temp \in Ids(l)
  <2>1. R = [i \in DOMAIN rest |-> IF rest[i].id = temp THEN b ELSE rest[i]]
    BY <1>3, <1>5
  <2>2. R \in Seq(BubbleSet) /\ DOMAIN R = DOMAIN rest
    <3>1. \A i \in DOMAIN rest : (IF rest[i].id = temp THEN b ELSE rest[i]) \in BubbleSet
      BY <1>1
    <3> QED
      BY <1>1, <2>1, <3>1
  <2>3. \A k \in DOMAIN rest :
          \/ R[k] = b /\ rest[k].id = temp
          \/ R[k] = rest[k] /\ rest[k].id # temp /\ rest[k].id # b.id
    BY <1>4, <2>1
  <2>4. Distinct(rest) => Distinct(R)
    BY <2>2, <2>3 DEF Distinct
  <2>5. b.id = temp /\ ~OutOfOrder(rest) => ~OutOfOrder(R)
    <3> SUFFICES ASSUME b.id = temp PROVE OutOfOrder(R) => OutOfOrder(rest)
      OBVIOUS
    <3>1. \A k \in DOMAIN rest : R[k].id = rest[k].id
      BY <2>3
    <3> QED
      BY <2>2, <3>1 DEF OutOfOrder
  <2> QED
    BY <1>2, <1>4, <2>2, <2>3, <2>4, <2>5 DEF R
<1>6. CASE temp \notin Ids(l)
  <2>1. R = Append(rest, b)
    BY <1>3, <1>6
  <2>2. \A i \in DOMAIN l : l[i].id # temp
    BY <1>6 DEF Ids
  <2>3. \A k \in DOMAIN rest : rest[k].id # b.id
    BY <1>4, <2>2
  <2>4. /\ R \in Seq(BubbleSet) /\ DOMAIN R = 1..(Len(rest) + 1)
        /\ \A k \in DOMAIN rest : R[k] = rest[k]
        /\ R[Len(rest) + 1] = b
        /\ DOMAIN rest = 1..Len(rest) /\ Len(rest) \in Nat
    BY <1>1, <2>1
  <2>5. Distinct(rest) => Distinct(R)
    BY <2>3, <2>4 DEF Distinct
  <2>6. \A k \in DOMAIN R : k \in DOMAIN rest \/ R[k] = b
    BY <2>4
  <2>7. b.id < 0 /\ OutOfOrder(R) => OutOfOrder(rest)
    <3> SUFFICES ASSUME b.id < 0, NEW i \in DOMAIN R, NEW j \in DOMAIN R, i < j,
                        R[j].id \in 1..(R[i].id - 1)
                 PROVE  OutOfOrder(rest)
      BY DEF OutOfOrder
    <3>1. b.id \in Int /\ \A k \in DOMAIN rest : rest[k] \in BubbleSet
      BY <1>1, BubbleTypes
    <3>2. \A k \in DOMAIN R : R[k].id \in Int
      BY <2>4, <2>6, <3>1, BubbleTypes
    <3>3. i \in DOMAIN rest /\ j \in DOMAIN rest
      BY <2>6, <3>2
    <3> QED
      BY <2>4, <3>3 DEF OutOfOrder
  <2> QED
    BY <1>2, <1>4, <1>6, <2>2, <2>4, <2>5, <2>6, <2>7 DEF R
<1> QED
  BY <1>5, <1>6

LEMMA PendingList ==
  ASSUME NEW page, NEW kept \in Seq(BubbleSet), NEW aged
  PROVE  /\ Pending(page, kept, aged) \in Seq(BubbleSet)
         /\ Within(Pending(page, kept, aged), kept)
         /\ \A k \in DOMAIN Pending(page, kept, aged) :
              Pending(page, kept, aged)[k].id \notin Ids(page)
<1> DEFINE I == {i \in DOMAIN kept :
                   /\ kept[i].id \notin Ids(page)
                   /\ kept[i].status = "sent" => kept[i].id > aged}
<1>1. /\ At(kept, I) \in Seq(BubbleSet) /\ Within(At(kept, I), kept)
      /\ \A k \in DOMAIN At(kept, I) : \E i \in I : At(kept, I)[k] = kept[i]
  <2>1. I \in SUBSET (DOMAIN kept)
    OBVIOUS
  <2> HIDE DEF I
  <2> QED
    BY <2>1, Filtered
<1>2. Pending(page, kept, aged) = At(kept, I)
  BY DEF Pending
<1>3. \A k \in DOMAIN At(kept, I) : At(kept, I)[k].id \notin Ids(page)
  BY <1>1
<1> QED
  BY <1>1, <1>2, <1>3

LEMMA ReadPage ==
  ASSUME NEW page \in Seq(BubbleSet), NEW kept
  PROVE  /\ WithRead(page, kept) \in Seq(BubbleSet)
         /\ DOMAIN WithRead(page, kept) = DOMAIN page
         /\ \A i \in DOMAIN page :
              /\ WithRead(page, kept)[i].id = page[i].id
              /\ WithRead(page, kept)[i].of = page[i].of
              /\ WithRead(page, kept)[i].marks =
                   page[i].marks \cup
                     (IF \E j \in DOMAIN kept :
                           kept[j].id = page[i].id /\ "read" \in kept[j].marks
                      THEN {"read"} ELSE {})
<1>1. ASSUME NEW i \in DOMAIN page
      PROVE  /\ [page[i] EXCEPT !.marks = @ \cup {"read"}] \in BubbleSet
             /\ [page[i] EXCEPT !.marks = @ \cup {"read"}].id = page[i].id
             /\ [page[i] EXCEPT !.marks = @ \cup {"read"}].of = page[i].of
             /\ [page[i] EXCEPT !.marks = @ \cup {"read"}].marks
                  = page[i].marks \cup {"read"}
             /\ page[i] \in BubbleSet
  <2>1. page[i] \in BubbleSet
    OBVIOUS
  <2> QED
    BY <2>1 DEF BubbleSet, MarkKinds
<1>2. DOMAIN WithRead(page, kept) = DOMAIN page
  BY DEF WithRead
<1>3. \A i \in DOMAIN page :
        WithRead(page, kept)[i] =
          IF \E j \in DOMAIN kept :
               kept[j].id = page[i].id /\ "read" \in kept[j].marks
          THEN [page[i] EXCEPT !.marks = @ \cup {"read"}] ELSE page[i]
  BY DEF WithRead
<1>4. WithRead(page, kept) \in Seq(BubbleSet)
  <2>1. \A i \in DOMAIN page : WithRead(page, kept)[i] \in BubbleSet
    BY <1>1, <1>3
  <2> QED
    BY <2>1 DEF WithRead
<1> QED
  BY <1>1, <1>2, <1>3, <1>4
-----------------------------------------------------------------------------
(* Typing                                                                  *)

Rest(place) == [at |-> place, kept |-> <<>>, page |-> <<>>, end |-> FALSE, of |-> 0]

Resting == {Rest("idle"), Rest("rows")}

Asked == [at |-> "asked", kept |-> list, page |-> <<>>, end |-> FALSE,
          of |-> session]

LEMMA CallFields ==
  ASSUME NEW S, NEW V, NEW r \in [at : S, kept : S, page : S, end : V, of : S],
         NEW a, NEW k, NEW o
  PROVE  [r EXCEPT !.at = a, !.kept = k, !.of = o] =
           [at |-> a, kept |-> k, page |-> r.page, end |-> r.end, of |-> o]
<1> DEFINE new == [r EXCEPT !.at = a, !.kept = k, !.of = o]
           rec == [at |-> a, kept |-> k, page |-> r.page, end |-> r.end, of |-> o]
           F   == {"at", "kept", "page", "end", "of"}
<1>1. DOMAIN new = F /\ DOMAIN rec = F
  OBVIOUS
<1>2. new.at = a /\ new.kept = k /\ new.of = o
  OBVIOUS
<1>3. new.page = r.page /\ new.end = r.end
  OBVIOUS
<1>4. /\ rec.at = a /\ rec.kept = k /\ rec.of = o
      /\ rec.page = r.page /\ rec.end = r.end
  OBVIOUS
<1>5. new = [i \in F |-> new[i]] /\ rec = [i \in F |-> rec[i]]
  BY <1>1
<1> HIDE DEF new, rec
<1>6. \A i \in F : new[i] = rec[i]
  BY <1>2, <1>3, <1>4
<1> HIDE DEF F
<1> QED
  BY <1>5, <1>6 DEF new, rec

LEMMA CallTypes ==
  /\ Idle = Rest("idle") /\ [Idle EXCEPT !.at = "rows"] = Rest("rows")
  /\ [Idle EXCEPT !.at = "asked", !.kept = list, !.of = session] = Asked
  /\ \A q \in Resting : /\ q \in CallSet /\ q.at \in {"idle", "rows"}
                        /\ q.kept = <<>> /\ q.page = <<>> /\ q.of = 0
  /\ TypeOK => Asked \in CallSet
<1>1. Idle = Rest("idle")
  BY Zenon DEF Idle, Rest
<1> DEFINE S == {"idle", <<>>, 0}
<1>a. Idle \in [at : S, kept : S, page : S, end : BOOLEAN, of : S]
  BY DEF Idle
<1>c. PICK T : Idle \in [at : T, kept : T, page : T, end : BOOLEAN, of : T]
  BY <1>a, Zenon
<1>b. Idle.kept = <<>> /\ Idle.page = <<>> /\ Idle.end = FALSE /\ Idle.of = 0
  BY DEF Idle
<1>2. [Idle EXCEPT !.at = "rows"] = Rest("rows")
  <2>1. [Idle EXCEPT !.at = "rows"] =
          [at |-> "rows", kept |-> Idle.kept, page |-> Idle.page, end |-> Idle.end,
           of |-> Idle.of]
    BY <1>c
  <2> QED
    BY <2>1, <1>b, Zenon DEF Rest
<1>3. [Idle EXCEPT !.at = "asked", !.kept = list, !.of = session] = Asked
  <2>1. [Idle EXCEPT !.at = "asked", !.kept = list, !.of = session] =
          [at |-> "asked", kept |-> list, page |-> Idle.page, end |-> Idle.end,
           of |-> session]
    BY <1>c, CallFields
  <2> QED
    BY <2>1, <1>b, Zenon DEF Asked
<1>4. ASSUME NEW q \in Resting
      PROVE  /\ q \in CallSet /\ q.at \in {"idle", "rows"}
             /\ q.kept = <<>> /\ q.page = <<>> /\ q.of = 0
  <2>1. <<>> \in Seq(BubbleSet) /\ 0 \in 0..MaxSessions
    BY ChatAssumption
  <2>2. q = Rest("idle") \/ q = Rest("rows")
    BY DEF Resting
  <2>3. q.at \in {"idle", "rows"} /\ q.kept = <<>> /\ q.page = <<>> /\ q.of = 0
    BY <2>2 DEF Rest
  <2>4. Rest("idle") \in CallSet /\ Rest("rows") \in CallSet
    BY <2>1 DEF Rest, CallSet
  <2> QED
    BY <2>2, <2>3, <2>4
<1>5. TypeOK => Asked \in CallSet
  <2>1. TypeOK => list \in Seq(BubbleSet) /\ session \in 0..MaxSessions
    BY ChatAssumption DEF TypeOK
  <2>2. <<>> \in Seq(BubbleSet)
    OBVIOUS
  <2> QED
    BY <2>1, <2>2 DEF Asked, CallSet
<1> QED
  BY <1>1, <1>2, <1>3, <1>4, <1>5

LEMMA AskTypes ==
  ASSUME TypeOK, NEW c \in Calls, Asks(c)
  PROVE  /\ calls' \in [Calls -> CallSet]
         /\ calls'[c] = Asked
         /\ \A d \in Calls \ {c} : calls'[d] = calls[d]
<1>1. calls \in [Calls -> CallSet]
  BY DEF TypeOK
<1>2. calls' = [calls EXCEPT ![c] = Asked]
  BY CallTypes, Zenon DEF Asks
<1> QED
  BY <1>1, <1>2, CallTypes

LEMMA SettleTypes ==
  ASSUME TypeOK, NEW c \in Calls, Settle(c)
  PROVE  /\ calls' \in [Calls -> CallSet] /\ again' \in BOOLEAN
         /\ calls'[c] \in Resting
         /\ \A d \in Calls \ {c} : calls'[d] = calls[d]
<1>1. calls \in [Calls -> CallSet] /\ again \in BOOLEAN
  BY DEF TypeOK
<1>2. \E q \in Resting : calls' = [calls EXCEPT ![c] = q]
  <2>1. Idle \in Resting /\ [Idle EXCEPT !.at = "rows"] \in Resting
    BY CallTypes DEF Resting
  <2>2. calls' = [calls EXCEPT ![c] = Idle]
        \/ (c = "sync" /\ calls' = [calls EXCEPT !["sync"] =
                                    IF again THEN [Idle EXCEPT !.at = "rows"] ELSE Idle])
    BY DEF Settle, Done, RefreshEnds
  <2> QED
    BY <2>1, <2>2
<1>3. again' \in BOOLEAN
  BY <1>1 DEF Settle
<1> QED
  BY <1>1, <1>2, <1>3, CallTypes

\* A page is what the database has up to n, in its order; only receipts may be
\* missing.
LEMMA PageRead ==
  ASSUME TypeOK, NEW n \in 0..Len(db), NEW late \in BOOLEAN
  PROVE  /\ PageOf(n, late) \in Seq(BubbleSet)
         /\ \A i \in DOMAIN PageOf(n, late) :
              \E m \in 1..n :
                /\ m \in DOMAIN db
                /\ PageOf(n, late)[i].id = db[m].id
                /\ PageOf(n, late)[i].of = session
                /\ PageOf(n, late)[i].marks \subseteq db[m].marks
                /\ "recalled" \in db[m].marks
                     => "recalled" \in PageOf(n, late)[i].marks
         /\ Ordered(db) => Ordered(PageOf(n, late))
<1> DEFINE head == SubSeq(db, 1, n)
           page == Newest(head, PageSize)
           P == PageOf(n, late)
<1>1. /\ db \in Seq(MessageSet) /\ stored \in 0..MaxMessages /\ session \in 1..MaxSessions
      /\ n \in Nat /\ DOMAIN db = 1..Len(db) /\ Len(db) \in Nat
  BY DEF TypeOK
<1>2. head \in Seq(MessageSet) /\ DOMAIN head = 1..n /\ \A i \in 1..n : head[i] = db[i]
  <2>1. n <= Len(db) /\ 1 \in Int
    BY <1>1
  <2> QED
    BY <1>1, <2>1
<1>3. page \in Seq(MessageSet) /\ Within(page, head)
  BY <1>2, ChatAssumption, Newer
<1>4. PICK f \in [DOMAIN page -> DOMAIN head] :
        /\ \A a, b \in DOMAIN page : a < b => f[a] < f[b]
        /\ \A k \in DOMAIN page : page[k] = head[f[k]]
  BY <1>3 DEF Within
<1>5. P = [i \in DOMAIN page |->
             Bubble(page[i].id, "sent",
                    page[i].marks \ IF late THEN {"read"} ELSE {}, session)]
  BY DEF PageOf
<1> HIDE DEF head, page, P
<1>6. ASSUME NEW i \in DOMAIN page
      PROVE  /\ f[i] \in 1..n /\ f[i] \in DOMAIN db /\ page[i] = db[f[i]]
             /\ page[i] \in MessageSet
  <2>1. f[i] \in 1..n /\ page[i] = head[f[i]]
    BY <1>2, <1>4
  <2>2. f[i] \in DOMAIN db
    BY <1>1, <2>1
  <2>3. page[i] \in MessageSet
    BY <1>3
  <2> QED
    BY <1>2, <2>1, <2>2, <2>3
<1>7. ASSUME NEW i \in DOMAIN page
      PROVE  /\ P[i] \in BubbleSet /\ P[i].id = page[i].id /\ P[i].of = session
             /\ P[i].marks = page[i].marks \ IF late THEN {"read"} ELSE {}
  <2>1. page[i].id \in 1..stored /\ page[i].marks \in SUBSET MarkKinds
    BY <1>6 DEF MessageSet
  <2>2. P[i] = [id |-> page[i].id, status |-> "sent",
                marks |-> page[i].marks \ IF late THEN {"read"} ELSE {},
                of |-> session]
    BY <1>5 DEF Bubble
  <2>3. page[i].id \in 1..MaxMessages
    BY <1>1, <2>1, ChatAssumption
  <2> QED
    BY <1>1, <2>1, <2>2, <2>3 DEF BubbleSet
<1>8. P \in Seq(BubbleSet) /\ DOMAIN P = DOMAIN page
  <2>1. DOMAIN P = DOMAIN page
    BY <1>5
  <2>2. DOMAIN page = 1..Len(page) /\ Len(page) \in Nat
    BY <1>3
  <2>3. \A i \in 1..Len(page) : P[i] \in BubbleSet
    BY <1>7, <2>2
  <2>4. P = [i \in 1..Len(page) |-> P[i]]
    BY <1>5, <2>2
  <2> QED
    BY <2>1, <2>2, <2>3, <2>4
<1>9. ASSUME NEW i \in DOMAIN P
      PROVE  \E m \in 1..n :
               /\ m \in DOMAIN db
               /\ P[i].id = db[m].id
               /\ P[i].of = session
               /\ P[i].marks \subseteq db[m].marks
               /\ "recalled" \in db[m].marks => "recalled" \in P[i].marks
  BY <1>6, <1>7, <1>8
<1>10. Ordered(db) => Ordered(P)
  <2> SUFFICES ASSUME Ordered(db), NEW i \in DOMAIN P, NEW j \in DOMAIN P, i < j
               PROVE  P[i].id < P[j].id
    BY DEF Ordered
  <2>1. f[i] < f[j] /\ f[i] \in DOMAIN db /\ f[j] \in DOMAIN db
    BY <1>4, <1>6, <1>8
  <2>2. P[i].id = db[f[i]].id /\ P[j].id = db[f[j]].id
    BY <1>6, <1>7, <1>8
  <2> QED
    BY <2>1, <2>2 DEF Ordered
<1> QED
  BY <1>8, <1>9, <1>10 DEF P
\* What is stored stays in its sets as more is stored.
LEMMA SetsGrow ==
  ASSUME stored \in Nat, stored' \in Nat, stored <= stored'
  PROVE  /\ EventSet \subseteq EventSet' /\ SendSet \subseteq SendSet'
         /\ MessageSet \subseteq MessageSet'
<1>1. 1..stored \subseteq 1..stored' /\ 0..stored \subseteq 0..stored'
  OBVIOUS
<1>2. MessageSet \subseteq MessageSet'
  BY <1>1 DEF MessageSet
<1>3. [kind : {"new"} \cup MarkKinds, id : 1..stored]
        \subseteq [kind : {"new"} \cup MarkKinds, id : 1..stored']
  BY <1>1
<1>4. SendSet \subseteq SendSet'
  BY <1>1 DEF SendSet
<1> QED
  BY <1>2, <1>3, <1>4 DEF EventSet, Event

LEMMA SeqGrows ==
  ASSUME NEW S, NEW T, S \subseteq T, NEW l \in Seq(S)
  PROVE  l \in Seq(T)
OBVIOUS

LEMMA SameSets ==
  stored' = stored =>
    EventSet' = EventSet /\ SendSet' = SendSet /\ MessageSet' = MessageSet
BY DEF EventSet, SendSet, MessageSet

\* A new message.
LEMMA StoreTypes ==
  ASSUME TypeOK, NEW new \in Seq(EventSet'), Store(new)
  PROVE  /\ stored' = stored + 1 /\ stored' \in 0..MaxMessages
         /\ stored \in Nat /\ stored' \in 1..MaxMessages
         /\ db' \in Seq(MessageSet')
         /\ events' \in Seq(EventSet') /\ events' = events \o new
         /\ SendSet \subseteq SendSet'
         /\ DOMAIN db' = 1..(Len(db) + 1) /\ DOMAIN db = 1..Len(db) /\ Len(db) \in Nat
         /\ \A m \in DOMAIN db : db'[m] = db[m]
         /\ db'[Len(db) + 1] = [id |-> stored', marks |-> {}]
<1> DEFINE last == [id |-> stored', marks |-> {}]
<1>1. /\ db \in Seq(MessageSet) /\ stored \in 0..MaxMessages /\ events \in Seq(EventSet)
      /\ stored' = stored + 1 /\ stored < MaxMessages
      /\ db' = Append(db, last) /\ events' = events \o new
  BY DEF TypeOK, Store
<1>2. stored \in Nat /\ stored' \in Nat /\ stored' \in 1..MaxMessages
      /\ stored' \in 0..MaxMessages
  BY <1>1, ChatAssumption
<1>3. EventSet \subseteq EventSet' /\ SendSet \subseteq SendSet' /\ MessageSet \subseteq MessageSet'
  BY <1>1, <1>2, SetsGrow
<1>4. last \in MessageSet'
  BY <1>2 DEF MessageSet
<1>5. last = [id |-> stored', marks |-> {}]
  OBVIOUS
<1> HIDE DEF last
<1>6. db \in Seq(MessageSet') /\ events \in Seq(EventSet')
  BY <1>1, <1>3, SeqGrows
<1>7. /\ db' \in Seq(MessageSet')
      /\ DOMAIN db' = 1..(Len(db) + 1) /\ DOMAIN db = 1..Len(db) /\ Len(db) \in Nat
      /\ \A m \in DOMAIN db : db'[m] = db[m]
      /\ db'[Len(db) + 1] = last
  BY <1>1, <1>4, <1>6
<1>8. events' \in Seq(EventSet')
  BY <1>1, <1>6
<1> QED
  BY <1>1, <1>2, <1>3, <1>5, <1>7, <1>8 DEF last

LEMMA NewEvent ==
  ASSUME stored' \in Nat \ {0}
  PROVE  /\ <<Event("new", stored')>> \in Seq(EventSet')
         /\ <<Event("synced", 0)>> \in Seq(EventSet')
         /\ <<>> \in Seq(EventSet')
<1>1. Event("new", stored') \in EventSet' /\ Event("synced", 0) \in EventSet'
  <2>1. stored' \in 1..stored'
    OBVIOUS
  <2> QED
    BY <2>1 DEF EventSet, Event
<1> HIDE DEF EventSet
<1> QED
  BY <1>1
LEMMA NewBubble ==
  ASSUME TypeOK, NEW id \in 1..MaxMessages
  PROVE  /\ Bubble(id, "sent", {}, session) \in BubbleSet
         /\ Bubble(id, "sent", {}, session).id = id
         /\ Bubble(id, "sent", {}, session).marks = {}
         /\ Bubble(id, "sent", {}, session).of = session
<1>1. session \in 1..MaxSessions
  BY DEF TypeOK
<1> QED
  BY <1>1 DEF Bubble, BubbleSet

LEMMA AppendedType ==
  ASSUME NEW l \in Seq(BubbleSet), NEW b \in BubbleSet
  PROVE  Appended(l, b) \in Seq(BubbleSet)
BY DEF Appended

LEMMA NewPlaceholder ==
  ASSUME TypeOK, NEW s \in Sends
  PROVE  /\ Placeholder(s) \in BubbleSet /\ Placeholder(s).id = -s
         /\ Placeholder(s).marks = {} /\ Placeholder(s).of = session
<1>1. -s \in 1..MaxMessages \cup {-q : q \in Sends}
  OBVIOUS
<1>2. session \in 1..MaxSessions
  BY DEF TypeOK
<1>3. Placeholder(s) = [id |-> -s, status |-> "sending", marks |-> {}, of |-> session]
  BY DEF Placeholder, Bubble
<1> QED
  BY <1>1, <1>2, <1>3 DEF BubbleSet

\* What the steps of a send put into the list.
LEMMA SendBubbles ==
  ASSUME TypeOK, NEW s \in Sends, sends[s].at # "none",
         NEW status \in {"sending", "failed"}
  PROVE  /\ Unsent(s, status) \in BubbleSet /\ Unsent(s, status).id = -s
         /\ Unsent(s, status).marks = {} /\ Unsent(s, status).of = sends[s].by
         /\ -s < 0
         /\ sends[s].at \in {"sent", "appearing", "resolving"} =>
              /\ Bare(s) \in BubbleSet /\ Bare(s).id = sends[s].msg
              /\ Bare(s).marks = {} /\ Bare(s).of = sends[s].of
              /\ sends[s].msg \in 1..stored
<1>1. /\ sends[s] \in SendSet /\ stored \in 0..MaxMessages
      /\ MaxMessages \in Nat /\ MaxSessions \in Nat /\ s \in Nat \ {0}
      /\ sends[s].at \in {"sent", "appearing", "resolving"} => sends[s].msg # 0
      /\ 0 \notin {sends[s].of, sends[s].by}
  BY ChatAssumption DEF TypeOK
<1>2. /\ sends[s].msg \in 0..stored
      /\ sends[s].of \in 1..MaxSessions /\ sends[s].by \in 1..MaxSessions
  BY <1>1 DEF SendSet
<1>3. Unsent(s, status) = [id |-> -s, status |-> status, marks |-> {}, of |-> sends[s].by]
  BY DEF Unsent, Bubble
<1>4. Bare(s) = [id |-> sends[s].msg, status |-> "sent", marks |-> {}, of |-> sends[s].of]
  BY DEF Bare, Bubble
<1>5. Unsent(s, status) \in BubbleSet
  BY <1>2, <1>3 DEF BubbleSet
<1>6. ASSUME sends[s].at \in {"sent", "appearing", "resolving"}
      PROVE  Bare(s) \in BubbleSet /\ sends[s].msg \in 1..stored
  <2>1. sends[s].msg \in 1..stored /\ sends[s].msg \in 1..MaxMessages
    BY <1>1, <1>2, <1>6
  <2> QED
    BY <1>2, <1>4, <2>1 DEF BubbleSet
<1> QED
  BY <1>1, <1>3, <1>4, <1>5, <1>6

\* A send on its way replaces a bubble, or leaves the list as it is.
SendWrites(s) ==
  PreviewAnswered(s) \/ SendDelivered(s) \/ SeqResolved(s) \/ SendRejected(s)

\* And nothing else.
SendMoves(s) == SdkFails(s) \/ Reappeared(s) \/ SendForgotten(s)

\* temp and b, where s replaces temp by b.
Puts(s, temp, b) ==
  /\ list' = Replaced(list, temp, b)
  /\ b \in BubbleSet /\ b.marks = {}
  /\ temp = b.id \/ SendDelivered(s)
  /\ sends'[s].of = session
  /\ \/ b.id = -s /\ temp = -s /\ b.of = sends[s].by
     \/ /\ b.id = sends[s].msg /\ sends[s].msg \in 1..stored /\ b.of = sends[s].of
        /\ temp = -s \/ (temp = b.id /\ temp \in Ids(list))
        /\ sends[s].of = session

LEMMA SendList ==
  ASSUME TypeOK, NEW s \in Sends, SendWrites(s)
  PROVE  list' = list \/ \E temp, b : Puts(s, temp, b)
<1>1. sends[s].at # "none"
  BY DEF SendWrites, PreviewAnswered, SendDelivered, SeqResolved, SendRejected
<1>t. sends \in [Sends -> SendSet] /\ sends[s] \in SendSet
  BY DEF TypeOK
<1>2. CASE PreviewAnswered(s)
  <2>1. list' = list \/ list' = Replaced(list, -s, Unsent(s, "sending"))
    BY <1>2 DEF PreviewAnswered
  <2>2. sends'[s].of = session
    <3>1. PICK at \in {"asked", "lost"} :
            sends' = [sends EXCEPT ![s].at = at, ![s].of = session]
      BY <1>2 DEF PreviewAnswered
    <3> QED
      BY <1>t, <3>1 DEF SendSet
  <2>3. list' = Replaced(list, -s, Unsent(s, "sending"))
          => Puts(s, -s, Unsent(s, "sending"))
    BY <1>1, <2>2, SendBubbles, Zenon DEF Puts
  <2> QED
    BY <2>1, <2>3
<1>3. CASE SendRejected(s)
  <2>1. list' = Replaced(list, -s, Unsent(s, "failed"))
    BY <1>3 DEF SendRejected
  <2>2. sends'[s].of = session
    BY <1>3, <1>t DEF SendRejected, Became, OfThisSession, SendSet
  <2>3. Puts(s, -s, Unsent(s, "failed"))
    BY <1>1, <2>1, <2>2, SendBubbles, Zenon DEF Puts
  <2> QED
    BY <2>3
<1>4. CASE SendDelivered(s)
  <2>1. /\ list' = Replaced(list, -s, Bare(s)) /\ sends[s].at = "sent"
        /\ sends[s].of = session /\ sends'[s].of = session
    BY <1>4, <1>t DEF SendDelivered, OfThisSession, Became, SendSet
  <2>2. Puts(s, -s, Bare(s))
    BY <1>1, <1>4, <2>1, SendBubbles DEF Puts
  <2> QED
    BY <2>2
<1>5. CASE SeqResolved(s)
  <2>1. CASE list' # list
    <3>1. /\ sends[s].msg \in Ids(list) /\ sends[s].of = session
          /\ list' = Replaced(list, sends[s].msg, Bare(s)) /\ sends[s].at = "resolving"
          /\ sends'[s].of = session
      BY <1>5, <1>t, <2>1 DEF SeqResolved, OfThisSession, Became, SendSet
    <3>2. Puts(s, sends[s].msg, Bare(s))
      BY <1>1, <3>1, SendBubbles DEF Puts
    <3> QED
      BY <3>2
  <2> QED
    BY <2>1
<1> QED
  BY <1>2, <1>3, <1>4, <1>5 DEF SendWrites

\* What becomes of the record of a send.
LEMMA SendSteps ==
  ASSUME TypeOK, NEW s \in Sends, SendWrites(s) \/ SendMoves(s)
  PROVE  /\ sends' \in [Sends -> SendSet]
         /\ \A q \in Sends \ {s} : sends'[q] = sends[q]
         /\ sends[s].at # "none" /\ sends'[s].at # "none" /\ sends'[s] # sends[s]
         /\ sends'[s].msg = sends[s].msg /\ sends'[s].by = sends[s].by
         /\ sends'[s].of \in {sends[s].of, session}
         /\ sends'[s].at = "appearing" => sends[s].at = "sent"
         /\ sends'[s].at = "resolving" => sends[s].at = "appearing"
         /\ sends'[s].at # "sent"
<1>1. /\ sends \in [Sends -> SendSet] /\ sends[s] \in SendSet
      /\ session \in 0..MaxSessions
  BY ChatAssumption DEF TypeOK
<1>2. CASE PreviewAnswered(s)
  <2>1. PICK at \in {"asked", "lost"} :
          sends' = [sends EXCEPT ![s].at = at, ![s].of = session]
    BY <1>2 DEF PreviewAnswered
  <2>2. sends[s].at = "preview"
    BY <1>2 DEF PreviewAnswered
  <2> QED
    BY <1>1, <2>1, <2>2 DEF SendSet
<1>3. ASSUME NEW at \in {"failed", "appearing", "resolving", "done"},
             sends' = [sends EXCEPT ![s].at = at],
             sends[s].at \in {"asked", "sent", "failed", "appearing", "resolving"},
             sends[s].at # at,
             at = "appearing" => sends[s].at = "sent",
             at = "resolving" => sends[s].at = "appearing"
      PROVE  /\ sends' \in [Sends -> SendSet]
             /\ \A q \in Sends \ {s} : sends'[q] = sends[q]
             /\ sends[s].at # "none" /\ sends'[s].at # "none" /\ sends'[s] # sends[s]
             /\ sends'[s].msg = sends[s].msg /\ sends'[s].by = sends[s].by
             /\ sends'[s].of \in {sends[s].of, session}
             /\ sends'[s].at = "appearing" => sends[s].at = "sent"
             /\ sends'[s].at = "resolving" => sends[s].at = "appearing"
             /\ sends'[s].at # "sent"
  BY <1>1, <1>3 DEF SendSet
<1>4. CASE SdkFails(s)
  BY <1>3, <1>4 DEF SdkFails
<1>5. CASE SendDelivered(s)
  BY <1>3, <1>5 DEF SendDelivered, Became
<1>6. CASE SeqResolved(s)
  BY <1>3, <1>6 DEF SeqResolved, Became
<1>7. CASE SendRejected(s) \/ SendForgotten(s)
  BY <1>3, <1>7 DEF SendRejected, SendForgotten, Became
<1>8. CASE Reappeared(s)
  BY <1>3, <1>8 DEF Reappeared, Became
<1> QED
  BY <1>2, <1>4, <1>5, <1>6, <1>7, <1>8 DEF SendWrites, SendMoves

\* The message of an event.
LEMMA EventTypes ==
  ASSUME TypeOK, events # <<>>
  PROVE  /\ Head(events) \in EventSet /\ Tail(events) \in Seq(EventSet)
         /\ Len(events) \in Nat \ {0} /\ 1 \in DOMAIN events
         /\ Head(events) = events[1]
         /\ DOMAIN Tail(events) = 1..(Len(events) - 1)
         /\ \A i \in DOMAIN Tail(events) :
              i + 1 \in DOMAIN events /\ Tail(events)[i] = events[i + 1]
         /\ Head(events).kind # "synced" =>
              /\ Head(events).kind \in {"new"} \cup MarkKinds
              /\ Head(events).id \in 1..stored
              /\ Head(events).id \in 1..MaxMessages
<1>1. events \in Seq(EventSet) /\ stored \in 0..MaxMessages /\ MaxMessages \in Nat
  BY ChatAssumption DEF TypeOK
<1>2. /\ Head(events) \in EventSet /\ Tail(events) \in Seq(EventSet)
      /\ Len(events) \in Nat \ {0} /\ 1 \in DOMAIN events
      /\ Head(events) = events[1]
      /\ DOMAIN Tail(events) = 1..(Len(events) - 1)
      /\ \A i \in DOMAIN Tail(events) :
           i + 1 \in DOMAIN events /\ Tail(events)[i] = events[i + 1]
  BY <1>1
<1>3. Head(events).kind # "synced" =>
        /\ Head(events).kind \in {"new"} \cup MarkKinds
        /\ Head(events).id \in 1..stored
  BY <1>2 DEF EventSet, Event
<1>4. 1..stored \subseteq 1..MaxMessages
  BY <1>1
<1> QED
  BY <1>2, <1>3, <1>4

\* What the handlers of events make of the list.
LEMMA HandledList ==
  ASSUME TypeOK, HandlesMessage
  PROVE  \E l \in Seq(BubbleSet) :
           /\ \/ /\ Head(events).kind = "new"
                 /\ l = Appended(list, Bubble(Head(events).id, "sent", {}, session))
              \/ /\ Head(events).kind \in MarkKinds
                 /\ l = Marked(list, Head(events).id, Head(events).kind)
           /\ list' = l \/ list' = Newest(l, Window)
           /\ torn' = (torn \/ OutOfOrder(l) \/ TooEarly(Head(events)))
           /\ list' \in Seq(BubbleSet) /\ ended' \in BOOLEAN
           /\ Within(list', l)
<1> DEFINE e == Head(events)
           l == IF e.kind = "new" THEN Appended(list, Bubble(e.id, "sent", {}, session))
                ELSE Marked(list, e.id, e.kind)
<1>1. /\ list \in Seq(BubbleSet) /\ ended \in BOOLEAN /\ events # <<>>
      /\ e.kind # "synced"
  BY DEF TypeOK, HandlesMessage
<1>2. e.kind \in {"new"} \cup MarkKinds /\ e.id \in 1..MaxMessages
  BY <1>1, EventTypes
<1>3. /\ IF open \/ e.kind # "new" THEN list' = l /\ ended' = ended
         ELSE Trimmed(l) /\ ended' = EndAfter(l, ended)
      /\ torn' = (torn \/ OutOfOrder(l) \/ TooEarly(e))
  BY DEF HandlesMessage
<1> HIDE DEF e
<1>4. \/ e.kind = "new" /\ l = Appended(list, Bubble(e.id, "sent", {}, session))
      \/ e.kind \in MarkKinds /\ l = Marked(list, e.id, e.kind)
  BY <1>2
<1>5. l \in Seq(BubbleSet)
  BY <1>1, <1>2, <1>4, NewBubble, AppendedType, MarkedList
<1> HIDE DEF l
<1>6. list' = l \/ list' = Newest(l, Window)
  BY <1>3 DEF Trimmed
<1>7. ended' \in BOOLEAN
  BY <1>1, <1>3 DEF EndAfter
<1>8. list' \in Seq(BubbleSet) /\ Within(list', l)
  BY <1>5, <1>6, ChatAssumption, Newer, WithinItself
<1> QED
  BY <1>3, <1>4, <1>5, <1>6, <1>7, <1>8 DEF e

\* What an answer of loadMessages makes of it.
LEMMA LoadedList ==
  ASSUME TypeOK, NEW c \in Calls, LoadAnswered(c)
  PROVE  /\ list' \in Seq(BubbleSet)
         /\ {ended', fresh', torn'} \subseteq BOOLEAN
         /\ \/ list' = list /\ torn' = (torn \/ c = "sync")
            \/ \E rest \in Seq(BubbleSet), l \in Seq(BubbleSet) :
                 /\ Within(rest, calls[c].kept)
                 /\ \A k \in DOMAIN rest : rest[k].id \notin Ids(calls[c].page)
                 /\ l = WithRead(calls[c].page, calls[c].kept) \o rest
                 /\ Within(list', l)
                 /\ ~torn' => ~torn /\ Meets(c) /\ ~OutOfOrder(l)
<1> DEFINE kept == calls[c].kept
           page == calls[c].page
           more(aged) == WithRead(page, kept) \o Pending(page, kept, aged)
<1>1. /\ list \in Seq(BubbleSet) /\ calls[c] \in CallSet
      /\ {open, ended, fresh, torn} \subseteq BOOLEAN
  BY DEF TypeOK
<1>2. kept \in Seq(BubbleSet) /\ page \in Seq(BubbleSet) /\ calls[c].end \in BOOLEAN
  BY <1>1 DEF CallSet
<1>3. PICK aged \in 0..stored :
        IF page = <<>> /\ kept # <<>>
        THEN /\ ended' = FALSE
             /\ torn' = (torn \/ c = "sync")
             /\ UNCHANGED <<list, fresh>>
        ELSE /\ Trimmed(more(aged)) /\ ended' = EndAfter(more(aged), calls[c].end)
             /\ fresh' = (open /\ (fresh \/ page # <<>>))
             /\ torn' = (torn \/ ~Meets(c) \/ (page = <<>> /\ c = "sync")
                         \/ OutOfOrder(more(aged)))
  BY DEF LoadAnswered
<1>4. CASE page = <<>> /\ kept # <<>>
  BY <1>1, <1>3, <1>4
<1>5. CASE ~(page = <<>> /\ kept # <<>>)
  <2> DEFINE rest == Pending(page, kept, aged)
             read == WithRead(page, kept)
             l == read \o rest
  <2>1. /\ rest \in Seq(BubbleSet) /\ Within(rest, kept)
        /\ \A k \in DOMAIN rest : rest[k].id \notin Ids(page)
    BY <1>2, PendingList
  <2>2. read \in Seq(BubbleSet)
    BY <1>2, ReadPage
  <2>3. l \in Seq(BubbleSet)
    <3> HIDE DEF read, rest
    <3> QED
      BY <2>1, <2>2
  <2>4. /\ list' = Newest(l, Window) /\ ended' = EndAfter(l, calls[c].end)
        /\ fresh' = (open /\ (fresh \/ page # <<>>))
        /\ torn' = (torn \/ ~Meets(c) \/ (page = <<>> /\ c = "sync") \/ OutOfOrder(l))
    BY <1>3, <1>5 DEF Trimmed
  <2>5. l = WithRead(page, kept) \o rest
    OBVIOUS
  <2> HIDE DEF l, rest
  <2>6. list' \in Seq(BubbleSet) /\ Within(list', l)
    BY <2>3, <2>4, ChatAssumption, Newer
  <2>7. {ended', fresh', torn'} \subseteq BOOLEAN
    BY <1>2, <2>4 DEF EndAfter
  <2> QED
    BY <2>1, <2>3, <2>4, <2>5, <2>6, <2>7
<1> QED
  BY <1>4, <1>5

\* The end of a refresh, with another one to come or not.
LEMMA RefreshTypes ==
  ASSUME TypeOK, calls' = RefreshEnds
  PROVE  /\ calls' \in [Calls -> CallSet]
         /\ calls'["sync"] \in Resting
         /\ \A d \in Calls \ {"sync"} : calls'[d] = calls[d]
<1>1. calls \in [Calls -> CallSet] /\ "sync" \in Calls
  BY DEF TypeOK, Calls
<1>2. PICK q \in Resting : calls' = [calls EXCEPT !["sync"] = q]
  BY CallTypes DEF RefreshEnds, Resting
<1> QED
  BY <1>1, <1>2, CallTypes

\* What TypeOK says of a send that has begun.
Begun(q) ==
  \A s \in Sends :
    /\ q[s].at \in {"sent", "appearing", "resolving"} => q[s].msg # 0
    /\ q[s].at # "none" => 0 \notin {q[s].of, q[s].by}

LEMMA TypeStep == TypeOK /\ [Next]_vars => TypeOK'
<1> SUFFICES ASSUME TypeOK, [Next]_vars PROVE TypeOK'
  OBVIOUS
<1>t. /\ group' \in BOOLEAN
      /\ session \in 1..MaxSessions /\ stored \in 0..MaxMessages
      /\ db \in Seq(MessageSet)
      /\ events \in Seq(EventSet) /\ list \in Seq(BubbleSet)
      /\ {open, ended, again, fresh, torn} \subseteq BOOLEAN
      /\ calls \in [Calls -> CallSet] /\ sends \in [Sends -> SendSet]
      /\ acts \in 0..MaxActs
      /\ acts < MaxActs => acts + 1 \in 0..MaxActs
      /\ Begun(sends) /\ spoilt \subseteq 1..stored
  <2>1. /\ session \in 1..MaxSessions /\ stored \in 0..MaxMessages
        /\ db \in Seq(MessageSet)
        /\ events \in Seq(EventSet) /\ list \in Seq(BubbleSet)
        /\ {open, ended, again, fresh, torn} \subseteq BOOLEAN
        /\ calls \in [Calls -> CallSet] /\ sends \in [Sends -> SendSet]
        /\ acts \in 0..MaxActs
        /\ Begun(sends) /\ spoilt \subseteq 1..stored
    BY Zenon DEF TypeOK, Begun
  <2>0. group' \in BOOLEAN
    BY DEF TypeOK, Next, vars
  <2>2. acts < MaxActs => acts + 1 \in 0..MaxActs
    <3>1. acts \in 0..MaxActs /\ MaxActs \in Nat
      BY <2>1, ChatAssumption
    <3> QED
      BY <3>1
  <2> QED
    BY <2>0, <2>1, <2>2
<1>s. stored' = stored =>
        EventSet' = EventSet /\ SendSet' = SendSet /\ MessageSet' = MessageSet
  BY SameSets
<1>1. CASE PeerSends
  <2>1. Store(<<Event("new", stored + 1)>>) /\ stored + 1 = stored'
    BY <1>1 DEF PeerSends, Store
  <2>2. stored' \in Nat \ {0}
    BY <1>t, <2>1
  <2>3. Store(<<Event("new", stored')>>)
    BY <2>1
  <2>4. /\ stored' \in 0..MaxMessages
        /\ db' \in Seq(MessageSet')
        /\ events' \in Seq(EventSet') /\ SendSet \subseteq SendSet'
    BY <2>2, <2>3, NewEvent, StoreTypes
  <2>5. sends' \in [Sends -> SendSet']
    BY <1>1, <1>t, <2>4 DEF PeerSends
  <2>6. spoilt' \subseteq 1..stored'
    BY <1>1, <1>t, <2>1 DEF PeerSends
  <2> QED
    BY <1>1, <1>t, <2>4, <2>5, <2>6 DEF PeerSends, TypeOK, Begun, room
<1>2. CASE SyncsFromServer
  <2>1. Store(<<Event("synced", 0)>>) /\ stored + 1 = stored'
    BY <1>2 DEF SyncsFromServer, Store
  <2>2. stored' \in Nat \ {0}
    BY <1>t, <2>1
  <2>4. /\ stored' \in 0..MaxMessages
        /\ db' \in Seq(MessageSet')
        /\ events' \in Seq(EventSet') /\ SendSet \subseteq SendSet'
    BY <2>1, <2>2, NewEvent, StoreTypes
  <2>5. sends' \in [Sends -> SendSet']
    BY <1>2, <1>t, <2>4 DEF SyncsFromServer
  <2>6. spoilt' \subseteq 1..stored'
    BY <1>2, <1>t, <2>1 DEF SyncsFromServer
  <2> QED
    BY <1>2, <1>t, <2>4, <2>5, <2>6 DEF SyncsFromServer, TypeOK, Begun, room
<1>3. ASSUME NEW i \in DOMAIN db, NEW mark \in {"read", "recalled"}, PeerMarks(i, mark)
      PROVE  TypeOK'
  <2>1. db' \in Seq(MessageSet)
    <3>1. db[i] \in MessageSet
      BY <1>t
    <3>2. [db[i] EXCEPT !.marks = @ \cup {mark}] \in MessageSet
      BY <3>1 DEF MessageSet, MarkKinds
    <3>3. db' = [db EXCEPT ![i] = [db[i] EXCEPT !.marks = @ \cup {mark}]]
      BY <1>3 DEF PeerMarks
    <3> QED
      BY <1>t, <3>2, <3>3
  <2>2. events' \in Seq(EventSet)
    <3>0. db[i] \in MessageSet
      BY <1>t
    <3>1. db[i].id \in 1..stored
      BY <3>0 DEF MessageSet
    <3>2. Event(mark, db[i].id) \in EventSet
      BY <3>1 DEF Event, EventSet, MarkKinds
    <3> QED
      BY <1>3, <1>t, <3>2 DEF PeerMarks
  <2> QED
    BY <1>3, <1>t, <1>s, <2>1, <2>2 DEF PeerMarks, TypeOK, Begun, room, Act
<1>4. ASSUME NEW s \in Sends, SdkSends(s) PROVE TypeOK'
  <2>1. PICK told \in BOOLEAN :
          Store(IF told THEN <<Event("new", stored + 1)>> ELSE <<>>)
    BY <1>4 DEF SdkSends
  <2>2. stored' = stored + 1
    BY <2>1 DEF Store
  <2>3. stored' \in Nat \ {0}
    BY <1>t, <2>2
  <2>4. (IF told THEN <<Event("new", stored + 1)>> ELSE <<>>) \in Seq(EventSet')
    BY <2>2, <2>3, NewEvent
  <2>5. /\ stored' \in 0..MaxMessages
        /\ db' \in Seq(MessageSet')
        /\ events' \in Seq(EventSet') /\ SendSet \subseteq SendSet'
    BY <2>1, <2>4, StoreTypes
  <2>6. sends' \in [Sends -> SendSet']
    <3>1. sends' = [sends EXCEPT ![s].at = "sent", ![s].msg = stored']
      BY <1>4, <2>2 DEF SdkSends
    <3>2. stored' \in 0..stored'
      BY <2>3
    <3>3. [sends[s] EXCEPT !.at = "sent", !.msg = stored'] \in SendSet'
      BY <1>t, <2>5, <3>2 DEF SendSet
    <3> QED
      BY <1>t, <2>5, <3>1, <3>3
  <2>7. Begun(sends')
    <3>1. sends[s] \in SendSet /\ sends[s].at = "asked"
      BY <1>4, <1>t DEF SdkSends
    <3>2. /\ sends'[s].msg = stored' /\ sends'[s].of = sends[s].of
          /\ sends'[s].by = sends[s].by
          /\ \A q \in Sends \ {s} : sends'[q] = sends[q]
      BY <1>4, <1>t, <2>2, <3>1 DEF SdkSends, SendSet
    <3> QED
      BY <1>t, <2>3, <3>1, <3>2 DEF Begun
  <2>8. spoilt' \subseteq 1..stored'
    BY <1>4, <1>t, <2>2 DEF SdkSends
  <2> QED
    BY <1>4, <1>t, <2>5, <2>6, <2>7, <2>8 DEF SdkSends, TypeOK, Begun, room
<1>5. ASSUME NEW s \in Sends, SendMoves(s) PROVE TypeOK'
  <2>1. sends' \in [Sends -> SendSet] /\ Begun(sends')
    <3>1. /\ sends' \in [Sends -> SendSet]
          /\ \A q \in Sends \ {s} : sends'[q] = sends[q]
          /\ sends[s].at # "none" /\ sends'[s].msg = sends[s].msg
          /\ sends'[s].by = sends[s].by
          /\ sends'[s].of \in {sends[s].of, session} /\ session # 0
          /\ sends'[s].at = "appearing" => sends[s].at = "sent"
          /\ sends'[s].at = "resolving" => sends[s].at = "appearing"
          /\ sends'[s].at # "sent"
      BY <1>5, <1>t, SendSteps
    <3> QED
      BY <1>t, <3>1 DEF Begun
  <2> QED
    BY <1>5, <1>t, <1>s, <2>1
    DEF SendMoves, SdkFails, Reappeared, SendForgotten, TypeOK, Begun, room, sdk
<1>6. ASSUME NEW s \in Sends, Send(s) PROVE TypeOK'
  <2>1. PICK at \in {"asked", "preview"} :
          sends' = [sends EXCEPT ![s] = [at |-> at, msg |-> 0, of |-> session,
                                         by |-> session]]
    BY <1>6 DEF Send
  <2>2. sends' \in [Sends -> SendSet]
    <3>1. session \in 0..MaxSessions /\ 0 \in 0..stored
      BY <1>t, ChatAssumption
    <3>2. [at |-> at, msg |-> 0, of |-> session, by |-> session] \in SendSet
      BY <3>1 DEF SendSet
    <3> QED
      BY <1>t, <2>1, <3>2
  <2>3. list' \in Seq(BubbleSet)
    <3>1. Placeholder(s) \in BubbleSet
      BY NewPlaceholder
    <3> QED
      BY <1>6, <1>t, <3>1 DEF Send
  <2>4. Begun(sends')
    <3>1. /\ sends'[s].at \in {"asked", "preview"}
          /\ sends'[s].of = session /\ sends'[s].by = session /\ session # 0
          /\ \A q \in Sends \ {s} : sends'[q] = sends[q]
      BY <1>t, <2>1
    <3> QED
      BY <1>t, <3>1 DEF Begun
  <2> QED
    BY <1>6, <1>t, <1>s, <2>2, <2>3, <2>4 DEF Send, TypeOK, Begun, room, sdk, Act
<1>7. ASSUME NEW s \in Sends, SendWrites(s) PROVE TypeOK'
  <2>1. sends' \in [Sends -> SendSet] /\ Begun(sends')
    <3>1. /\ sends' \in [Sends -> SendSet]
          /\ \A q \in Sends \ {s} : sends'[q] = sends[q]
          /\ sends[s].at # "none" /\ sends'[s].msg = sends[s].msg
          /\ sends'[s].by = sends[s].by
          /\ sends'[s].of \in {sends[s].of, session} /\ session # 0
          /\ sends'[s].at = "appearing" => sends[s].at = "sent"
          /\ sends'[s].at = "resolving" => sends[s].at = "appearing"
          /\ sends'[s].at # "sent"
      BY <1>7, <1>t, SendSteps
    <3> QED
      BY <1>t, <3>1 DEF Begun
  <2>2. list' \in Seq(BubbleSet)
    BY <1>7, <1>t, SendList, ReplacedList DEF Puts
  <2>3. torn' \in BOOLEAN
    BY <1>7, <1>t DEF SendWrites, PreviewAnswered, SendDelivered, SeqResolved, SendRejected
  <2>4. spoilt' \subseteq 1..stored
    <3>1. sends[s].at \in {"sent", "appearing", "resolving"} => sends[s].msg \in 1..stored
      BY SendBubbles
    <3> QED
      BY <1>7, <1>t, <3>1
      DEF SendWrites, PreviewAnswered, SendDelivered, SeqResolved, SendRejected, MarksLost
  <2>5. UNCHANGED <<session, sdk, room, calls, again, acts>>
    BY <1>7 DEF SendWrites, PreviewAnswered, SendDelivered, SeqResolved, SendRejected
  <2> QED
    BY <1>t, <1>s, <2>1, <2>2, <2>3, <2>4, <2>5 DEF TypeOK, Begun, room, sdk
<1>8. ASSUME NEW c \in Calls, SdkReads(c) PROVE TypeOK'
  <2>1. PICK n \in 0..Len(db), late \in BOOLEAN, empty \in BOOLEAN :
          calls' = [calls EXCEPT ![c].at   = "answered",
                                 ![c].page = IF empty THEN <<>> ELSE PageOf(n, late),
                                 ![c].end  = n <= PageSize /\ (n = 0 \/ ~empty)]
    BY <1>8 DEF SdkReads
  <2>2. (IF empty THEN <<>> ELSE PageOf(n, late)) \in Seq(BubbleSet)
    BY PageRead
  <2>3. calls' \in [Calls -> CallSet]
    <3>1. PICK page \in Seq(BubbleSet), end \in BOOLEAN :
            calls' = [calls EXCEPT ![c].at = "answered", ![c].page = page, ![c].end = end]
      BY <2>1, <2>2
    <3>2. [calls[c] EXCEPT !.at = "answered", !.page = page, !.end = end] \in CallSet
      BY <1>t DEF CallSet
    <3>3. calls' = [calls EXCEPT ![c] = [calls[c] EXCEPT !.at = "answered", !.page = page,
                                                        !.end = end]]
      BY <3>1
    <3> QED
      BY <1>t, <3>2, <3>3
  <2> QED
    BY <1>8, <1>t, <1>s, <2>3 DEF SdkReads, TypeOK, Begun, room, sdk
<1>9. ASSUME NEW c \in Calls, CallFails(c) PROVE TypeOK'
  <2>1. calls' \in [Calls -> CallSet] /\ again' \in BOOLEAN
    BY <1>9, SettleTypes DEF CallFails
  <2> QED
    BY <1>9, <1>t, <1>s, <2>1 DEF CallFails, TypeOK, Begun, room, sdk
<1>10. ASSUME NEW c \in Calls, LoadAnswered(c) PROVE TypeOK'
  <2>1. calls' \in [Calls -> CallSet] /\ again' \in BOOLEAN
    BY <1>10, SettleTypes DEF LoadAnswered
  <2>2. /\ list' \in Seq(BubbleSet)
        /\ {ended', fresh', torn'} \subseteq BOOLEAN
    BY <1>10, <1>t, LoadedList DEF LoadAnswered
  <2> QED
    BY <1>10, <1>t, <1>s, <2>1, <2>2 DEF LoadAnswered, TypeOK, Begun, sdk
<1>11. CASE HandlesMessage
  <2>1. events' \in Seq(EventSet)
    BY <1>11, EventTypes DEF HandlesMessage
  <2>2. list' \in Seq(BubbleSet) /\ {ended', torn'} \subseteq BOOLEAN
    BY <1>11, <1>t, HandledList DEF HandlesMessage
  <2> QED
    BY <1>11, <1>t, <1>s, <2>1, <2>2 DEF HandlesMessage, TypeOK, Begun
<1>12. CASE HandlesSynced
  <2>1. events' \in Seq(EventSet)
    BY <1>12, EventTypes DEF HandlesSynced
  <2>2. calls' \in [Calls -> CallSet] /\ again' \in BOOLEAN
    <3>1. "sync" \in Calls
      BY DEF Calls
    <3>2. [calls["sync"] EXCEPT !.at = "rows"] \in CallSet
      BY <1>t, <3>1 DEF CallSet
    <3>3. \/ UNCHANGED calls /\ again' \in BOOLEAN
          \/ /\ calls' = [calls EXCEPT !["sync"] = [calls["sync"] EXCEPT !.at = "rows"]]
             /\ UNCHANGED again
      BY <1>12 DEF HandlesSynced, AskAgain, Refreshing
    <3> QED
      BY <1>t, <3>1, <3>2, <3>3
  <2> QED
    BY <1>12, <1>t, <1>s, <2>1, <2>2 DEF HandlesSynced, TypeOK, Begun, room
<1>13. CASE RefreshesRoom
  <2>1. calls' \in [Calls -> CallSet] /\ again' \in BOOLEAN
    BY <1>13, <1>t, AskTypes, RefreshTypes DEF RefreshesRoom, Calls
  <2> QED
    BY <1>13, <1>t, <1>s, <2>1 DEF RefreshesRoom, TypeOK, Begun, room, sdk
<1>14. CASE OpenRoom
  <2>1. calls' \in [Calls -> CallSet]
    BY <1>14, AskTypes DEF OpenRoom, Calls
  <2> QED
    BY <1>14, <1>t, <1>s, <2>1 DEF OpenRoom, TypeOK, Begun, sdk, Act
<1>15. CASE Resync
  <2>1. calls' \in [Calls -> CallSet]
    BY <1>15, AskTypes DEF Resync, Calls
  <2> QED
    BY <1>15, <1>t, <1>s, <2>1 DEF Resync, TypeOK, Begun, sdk, room, Act
<1>16. CASE LeaveRoom
  <2>1. list' \in Seq(BubbleSet)
    BY <1>16, <1>t, ChatAssumption, Newer DEF LeaveRoom, Trimmed
  <2>2. ended' \in BOOLEAN
    BY <1>16, <1>t DEF LeaveRoom, EndAfter
  <2> QED
    BY <1>16, <1>t, <1>s, <2>1, <2>2 DEF LeaveRoom, TypeOK, Begun, sdk
<1>17. CASE LeaveOtherRoom
  BY <1>17, <1>t, <1>s DEF LeaveOtherRoom, TypeOK, Begun, sdk, room
<1>18. CASE LoadMore
  <2>1. calls' \in [Calls -> CallSet]
    BY <1>18, AskTypes DEF LoadMore, Calls
  <2> QED
    BY <1>18, <1>t, <1>s, <2>1 DEF LoadMore, TypeOK, Begun, sdk, room, Act
<1>19. CASE MoreAnswered
  <2>1. calls' \in [Calls -> CallSet] /\ again' \in BOOLEAN
    BY <1>19, SettleTypes DEF MoreAnswered, Calls
  <2>2. calls["older"] \in CallSet
    BY <1>t DEF Calls
  <2>3. list' \in Seq(BubbleSet) /\ ended' \in BOOLEAN
    BY <1>19, <1>t, <2>2 DEF MoreAnswered, CallSet
  <2> QED
    BY <1>19, <1>t, <1>s, <2>1, <2>3 DEF MoreAnswered, TypeOK, Begun, sdk
<1>20. CASE Reset
  <2>1. /\ db' \in Seq(MessageSet) /\ events' \in Seq(EventSet)
        /\ list' \in Seq(BubbleSet)
    BY <1>20 DEF Reset
  <2>2. session' \in 1..MaxSessions
    BY <1>20, <1>t, ChatAssumption DEF Reset
  <2>3. /\ {open', ended', fresh'} \subseteq BOOLEAN /\ acts' \in 0..MaxActs
        /\ UNCHANGED <<stored, calls, again, sends, torn, spoilt>>
    BY <1>20, <1>t DEF Reset, Act
  <2> QED
    BY <1>t, <1>s, <2>1, <2>2, <2>3 DEF TypeOK, Begun
<1>21. CASE UNCHANGED vars
  BY <1>21, <1>t, <1>s DEF TypeOK, Begun, vars, sdk, room
<1> QED
  BY <1>1, <1>2, <1>3, <1>4, <1>5, <1>6, <1>7, <1>8, <1>9, <1>10, <1>11, <1>12,
     <1>13, <1>14, <1>15, <1>16, <1>17, <1>18, <1>19, <1>20, <1>21 DEF Next, SendMoves, SendWrites
-----------------------------------------------------------------------------
(* What the SDK has told                                                   *)

\* Where a step may bring the SDK and the sends: nothing that was told becomes
\* wrong by it.
Grows ==
  /\ stored \in Nat /\ stored' \in Nat /\ stored <= stored'
  /\ \A m \in DOMAIN db' :
       \/ db'[m].id \in Int /\ db'[m].id > stored
       \/ \E k \in DOMAIN db : db[k].id = db'[m].id /\ db[k].marks \subseteq db'[m].marks
  /\ \A s \in Sends : sends[s].at # "none" =>
       /\ sends'[s].at # "none" /\ sends'[s].by = sends[s].by
       /\ sends'[s].of \in {sends[s].of, session}
  /\ session \in Nat /\ session' \in Nat /\ session <= session'

LEMMA DbTypes ==
  ASSUME TypeOK
  PROVE  /\ DOMAIN db = 1..Len(db) /\ Len(db) \in Nat
         /\ \A m \in DOMAIN db : /\ db[m] \in MessageSet
                                 /\ db[m].id \in 1..stored
                                 /\ db[m].marks \in SUBSET MarkKinds
         /\ stored \in Nat /\ session \in Nat
<1>1. db \in Seq(MessageSet) /\ stored \in 0..MaxMessages /\ session \in 1..MaxSessions
  BY DEF TypeOK
<1>2. \A m \in DOMAIN db : db[m] \in MessageSet
  BY <1>1
<1>3. \A m \in DOMAIN db : db[m].id \in 1..stored /\ db[m].marks \in SUBSET MarkKinds
  BY <1>2 DEF MessageSet
<1> QED
  BY <1>1, <1>2, <1>3

LEMMA MarksGrow ==
  ASSUME TypeOK, NEW i \in DOMAIN db, NEW mark \in MarkKinds, PeerMarks(i, mark)
  PROVE  /\ DOMAIN db' = DOMAIN db
         /\ \A m \in DOMAIN db :
              /\ db'[m].id = db[m].id
              /\ db'[m].marks = IF m = i THEN db[m].marks \cup {mark} ELSE db[m].marks
<1>1. \A m \in DOMAIN db : db[m] \in MessageSet
  BY DbTypes
<1>2. db' = [db EXCEPT ![i].marks = @ \cup {mark}]
  BY DEF PeerMarks
<1> QED
  BY <1>1, <1>2 DEF MessageSet

LEMMA StoreGrows ==
  ASSUME TypeOK, NEW new \in Seq(EventSet'), Store(new)
  PROVE  /\ stored <= stored'
         /\ \A m \in DOMAIN db' :
              \/ db'[m].id \in Int /\ db'[m].id > stored
              \/ /\ m \in DOMAIN db /\ db'[m] = db[m]
<1>1. /\ stored' = stored + 1 /\ stored \in Nat
      /\ DOMAIN db' = 1..(Len(db) + 1) /\ DOMAIN db = 1..Len(db) /\ Len(db) \in Nat
      /\ \A m \in DOMAIN db : db'[m] = db[m]
      /\ db'[Len(db) + 1] = [id |-> stored', marks |-> {}]
  BY StoreTypes
<1> QED
  BY <1>1

\* What Store is given by its three callers.
LEMMA Stores ==
  ASSUME TypeOK, PeerSends \/ SyncsFromServer \/ \E s \in Sends : SdkSends(s)
  PROVE  \E new \in Seq(EventSet') :
           /\ Store(new)
           /\ \A i \in DOMAIN new : new[i].kind \notin MarkKinds
<1>1. \E new \in {<<Event("new", stored + 1)>>, <<Event("synced", 0)>>, <<>>} : Store(new)
  BY DEF PeerSends, SyncsFromServer, SdkSends
<1>2. stored' = stored + 1 /\ stored \in Nat
  BY <1>1, DbTypes DEF Store
<1>3. \A new \in {<<Event("new", stored + 1)>>, <<Event("synced", 0)>>, <<>>} :
        new \in Seq(EventSet')
  <2>1. stored' \in Nat \ {0} /\ stored + 1 = stored'
    BY <1>2
  <2> QED
    BY <2>1, NewEvent
<1>4. \A new \in {<<Event("new", stored + 1)>>, <<Event("synced", 0)>>, <<>>} :
        \A i \in DOMAIN new : new[i].kind \notin MarkKinds
  BY DEF Event, MarkKinds
<1> QED
  BY <1>1, <1>3, <1>4

LEMMA GrowStep ==
  ASSUME TypeOK, TypeOK', [Next]_vars
  PROVE  Grows
<1>t. /\ stored \in Nat /\ session \in Nat /\ stored' \in Nat /\ session' \in Nat
      /\ \A s \in Sends : sends[s] \in SendSet
      /\ sends \in [Sends -> SendSet]
  BY DbTypes, ChatAssumption DEF TypeOK
<1>1. CASE PeerSends \/ SyncsFromServer \/ \E s \in Sends : SdkSends(s)
  <2>1. PICK new \in Seq(EventSet') : Store(new)
    BY <1>1, Stores
  <2>2. session' = session
    BY <1>1 DEF PeerSends, SyncsFromServer, SdkSends
  <2>3. \A s \in Sends : sends[s].at # "none" =>
          /\ sends'[s].at # "none" /\ sends'[s].by = sends[s].by
          /\ sends'[s].of \in {sends[s].of, session}
    <3>1. CASE PeerSends \/ SyncsFromServer
      BY <3>1 DEF PeerSends, SyncsFromServer
    <3>2. ASSUME NEW q \in Sends, SdkSends(q)
          PROVE  \A s \in Sends :
                   /\ sends[s].at # "none" => sends'[s].at # "none"
                   /\ sends'[s].by = sends[s].by /\ sends'[s].of = sends[s].of
      <4>1. sends' = [sends EXCEPT ![q].at = "sent", ![q].msg = stored + 1]
        BY <3>2 DEF SdkSends
      <4>2. /\ sends'[q].at = "sent" /\ sends'[q].by = sends[q].by
            /\ sends'[q].of = sends[q].of
            /\ \A s \in Sends \ {q} : sends'[s] = sends[s]
        BY <1>t, <4>1 DEF SendSet
      <4> QED
        BY <4>2
    <3> QED
      BY <1>1, <3>1, <3>2
  <2>4. /\ stored <= stored'
        /\ \A m \in DOMAIN db' :
             \/ db'[m].id \in Int /\ db'[m].id > stored
             \/ m \in DOMAIN db /\ db'[m] = db[m]
    BY <2>1, StoreGrows
  <2> QED
    BY <1>t, <2>2, <2>3, <2>4 DEF Grows
<1>2. ASSUME NEW i \in DOMAIN db, NEW mark \in {"read", "recalled"}, PeerMarks(i, mark)
      PROVE  Grows
  <2>1. UNCHANGED <<session, stored, sends>>
    BY <1>2 DEF PeerMarks
  <2>2. \A m \in DOMAIN db' :
          m \in DOMAIN db /\ db'[m].id = db[m].id /\ db[m].marks \subseteq db'[m].marks
    BY <1>2, MarksGrow DEF MarkKinds
  <2> QED
    BY <1>t, <2>1, <2>2 DEF Grows
<1>3. CASE UNCHANGED <<session, db, stored>> /\ UNCHANGED sends
  BY <1>t, <1>3 DEF Grows
<1>4. ASSUME NEW s \in Sends, SendWrites(s) \/ SendMoves(s) PROVE Grows
  <2>1. UNCHANGED <<session, db, stored>>
    BY <1>4 DEF SendWrites, SendMoves, SdkFails, PreviewAnswered, SendDelivered,
                Reappeared, SeqResolved, SendRejected, SendForgotten, sdk
  <2>2. \A q \in Sends : sends[q].at # "none" =>
          /\ sends'[q].at # "none" /\ sends'[q].by = sends[q].by
          /\ sends'[q].of \in {sends[q].of, session}
    BY <1>4, SendSteps
  <2> QED
    BY <1>t, <2>1, <2>2 DEF Grows
<1>6. ASSUME NEW s \in Sends, Send(s) PROVE Grows
  <2>1. UNCHANGED <<session, db, stored>> /\ sends[s].at = "none"
    BY <1>6 DEF Send, sdk
  <2>2. \A q \in Sends \ {s} : sends'[q] = sends[q]
    BY <1>6, <1>t DEF Send
  <2> QED
    BY <1>t, <2>1, <2>2 DEF Grows
<1>5. CASE Reset
  BY <1>5, <1>t DEF Reset, Grows
<1> QED
  BY <1>1, <1>2, <1>3, <1>4, <1>5, <1>6
  DEF Next, vars, sdk, SendWrites, SendMoves, SdkReads, CallFails, LoadAnswered,
      HandlesMessage,
      HandlesSynced, RefreshesRoom, OpenRoom, Resync, LeaveRoom, LeaveOtherRoom,
      LoadMore, MoreAnswered

LEMMA BacksStays ==
  ASSUME Grows, NEW b \in BubbleSet, Backs(b, db, stored, sends)
  PROVE  Backs(b, db', stored', sends')
<1>1. b.id \in Int /\ b.id <= stored
  BY BubbleTypes DEF Backs
<1>2. b.id <= stored'
  BY <1>1 DEF Grows
<1>3. ASSUME NEW m \in DOMAIN db', db'[m].id = b.id PROVE b.marks \subseteq db'[m].marks
  BY <1>1, <1>3 DEF Grows, Backs
<1>4. \A s \in Sends : b.id = -s => b.marks = {} /\ sends'[s].at # "none"
  BY DEF Grows, Backs
<1> QED
  BY <1>2, <1>3, <1>4 DEF Backs

LEMMA BackedStays ==
  ASSUME Grows, NEW l \in Seq(BubbleSet), Backed(l, db, stored, sends)
  PROVE  Backed(l, db', stored', sends')
BY BacksStays DEF Backed

LEMMA CallStays ==
  ASSUME Grows, NEW c \in Calls, NEW r \in CallSet,
         CallTrue(c, r, db, stored, sends, session)
  PROVE  CallTrue(c, r, db', stored', sends', session')
<1>1. /\ r.kept \in Seq(BubbleSet) /\ r.page \in Seq(BubbleSet)
      /\ r.of \in Int /\ \A i \in DOMAIN r.page : r.page[i].of \in Int
  <2>1. r.kept \in Seq(BubbleSet) /\ r.page \in Seq(BubbleSet) /\ r.of \in 0..MaxSessions
    BY DEF CallSet
  <2>2. \A i \in DOMAIN r.page : r.page[i] \in BubbleSet
    BY <2>1
  <2> QED
    BY <2>1, <2>2, BubbleTypes
<1>2. /\ Backed(r.kept, db', stored', sends') /\ Backed(r.page, db', stored', sends')
  BY <1>1, BackedStays DEF CallTrue
<1>3. PageTrue(c, r, session')
  <2>1. session \in Nat /\ session' \in Nat /\ session <= session'
    BY DEF Grows
  <2>2. PageTrue(c, r, session)
    BY DEF CallTrue
  <2>3. r.of <= session'
    BY <1>1, <2>1, <2>2 DEF PageTrue
  <2>4. \A i \in DOMAIN r.page : r.page[i].of \in r.of..session'
    BY <1>1, <2>1, <2>2 DEF PageTrue
  <2> QED
    BY <2>2, <2>3, <2>4 DEF PageTrue
<1> QED
  BY <1>2, <1>3 DEF CallTrue
LEMMA DbStep ==
  ASSUME TypeOK, TypeOK', ToldInv, [Next]_vars
  PROVE  Ordered(db') /\ EventsTrue'
<1>t. /\ DOMAIN db = 1..Len(db) /\ Len(db) \in Nat
      /\ \A m \in DOMAIN db : db[m].id \in 1..stored
      /\ stored \in Nat
      /\ events \in Seq(EventSet)
      /\ \A i \in DOMAIN events : events[i] \in EventSet
  BY DbTypes DEF TypeOK
<1>i. Ordered(db) /\ EventsTrue
  BY DEF ToldInv
<1>1. CASE PeerSends \/ SyncsFromServer \/ \E s \in Sends : SdkSends(s)
  <2>1. PICK new \in Seq(EventSet') :
          Store(new) /\ \A i \in DOMAIN new : new[i].kind \notin MarkKinds
    BY <1>1, Stores
  <2>2. /\ stored' = stored + 1 /\ events' = events \o new
        /\ DOMAIN db' = 1..(Len(db) + 1)
        /\ \A m \in DOMAIN db : db'[m] = db[m]
        /\ db'[Len(db) + 1] = [id |-> stored', marks |-> {}]
    BY <2>1, StoreTypes
  <2>3. Ordered(db')
    <3>1. ASSUME NEW i \in DOMAIN db', NEW j \in DOMAIN db', i < j
          PROVE  db'[i].id < db'[j].id
      <4>1. i \in DOMAIN db
        BY <1>t, <2>2, <3>1
      <4>2. CASE j \in DOMAIN db
        BY <1>i, <2>2, <3>1, <4>1, <4>2 DEF Ordered
      <4>3. CASE j = Len(db) + 1
        <5>1. db'[j].id = stored + 1 /\ db'[i].id \in 1..stored
          BY <1>t, <2>2, <4>1, <4>3
        <5> QED
          BY <1>t, <5>1
      <4> QED
        BY <1>t, <2>2, <4>2, <4>3
    <3> QED
      BY <3>1 DEF Ordered
  <2>4. ASSUME NEW i \in DOMAIN events', NEW m \in DOMAIN db',
               events'[i].kind \in MarkKinds, events'[i].id = db'[m].id
        PROVE  events'[i].kind \in db'[m].marks
    <3>1. i \in DOMAIN events /\ events'[i] = events[i]
      <4>1. \/ i \in DOMAIN events /\ events'[i] = events[i]
            \/ \E k \in DOMAIN new : events'[i] = new[k]
        BY <1>t, <2>1, <2>2
      <4> QED
        BY <2>1, <2>4, <4>1
    <3>2. events[i].id \in 0..stored
      BY <1>t, <3>1 DEF EventSet, Event
    <3>3. m \in DOMAIN db
      BY <1>t, <2>2, <2>4, <3>1, <3>2
    <3> QED
      BY <1>i, <2>2, <2>4, <3>1, <3>3 DEF EventsTrue
  <2> QED
    BY <2>3, <2>4 DEF EventsTrue
<1>2. ASSUME NEW i \in DOMAIN db, NEW mark \in {"read", "recalled"}, PeerMarks(i, mark)
      PROVE  Ordered(db') /\ EventsTrue'
  <2>1. /\ DOMAIN db' = DOMAIN db
        /\ \A m \in DOMAIN db :
             /\ db'[m].id = db[m].id
             /\ db'[m].marks = IF m = i THEN db[m].marks \cup {mark} ELSE db[m].marks
    BY <1>2, MarksGrow DEF MarkKinds
  <2>2. Ordered(db')
    BY <1>i, <2>1 DEF Ordered
  <2>3. ASSUME NEW k \in DOMAIN events', NEW m \in DOMAIN db',
               events'[k].kind \in MarkKinds, events'[k].id = db'[m].id
        PROVE  events'[k].kind \in db'[m].marks
    <3>1. events' = Append(events, Event(mark, db[i].id))
      BY <1>2 DEF PeerMarks
    <3>2. \/ k \in DOMAIN events /\ events'[k] = events[k]
          \/ events'[k] = Event(mark, db[i].id)
      BY <1>t, <3>1
    <3>3. CASE k \in DOMAIN events /\ events'[k] = events[k]
      BY <1>i, <2>1, <2>3, <3>3 DEF EventsTrue
    <3>4. CASE events'[k] = Event(mark, db[i].id)
      <4>1. events'[k].kind = mark /\ db[i].id = db[m].id
        <5>1. Event(mark, db[i].id).kind = mark /\ Event(mark, db[i].id).id = db[i].id
          BY DEF Event
        <5> QED
          BY <2>1, <2>3, <3>4, <5>1
      <4>2. m = i
        <5>1. m \in Int /\ i \in Int /\ db[m].id \in Int
          BY <1>t, <2>1
        <5> QED
          BY <1>i, <2>1, <4>1, <5>1 DEF Ordered
      <4> QED
        BY <2>1, <4>1, <4>2
    <3> QED
      BY <3>2, <3>3, <3>4
  <2> QED
    BY <2>2, <2>3 DEF EventsTrue
<1>3. CASE UNCHANGED <<db, events>>
  BY <1>3, <1>i DEF EventsTrue
<1>4. CASE HandlesMessage \/ HandlesSynced
  <2>1. db' = db /\ events' = Tail(events) /\ events # <<>>
    BY <1>4 DEF HandlesMessage, HandlesSynced
  <2>2. \A i \in DOMAIN events' : i + 1 \in DOMAIN events /\ events'[i] = events[i + 1]
    BY <2>1, EventTypes
  <2> QED
    BY <1>i, <2>1, <2>2 DEF EventsTrue
<1>5. CASE Reset
  BY <1>5 DEF Reset, Ordered, EventsTrue
<1> QED
  BY <1>1, <1>2, <1>3, <1>4, <1>5
  DEF Next, vars, sdk, SdkReads, CallFails, LoadAnswered, RefreshesRoom, OpenRoom,
      Resync, LeaveRoom, LeaveOtherRoom, LoadMore, MoreAnswered, SdkFails, Send,
      PreviewAnswered, SendDelivered, Reappeared, SeqResolved, SendRejected,
      SendForgotten

\* A bubble without marks whose message is stored.
LEMMA NewBacks ==
  ASSUME NEW b, b.id \in 1..stored, b.marks = {}
  PROVE  Backs(b, db, stored, sends)
BY ChatAssumption DEF Backs

LEMMA BackedWithin ==
  ASSUME NEW l, NEW m, Within(m, l), Backed(l, db, stored, sends)
  PROVE  Backed(m, db, stored, sends)
BY DEF Within, Backed

LEMMA ListStep ==
  ASSUME TypeOK, TypeOK', ToldInv, [Next]_vars
  PROVE  Backed(list', db', stored', sends')
<1>t. /\ list \in Seq(BubbleSet) /\ list' \in Seq(BubbleSet)
      /\ calls \in [Calls -> CallSet]
      /\ \A i \in DOMAIN list : list[i] \in BubbleSet
  BY DEF TypeOK
<1>i. /\ Backed(list, db, stored, sends)
      /\ \A c \in Calls : CallTrue(c, calls[c], db, stored, sends, session)
      /\ EventsTrue
  BY DEF ToldInv
<1>g. Grows
  BY GrowStep
<1>b. ASSUME Backed(list', db, stored, sends) PROVE Backed(list', db', stored', sends')
  BY <1>b, <1>g, <1>t, BackedStays
<1>1. CASE list' = list
  BY <1>1, <1>b, <1>i
<1>2. CASE list' = <<>>
  BY <1>2 DEF Backed
<1>3. CASE list' = Newest(list, Window)
  BY <1>3, <1>b, <1>i, <1>t, ChatAssumption, Newer, BackedWithin
<1>4. CASE HandlesMessage
  <2> DEFINE e == Head(events)
  <2>1. PICK l \in Seq(BubbleSet) :
          /\ \/ /\ e.kind = "new"
                /\ l = Appended(list, Bubble(e.id, "sent", {}, session))
             \/ e.kind \in MarkKinds /\ l = Marked(list, e.id, e.kind)
          /\ Within(list', l)
    BY <1>4, HandledList
  <2>2. /\ e.id \in 1..stored /\ e.id \in 1..MaxMessages
        /\ 1 \in DOMAIN events /\ e = events[1]
    BY <1>4, EventTypes DEF HandlesMessage
  <2> HIDE DEF e
  <2>3. Backed(l, db, stored, sends)
    <3>1. CASE e.kind = "new" /\ l = Appended(list, Bubble(e.id, "sent", {}, session))
      <4> DEFINE b == Bubble(e.id, "sent", {}, session)
      <4>1. b \in BubbleSet /\ Backs(b, db, stored, sends)
        BY <2>2, NewBubble, NewBacks
      <4>2. l = list \/ l = Append(list, b)
        BY <3>1 DEF Appended
      <4> HIDE DEF b
      <4>3. \A i \in DOMAIN l : l[i] = b \/ (i \in DOMAIN list /\ l[i] = list[i])
        BY <1>t, <4>2
      <4> QED
        BY <1>i, <4>1, <4>3 DEF Backed
    <3>2. CASE e.kind \in MarkKinds /\ l = Marked(list, e.id, e.kind)
      <4>1. /\ DOMAIN l = DOMAIN list
            /\ \A i \in DOMAIN list :
                 /\ l[i].id = list[i].id
                 /\ list[i].id = e.id => l[i].marks = list[i].marks \cup {e.kind}
                 /\ list[i].id # e.id => l[i].marks = list[i].marks
        BY <1>t, <3>2, MarkedList
      <4>2. ASSUME NEW i \in DOMAIN list PROVE Backs(l[i], db, stored, sends)
        <5>1. Backs(list[i], db, stored, sends)
          BY <1>i DEF Backed
        <5>2. CASE list[i].id # e.id
          BY <4>1, <5>1, <5>2 DEF Backs
        <5>3. CASE list[i].id = e.id
          <6>1. \A m \in DOMAIN db : db[m].id = e.id => e.kind \in db[m].marks
            BY <1>i, <2>2, <3>2 DEF EventsTrue
          <6>2. \A s \in Sends : e.id # -s
            BY <2>2, ChatAssumption
          <6> QED
            BY <4>1, <5>1, <5>3, <6>1, <6>2 DEF Backs
        <5> QED
          BY <5>2, <5>3
      <4> QED
        BY <4>1, <4>2 DEF Backed
    <3> QED
      BY <2>1, <3>1, <3>2
  <2> QED
    BY <1>b, <2>1, <2>3, BackedWithin
<1>5. ASSUME NEW c \in Calls, LoadAnswered(c), list' # list
      PROVE  Backed(list', db', stored', sends')
  <2> DEFINE kept == calls[c].kept
             page == calls[c].page
  <2>1. PICK rest \in Seq(BubbleSet), l \in Seq(BubbleSet) :
          /\ Within(rest, kept)
          /\ l = WithRead(page, kept) \o rest
          /\ Within(list', l)
    BY <1>5, LoadedList
  <2>2. /\ kept \in Seq(BubbleSet) /\ page \in Seq(BubbleSet)
        /\ Backed(kept, db, stored, sends) /\ Backed(page, db, stored, sends)
        /\ \A i \in DOMAIN page : page[i].id > 0
    BY <1>t, <1>i DEF CallSet, CallTrue, PageTrue
  <2> DEFINE read == WithRead(page, kept)
  <2>3. /\ read \in Seq(BubbleSet) /\ DOMAIN read = DOMAIN page
        /\ \A i \in DOMAIN page :
             /\ read[i].id = page[i].id
             /\ read[i].marks =
                  page[i].marks \cup
                    (IF \E j \in DOMAIN kept :
                          kept[j].id = page[i].id /\ "read" \in kept[j].marks
                     THEN {"read"} ELSE {})
    <3> HIDE DEF kept, page
    <3> QED
      BY <2>2, ReadPage
  <2> HIDE DEF read, kept, page
  <2>4. ASSUME NEW i \in DOMAIN page PROVE Backs(read[i], db, stored, sends)
    <3>1. Backs(page[i], db, stored, sends) /\ page[i].id > 0
      BY <2>2 DEF Backed
    <3>2. page[i].id \in Int
      <4>1. page[i] \in BubbleSet
        BY <2>2
      <4> QED
        BY <4>1, BubbleTypes
    <3>3. ASSUME NEW m \in DOMAIN db, db[m].id = page[i].id
          PROVE  read[i].marks \subseteq db[m].marks
      <4>1. page[i].marks \subseteq db[m].marks
        BY <3>1, <3>3 DEF Backs
      <4>2. \A j \in DOMAIN kept :
              kept[j].id = page[i].id /\ "read" \in kept[j].marks => "read" \in db[m].marks
        BY <2>2, <3>3 DEF Backed, Backs
      <4> QED
        BY <2>3, <4>1, <4>2
    <3>4. \A s \in Sends : page[i].id # -s
      BY <3>1, <3>2, ChatAssumption
    <3> QED
      BY <2>3, <3>1, <3>3, <3>4 DEF Backs
  <2>5. Backed(rest, db, stored, sends)
    BY <2>1, <2>2, BackedWithin
  <2>6. \A i \in DOMAIN l : \/ i \in DOMAIN page /\ l[i] = read[i]
                            \/ \E k \in DOMAIN rest : l[i] = rest[k]
    BY <2>1, <2>3 DEF read
  <2>7. Backed(l, db, stored, sends)
    BY <2>4, <2>5, <2>6 DEF Backed
  <2> QED
    BY <1>b, <2>1, <2>7, BackedWithin
<1>6. CASE MoreAnswered
  <2> DEFINE r == calls["older"]
  <2>1. /\ r.kept \in Seq(BubbleSet) /\ r.page \in Seq(BubbleSet)
        /\ Backed(r.kept, db, stored, sends) /\ Backed(r.page, db, stored, sends)
    BY <1>t, <1>i DEF CallSet, CallTrue, Calls
  <2>2. list' = list \/ list' = r.page \o r.kept
    BY <1>6 DEF MoreAnswered
  <2>3. CASE list' = r.page \o r.kept
    <3>1. \A i \in DOMAIN list' : \/ \E k \in DOMAIN r.page : list'[i] = r.page[k]
                                  \/ \E k \in DOMAIN r.kept : list'[i] = r.kept[k]
      <4> DEFINE page == r.page
                 kept == r.kept
      <4>1. page \in Seq(BubbleSet) /\ kept \in Seq(BubbleSet) /\ list' = page \o kept
        BY <2>1, <2>3
      <4> HIDE DEF page, kept
      <4>2. \A i \in DOMAIN list' : \/ \E k \in DOMAIN page : list'[i] = page[k]
                                    \/ \E k \in DOMAIN kept : list'[i] = kept[k]
        BY <4>1
      <4> QED
        BY <4>2 DEF page, kept
    <3>2. Backed(list', db, stored, sends)
      BY <2>1, <3>1 DEF Backed
    <3> QED
      BY <1>b, <3>2
  <2> QED
    BY <1>1, <2>2, <2>3
<1>7. ASSUME NEW s \in Sends, Send(s) PROVE Backed(list', db', stored', sends')
  <2>1. list' = Append(list, Placeholder(s))
    BY <1>7 DEF Send
  <2>2. Backed(list, db', stored', sends')
    BY <1>g, <1>i, <1>t, BackedStays
  <2>3. Backs(Placeholder(s), db', stored', sends')
    <3>1. Placeholder(s).id = -s /\ Placeholder(s).marks = {}
      BY NewPlaceholder
    <3>2. s \in Nat \ {0} /\ stored' \in Nat /\ \A q \in Sends : q \in Nat
      BY <1>g, ChatAssumption DEF Grows
    <3>3. sends'[s].at # "none"
      <4>1. sends \in [Sends -> SendSet]
        BY DEF TypeOK
      <4>2. sends'[s].at \in {"asked", "preview"}
        BY <1>7, <4>1 DEF Send
      <4> QED
        BY <4>2
    <3> QED
      BY <3>1, <3>2, <3>3 DEF Backs
  <2>4. \A i \in DOMAIN list' :
          list'[i] = Placeholder(s) \/ (i \in DOMAIN list /\ list'[i] = list[i])
    BY <1>t, <2>1
  <2> QED
    BY <2>2, <2>3, <2>4 DEF Backed
<1>8. ASSUME NEW s \in Sends, SendWrites(s), list' # list
      PROVE  Backed(list', db', stored', sends')
  <2>1. PICK temp, b : Puts(s, temp, b)
    BY <1>8, SendList
  <2>2. Backs(b, db, stored, sends)
    <3>1. CASE b.id = -s
      <4>1. s \in Nat \ {0} /\ stored \in Nat /\ \A q \in Sends : q \in Nat
        BY ChatAssumption, DbTypes
      <4>3. sends[s].at # "none"
        BY <1>8, SendSteps
      <4>4. b.marks = {} /\ b.id <= stored /\ \A q \in Sends : b.id = -q => q = s
        BY <2>1, <3>1, <4>1 DEF Puts
      <4> QED
        BY <4>3, <4>4 DEF Backs
    <3>2. CASE b.id = sends[s].msg /\ sends[s].msg \in 1..stored
      BY <2>1, <3>2, NewBacks DEF Puts
    <3> QED
      BY <2>1, <3>1, <3>2 DEF Puts
  <2>3. \A k \in DOMAIN list' : list'[k] = b \/ \E i \in DOMAIN list : list'[k] = list[i]
    BY <1>t, <2>1, ReplacedList DEF Puts
  <2>4. Backed(list', db, stored, sends)
    BY <1>i, <2>2, <2>3 DEF Backed
  <2> QED
    BY <1>b, <2>4
<1>9. ASSUME NEW s \in Sends, SendMoves(s) PROVE list' = list
  BY <1>9 DEF SendMoves, SdkFails, Reappeared, SendForgotten
<1> QED
  BY <1>1, <1>2, <1>3, <1>4, <1>5, <1>6, <1>7, <1>8, <1>9
  DEF Next, vars, sdk, SendWrites, SendMoves, PeerSends, SyncsFromServer, PeerMarks,
      SdkSends, SdkReads, CallFails, RefreshesRoom, OpenRoom, Resync, LeaveRoom,
      LeaveOtherRoom, LoadMore, HandlesSynced, Reset, Trimmed
\* A call that rests has nothing to be true of.
LEMMA RestTrue ==
  ASSUME NEW c \in Calls, NEW r \in Resting, NEW d, NEW n, NEW q, NEW now \in Nat
  PROVE  CallTrue(c, r, d, n, q, now)
<1>1. r.kept = <<>> /\ r.page = <<>> /\ r.of = 0 /\ r.at \in {"idle", "rows"}
  BY CallTypes
<1>2. DOMAIN r.kept = {} /\ DOMAIN r.page = {}
  BY <1>1
<1> QED
  BY <1>1, <1>2 DEF CallTrue, Backed, PageTrue, Ordered

LEMMA AskedTrue ==
  ASSUME TypeOK, ToldInv, NEW c \in Calls, c = "older" => list # <<>>
  PROVE  CallTrue(c, Asked, db, stored, sends, session)
<1>1. /\ Asked.kept = list /\ Asked.page = <<>> /\ Asked.of = session
      /\ Asked.at = "asked"
  BY DEF Asked
<1>2. Backed(list, db, stored, sends) /\ session \in Nat
  BY DbTypes DEF ToldInv
<1>3. DOMAIN Asked.page = {}
  BY <1>1
<1> QED
  BY <1>1, <1>2, <1>3 DEF CallTrue, Backed, PageTrue, Ordered

LEMMA ReadTrue ==
  ASSUME TypeOK, ToldInv, NEW c \in Calls, SdkReads(c)
  PROVE  CallTrue(c, calls'[c], db, stored, sends, session)
<1>1. PICK n \in 0..Len(db), late \in BOOLEAN, empty \in BOOLEAN :
        /\ UpTo(c, n)
        /\ calls' = [calls EXCEPT ![c].at   = "answered",
                                  ![c].page = IF empty THEN <<>> ELSE PageOf(n, late),
                                  ![c].end  = n <= PageSize /\ (n = 0 \/ ~empty)]
  BY DEF SdkReads
<1> DEFINE page == IF empty THEN <<>> ELSE PageOf(n, late)
           kept == calls[c].kept
           r == calls'[c]
<1>t. /\ calls \in [Calls -> CallSet] /\ calls[c] \in CallSet
      /\ calls[c].kept \in Seq(BubbleSet) /\ calls[c].of \in Nat
  <2>1. calls \in [Calls -> CallSet] /\ calls[c] \in CallSet
    BY DEF TypeOK
  <2> QED
    BY <2>1, ChatAssumption DEF CallSet
<1>i. /\ CallTrue(c, calls[c], db, stored, sends, session) /\ Ordered(db)
      /\ calls[c].at = "asked"
  BY DEF ToldInv, SdkReads
<1>2. r.page = page /\ r.kept = kept /\ r.of = calls[c].of /\ r.at = "answered"
  <2> HIDE DEF page
  <2>1. PICK end : calls' = [calls EXCEPT ![c].at = "answered", ![c].page = page,
                                          ![c].end = end]
    BY <1>1 DEF page
  <2> QED
    BY <1>t, <2>1 DEF CallSet
<1>3. /\ page \in Seq(BubbleSet) /\ Ordered(page)
      /\ \A i \in DOMAIN page :
           \E m \in DOMAIN db :
             /\ m <= n
             /\ page[i].id = db[m].id
             /\ page[i].of = session
             /\ page[i].marks \subseteq db[m].marks
             /\ "recalled" \in db[m].marks => "recalled" \in page[i].marks
  <2>1. CASE empty
    <3>1. page = <<>>
      BY <2>1
    <3> HIDE DEF page
    <3>2. DOMAIN page = {} /\ page \in Seq(BubbleSet)
      BY <3>1
    <3> QED
      BY <3>2 DEF Ordered
  <2>2. CASE ~empty
    <3>1. page = PageOf(n, late)
      BY <2>2
    <3>2. \A m \in 1..n : m <= n
      OBVIOUS
    <3> HIDE DEF page
    <3>3. page \in Seq(BubbleSet) /\ Ordered(page)
      BY <1>i, <3>1, PageRead
    <3>4. \A i \in DOMAIN page :
            \E m \in 1..n :
              /\ m \in DOMAIN db
              /\ page[i].id = db[m].id
              /\ page[i].of = session
              /\ page[i].marks \subseteq db[m].marks
              /\ "recalled" \in db[m].marks => "recalled" \in page[i].marks
      BY <3>1, PageRead
    <3> QED
      BY <3>2, <3>3, <3>4
  <2> QED
    BY <2>1, <2>2
<1>d. /\ DOMAIN db = 1..Len(db) /\ Len(db) \in Nat /\ stored \in Nat /\ session \in Nat
      /\ \A m \in DOMAIN db : db[m].id \in 1..stored
  BY DbTypes
<1>4. \A m, k \in DOMAIN db : db[m].id = db[k].id => m = k
  <2>1. \A m \in DOMAIN db : m \in Int /\ db[m].id \in Int
    BY <1>d
  <2> QED
    BY <1>i, <2>1 DEF Ordered
<1> HIDE DEF page, r, kept
<1>5. Backed(page, db, stored, sends)
  <2> SUFFICES ASSUME NEW i \in DOMAIN page PROVE Backs(page[i], db, stored, sends)
    BY DEF Backed
  <2>1. PICK m \in DOMAIN db :
          page[i].id = db[m].id /\ page[i].marks \subseteq db[m].marks
    BY <1>3
  <2>2. page[i].id \in 1..stored
    BY <1>d, <2>1
  <2>3. \A s \in Sends : page[i].id # -s
    <3>1. page[i].id \in Int /\ page[i].id > 0
      BY <1>d, <2>2
    <3> QED
      BY <3>1, ChatAssumption
  <2> QED
    BY <1>4, <1>d, <2>1, <2>2, <2>3 DEF Backs
<1>6. ASSUME NEW i \in DOMAIN page
      PROVE  /\ page[i].id > 0
             /\ page[i].of \in calls[c].of..session
             /\ \A j \in DOMAIN kept :
                  kept[j].id = page[i].id /\ "recalled" \in kept[j].marks
                    => "recalled" \in page[i].marks
             /\ c = "older" => page[i].id < kept[1].id
  <2>1. PICK m \in DOMAIN db :
          /\ m <= n /\ page[i].id = db[m].id /\ page[i].of = session
          /\ "recalled" \in db[m].marks => "recalled" \in page[i].marks
    BY <1>3
  <2>2. page[i].id > 0
    BY <1>d, <2>1
  <2>3. page[i].of \in calls[c].of..session
    BY <1>d, <1>i, <1>t, <2>1 DEF CallTrue, PageTrue
  <2>4. \A j \in DOMAIN kept :
          kept[j].id = page[i].id /\ "recalled" \in kept[j].marks
            => "recalled" \in page[i].marks
    BY <1>i, <2>1 DEF CallTrue, Backed, Backs, kept
  <2>5. c = "older" => page[i].id < kept[1].id
    <3> SUFFICES ASSUME c = "older" PROVE page[i].id < kept[1].id
      OBVIOUS
    <3>1. n < Len(db) /\ db[n + 1].id = kept[1].id
      BY <1>1 DEF UpTo, kept
    <3>2. n + 1 \in DOMAIN db /\ m < n + 1
      BY <1>d, <2>1, <3>1
    <3> QED
      BY <1>i, <2>1, <3>1, <3>2 DEF Ordered
  <2> QED
    BY <2>2, <2>3, <2>4, <2>5
<1>7. PageTrue(c, r, session)
  <2>1. c = "older" => kept # <<>>
    BY <1>i DEF CallTrue, PageTrue, kept
  <2>2. calls[c].of <= session
    BY <1>i DEF CallTrue, PageTrue
  <2> QED
    BY <1>2, <1>3, <1>6, <2>1, <2>2 DEF PageTrue
<1>8. Backed(kept, db, stored, sends)
  BY <1>i DEF CallTrue, kept
<1>9. CallTrue(c, r, db, stored, sends, session)
  BY <1>2, <1>5, <1>7, <1>8 DEF CallTrue
<1> QED
  BY <1>9 DEF r

LEMMA CallStep ==
  ASSUME TypeOK, TypeOK', ToldInv, [Next]_vars, NEW c \in Calls
  PROVE  CallTrue(c, calls'[c], db', stored', sends', session')
<1>t. /\ calls[c] \in CallSet /\ calls'[c] \in CallSet /\ session' \in Nat
      /\ calls \in [Calls -> CallSet]
  BY GrowStep DEF TypeOK, Grows
<1>i. CallTrue(c, calls[c], db, stored, sends, session)
  BY DEF ToldInv
<1>g. Grows
  BY GrowStep
<1>b. ASSUME CallTrue(c, calls'[c], db, stored, sends, session)
      PROVE  CallTrue(c, calls'[c], db', stored', sends', session')
  BY <1>b, <1>g, <1>t, CallStays
<1>1. CASE calls'[c] = calls[c]
  BY <1>1, <1>b, <1>i
<1>2. CASE calls'[c] \in Resting
  BY <1>2, <1>t, RestTrue
<1>3. ASSUME NEW d \in Calls, CallFails(d) \/ LoadAnswered(d)
      PROVE  CallTrue(c, calls'[c], db', stored', sends', session')
  BY <1>1, <1>2, <1>3, SettleTypes DEF CallFails, LoadAnswered
<1>4. CASE MoreAnswered
  BY <1>1, <1>2, <1>4, SettleTypes DEF MoreAnswered, Calls
<1>5. ASSUME NEW d \in Calls, Asks(d), d = "older" => list # <<>>
      PROVE  CallTrue(c, calls'[c], db', stored', sends', session')
  <2>1. CASE d = c
    <3>1. calls'[c] = Asked
      BY <1>5, <2>1, AskTypes
    <3>2. CallTrue(c, Asked, db, stored, sends, session)
      BY <1>5, <2>1, AskedTrue
    <3> QED
      BY <1>b, <3>1, <3>2
  <2>2. CASE d # c
    BY <1>1, <1>5, <2>2, AskTypes
  <2> QED
    BY <2>1, <2>2
<1>6. CASE OpenRoom \/ Resync
  BY <1>5, <1>6 DEF OpenRoom, Resync, Calls
<1>7. CASE LoadMore
  BY <1>5, <1>7 DEF LoadMore, Calls
<1>8. CASE RefreshesRoom
  <2>1. CASE calls' = RefreshEnds
    BY <1>1, <1>2, <2>1, RefreshTypes
  <2>2. CASE Asks("sync")
    BY <1>5, <2>2 DEF Calls
  <2> QED
    BY <1>8, <2>1, <2>2 DEF RefreshesRoom
<1>9. ASSUME NEW d \in Calls, SdkReads(d)
      PROVE  CallTrue(c, calls'[c], db', stored', sends', session')
  <2>1. CASE d = c
    BY <1>9, <1>b, <2>1, ReadTrue
  <2>2. CASE d # c
    BY <1>1, <1>9, <1>t, <2>2 DEF SdkReads
  <2> QED
    BY <2>1, <2>2
<1>10. CASE HandlesSynced
  <2>1. CASE calls' = [calls EXCEPT !["sync"].at = "rows"] /\ calls["sync"].at = "idle"
    <3>1. CASE c # "sync"
      BY <1>1, <1>t, <2>1, <3>1
    <3>2. CASE c = "sync"
      <4> DEFINE r == calls[c]
                 s == calls'[c]
      <4>1. s.at = "rows" /\ s.kept = r.kept /\ s.page = r.page /\ s.of = r.of
        BY <1>t, <2>1, <3>2 DEF CallSet
      <4>2. r.page = <<>>
        BY <1>i, <2>1, <3>2 DEF CallTrue, PageTrue
      <4> HIDE DEF r, s
      <4>3. CallTrue(c, r, db, stored, sends, session)
        BY <1>i DEF r
      <4>4. CallTrue(c, s, db, stored, sends, session)
        BY <3>2, <4>1, <4>2, <4>3 DEF CallTrue, PageTrue
      <4> QED
        BY <1>b, <4>4 DEF s
    <3> QED
      BY <3>1, <3>2
  <2>2. CASE calls' = calls
    BY <1>1, <2>2
  <2> QED
    BY <1>10, <2>1, <2>2 DEF HandlesSynced, Refreshing
<1>11. CASE UNCHANGED calls
  BY <1>1, <1>11
<1> QED
  BY <1>3, <1>4, <1>6, <1>7, <1>8, <1>9, <1>10, <1>11
  DEF Next, vars, PeerSends, SyncsFromServer, PeerMarks, SdkSends, SdkFails, Send,
      PreviewAnswered, SendDelivered, Reappeared, SeqResolved, SendRejected,
      SendForgotten, HandlesMessage, LeaveRoom, LeaveOtherRoom, Reset

LEMMA ToldStep ==
  ASSUME TypeOK, TypeOK', ToldInv, [Next]_vars
  PROVE  ToldInv'
<1>1. Ordered(db') /\ EventsTrue'
  BY DbStep
<1>2. Backed(list', db', stored', sends')
  BY ListStep
<1>3. \A c \in Calls : CallTrue(c, calls'[c], db', stored', sends', session')
  BY CallStep
<1> QED
  BY <1>1, <1>2, <1>3 DEF ToldInv
-----------------------------------------------------------------------------
(* The list                                                                *)

LEMMA TidyWithin ==
  ASSUME NEW k \in Seq(BubbleSet), NEW l \in Seq(BubbleSet), NEW m \in Seq(BubbleSet),
         Within(m, l), NEW q, NEW now, Tidy(l, q, now), Keeps(k, l)
  PROVE  Tidy(m, q, now) /\ Keeps(k, m)
<1>1. Tidy(m, q, now)
  BY WithinKeeps DEF Tidy
<1>2. \A j \in DOMAIN m : \E i \in DOMAIN l : m[j] = l[i]
  BY WithinKeeps
<1>3. Keeps(k, m)
  BY <1>2 DEF Keeps
<1> QED
  BY <1>1, <1>3

LEMMA TidyKeeps ==
  ASSUME NEW l, NEW q, NEW now, Tidy(l, q, now)
  PROVE  Keeps(l, l)
BY DEF Tidy, Distinct, Keeps

LEMMA TornStays ==
  ASSUME [Next]_vars
  PROVE  torn => torn'
BY DEF Next, vars, PeerSends, SyncsFromServer, PeerMarks, SdkSends, SdkFails, Send,
   PreviewAnswered, SendDelivered, Reappeared, SeqResolved, SendRejected,
   SendForgotten, SdkReads, CallFails, LoadAnswered, HandlesMessage, HandlesSynced,
   RefreshesRoom, OpenRoom, Resync, LeaveRoom, LeaveOtherRoom, LoadMore, MoreAnswered,
   Reset

\* A message, a receipt or a recall.
LEMMA HandledTidy ==
  ASSUME TypeOK, TypeOK', Tidy(list, sends, session), HandlesMessage, ~torn'
  PROVE  Tidy(list', sends, session) /\ Keeps(list, list')
<1> DEFINE e == Head(events)
           b == Bubble(e.id, "sent", {}, session)
<1>1. PICK l \in Seq(BubbleSet) :
        /\ \/ e.kind = "new" /\ l = Appended(list, b)
           \/ e.kind \in MarkKinds /\ l = Marked(list, e.id, e.kind)
        /\ torn' = (torn \/ OutOfOrder(l) \/ TooEarly(e))
        /\ Within(list', l)
  BY HandledList
<1>t. list \in Seq(BubbleSet) /\ list' \in Seq(BubbleSet)
  BY DEF TypeOK
<1>2. ~OutOfOrder(l)
  BY <1>1
<1>3. Distinct(l) /\ OneAccount(l, sends, session) /\ Keeps(list, l)
  <2>1. CASE e.kind = "new" /\ l = Appended(list, b)
    <3>1. e.id \in 1..MaxMessages
      BY EventTypes DEF HandlesMessage
    <3>2. b \in BubbleSet /\ b.of = session
      BY <3>1, NewBubble
    <3> HIDE DEF b
    <3>3. CASE l = list
      BY <3>3, TidyKeeps DEF Tidy
    <3>4. CASE b.id \notin Ids(list) /\ l = Append(list, b)
      <4>1. /\ DOMAIN list = 1..Len(list) /\ Len(list) \in Nat
            /\ DOMAIN l = 1..(Len(list) + 1) /\ l[Len(list) + 1] = b
            /\ \A i \in DOMAIN list : l[i] = list[i] /\ list[i].id # b.id
        BY <1>t, <3>4 DEF Ids
      <4>2. \A i \in DOMAIN l : i \in DOMAIN list \/ i = Len(list) + 1
        BY <4>1
      <4> QED
        BY <3>2, <4>1, <4>2 DEF Tidy, Distinct, OneAccount, Mine, Keeps
    <3> QED
      BY <2>1, <3>3, <3>4 DEF Appended
  <2>2. CASE e.kind \in MarkKinds /\ l = Marked(list, e.id, e.kind)
    <3>1. /\ DOMAIN l = DOMAIN list
          /\ \A i \in DOMAIN list :
               /\ l[i].id = list[i].id /\ l[i].of = list[i].of
               /\ list[i].marks \subseteq l[i].marks
      BY <1>t, <2>2, MarkedList
    <3> QED
      BY <3>1 DEF Tidy, Distinct, OneAccount, Mine, Keeps
  <2> QED
    BY <1>1, <2>1, <2>2
<1> QED
  BY <1>1, <1>2, <1>3, <1>t, TidyWithin DEF Tidy

\* The answer of loadMessages.
LEMMA LoadedTidy ==
  ASSUME TypeOK, TypeOK', ToldInv, Tidy(list, sends, session), NEW c \in Calls,
         LoadAnswered(c), ~torn'
  PROVE  Tidy(list', sends, session) /\ Keeps(list, list')
<1> DEFINE page == calls[c].page
           read == WithRead(page, list)
<1>t. /\ list \in Seq(BubbleSet) /\ list' \in Seq(BubbleSet)
      /\ page \in Seq(BubbleSet) /\ \A i \in DOMAIN page : page[i].id \in Int
  <2>1. /\ list \in Seq(BubbleSet) /\ list' \in Seq(BubbleSet)
        /\ calls[c] \in CallSet
    BY DEF TypeOK
  <2>2. page \in Seq(BubbleSet)
    BY <2>1 DEF CallSet
  <2>3. \A i \in DOMAIN page : page[i] \in BubbleSet
    BY <2>2
  <2> QED
    BY <2>1, <2>2, <2>3, BubbleTypes
<1>1. CASE list' = list
  BY <1>1, TidyKeeps
<1>2. CASE list' # list
  <2>1. PICK rest \in Seq(BubbleSet), l \in Seq(BubbleSet) :
          /\ Within(rest, calls[c].kept)
          /\ \A k \in DOMAIN rest : rest[k].id \notin Ids(page)
          /\ l = WithRead(page, calls[c].kept) \o rest
          /\ Within(list', l)
          /\ Meets(c) /\ ~OutOfOrder(l)
    BY <1>2, LoadedList
  <2>2. calls[c].kept = list /\ calls[c].of = session
    BY <2>1 DEF Meets
  <2>3. PageTrue(c, calls[c], session)
    BY DEF ToldInv, CallTrue
  <2>4. /\ Ordered(page)
        /\ \A i \in DOMAIN page :
             /\ page[i].of = session
             /\ \A j \in DOMAIN list :
                  list[j].id = page[i].id /\ "recalled" \in list[j].marks
                    => "recalled" \in page[i].marks
    <3>1. session \in Nat
      BY DbTypes
    <3>2. \A i \in DOMAIN page : page[i].of \in session..session
      BY <2>2, <2>3 DEF PageTrue
    <3> QED
      BY <2>2, <2>3, <3>1, <3>2 DEF PageTrue
  <2> HIDE DEF page
  <2>5. /\ read \in Seq(BubbleSet) /\ DOMAIN read = DOMAIN page
        /\ \A i \in DOMAIN page :
             /\ read[i].id = page[i].id /\ read[i].of = page[i].of
             /\ read[i].marks =
                  page[i].marks \cup
                    (IF \E j \in DOMAIN list :
                          list[j].id = page[i].id /\ "read" \in list[j].marks
                     THEN {"read"} ELSE {})
    BY <1>t, ReadPage
  <2> HIDE DEF read
  <2>6. ASSUME NEW i \in DOMAIN page, NEW j \in DOMAIN list, list[j].id = page[i].id
        PROVE  list[j].marks \subseteq read[i].marks
    <3>1. list[j].marks \subseteq {"read", "recalled"}
      <4>1. list[j] \in BubbleSet
        BY <1>t
      <4> QED
        BY <4>1, BubbleTypes DEF MarkKinds
    <3>2. "recalled" \in list[j].marks => "recalled" \in read[i].marks
      BY <2>4, <2>5, <2>6
    <3>3. "read" \in list[j].marks => "read" \in read[i].marks
      BY <2>5, <2>6
    <3> QED
      BY <3>1, <3>2, <3>3
  <2>7. \A i, j \in DOMAIN page : page[i].id = page[j].id => i = j
    <3>1. \A i \in DOMAIN page : i \in Int
      BY <1>t
    <3> QED
      <4> SUFFICES ASSUME NEW i \in DOMAIN page, NEW j \in DOMAIN page,
                          page[i].id = page[j].id, i # j
                   PROVE  FALSE
        OBVIOUS
      <4>1. i < j \/ j < i
        BY <3>1
      <4>2. page[i].id < page[j].id \/ page[j].id < page[i].id
        BY <2>4, <4>1 DEF Ordered
      <4>3. page[i].id \in Int
        BY <1>t
      <4> QED
        BY <4>2, <4>3
  <2>8. /\ Distinct(rest) /\ OneAccount(rest, sends, session)
        /\ \A k \in DOMAIN rest : \E i \in DOMAIN list : rest[k] = list[i]
    BY <1>t, <2>1, <2>2, WithinKeeps DEF Tidy
  <2>9. /\ l = read \o rest
        /\ \A i \in DOMAIN l :
             \/ i \in DOMAIN read /\ l[i] = read[i]
             \/ /\ i \notin DOMAIN read /\ i - Len(read) \in DOMAIN rest
                /\ l[i] = rest[i - Len(read)]
        /\ \A i \in DOMAIN l : i \in Int
        /\ Len(read) \in Int
    BY <1>t, <2>1, <2>2, <2>5 DEF read
  <2>10. \A i \in DOMAIN read : \A k \in DOMAIN rest : read[i].id # rest[k].id
    <3>1. \A k \in DOMAIN rest : \A i \in DOMAIN page : rest[k].id # page[i].id
      BY <2>1 DEF Ids
    <3> QED
      BY <2>5, <3>1
  <2>11. Distinct(l)
    <3> SUFFICES ASSUME NEW i \in DOMAIN l, NEW j \in DOMAIN l, l[i].id = l[j].id
                 PROVE  i = j
      BY DEF Distinct
    <3>1. CASE i \in DOMAIN read /\ j \in DOMAIN read
      BY <2>5, <2>7, <2>9, <3>1
    <3>2. CASE i \notin DOMAIN read /\ j \notin DOMAIN read
      BY <2>8, <2>9, <3>2 DEF Distinct
    <3>3. CASE (i \in DOMAIN read) # (j \in DOMAIN read)
      BY <2>9, <2>10, <3>3
    <3> QED
      BY <3>1, <3>2, <3>3
  <2>12. OneAccount(l, sends, session)
    <3> SUFFICES ASSUME NEW i \in DOMAIN l PROVE Mine(l[i], sends, session)
      BY DEF OneAccount
    <3>1. CASE i \in DOMAIN read /\ l[i] = read[i]
      <4>1. read[i].of = session
        BY <2>4, <2>5, <3>1
      <4> QED
        BY <3>1, <4>1 DEF Mine
    <3>2. CASE \E k \in DOMAIN rest : l[i] = rest[k]
      BY <2>8, <3>2 DEF OneAccount
    <3> QED
      BY <2>9, <3>1, <3>2
  <2>13. Keeps(list, l)
    <3> SUFFICES ASSUME NEW i \in DOMAIN list, NEW j \in DOMAIN l, list[i].id = l[j].id
                 PROVE  list[i].marks \subseteq l[j].marks
      BY DEF Keeps
    <3>1. CASE j \in DOMAIN read /\ l[j] = read[j]
      BY <2>5, <2>6, <3>1
    <3>2. CASE \E k \in DOMAIN rest : l[j] = rest[k]
      BY <2>8, <3>2 DEF Tidy, Distinct
    <3> QED
      BY <2>9, <3>1, <3>2
  <2> QED
    BY <1>t, <2>1, <2>11, <2>12, <2>13, TidyWithin DEF Tidy
<1> QED
  BY <1>1, <1>2
\* The answer of loadMoreMessages.
LEMMA MoreTidy ==
  ASSUME TypeOK, TypeOK', ToldInv, Tidy(list, sends, session), MoreAnswered, ~torn'
  PROVE  Tidy(list', sends, session) /\ Keeps(list, list')
<1> DEFINE page == calls["older"].page
<1>t. /\ list \in Seq(BubbleSet) /\ page \in Seq(BubbleSet)
      /\ DOMAIN list = 1..Len(list) /\ Len(list) \in Nat
      /\ DOMAIN page = 1..Len(page) /\ Len(page) \in Nat
      /\ \A i \in DOMAIN page : page[i].id \in Int
      /\ \A i \in DOMAIN list : list[i].id \in Int
  <2>1. list \in Seq(BubbleSet) /\ calls["older"] \in CallSet
    BY DEF TypeOK, Calls
  <2>2. page \in Seq(BubbleSet)
    BY <2>1 DEF CallSet
  <2>3. /\ \A i \in DOMAIN page : page[i] \in BubbleSet
        /\ \A i \in DOMAIN list : list[i] \in BubbleSet
    BY <2>1, <2>2
  <2> HIDE DEF page
  <2> QED
    BY <2>1, <2>2, <2>3, BubbleTypes
<1>m. calls["older"].kept = list /\ calls["older"].of = session
  BY DEF MoreAnswered, Meets
<1>p. /\ Ordered(page)
      /\ \A i \in DOMAIN page :
           page[i].id > 0 /\ page[i].of = session /\ page[i].id < list[1].id
      /\ list # <<>>
  <2>1. PageTrue("older", calls["older"], session) /\ session \in Nat
    BY DbTypes DEF ToldInv, CallTrue, Calls
  <2>2. calls["older"].at = "answered"
    BY DEF MoreAnswered
  <2>3. \A i \in DOMAIN page : page[i].of \in session..session
    BY <1>m, <2>1 DEF PageTrue
  <2> QED
    BY <1>m, <2>1, <2>2, <2>3 DEF PageTrue
<1>1. CASE list' = list
  BY <1>1, TidyKeeps
<1>2. CASE list' = page \o list
  <2> DEFINE l == page \o list
  <2>1. /\ \A i \in DOMAIN l :
             \/ i \in DOMAIN page /\ l[i] = page[i]
             \/ /\ i > Len(page) /\ i - Len(page) \in DOMAIN list
                /\ l[i] = list[i - Len(page)]
        /\ \A i \in DOMAIN l : i \in Int
    <3>1. list \in Seq(BubbleSet) /\ page \in Seq(BubbleSet)
      BY <1>t
    <3> HIDE DEF page
    <3>2. \A i \in DOMAIN l :
             \/ i \in DOMAIN page /\ l[i] = page[i]
             \/ /\ i > Len(page) /\ i - Len(page) \in DOMAIN list
                /\ l[i] = list[i - Len(page)]
      BY <3>1
    <3>3. \A i \in DOMAIN l : i \in Int
      BY <3>1
    <3> QED
      BY <3>2, <3>3
  <2> HIDE DEF page, l
  <2>2. \A k \in DOMAIN list : list[k].id <= 0 \/ list[k].id >= list[1].id
    <3> SUFFICES ASSUME NEW k \in DOMAIN list, k # 1
                 PROVE  list[k].id <= 0 \/ list[k].id >= list[1].id
      BY <1>t
    <3>1. 1 \in DOMAIN list /\ 1 < k
      BY <1>t
    <3>2. list[k].id \notin 1..(list[1].id - 1)
      BY <3>1 DEF Tidy, OutOfOrder
    <3> QED
      BY <1>t, <3>1, <3>2
  <2>3. \A i \in DOMAIN page : \A k \in DOMAIN list :
          page[i].id # list[k].id /\ list[k].id \notin 1..(page[i].id - 1)
    <3>1. 1 \in DOMAIN list
      BY <1>t, <1>p
    <3> QED
      BY <1>p, <1>t, <2>2, <3>1
  <2>4. \A i, j \in DOMAIN page :
          /\ page[i].id = page[j].id => i = j
          /\ i < j => page[j].id \notin 1..(page[i].id - 1)
    <3>1. \A i \in DOMAIN page : i \in Int
      BY <1>t
    <3> QED
      BY <1>p, <1>t, <3>1 DEF Ordered
  <2>5. Distinct(l)
    <3> SUFFICES ASSUME NEW i \in DOMAIN l, NEW j \in DOMAIN l, l[i].id = l[j].id
                 PROVE  i = j
      BY DEF Distinct
    <3>1. CASE i \in DOMAIN page /\ j \in DOMAIN page
      BY <1>t, <2>1, <2>4, <3>1
    <3>2. CASE i > Len(page) /\ j > Len(page)
      BY <1>t, <2>1, <3>2 DEF Tidy, Distinct
    <3>3. CASE i \in DOMAIN page /\ j > Len(page)
      BY <1>t, <2>1, <2>3, <3>3
    <3>4. CASE i > Len(page) /\ j \in DOMAIN page
      BY <1>t, <2>1, <2>3, <3>4
    <3> QED
      BY <2>1, <3>1, <3>2, <3>3, <3>4
  <2>6. ~OutOfOrder(l)
    <3> SUFFICES ASSUME NEW i \in DOMAIN l, NEW j \in DOMAIN l, i < j
                 PROVE  l[j].id \notin 1..(l[i].id - 1)
      BY DEF OutOfOrder
    <3>1. CASE i \in DOMAIN page /\ j \in DOMAIN page
      BY <1>t, <2>1, <2>4, <3>1
    <3>2. CASE i > Len(page) /\ j > Len(page)
      <4>1. /\ i - Len(page) \in DOMAIN list /\ j - Len(page) \in DOMAIN list
            /\ i - Len(page) < j - Len(page)
            /\ l[i] = list[i - Len(page)] /\ l[j] = list[j - Len(page)]
        BY <1>t, <2>1, <3>2
      <4> QED
        BY <4>1 DEF Tidy, OutOfOrder
    <3>3. CASE i \in DOMAIN page /\ j > Len(page)
      BY <1>t, <2>1, <2>3, <3>3
    <3>4. CASE i > Len(page) /\ j \in DOMAIN page
      BY <1>t, <2>1, <3>4
    <3> QED
      BY <2>1, <3>1, <3>2, <3>3, <3>4
  <2>7. OneAccount(l, sends, session)
    BY <1>p, <2>1 DEF OneAccount, Mine, Tidy
  <2>8. Keeps(list, l)
    <3> SUFFICES ASSUME NEW i \in DOMAIN list, NEW j \in DOMAIN l, list[i].id = l[j].id
                 PROVE  list[i].marks \subseteq l[j].marks
      BY DEF Keeps
    <3>1. PICK k \in DOMAIN list : l[j] = list[k]
      BY <2>1, <2>3
    <3> QED
      BY <3>1 DEF Tidy, Distinct
  <2> QED
    BY <1>2, <2>5, <2>6, <2>7, <2>8 DEF Tidy, l
<1> QED
  BY <1>1, <1>2, <1>m DEF MoreAnswered

\* The bubbles that a list has stay those of its account as its sends go on.
LEMMA MineStays ==
  ASSUME Grows, session' = session, NEW d, NEW n,
         NEW l, OneAccount(l, sends, session), Backed(l, d, n, sends)
  PROVE  OneAccount(l, sends', session')
<1> SUFFICES ASSUME NEW i \in DOMAIN l PROVE Mine(l[i], sends', session)
  BY DEF OneAccount
<1>1. CASE l[i].of = session
  BY <1>1 DEF Mine
<1>2. ASSUME NEW s \in Sends, l[i].id = -s, l[i].of = sends[s].by, sends[s].of = session
      PROVE  Mine(l[i], sends', session)
  <2>1. sends[s].at # "none"
    BY <1>2 DEF Backed, Backs
  <2>2. sends'[s].by = sends[s].by /\ sends'[s].of = session
    BY <1>2, <2>1 DEF Grows
  <2> QED
    BY <1>2, <2>2 DEF Mine
<1> QED
  BY <1>1, <1>2 DEF OneAccount, Mine

\* A placeholder is added once.
LEMMA SendTidy ==
  ASSUME TypeOK, ToldInv, Grows, Tidy(list, sends, session), NEW s \in Sends, Send(s)
  PROVE  Tidy(list', sends', session') /\ Keeps(list, list')
<1> DEFINE b == Placeholder(s)
<1>1. list' = Append(list, b) /\ sends[s].at = "none" /\ session' = session
  BY DEF Send
<1>2. b.id = -s /\ b.of = session
  BY NewPlaceholder
<1> HIDE DEF b
<1>3. \A i \in DOMAIN list : list[i].id # b.id
  BY <1>1, <1>2 DEF ToldInv, Backed, Backs
<1>4. /\ DOMAIN list = 1..Len(list) /\ Len(list) \in Nat
      /\ DOMAIN list' = 1..(Len(list) + 1) /\ list'[Len(list) + 1] = b
      /\ \A i \in DOMAIN list : list'[i] = list[i]
  BY <1>1 DEF TypeOK
<1>5. \A i \in DOMAIN list' : i \in DOMAIN list \/ i = Len(list) + 1
  BY <1>4
<1>6. Distinct(list') /\ Keeps(list, list')
  BY <1>2, <1>3, <1>4, <1>5 DEF Tidy, Distinct, Keeps
<1>7. OneAccount(list', sends', session')
  <2>1. OneAccount(list, sends', session')
    BY <1>1, MineStays DEF Tidy, ToldInv
  <2>2. Mine(b, sends', session')
    BY <1>1, <1>2 DEF Mine
  <2> QED
    BY <1>4, <1>5, <2>1, <2>2 DEF OneAccount
<1>8. ~OutOfOrder(list')
  <2> SUFFICES ASSUME NEW i \in DOMAIN list', NEW j \in DOMAIN list', i < j
               PROVE  list'[j].id \notin 1..(list'[i].id - 1)
    BY DEF OutOfOrder
  <2>1. i \in DOMAIN list
    BY <1>4, <1>5
  <2>2. CASE j \in DOMAIN list
    BY <1>4, <2>1, <2>2 DEF Tidy, OutOfOrder
  <2>3. CASE j = Len(list) + 1
    <3>1. list'[j].id = -s /\ s \in Nat \ {0}
      BY <1>2, <1>4, <2>3, ChatAssumption
    <3> QED
      BY <3>1
  <2> QED
    BY <1>5, <2>2, <2>3
<1> QED
  BY <1>6, <1>7, <1>8 DEF Tidy

\* The steps of a send that put something in: the placeholder once more, red or
\* not, or the message, without the marks it had.
LEMMA WriteTidy ==
  ASSUME TypeOK, ToldInv, Grows, Tidy(list, sends, session), NEW s \in Sends,
         SendWrites(s), ~torn'
  PROVE  Tidy(list', sends', session') /\ MarksKept
<1>t. /\ list \in Seq(BubbleSet) /\ session' = session /\ s \in Nat \ {0}
      /\ OneAccount(list, sends', session')
  <2>1. session' = session
    BY DEF SendWrites, PreviewAnswered, SendDelivered, SeqResolved, SendRejected
  <2> QED
    BY <2>1, MineStays, ChatAssumption DEF Tidy, ToldInv, TypeOK
<1>s. /\ sends'[s] # sends[s] /\ sends'[s].by = sends[s].by
      /\ sends'[s].of \in {sends[s].of, session}
  BY SendSteps
<1>1. CASE list' = list
  <2>1. Keeps(list, list') => MarksKept
    BY DEF Keeps, MarksKept
  <2> QED
    BY <1>1, <1>t, <2>1, TidyKeeps DEF Tidy
<1>2. ASSUME NEW temp, NEW b, Puts(s, temp, b)
      PROVE  Tidy(list', sends', session') /\ MarksKept
  <2>1. /\ list' = Replaced(list, temp, b)
        /\ b \in BubbleSet /\ b.marks = {}
        /\ \/ b.id = -s /\ temp = -s /\ b.of = sends[s].by
           \/ /\ b.id = sends[s].msg /\ b.of = session
              /\ temp = -s \/ (temp = b.id /\ temp \in Ids(list))
    BY <1>2 DEF Puts
  <2>2. /\ \A k \in DOMAIN list' :
             \/ list'[k] = b
             \/ \E i \in DOMAIN list : list'[k] = list[i]
        /\ Distinct(list')
        /\ b.id = temp /\ (temp < 0 \/ temp \in Ids(list)) => ~OutOfOrder(list')
    BY <1>t, <2>1, ReplacedList DEF Tidy
  <2>3. ~OutOfOrder(list')
    <3>1. CASE b.id = temp
      BY <1>t, <2>1, <2>2, <3>1
    <3>2. CASE b.id # temp
      <4>1. SendDelivered(s)
        BY <1>2, <3>2 DEF Puts
      <4> QED
        BY <4>1 DEF SendDelivered
    <3> QED
      BY <3>1, <3>2
  <2>4. OneAccount(list', sends', session')
    <3>1. Mine(b, sends', session')
      BY <1>2, <1>s, <1>t DEF Mine, Puts
    <3> QED
      BY <1>t, <2>2, <3>1 DEF OneAccount
  <2>5. MarksKept
    <3> SUFFICES ASSUME NEW i \in DOMAIN list, NEW j \in DOMAIN list',
                        list[i].id = list'[j].id, list[i].id # sends[s].msg
                 PROVE  list[i].marks \subseteq list'[j].marks
      BY <1>s DEF MarksKept
    <3>1. CASE list'[j] = b
      BY <2>1, <3>1 DEF ToldInv, Backed, Backs
    <3>2. CASE \E k \in DOMAIN list : list'[j] = list[k]
      BY <3>2 DEF Tidy, Distinct
    <3> QED
      BY <2>2, <3>1, <3>2
  <2> QED
    BY <2>2, <2>3, <2>4, <2>5 DEF Tidy
<1> QED
  BY <1>1, <1>2, SendList

LEMMA TidyStep ==
  ASSUME TypeOK, TypeOK', ToldInv, ListInv, [Next]_vars, ~torn'
  PROVE  Tidy(list', sends', session') /\ MarksKept
<1>t. /\ Tidy(list, sends, session) /\ list \in Seq(BubbleSet)
      /\ list' \in Seq(BubbleSet)
  BY TornStays DEF TypeOK, ListInv
<1>g. Grows
  BY GrowStep
<1>k. Keeps(list, list') => MarksKept
  BY DEF Keeps, MarksKept
<1>1. CASE UNCHANGED <<list, session>>
  <2>1. OneAccount(list, sends', session')
    BY <1>1, <1>g, <1>t, MineStays DEF Tidy, ToldInv
  <2> QED
    BY <1>1, <1>k, <1>t, <2>1, TidyKeeps DEF Tidy
<1>2. CASE list' = <<>>
  BY <1>2, <1>k DEF Tidy, Distinct, OutOfOrder, OneAccount, Keeps
<1>3. CASE UNCHANGED <<sends, session>> /\ list' = Newest(list, Window)
  BY <1>3, <1>k, <1>t, ChatAssumption, Newer, TidyKeeps, TidyWithin
<1>4. CASE HandlesMessage
  BY <1>4, <1>k, <1>t, HandledTidy DEF HandlesMessage
<1>5. ASSUME NEW c \in Calls, LoadAnswered(c)
      PROVE  Tidy(list', sends', session') /\ MarksKept
  BY <1>5, <1>k, <1>t, LoadedTidy DEF LoadAnswered, sdk
<1>6. CASE MoreAnswered
  BY <1>6, <1>k, <1>t, MoreTidy DEF MoreAnswered, sdk
<1>7. ASSUME NEW s \in Sends, Send(s)
      PROVE  Tidy(list', sends', session') /\ MarksKept
  BY <1>7, <1>g, <1>k, <1>t, SendTidy
<1>8. ASSUME NEW s \in Sends, SendWrites(s)
      PROVE  Tidy(list', sends', session') /\ MarksKept
  BY <1>8, <1>g, <1>t, WriteTidy
<1> QED
  BY <1>1, <1>2, <1>3, <1>4, <1>5, <1>6, <1>7, <1>8
  DEF Next, vars, SendWrites, PeerSends, SyncsFromServer, PeerMarks, SdkSends,
      SdkFails, Reappeared, SendForgotten, SdkReads, CallFails, HandlesSynced,
      RefreshesRoom, OpenRoom, Resync, LeaveRoom, LeaveOtherRoom, LoadMore, Reset,
      Trimmed

-----------------------------------------------------------------------------
(* Theorems                                                                *)

LEMMA ChatInit == Init => ChatInv
<1> SUFFICES ASSUME Init PROVE ChatInv
  OBVIOUS
<1>1. /\ group \in BOOLEAN
      /\ session = 1 /\ stored = 0 /\ acts = 0
      /\ db = <<>> /\ events = <<>> /\ list = <<>>
      /\ {open, ended, again, fresh, torn} \subseteq BOOLEAN
      /\ calls = [c \in Calls |-> Rest("idle")]
      /\ sends = [s \in Sends |-> [at |-> "none", msg |-> 0, of |-> 0, by |-> 0]]
      /\ spoilt = {}
  BY CallTypes DEF Init
<1>2. Rest("idle") \in Resting
  BY DEF Resting
<1>3. \A c \in Calls : calls[c] \in Resting
  BY <1>1, <1>2
<1>4. calls \in [Calls -> CallSet]
  BY <1>1, <1>2, CallTypes
<1>5. sends \in [Sends -> SendSet]
  <2>1. 0 \in 0..stored /\ 0 \in 0..MaxSessions
    BY <1>1, ChatAssumption
  <2> QED
    BY <1>1, <2>1 DEF SendSet
<1>6. \A s \in Sends : sends[s].at = "none"
  BY <1>1
<1>7. db \in Seq(MessageSet) /\ events \in Seq(EventSet) /\ list \in Seq(BubbleSet)
  BY <1>1
<1>8. TypeOK
  BY <1>1, <1>4, <1>5, <1>6, <1>7, ChatAssumption DEF TypeOK
<1>9. DOMAIN db = {} /\ DOMAIN events = {} /\ DOMAIN list = {}
  BY <1>1
<1>10. ToldInv
  BY <1>1, <1>3, <1>9, RestTrue DEF ToldInv, Ordered, EventsTrue, Backed
<1>11. ListInv
  BY <1>9 DEF ListInv, Tidy, Distinct, OutOfOrder, OneAccount
<1> QED
  BY <1>8, <1>10, <1>11 DEF ChatInv

LEMMA ChatStep == ChatInv /\ [Next]_vars => ChatInv'
<1> SUFFICES ASSUME ChatInv, [Next]_vars PROVE ChatInv'
  OBVIOUS
<1>1. TypeOK /\ ToldInv /\ ListInv
  BY DEF ChatInv
<1>2. TypeOK'
  BY <1>1, TypeStep
<1>3. ToldInv'
  BY <1>1, <1>2, ToldStep
<1>4. ListInv'
  BY <1>1, <1>2, TidyStep DEF ListInv
<1> QED
  BY <1>2, <1>3, <1>4 DEF ChatInv

LEMMA ChatInvariant == Spec => []ChatInv
BY ChatInit, ChatStep, PTL DEF Spec

\* The bubbles, the pages and the SDK hold what stores/chat.ts says they hold,
\* whatever number of messages, sends and accounts there is.
THEOREM ChatTypes == Spec => []TypeOK
<1>1. ChatInv => TypeOK
  BY DEF ChatInv
<1> QED
  BY <1>1, ChatInvariant, PTL

\* appendMessage, replaceMessage and mergeLocalPending leave one bubble of every
\* message, whichever of the event, the answer of its send and a page comes
\* first, as long as no answer has met another list than its question saw.
THEOREM OneBubble == Spec => []NoBubbleTwice
<1>1. ChatInv => NoBubbleTwice
  BY DEF ChatInv, ListInv, Tidy, Distinct, NoBubbleTwice
<1> QED
  BY <1>1, ChatInvariant, PTL

\* The generation that sendWithPlaceholder looks at keeps the sends of one
\* account out of the list of the next, and reset empties that list; only the
\* placeholder of an image whose preview comes under the next account gets in.
THEOREM SessionsApart == Spec => []SendsStayInSession
<1>1. ChatInv => SendsStayInSession
  BY DEF ChatInv, ListInv, Tidy, OneAccount, Mine, SendsStayInSession
<1> QED
  BY <1>1, ChatInvariant, PTL

\* No event, page or trim, and no answer of another send, takes back a receipt or
\* a recall that a bubble shows, as long as no page has met another list.
THEOREM MarksOnlyGrow == Spec => MarksStay
<1>1. ChatInv /\ [Next]_vars => [torn' \/ MarksKept]_vars
  <2> SUFFICES ASSUME ChatInv, [Next]_vars, ~torn' PROVE MarksKept
    OBVIOUS
  <2>1. TypeOK /\ TypeOK' /\ ToldInv /\ ListInv
    BY ChatStep DEF ChatInv
  <2> QED
    BY <2>1, TidyStep
<1> QED
  BY <1>1, ChatInvariant, PTL DEF Spec, MarksStay, MarksKept

=============================================================================
