------------------------- MODULE ForwardDraftProofs -------------------------
(***************************************************************************)
(* Proofs about what stands before and after the queue of ForwardQueue:    *)
(* ForwardDraft, for every set of requests and every choice of peers, and  *)
(* ForwardOutbox, for every set of tasks and of publishers.                *)
(***************************************************************************)
EXTENDS ForwardDraft, ForwardOutbox, FiniteSetTheorems, SequenceTheorems, TLAPS

-----------------------------------------------------------------------------
(* The order of the statements                                             *)

\* A count follows its DELETE and is written in the next statement; these,
\* and the last statements of a batch, have one predecessor each.
Ordered(s) ==
  /\ \A i \in 1..Len(s) :
       /\ s[i] = "delete" => i + 1 \in 1..Len(s) /\ s[i + 1] = "count"
       /\ s[i] = "count"  => i + 1 \in 1..Len(s) /\ s[i + 1] = "refresh"
  /\ \A i \in 1..Len(s) : i + 1 \in 1..Len(s) =>
       /\ s[i + 1] = "select"  => s[i] = "check"
       /\ s[i + 1] = "delete"  => s[i] = "select"
       /\ s[i + 1] = "count"   => s[i] = "delete"
       /\ s[i + 1] = "refresh" => s[i] = "count"
       /\ s[i + 1] = "groups"  => s[i] = "refresh"
       /\ s[i + 1] = "total"   => s[i] = "groups"
       /\ s[i + 1] = "submit"  => s[i] = "total"

LEMMA KindNames ==
  Kinds = {"batch", "create", "add", "generate", "remove", "clear", "submit", "cancel"}
BY DEF Kinds, Program

LEMMA RemovalProgram ==
  /\ Removal \in Seq(Ops) /\ Len(Removal) = 5
  /\ Removal[1] = "check" /\ Removal[2] = "select" /\ Removal[3] = "delete"
  /\ Removal[4] = "count" /\ Removal[5] = "refresh"
BY DEF Removal, Ops

\* Two programs in a row, statement by statement.
LEMMA InARow ==
  ASSUME NEW s \in Seq(Ops), NEW t \in Seq(Ops)
  PROVE  /\ s \o t \in Seq(Ops)
         /\ Len(s \o t) = Len(s) + Len(t)
         /\ \A i \in 1..Len(s) : (s \o t)[i] = s[i]
         /\ \A i \in 1..Len(t) : (s \o t)[Len(s) + i] = t[i]
<1>1. /\ s \o t \in Seq(Ops)
      /\ Len(s \o t) = Len(s) + Len(t)
      /\ \A i \in 1..(Len(s) + Len(t)) :
           (s \o t)[i] = IF i <= Len(s) THEN s[i] ELSE t[i - Len(s)]
  BY ConcatProperties
<1>2. Len(s) \in Nat /\ Len(t) \in Nat
  OBVIOUS
<1>3. \A i \in 1..Len(s) : i \in 1..(Len(s) + Len(t)) /\ i <= Len(s)
  BY <1>2
<1>4. \A i \in 1..Len(t) : /\ Len(s) + i \in 1..(Len(s) + Len(t))
                           /\ ~(Len(s) + i <= Len(s)) /\ (Len(s) + i) - Len(s) = i
  BY <1>2
<1> QED
  BY <1>1, <1>3, <1>4

\* The statements of CreateBatch, one by one.
LEMMA BatchProgram ==
  LET s == Program["batch"] IN
  /\ s \in Seq(Ops) /\ Len(s) = 11
  /\ s[1] = "create" /\ s[2] = "add" /\ s[3] = "generate" /\ s[4] = "check"
  /\ s[5] = "select" /\ s[6] = "delete" /\ s[7] = "count" /\ s[8] = "refresh"
  /\ s[9] = "groups" /\ s[10] = "total" /\ s[11] = "submit"
<1> DEFINE a == <<"create">>
           b == <<"add", "generate">>
           d == <<"groups", "total", "submit">>
           ab == a \o Assembly
<1>1. a \in Seq(Ops) /\ b \in Seq(Ops) /\ d \in Seq(Ops)
  BY DEF Ops
<1>2. /\ Len(a) = 1 /\ Len(b) = 2 /\ Len(d) = 3
      /\ a[1] = "create" /\ b[1] = "add" /\ b[2] = "generate"
      /\ d[1] = "groups" /\ d[2] = "total" /\ d[3] = "submit"
  OBVIOUS
<1>3. Assembly = b \o Removal /\ Program["batch"] = ab \o d
  BY DEF Assembly, Program
<1> HIDE DEF a, b, d, ab
<1>4. /\ Assembly \in Seq(Ops) /\ Len(Assembly) = 7
      /\ Assembly[1] = "add" /\ Assembly[2] = "generate" /\ Assembly[3] = "check"
      /\ Assembly[4] = "select" /\ Assembly[5] = "delete" /\ Assembly[6] = "count"
      /\ Assembly[7] = "refresh"
  <2>1. /\ b \o Removal \in Seq(Ops) /\ Len(b \o Removal) = Len(b) + Len(Removal)
        /\ \A i \in 1..Len(b) : (b \o Removal)[i] = b[i]
        /\ \A i \in 1..Len(Removal) : (b \o Removal)[Len(b) + i] = Removal[i]
    BY <1>1, RemovalProgram, InARow
  <2>2. Len(b) = 2 /\ Len(Removal) = 5 /\ Assembly = b \o Removal
    BY <1>2, <1>3, RemovalProgram
  <2>3. /\ Assembly \in Seq(Ops) /\ Len(Assembly) = 7
        /\ Assembly[1] = b[1] /\ Assembly[2] = b[2]
    BY <2>1, <2>2
  <2>4. /\ Assembly[2 + 1] = Removal[1] /\ Assembly[2 + 2] = Removal[2]
        /\ Assembly[2 + 3] = Removal[3] /\ Assembly[2 + 4] = Removal[4]
        /\ Assembly[2 + 5] = Removal[5]
    BY <2>1, <2>2
  <2>5. 2 + 1 = 3 /\ 2 + 2 = 4 /\ 2 + 3 = 5 /\ 2 + 4 = 6 /\ 2 + 5 = 7
    OBVIOUS
  <2> QED
    BY <1>2, <2>3, <2>4, <2>5, RemovalProgram
<1>5. /\ ab \in Seq(Ops) /\ Len(ab) = 8
      /\ ab[1] = "create" /\ ab[2] = "add" /\ ab[3] = "generate" /\ ab[4] = "check"
      /\ ab[5] = "select" /\ ab[6] = "delete" /\ ab[7] = "count" /\ ab[8] = "refresh"
  <2>1. /\ a \o Assembly \in Seq(Ops) /\ Len(a \o Assembly) = Len(a) + Len(Assembly)
        /\ \A i \in 1..Len(a) : (a \o Assembly)[i] = a[i]
        /\ \A i \in 1..Len(Assembly) : (a \o Assembly)[Len(a) + i] = Assembly[i]
    BY <1>1, <1>4, InARow
  <2>2. Len(a) = 1 /\ Len(Assembly) = 7 /\ ab = a \o Assembly
    BY <1>2, <1>4 DEF ab
  <2>3. ab \in Seq(Ops) /\ Len(ab) = 8 /\ ab[1] = a[1]
    BY <2>1, <2>2
  <2>4. /\ ab[1 + 1] = Assembly[1] /\ ab[1 + 2] = Assembly[2]
        /\ ab[1 + 3] = Assembly[3] /\ ab[1 + 4] = Assembly[4]
        /\ ab[1 + 5] = Assembly[5] /\ ab[1 + 6] = Assembly[6]
        /\ ab[1 + 7] = Assembly[7]
    <3>1. /\ 1 \in 1..7 /\ 2 \in 1..7 /\ 3 \in 1..7 /\ 4 \in 1..7
          /\ 5 \in 1..7 /\ 6 \in 1..7 /\ 7 \in 1..7
      OBVIOUS
    <3>2. \A i \in 1..7 : ab[1 + i] = Assembly[i]
      BY <2>1, <2>2
    <3> QED
      BY <3>1, <3>2, Zenon
  <2>5. /\ 1 + 1 = 2 /\ 1 + 2 = 3 /\ 1 + 3 = 4 /\ 1 + 4 = 5 /\ 1 + 5 = 6
        /\ 1 + 6 = 7 /\ 1 + 7 = 8
    OBVIOUS
  <2> QED
    BY <1>2, <1>4, <2>3, <2>4, <2>5
<1>6. /\ ab \o d \in Seq(Ops) /\ Len(ab \o d) = Len(ab) + Len(d)
      /\ \A i \in 1..Len(ab) : (ab \o d)[i] = ab[i]
      /\ \A i \in 1..Len(d) : (ab \o d)[Len(ab) + i] = d[i]
  BY <1>1, <1>5, InARow
<1>7. /\ ab \o d \in Seq(Ops) /\ Len(ab \o d) = 11
      /\ \A i \in 1..8 : (ab \o d)[i] = ab[i]
      /\ (ab \o d)[9] = d[1] /\ (ab \o d)[10] = d[2] /\ (ab \o d)[11] = d[3]
  <2>1. 8 + 1 = 9 /\ 8 + 2 = 10 /\ 8 + 3 = 11 /\ 1 \in 1..3 /\ 2 \in 1..3 /\ 3 \in 1..3
    OBVIOUS
  <2>2. Len(ab) = 8 /\ Len(d) = 3
    BY <1>2, <1>5
  <2>3. /\ ab \o d \in Seq(Ops) /\ Len(ab \o d) = 8 + 3
        /\ \A i \in 1..8 : (ab \o d)[i] = ab[i]
    BY <1>6, <2>2
  <2>4. /\ (ab \o d)[8 + 1] = d[1] /\ (ab \o d)[8 + 2] = d[2]
        /\ (ab \o d)[8 + 3] = d[3]
    BY <1>6, <2>1, <2>2
  <2> QED
    BY <2>1, <2>3, <2>4
<1>8. \A i \in {1, 2, 3, 4, 5, 6, 7, 8} : (ab \o d)[i] = ab[i]
  <2>1. {1, 2, 3, 4, 5, 6, 7, 8} \subseteq 1..8
    OBVIOUS
  <2>2. \A i \in 1..8 : (ab \o d)[i] = ab[i]
    BY <1>7
  <2> QED
    BY <2>1, <2>2, Zenon
<1> QED
  BY <1>2, <1>3, <1>5, <1>7, <1>8

LEMMA ProgramOrdered ==
  ASSUME NEW c \in Kinds
  PROVE  /\ Program[c] \in Seq(Ops) /\ Program[c] # <<>>
         /\ Ordered(Program[c])
         /\ Head(Program[c]) \in {"create", "add", "generate", "check", "submit", "cancel"}
         /\ c = "batch" => Head(Program[c]) = "create"
<1>1. CASE c = "batch"
  <2> DEFINE s == Program["batch"]
  <2>1. s \in Seq(Ops) /\ Len(s) = 11 /\ s[1] = "create"
    BY BatchProgram
  <2>2. /\ s[1] = "create" /\ s[2] = "add" /\ s[3] = "generate" /\ s[4] = "check"
        /\ s[5] = "select" /\ s[6] = "delete" /\ s[7] = "count" /\ s[8] = "refresh"
        /\ s[9] = "groups" /\ s[10] = "total" /\ s[11] = "submit"
    BY BatchProgram
  <2> HIDE DEF s
  <2>3. \A i \in 1..11 : /\ s[i] = "delete" => i = 6
                         /\ s[i] = "count" => i = 7
    <3>1. \A i \in 1..11 : i \in 1..5 \/ i = 6 \/ i = 7 \/ i \in 8..11
      OBVIOUS
    <3>2. \A i \in 1..5 : s[i] \notin {"delete", "count"}
      BY <2>2
    <3>3. \A i \in 8..11 : s[i] \notin {"delete", "count"}
      BY <2>2
    <3> QED
      BY <2>2, <3>1, <3>2, <3>3
  <2>4. \A i \in 1..11 : i + 1 \in 1..11 =>
          /\ s[i + 1] = "select"  => i = 4
          /\ s[i + 1] = "delete"  => i = 5
          /\ s[i + 1] = "count"   => i = 6
          /\ s[i + 1] = "refresh" => i = 7
          /\ s[i + 1] = "groups"  => i = 8
          /\ s[i + 1] = "total"   => i = 9
          /\ s[i + 1] = "submit"  => i = 10
    <3>1. \A j \in 1..11 :
            /\ s[j] = "select"  => j = 5
            /\ s[j] = "delete"  => j = 6
            /\ s[j] = "count"   => j = 7
            /\ s[j] = "refresh" => j = 8
            /\ s[j] = "groups"  => j = 9
            /\ s[j] = "total"   => j = 10
            /\ s[j] = "submit"  => j = 11
      <4>1. \A j \in 1..11 : j \in 1..4 \/ j \in 5..8 \/ j \in 9..11
        OBVIOUS
      <4>2. \A j \in 1..4 : s[j] \in {"create", "add", "generate", "check"}
        BY <2>2
      <4>3. \A j \in 5..8 : /\ s[j] \in {"select", "delete", "count", "refresh"}
                            /\ s[j] = "select"  => j = 5
                            /\ s[j] = "delete"  => j = 6
                            /\ s[j] = "count"   => j = 7
                            /\ s[j] = "refresh" => j = 8
        BY <2>2
      <4>4. \A j \in 9..11 : /\ s[j] \in {"groups", "total", "submit"}
                             /\ s[j] = "groups"  => j = 9
                             /\ s[j] = "total"   => j = 10
                             /\ s[j] = "submit"  => j = 11
        BY <2>2
      <4> QED
        BY <4>1, <4>2, <4>3, <4>4
    <3> QED
      BY <3>1
  <2>5. Ordered(s)
    BY <2>1, <2>2, <2>3, <2>4 DEF Ordered
  <2>6. s # <<>> /\ Head(s) = "create"
    BY <2>1
  <2> QED
    BY <1>1, <2>1, <2>5, <2>6 DEF s
<1>2. CASE c \in {"remove", "clear"}
  <2>1. Program[c] = Removal
    BY <1>2 DEF Program
  <2> QED
    BY <1>2, <2>1, RemovalProgram DEF Ordered
<1>3. CASE c \in {"add", "generate", "submit", "cancel"}
  <2>1. Program[c] = <<c>>
    BY <1>3 DEF Program
  <2> QED
    BY <1>3, <2>1 DEF Ops, Ordered
<1>4. CASE c = "create"
  <2>1. Program[c] = <<"create", "add">>
    BY <1>4 DEF Program
  <2> QED
    BY <1>4, <2>1 DEF Ops, Ordered
<1> QED
  BY <1>1, <1>2, <1>3, <1>4, KindNames

\* What is left after a statement is in order, and begins with what may follow.
LEMMA TailOrdered ==
  ASSUME NEW s \in Seq(Ops), s # <<>>, Ordered(s)
  PROVE  /\ Tail(s) \in Seq(Ops) /\ Ordered(Tail(s)) /\ Head(s) \in Ops
         /\ Head(s) = "delete" => Tail(s) # <<>> /\ Head(Tail(s)) = "count"
         /\ Head(s) = "count" => Tail(s) # <<>> /\ Head(Tail(s)) = "refresh"
         /\ Tail(s) # <<>> =>
              /\ Head(Tail(s)) = "select"  => Head(s) = "check"
              /\ Head(Tail(s)) = "delete"  => Head(s) = "select"
              /\ Head(Tail(s)) = "count"   => Head(s) = "delete"
              /\ Head(Tail(s)) = "refresh" => Head(s) = "count"
              /\ Head(Tail(s)) = "groups"  => Head(s) = "refresh"
              /\ Head(Tail(s)) = "total"   => Head(s) = "groups"
              /\ Head(Tail(s)) = "submit"  => Head(s) = "total"
<1>1. /\ Len(s) \in Nat /\ Len(s) > 0 /\ Head(s) = s[1] /\ Head(s) \in Ops
      /\ Tail(s) \in Seq(Ops) /\ Len(Tail(s)) = Len(s) - 1
      /\ \A i \in 1..Len(Tail(s)) : Tail(s)[i] = s[i + 1]
  OBVIOUS
<1>2. ASSUME 1 + 1 \in 1..Len(s)
      PROVE  Tail(s) # <<>> /\ Head(Tail(s)) = s[1 + 1]
  <2>1. 1 \in 1..Len(Tail(s))
    BY <1>1, <1>2
  <2>2. Tail(s) # <<>> /\ Head(Tail(s)) = Tail(s)[1]
    <3> DEFINE t == Tail(s)
    <3>1. t \in Seq(Ops) /\ Len(t) > 0
      BY <1>1, <2>1
    <3> HIDE DEF t
    <3>2. t # <<>> /\ Head(t) = t[1]
      BY <3>1
    <3> QED
      BY <3>2 DEF t
  <2> QED
    BY <1>1, <2>1, <2>2
<1>3. Tail(s) # <<>> => 1 + 1 \in 1..Len(s)
  BY <1>1
<1>4. 1 \in 1..Len(s)
  BY <1>1
<1>5. Ordered(Tail(s))
  <2>1. \A i \in 1..Len(Tail(s)) : /\ i + 1 \in 1..Len(s)
                                   /\ i + 1 \in 1..Len(Tail(s)) <=> (i + 1) + 1 \in 1..Len(s)
    BY <1>1
  <2> QED
    BY <1>1, <2>1 DEF Ordered
<1> QED
  BY <1>1, <1>2, <1>3, <1>4, <1>5 DEF Ordered
-----------------------------------------------------------------------------
(* Type correctness                                                        *)

\* What the requests are and what they have still to do.
Programs ==
  \A r \in Requests :
    /\ Ordered(todo[r])
    /\ kind[r] = "none" => todo[r] = <<>>
    /\ kind[r] = "clear" => named[r] = Peers
    /\ kind[r] = "batch" => named[r] = Excluded

LEMMA CountType ==
  ASSUME NEW S \in SUBSET Peers
  PROVE  Cardinality(S) \in 0..Cardinality(Peers) /\ IsFiniteSet(S)
<1>1. IsFiniteSet(S) /\ Cardinality(S) <= Cardinality(Peers)
  BY DraftAssumption, FS_Subset
<1>2. Cardinality(S) \in Nat /\ Cardinality(Peers) \in Nat
  BY <1>1, DraftAssumption, FS_CardinalityType
<1> QED
  BY <1>1, <1>2

LEMMA NoPeers == {} \subseteq Peers /\ Cardinality({}) = 0 /\ 0 \in 0..Cardinality(Peers)
<1>1. Cardinality({}) = 0
  BY FS_EmptySet
<1> QED
  BY <1>1, CountType

LEMMA DraftInit == Init => TypeOK /\ Programs
<1> SUFFICES ASSUME Init PROVE TypeOK /\ Programs
  OBVIOUS
<1>1. <<>> \in Seq(Ops) /\ Ordered(<<>>)
  BY DEF Ordered
<1> QED
  BY <1>1, NoPeers DEF Init, TypeOK, Programs, Kinds, Program

\* The statement that was run is taken off, or the request is over.
LEMMA TodoStep ==
  ASSUME TypeOK, Programs, NEW r \in Requests, Active(r), Advance(r) \/ Abort(r)
  PROVE  /\ todo' \in [Requests -> Seq(Ops)]
         /\ \A q \in Requests : Ordered(todo'[q])
         /\ \A q \in Requests : todo[q] = <<>> => todo'[q] = <<>>
         /\ \A q \in Requests \ {r} : todo'[q] = todo[q]
         /\ Abort(r) => ~Active(r)'
         /\ At(r, "select")'  => At(r, "check") /\ Advance(r)
         /\ At(r, "delete")'  => At(r, "select")
         /\ At(r, "count")'   => At(r, "delete")
         /\ At(r, "refresh")' => At(r, "count")
         /\ At(r, "groups")'  => At(r, "refresh")
         /\ At(r, "total")'   => At(r, "groups") /\ Advance(r)
         /\ At(r, "submit")'  => At(r, "total")
         /\ At(r, "delete") /\ Advance(r) => At(r, "count")'
         /\ At(r, "count") /\ Advance(r) => At(r, "refresh")'
<1> DEFINE s == todo[r]
<1>1. s \in Seq(Ops) /\ s # <<>> /\ Ordered(s)
  BY DEF TypeOK, Programs, Active
<1>2. <<>> \in Seq(Ops) /\ Ordered(<<>>)
  BY DEF Ordered
<1>3. Tail(s) \in Seq(Ops) /\ Ordered(Tail(s))
  BY <1>1, TailOrdered
<1>4. \/ Advance(r) /\ todo' = [todo EXCEPT ![r] = Tail(s)]
      \/ Abort(r) /\ todo' = [todo EXCEPT ![r] = <<>>]
  BY DEF Advance, Abort
<1>5. /\ todo' \in [Requests -> Seq(Ops)]
      /\ \A q \in Requests \ {r} : todo'[q] = todo[q]
      /\ \/ Advance(r) /\ todo'[r] = Tail(s)
         \/ Abort(r) /\ todo'[r] = <<>>
  BY <1>2, <1>3, <1>4 DEF TypeOK
<1>6. \A q \in Requests : Ordered(todo'[q])
  BY <1>2, <1>3, <1>5 DEF Programs
<1>7. Abort(r) => todo'[r] = <<>>
  BY DEF Abort, TypeOK
<1>8. Advance(r) => todo'[r] = Tail(s)
  BY DEF Advance, TypeOK
<1> HIDE DEF s
<1>9. \A op : At(r, op) <=> Head(s) = op
  BY <1>1 DEF At, Active, s
<1>10. \A op : At(r, op)' => Tail(s) # <<>> /\ Head(Tail(s)) = op /\ Advance(r)
  BY <1>5 DEF At, Active
<1>11. Advance(r) => \A op : At(r, op)' <=> Tail(s) # <<>> /\ Head(Tail(s)) = op
  BY <1>8 DEF At, Active
<1>12. /\ At(r, "select")'  => At(r, "check") /\ Advance(r)
       /\ At(r, "delete")'  => At(r, "select")
       /\ At(r, "count")'   => At(r, "delete")
       /\ At(r, "refresh")' => At(r, "count")
  BY <1>1, <1>9, <1>10, TailOrdered
<1>13. /\ At(r, "groups")'  => At(r, "refresh")
       /\ At(r, "total")'   => At(r, "groups") /\ Advance(r)
       /\ At(r, "submit")'  => At(r, "total")
  BY <1>1, <1>9, <1>10, TailOrdered
<1>14. /\ At(r, "delete") /\ Advance(r) => At(r, "count")'
       /\ At(r, "count") /\ Advance(r) => At(r, "refresh")'
  BY <1>1, <1>9, <1>11, TailOrdered
<1> QED
  BY <1>1, <1>5, <1>6, <1>7, <1>12, <1>13, <1>14 DEF Active, s

\* Every statement of a request takes it one statement on, or ends it.
LEMMA StatementStep ==
  ASSUME NEW r \in Requests, Statement(r)
  PROVE  /\ Active(r) /\ (Advance(r) \/ Abort(r))
         /\ UNCHANGED <<kind, named>>
BY DEF Statement, CreateTask, AddTargets, GenerateTargets, AddGroupTargets, AddRows,
       CheckDraft, SelectVictims, DeleteVictims, CountRows, RefreshCount, CheckTotal,
       SubmitTask, CancelTask, At

LEMMA StatementType ==
  ASSUME TypeOK, NEW r \in Requests, Statement(r)
  PROVE  /\ status' \in {"none", "draft", "submitted", "cancelled"}
         /\ rows' \subseteq Peers
         /\ targetCount' \in 0..Cardinality(Peers)
         /\ victims' \in [Requests -> SUBSET Peers]
         /\ counted' \in [Requests -> 0..Cardinality(Peers)]
         /\ submitter' \in Kinds \cup {"none"}
<1>1. CASE CreateTask(r) \/ CheckDraft(r) \/ CheckTotal(r) \/ CancelTask(r)
  BY <1>1 DEF TypeOK, CreateTask, CheckDraft, CheckTotal, CancelTask, taskVars
<1>2. CASE SubmitTask(r)
  BY <1>2 DEF TypeOK, SubmitTask
<1>3. ASSUME NEW op, NEW peers \in SUBSET Peers, AddRows(r, op, peers)
      PROVE  /\ rows' \subseteq Peers /\ targetCount' \in 0..Cardinality(Peers)
             /\ UNCHANGED <<status, submitter, victims, counted>>
  <2>1. rows' \subseteq Peers
    BY <1>3 DEF AddRows, TypeOK
  <2> QED
    BY <1>3, <2>1, CountType DEF AddRows, TypeOK
<1>4. CASE AddTargets(r) \/ GenerateTargets(r) \/ AddGroupTargets(r)
  BY <1>3, <1>4 DEF AddTargets, GenerateTargets, AddGroupTargets, Peers, TypeOK
<1>5. CASE SelectVictims(r) \/ DeleteVictims(r)
  BY <1>5 DEF TypeOK, SelectVictims, DeleteVictims, taskVars
<1>6. CASE CountRows(r)
  <2>1. Cardinality(rows) \in 0..Cardinality(Peers)
    BY CountType DEF TypeOK
  <2> QED
    BY <1>6, <2>1, NoPeers DEF TypeOK, CountRows, taskVars
<1>7. CASE RefreshCount(r)
  BY <1>7, NoPeers DEF TypeOK, RefreshCount
<1> QED
  BY <1>1, <1>2, <1>4, <1>5, <1>6, <1>7 DEF Statement

LEMMA DraftNext == TypeOK /\ Programs /\ [Next]_vars => TypeOK' /\ Programs'
<1> SUFFICES ASSUME TypeOK, Programs, [Next]_vars
             PROVE  TypeOK' /\ Programs'
  OBVIOUS
<1>1. ASSUME NEW r \in Requests, Begin(r)
      PROVE  TypeOK' /\ Programs'
  <2>0. PICK c \in Kinds : \E peers \in Removable(c) :
          /\ kind'  = [kind EXCEPT ![r] = c]
          /\ todo'  = [todo EXCEPT ![r] = Program[c]]
          /\ named' = [named EXCEPT ![r] = peers]
    BY <1>1 DEF Begin
  <2>1. PICK peers \in Removable(c) :
          /\ kind'  = [kind EXCEPT ![r] = c]
          /\ todo'  = [todo EXCEPT ![r] = Program[c]]
          /\ named' = [named EXCEPT ![r] = peers]
    BY <2>0
  <2>2. /\ peers \subseteq Peers
        /\ c = "clear" => peers = Peers
        /\ c = "batch" => peers = Excluded
    BY DraftAssumption DEF Removable, Peers
  <2>3. Program[c] \in Seq(Ops) /\ Ordered(Program[c]) /\ c # "none"
    BY ProgramOrdered, KindNames
  <2>4. UNCHANGED <<status, rows, targetCount, submitter, victims, counted, torn>>
        /\ overlap' \in BOOLEAN
    BY <1>1 DEF Begin, taskVars, TypeOK
  <2>5. TypeOK'
    BY <2>1, <2>2, <2>3, <2>4 DEF TypeOK
  <2> QED
    BY <2>1, <2>2, <2>3, <2>5 DEF TypeOK, Programs
<1>2. ASSUME NEW r \in Requests, Step(r)
      PROVE  TypeOK' /\ Programs'
  <2>1. /\ Active(r) /\ (Advance(r) \/ Abort(r)) /\ kind' = kind /\ named' = named
    BY <1>2, StatementStep DEF Step
  <2>2. /\ todo' \in [Requests -> Seq(Ops)] /\ \A q \in Requests : Ordered(todo'[q])
        /\ \A q \in Requests : todo[q] = <<>> => todo'[q] = <<>>
    BY <2>1, TodoStep
  <2>3. torn' \in BOOLEAN /\ overlap' = overlap
    BY <1>2 DEF Step, TypeOK
  <2>4. TypeOK'
    BY <1>2, <2>1, <2>2, <2>3, StatementType DEF Step, TypeOK
  <2> QED
    BY <2>1, <2>2, <2>4 DEF Programs
<1>3. ASSUME NEW r \in Requests, Fail(r)
      PROVE  TypeOK' /\ Programs'
  <2>1. /\ todo' \in [Requests -> Seq(Ops)] /\ \A q \in Requests : Ordered(todo'[q])
        /\ \A q \in Requests : todo[q] = <<>> => todo'[q] = <<>>
    BY <1>3, TodoStep DEF Fail
  <2>2. /\ victims' = [victims EXCEPT ![r] = {}] /\ torn' \in BOOLEAN
        /\ UNCHANGED <<status, rows, targetCount, submitter, kind, named, counted, overlap>>
    BY <1>3 DEF Fail, taskVars, TypeOK
  <2>3. TypeOK'
    BY <2>1, <2>2, NoPeers DEF TypeOK
  <2> QED
    BY <2>1, <2>2, <2>3 DEF Programs
<1>4. CASE UNCHANGED vars
  BY <1>4 DEF vars, taskVars, requestVars, ghostVars, TypeOK, Programs
<1> QED
  BY <1>1, <1>2, <1>3, <1>4 DEF Next

\* Every reachable state of a draft is well typed; in particular the stored
\* count never leaves the range of the possible numbers of targets.
THEOREM DraftTypes == Spec => []TypeOK
<1>1. TypeOK /\ Programs /\ [Next]_vars => (TypeOK /\ Programs)'
  BY DraftNext
<1> QED
  BY <1>1, DraftInit, PTL DEF Spec

-----------------------------------------------------------------------------
(* The count is wrong only through a removal                               *)

Exact == targetCount = Cardinality(rows)

\* Why: as long as nothing was torn, the rows a removal has selected are still
\* those it deletes, and the count it has read is still the count it writes.
CountInv ==
  ~torn =>
    /\ (\A r \in Requests : ~Removing(r)) => Exact
    /\ status # "draft" =>
         Exact /\ \A r \in Requests : At(r, "delete") => victims[r] = {}
    /\ status = "draft" => \A r \in Requests :
         /\ At(r, "delete") => victims[r] = rows \cap named[r]
         /\ At(r, "count") /\ kind[r] = "clear" => rows = {}
         /\ At(r, "refresh") => counted[r] = Cardinality(rows)

\* A step of one request leaves where the others stand.
LEMMA OthersStay ==
  ASSUME NEW q \in Requests, todo'[q] = todo[q]
  PROVE  /\ \A op : At(q, op)' <=> At(q, op)
         /\ Removing(q)' <=> Removing(q)
BY DEF At, Active, Removing

\* A step of a request that removes nothing and writes neither rows nor count.
LEMMA QuietStep ==
  ASSUME TypeOK, CountInv, NEW r \in Requests,
         rows' = rows, targetCount' = targetCount,
         \A q \in Requests \ {r} :
           /\ todo'[q] = todo[q] /\ kind'[q] = kind[q] /\ named'[q] = named[q]
           /\ victims'[q] = victims[q] /\ counted'[q] = counted[q],
         torn => torn',
         Removing(r) => torn',
         ~Removing(r)',
         status' # status => torn' \/ \A q \in Requests \ {r} : ~Removing(q)
  PROVE  CountInv'
<1> SUFFICES ASSUME ~torn'
             PROVE  /\ (\A q \in Requests : ~Removing(q)') => Exact'
                    /\ status' # "draft" =>
                         Exact' /\ \A q \in Requests : At(q, "delete")' => victims'[q] = {}
                    /\ status' = "draft" => \A q \in Requests :
                         /\ At(q, "delete")' => victims'[q] = rows' \cap named'[q]
                         /\ At(q, "count")' /\ kind'[q] = "clear" => rows' = {}
                         /\ At(q, "refresh")' => counted'[q] = Cardinality(rows')
  BY DEF CountInv
<1>1. \A q \in Requests \ {r} : /\ \A op : At(q, op)' <=> At(q, op)
                                /\ Removing(q)' <=> Removing(q)
  BY OthersStay
<1>2. ~Removing(r) /\ ~torn /\ Exact' = Exact
  BY DEF Exact
<1>3. ~At(r, "delete")' /\ ~At(r, "count")' /\ ~At(r, "refresh")'
  BY DEF Removing
<1>4. (\A q \in Requests : ~Removing(q)') => Exact'
  BY <1>1, <1>2 DEF CountInv
<1>5. CASE status' = status
  BY <1>1, <1>2, <1>3, <1>4, <1>5 DEF CountInv
<1>6. CASE status' # status
  <2>1. \A q \in Requests : ~Removing(q)'
    BY <1>1, <1>6
  <2>2. \A q \in Requests : ~At(q, "delete")' /\ ~At(q, "count")' /\ ~At(q, "refresh")'
    BY <2>1 DEF Removing
  <2> QED
    BY <1>4, <2>1, <2>2
<1> QED
  BY <1>5, <1>6

\* The ghost variable: no other removal was under way if the task changed.
LEMMA Untorn ==
  ASSUME NEW r \in Requests, Step(r), ~torn'
  PROVE  /\ ~torn
         /\ <<status, rows, targetCount>>' # <<status, rows, targetCount>> =>
              \A q \in Requests \ {r} : ~Removing(q)
BY DEF Step

\* Additions count all the rows they find.
LEMMA AddCounts ==
  ASSUME TypeOK, Programs, CountInv, NEW r \in Requests, Step(r),
         NEW op \in {"add", "generate", "groups"}, NEW peers, AddRows(r, op, peers)
  PROVE  CountInv'
<1>1. /\ Active(r) /\ (Advance(r) \/ Abort(r)) /\ At(r, op)
      /\ UNCHANGED <<status, kind, named, victims, counted>>
  BY DEF AddRows, At
<1>2. ~Removing(r) /\ ~Removing(r)'
  BY <1>1, TodoStep DEF Removing, At
<1>3. \A q \in Requests \ {r} : todo'[q] = todo[q]
  BY <1>1, TodoStep
<1>4. CASE rows' = rows /\ targetCount' = targetCount
  BY <1>1, <1>2, <1>3, <1>4, Untorn, QuietStep
<1>5. CASE ~(rows' = rows /\ targetCount' = targetCount)
  <2> SUFFICES ASSUME ~torn' PROVE CountInv'
    BY DEF CountInv
  <2>1. \A q \in Requests \ {r} : ~Removing(q)'
    BY <1>3, <1>5, Untorn, OthersStay
  <2>2. \A q \in Requests : ~At(q, "delete")' /\ ~At(q, "count")' /\ ~At(q, "refresh")'
    BY <1>2, <2>1 DEF Removing
  <2>3. Exact'
    BY <1>5 DEF AddRows, Exact
  <2> QED
    BY <2>2, <2>3 DEF CountInv
<1> QED
  BY <1>4, <1>5

\* The DELETE: of a draft it takes what it selected, of another task nothing.
LEMMA DeleteCounts ==
  ASSUME TypeOK, Programs, CountInv, NEW r \in Requests, Step(r), DeleteVictims(r)
  PROVE  CountInv'
<1> SUFFICES ASSUME ~torn' PROVE CountInv'
  BY DEF CountInv
<1>1. /\ At(r, "delete") /\ Active(r) /\ Advance(r) /\ ~torn
      /\ rows' = rows \ victims[r]
      /\ victims' = [q \in Requests |-> victims[q] \ victims[r]]
      /\ UNCHANGED <<status, targetCount, kind, named, counted>>
  BY Untorn DEF DeleteVictims, At
<1>2. /\ At(r, "count")' /\ ~At(r, "delete")' /\ ~At(r, "refresh")' /\ Removing(r)'
      /\ \A q \in Requests \ {r} : todo'[q] = todo[q]
  BY <1>1, TodoStep DEF At, Removing
<1>3. \A q \in Requests \ {r} : /\ \A op : At(q, op)' <=> At(q, op)
                                /\ Removing(q)' <=> Removing(q)
  BY <1>2, OthersStay
<1>4. CASE status # "draft"
  <2>1. victims[r] = {} /\ Exact
    BY <1>1, <1>4 DEF CountInv
  <2>2. rows' = rows /\ Exact' /\ \A q \in Requests : victims'[q] = victims[q]
    BY <1>1, <2>1 DEF Exact
  <2> QED
    BY <1>1, <1>2, <1>3, <1>4, <2>2 DEF CountInv
<1>5. CASE status = "draft"
  <2>1. victims[r] = rows \cap named[r] /\ rows \subseteq Peers
    BY <1>1, <1>5 DEF CountInv, TypeOK
  <2>2. kind'[r] = "clear" => rows' = {}
    BY <1>1, <2>1 DEF Programs
  <2>3. ASSUME NEW q \in Requests \ {r}
        PROVE  /\ At(q, "delete")' => victims'[q] = rows' \cap named'[q]
               /\ At(q, "count")' /\ kind'[q] = "clear" => rows' = {}
               /\ At(q, "refresh")' => counted'[q] = Cardinality(rows')
    <3>1. CASE rows' # rows
      <4>1. ~Removing(q)
        BY <3>1, Untorn
      <4> QED
        BY <1>3, <4>1 DEF Removing
    <3>2. CASE rows' = rows
      <4>1. victims[r] \cap rows = {}
        BY <1>1, <3>2
      <4>2. At(q, "delete") => victims[q] = rows \cap named[q]
        BY <1>1, <1>5 DEF CountInv
      <4>3. At(q, "delete") => victims'[q] = victims[q]
        BY <1>1, <4>1, <4>2
      <4> QED
        BY <1>1, <1>3, <1>5, <3>2, <4>2, <4>3 DEF CountInv
    <3> QED
      BY <3>1, <3>2
  <2> QED
    BY <1>1, <1>2, <1>5, <2>2, <2>3 DEF CountInv
<1> QED
  BY <1>4, <1>5

\* The snapshots of a removal are true when they are taken.
LEMMA SnapshotCounts ==
  ASSUME TypeOK, Programs, CountInv, NEW r \in Requests, Step(r),
         SelectVictims(r) \/ CountRows(r)
  PROVE  CountInv'
<1> SUFFICES ASSUME ~torn' PROVE CountInv'
  BY DEF CountInv
<1>1. /\ Active(r) /\ Advance(r) /\ ~torn
      /\ UNCHANGED <<status, rows, targetCount, kind, named>>
      /\ \A q \in Requests \ {r} : victims'[q] = victims[q] /\ counted'[q] = counted[q]
  BY Untorn DEF SelectVictims, CountRows, At, taskVars, TypeOK
<1>2. \A q \in Requests \ {r} : todo'[q] = todo[q]
  BY <1>1, TodoStep
<1>3. \A q \in Requests \ {r} : /\ \A op : At(q, op)' <=> At(q, op)
                                /\ Removing(q)' <=> Removing(q)
  BY <1>2, OthersStay
<1>4. (\A q \in Requests : ~Removing(q)') => Exact' /\ (status # "draft" => Exact')
  <2>1. status # "draft" => Exact'
    BY <1>1 DEF CountInv, Exact
  <2>2. CASE SelectVictims(r)
    <3>1. ~Removing(r)
      BY <2>2 DEF SelectVictims, Removing, At
    <3> QED
      BY <1>1, <1>3, <2>1, <3>1 DEF CountInv, Exact
  <2>3. CASE CountRows(r)
    <3>1. Removing(r)'
      BY <1>1, <2>3, TodoStep DEF CountRows, Removing
    <3> QED
      BY <3>1
  <2> QED
    BY <2>2, <2>3
<1>5. CASE SelectVictims(r)
  <2>1. /\ ~At(r, "count")' /\ ~At(r, "refresh")'
        /\ victims'[r] = IF status = "draft" THEN rows \cap named[r] ELSE {}
    BY <1>1, <1>5, TodoStep DEF SelectVictims, At, TypeOK
  <2> QED
    BY <1>1, <1>3, <1>4, <2>1 DEF CountInv, Exact
<1>6. CASE CountRows(r)
  <2>1. /\ At(r, "count") /\ ~At(r, "delete")' /\ ~At(r, "count")'
        /\ counted'[r] = IF kind[r] = "clear" THEN 0 ELSE Cardinality(rows)
    BY <1>1, <1>6, TodoStep DEF CountRows, At, TypeOK
  <2>2. status = "draft" => counted'[r] = Cardinality(rows)
    BY <1>1, <2>1, NoPeers DEF CountInv
  <2> QED
    BY <1>1, <1>3, <1>4, <2>1, <2>2 DEF CountInv, Exact
<1> QED
  BY <1>5, <1>6

\* The UPDATE writes the count of the rows as they still are.
LEMMA RefreshCounts ==
  ASSUME TypeOK, Programs, CountInv, NEW r \in Requests, Step(r), RefreshCount(r)
  PROVE  CountInv'
<1> SUFFICES ASSUME ~torn' PROVE CountInv'
  BY DEF CountInv
<1>1. /\ At(r, "refresh") /\ Active(r) /\ Advance(r) /\ ~torn
      /\ targetCount' = IF status = "draft" THEN counted[r] ELSE targetCount
      /\ UNCHANGED <<status, rows, kind, named, victims>>
      /\ \A q \in Requests \ {r} : counted'[q] = counted[q]
  BY Untorn DEF RefreshCount, At, TypeOK
<1>2. /\ ~At(r, "delete")' /\ ~At(r, "count")' /\ ~At(r, "refresh")'
      /\ \A q \in Requests \ {r} : todo'[q] = todo[q]
  BY <1>1, TodoStep DEF At
<1>3. \A q \in Requests \ {r} : /\ \A op : At(q, op)' <=> At(q, op)
                                /\ Removing(q)' <=> Removing(q)
  BY <1>2, OthersStay
<1>4. Exact'
  BY <1>1 DEF CountInv, Exact
<1> QED
  BY <1>1, <1>2, <1>3, <1>4 DEF CountInv

LEMMA CountNext == TypeOK /\ Programs /\ CountInv /\ [Next]_vars => CountInv'
<1> SUFFICES ASSUME TypeOK, Programs, CountInv, [Next]_vars
             PROVE  CountInv'
  OBVIOUS
<1>1. ASSUME NEW r \in Requests, Begin(r)
      PROVE  CountInv'
  <2>1. PICK c \in Kinds : \E peers \in Removable(c) :
          /\ kind'  = [kind EXCEPT ![r] = c]
          /\ todo'  = [todo EXCEPT ![r] = Program[c]]
          /\ named' = [named EXCEPT ![r] = peers]
    BY <1>1 DEF Begin
  <2>2. /\ kind[r] = "none"
        /\ UNCHANGED <<status, rows, targetCount, submitter, victims, counted, torn>>
    BY <1>1 DEF Begin, taskVars
  <2>3. ~Removing(r)
    BY <2>2 DEF Programs, Removing, At, Active
  <2>4. ~Removing(r)'
    <3>1. todo'[r] = Program[c]
      BY <2>1 DEF TypeOK
    <3> QED
      BY <3>1, ProgramOrdered DEF Removing, At
  <2>5. \A q \in Requests \ {r} :
          todo'[q] = todo[q] /\ kind'[q] = kind[q] /\ named'[q] = named[q]
    BY <2>1 DEF TypeOK
  <2> QED
    BY <2>2, <2>3, <2>4, <2>5, QuietStep
<1>2. ASSUME NEW r \in Requests, Fail(r)
      PROVE  CountInv'
  <2>1. /\ Active(r) /\ Abort(r) /\ torn' = (torn \/ Removing(r))
        /\ victims' = [victims EXCEPT ![r] = {}]
        /\ UNCHANGED <<status, rows, targetCount, submitter, kind, named, counted>>
    BY <1>2 DEF Fail, taskVars
  <2>2. ~Removing(r)' /\ \A q \in Requests \ {r} : todo'[q] = todo[q]
    BY <2>1, TodoStep DEF Removing, At
  <2>3. \A q \in Requests \ {r} : victims'[q] = victims[q]
    BY <2>1 DEF TypeOK
  <2> QED
    BY <2>1, <2>2, <2>3, QuietStep
<1>3. ASSUME NEW r \in Requests, Step(r),
             \/ CreateTask(r) \/ CheckDraft(r) \/ CheckTotal(r)
             \/ SubmitTask(r) \/ CancelTask(r)
      PROVE  CountInv'
  <2>1. PICK op \in {"create", "check", "total", "submit", "cancel"} : At(r, op)
    BY <1>3 DEF CreateTask, CheckDraft, CheckTotal, SubmitTask, CancelTask
  <2>2. /\ Active(r) /\ (Advance(r) \/ Abort(r))
        /\ UNCHANGED <<rows, targetCount, kind, named, victims, counted>>
    BY <1>3 DEF CreateTask, CheckDraft, CheckTotal, SubmitTask, CancelTask, At, taskVars
  <2>3. /\ ~Removing(r) /\ ~Removing(r)'
        /\ \A q \in Requests \ {r} : todo'[q] = todo[q]
    BY <2>1, <2>2, TodoStep DEF Removing, At
  <2>4. /\ torn => torn'
        /\ status' # status => torn' \/ \A q \in Requests \ {r} : ~Removing(q)
    BY <1>3 DEF Step
  <2> QED
    BY <2>2, <2>3, <2>4, QuietStep
<1>4. ASSUME NEW r \in Requests, Step(r),
             AddTargets(r) \/ GenerateTargets(r) \/ AddGroupTargets(r)
      PROVE  CountInv'
  BY <1>4, AddCounts DEF AddTargets, GenerateTargets, AddGroupTargets
<1>5. CASE UNCHANGED vars
  <2>1. \A r \in Requests : /\ \A op : At(r, op)' <=> At(r, op)
                            /\ Removing(r)' <=> Removing(r)
    BY <1>5, OthersStay DEF vars, requestVars
  <2> QED
    BY <1>5, <2>1 DEF vars, taskVars, requestVars, ghostVars, CountInv, Exact
<1> QED
  BY <1>1, <1>2, <1>3, <1>4, <1>5, SnapshotCounts, DeleteCounts, RefreshCounts
     DEF Next, Step, Statement

\* The stored count of a task is the number of its rows for any number of
\* requests side by side, unless a removal is under way, broke off between its
\* statements or met another request's write between them.
THEOREM CountIsExact == Spec => []CountWrongOnlyByRemoval
<1> DEFINE Inv == TypeOK /\ Programs /\ CountInv
<1>1. Init => Inv
  <2> SUFFICES ASSUME Init PROVE CountInv
    BY DraftInit
  <2>1. Exact
    BY NoPeers DEF Init, Exact
  <2>2. \A r \in Requests : ~Active(r) /\ status # "draft"
    BY DEF Init, Active
  <2>3. \A r \in Requests : ~At(r, "delete")
    BY <2>2 DEF At
  <2>4. status # "draft"
    BY DEF Init
  <2> QED
    BY <2>1, <2>3, <2>4 DEF CountInv
<1>2. Inv /\ [Next]_vars => Inv'
  BY DraftNext, CountNext
<1>3. Inv => CountWrongOnlyByRemoval
  BY DEF CountInv, CountWrongOnlyByRemoval, Exact
<1> QED
  BY <1>1, <1>2, <1>3, PTL DEF Spec

-----------------------------------------------------------------------------
(* A batch leaves out the excluded peers                                   *)

Clean == rows \cap Excluded = {}

\* Why: a batch that is alone selects all excluded rows of a draft, and adds
\* only groups once they are deleted.
ExclusionInv ==
  ~overlap =>
    /\ \A q, r \in Requests : Active(q) /\ Active(r) => q = r
    /\ \A r \in Requests : kind[r] = "batch" =>
         /\ At(r, "select") \/ At(r, "delete") => status = "draft"
         /\ At(r, "delete") => victims[r] = rows \cap Excluded
         /\ (\E op \in {"count", "refresh", "groups", "total", "submit"} : At(r, op))
              => Clean
    /\ submitter = "batch" => status \notin {"none", "draft"} /\ Clean

\* A statement of the one request that is under way.
LEMMA ExclusionStatement ==
  ASSUME TypeOK, Programs, ExclusionInv, NEW r \in Requests, Step(r)
  PROVE  ExclusionInv'
<1> SUFFICES ASSUME ~overlap' PROVE ExclusionInv'
  BY DEF ExclusionInv
<1> USE DEF Clean
<1>1. /\ Statement(r) /\ ~overlap /\ Active(r) /\ (Advance(r) \/ Abort(r))
      /\ kind' = kind /\ named' = named
  BY StatementStep DEF Step
<1>2. \A q \in Requests \ {r} : ~Active(q) /\ ~Active(q)'
  <2>1. \A q \in Requests \ {r} : ~Active(q)
    BY <1>1 DEF ExclusionInv
  <2> QED
    BY <1>1, <2>1, TodoStep DEF Active
<1>3. \A q \in Requests \ {r} : \A op : ~At(q, op)'
  BY <1>2 DEF At
<1>4. SUFFICES /\ kind[r] = "batch" =>
                    /\ At(r, "select")' \/ At(r, "delete")' => status' = "draft"
                    /\ At(r, "delete")' => victims'[r] = rows' \cap Excluded
                    /\ (\E op \in {"count", "refresh", "groups", "total", "submit"} : At(r, op)')
                         => Clean'
               /\ submitter' = "batch" => status' \notin {"none", "draft"} /\ Clean'
  BY <1>1, <1>2, <1>3 DEF ExclusionInv
<1> DEFINE Late == {"count", "refresh", "groups", "total", "submit"}
<1>5. /\ At(r, "select")' => At(r, "check") /\ Advance(r)
      /\ At(r, "delete")' => At(r, "select")
      /\ \A op \in Late : At(r, op)' => \/ At(r, "delete")
                                        \/ \E before \in Late : At(r, before)
  BY <1>1, TodoStep
<1>6. /\ kind[r] = "batch" =>
           /\ At(r, "select") \/ At(r, "delete") => status = "draft"
           /\ At(r, "delete") => victims[r] = rows \cap Excluded
           /\ (\E op \in Late : At(r, op)) => Clean
      /\ submitter = "batch" => status \notin {"none", "draft"} /\ Clean
  BY <1>1 DEF ExclusionInv
<1> HIDE DEF Late
<1>7. CASE CreateTask(r) \/ CancelTask(r)
  <2>1. PICK op \in {"create", "cancel"} : At(r, op)
    BY <1>7 DEF CreateTask, CancelTask
  <2>2. /\ ~At(r, "check") /\ ~At(r, "select") /\ ~At(r, "delete")
        /\ ~\E before \in {"count", "refresh", "groups", "total", "submit"} : At(r, before)
    BY <2>1 DEF At
  <2>3. /\ UNCHANGED <<rows, submitter>>
        /\ status \notin {"none", "draft"} => status' \notin {"none", "draft"}
    BY <1>7 DEF CreateTask, CancelTask
  <2> QED
    BY <1>5, <1>6, <2>2, <2>3 DEF Late
<1>8. CASE AddTargets(r) \/ GenerateTargets(r)
  <2>1. PICK op \in {"add", "generate"} : At(r, op)
    BY <1>8 DEF AddTargets, GenerateTargets, AddRows
  <2>2. /\ ~At(r, "check") /\ ~At(r, "select") /\ ~At(r, "delete")
        /\ ~\E before \in {"count", "refresh", "groups", "total", "submit"} : At(r, before)
    BY <2>1 DEF At
  <2>3. UNCHANGED <<status, submitter>> /\ (status # "draft" => rows' = rows)
    BY <1>8 DEF AddTargets, GenerateTargets, AddRows
  <2> QED
    BY <1>5, <1>6, <2>2, <2>3 DEF Late
<1>9. CASE AddGroupTargets(r)
  <2>1. At(r, "groups") /\ ~At(r, "check") /\ ~At(r, "select")
    BY <1>9 DEF AddGroupTargets, AddRows, At
  <2>2. /\ UNCHANGED <<status, submitter>> /\ (status # "draft" => rows' = rows)
        /\ rows' \subseteq rows \cup Groups
    BY <1>9 DEF AddGroupTargets, AddRows
  <2>3. Clean => Clean'
    BY <2>2, DraftAssumption
  <2>4. "groups" \in Late
    BY DEF Late
  <2> QED
    BY <1>5, <1>6, <2>1, <2>2, <2>3, <2>4
<1>10. CASE CheckDraft(r)
  <2>1. /\ ~At(r, "select") /\ ~At(r, "delete")
        /\ ~\E before \in {"count", "refresh", "groups", "total", "submit"} : At(r, before)
    BY <1>10 DEF CheckDraft, At
  <2>2. UNCHANGED <<status, rows, submitter>>
    BY <1>10 DEF CheckDraft, taskVars
  <2>3. status # "draft" => ~At(r, "select")'
    <3>1. status # "draft" => Abort(r)
      BY <1>10 DEF CheckDraft
    <3>2. Abort(r) => ~Active(r)'
      BY <1>1, TodoStep
    <3> QED
      BY <3>1, <3>2 DEF At
  <2> QED
    BY <1>5, <1>6, <2>1, <2>2, <2>3 DEF Late
<1>11. CASE SelectVictims(r)
  <2>1. /\ At(r, "select") /\ ~At(r, "check") /\ ~At(r, "delete")
        /\ ~\E before \in {"count", "refresh", "groups", "total", "submit"} : At(r, before)
    BY <1>11 DEF SelectVictims, At
  <2>2. UNCHANGED <<status, rows, submitter>>
    BY <1>11 DEF SelectVictims, taskVars
  <2>3. kind[r] = "batch" => victims'[r] = rows \cap Excluded
    BY <1>6, <1>11, <2>1 DEF SelectVictims, Programs, TypeOK
  <2> QED
    BY <1>5, <1>6, <2>1, <2>2, <2>3 DEF Late
<1>12. CASE DeleteVictims(r)
  <2>1. At(r, "delete") /\ ~At(r, "check") /\ ~At(r, "select")
    BY <1>12 DEF DeleteVictims, At
  <2>2. UNCHANGED <<status, submitter>> /\ rows' = rows \ victims[r]
    BY <1>12 DEF DeleteVictims
  <2>3. kind[r] = "batch" => Clean'
    BY <1>6, <2>1, <2>2
  <2> QED
    BY <1>5, <1>6, <2>1, <2>2, <2>3
<1>13. CASE CountRows(r) \/ RefreshCount(r) \/ CheckTotal(r)
  <2>1. PICK op \in {"count", "refresh", "total"} : At(r, op)
    BY <1>13 DEF CountRows, RefreshCount, CheckTotal
  <2>2. ~At(r, "check") /\ ~At(r, "select") /\ ~At(r, "delete")
    BY <2>1 DEF At
  <2>3. UNCHANGED <<status, rows, submitter>>
    BY <1>13 DEF CountRows, RefreshCount, CheckTotal, taskVars
  <2>4. ~At(r, "select")' /\ ~At(r, "delete")'
    BY <1>5, <2>2
  <2>5. kind[r] = "batch" /\ (\E after \in Late : At(r, after)') => Clean
    BY <1>5, <1>6, <2>2
  <2> QED
    BY <1>6, <2>3, <2>4, <2>5 DEF Late
<1>14. CASE SubmitTask(r)
  <2>1. At(r, "submit") /\ ~At(r, "check") /\ ~At(r, "select") /\ ~At(r, "delete")
    BY <1>14 DEF SubmitTask, At
  <2>2. /\ rows' = rows
        /\ \/ status' = "submitted" /\ submitter' = kind[r]
           \/ UNCHANGED <<status, submitter>>
    BY <1>14 DEF SubmitTask
  <2>3. "submit" \in Late
    BY DEF Late
  <2>4. kind[r] = "batch" => Clean
    BY <1>6, <2>1, <2>3
  <2> QED
    BY <1>5, <1>6, <2>1, <2>2, <2>4
<1> QED
  BY <1>1, <1>7, <1>8, <1>9, <1>10, <1>11, <1>12, <1>13, <1>14 DEF Statement

LEMMA ExclusionNext == TypeOK /\ Programs /\ ExclusionInv /\ [Next]_vars => ExclusionInv'
<1> SUFFICES ASSUME TypeOK, Programs, ExclusionInv, [Next]_vars
             PROVE  ExclusionInv'
  OBVIOUS
<1>1. ASSUME NEW r \in Requests, Begin(r)
      PROVE  ExclusionInv'
  <2> SUFFICES ASSUME ~overlap' PROVE ExclusionInv'
    BY DEF ExclusionInv
  <2>1. PICK c \in Kinds : \E peers \in Removable(c) :
          /\ kind'  = [kind EXCEPT ![r] = c]
          /\ todo'  = [todo EXCEPT ![r] = Program[c]]
    BY <1>1 DEF Begin
  <2>2. /\ ~overlap /\ \A q \in Requests : ~Active(q)
        /\ UNCHANGED <<status, rows, submitter>>
    BY <1>1 DEF Begin, taskVars
  <2>3. kind'[r] = c /\ todo'[r] = Program[c] /\ \A q \in Requests \ {r} : ~Active(q)'
    BY <2>1, <2>2 DEF TypeOK, Active
  <2>4. kind'[r] = "batch" => \A op : At(r, op)' => op = "create"
    BY <2>3, ProgramOrdered DEF At
  <2>5. \A q \in Requests \ {r} : \A op : ~At(q, op)'
    BY <2>3 DEF At
  <2> QED
    BY <2>2, <2>3, <2>4, <2>5 DEF ExclusionInv, Clean
<1>2. ASSUME NEW r \in Requests, Fail(r)
      PROVE  ExclusionInv'
  <2>1. /\ Active(r) /\ Abort(r) /\ victims' = [victims EXCEPT ![r] = {}]
        /\ UNCHANGED <<status, rows, submitter, kind, overlap>>
    BY <1>2 DEF Fail, taskVars
  <2>2. ~Active(r)' /\ \A q \in Requests \ {r} : todo'[q] = todo[q]
    BY <2>1, TodoStep
  <2>3. /\ \A op : ~At(r, op)'
        /\ \A q \in Requests \ {r} : /\ \A op : At(q, op)' <=> At(q, op)
                                     /\ Active(q)' <=> Active(q)
                                     /\ victims'[q] = victims[q]
    BY <2>1, <2>2, OthersStay DEF At, Active, TypeOK
  <2> QED
    BY <2>1, <2>2, <2>3 DEF ExclusionInv, Clean
<1>3. CASE UNCHANGED vars
  <2>1. \A q \in Requests : /\ \A op : At(q, op)' <=> At(q, op)
                            /\ Active(q)' <=> Active(q)
    BY <1>3, OthersStay DEF vars, requestVars, Active
  <2> QED
    BY <1>3, <2>1 DEF vars, taskVars, requestVars, ghostVars, ExclusionInv, Clean
<1> QED
  BY <1>1, <1>2, <1>3, ExclusionStatement DEF Next

\* A task that CreateBatch submitted has no excluded peer among its targets,
\* however often the batch broke off and was sent again, unless requests for
\* the same task ran side by side.
THEOREM BatchExcludes == Spec => []ExclusionHolds
<1> DEFINE Inv == TypeOK /\ Programs /\ ExclusionInv
<1>1. Init => Inv
  <2> SUFFICES ASSUME Init PROVE ExclusionInv
    BY DraftInit
  <2>1. \A r \in Requests : ~Active(r)
    BY DEF Init, Active
  <2>2. \A r \in Requests : \A op : ~At(r, op)
    BY <2>1 DEF At
  <2>3. submitter # "batch"
    BY DEF Init
  <2> QED
    BY <2>1, <2>2, <2>3 DEF ExclusionInv
<1>2. Inv /\ [Next]_vars => Inv'
  BY DraftNext, ExclusionNext
<1>3. Inv => ExclusionHolds
  BY DEF ExclusionInv, ExclusionHolds, Clean
<1> QED
  BY <1>1, <1>2, <1>3, PTL DEF Spec
-----------------------------------------------------------------------------
(* The Kafka outbox                                                        *)

\* The lock column and the publisher's progress, read together: whoever holds
\* the row and got past Store has stored a message of this round.
StoredUnderLock ==
  \A k \in Tasks, p \in Publishers :
    row[k] = "processing" /\ lockedBy[k] = p /\ event[p][k] \in {"stored", "acked"}
      => told[k]

OutboxInv == OutboxTypeOK /\ LockedWhileProcessing /\ StoredUnderLock /\ PublishedIsTold

LEMMA OutboxStarts == OutboxInit => OutboxInv
BY OutboxAssumption
   DEF OutboxInit, OutboxInv, OutboxTypeOK, LockedWhileProcessing, StoredUnderLock,
       PublishedIsTold

\* A publisher's step on one row changes its progress with that row only.
LEMMA EventEffect ==
  ASSUME OutboxTypeOK, NEW p \in Publishers, NEW k \in Tasks,
         NEW next \in {"none", "claimed", "stored", "acked", "failed"},
         SetEvent(p, k, next)
  PROVE  /\ event' \in [Publishers ->
                          [Tasks -> {"none", "claimed", "stored", "acked", "failed"}]]
         /\ event'[p][k] = next
         /\ \A q \in Publishers, j \in Tasks :
              q # p \/ j # k => event'[q][j] = event[q][j]
<1> DEFINE E == {"none", "claimed", "stored", "acked", "failed"}
<1>1. event \in [Publishers -> [Tasks -> E]]
  BY DEF OutboxTypeOK
<1>2. event' = [event EXCEPT ![p] = [event[p] EXCEPT ![k] = next]]
  BY DEF SetEvent
<1>3. [event[p] EXCEPT ![k] = next] \in [Tasks -> E]
  BY <1>1
<1> QED
  BY <1>1, <1>2, <1>3

LEMMA OutboxKeeps == OutboxInv /\ [OutboxNext]_outboxVars => OutboxInv'
<1> SUFFICES ASSUME OutboxInv, [OutboxNext]_outboxVars
             PROVE  OutboxInv'
  OBVIOUS
<1> USE OutboxAssumption DEF rowVars
<1>1. ASSUME NEW k \in Tasks, Enqueue(k)
      PROVE  OutboxInv'
  BY <1>1 DEF Enqueue, OutboxInv, OutboxTypeOK, LockedWhileProcessing, StoredUnderLock,
              PublishedIsTold
<1>2. ASSUME NEW k \in Tasks, LockExpires(k)
      PROVE  OutboxInv'
  BY <1>2 DEF LockExpires, OutboxInv, OutboxTypeOK, LockedWhileProcessing, StoredUnderLock,
              PublishedIsTold
<1>3. ASSUME NEW p \in Publishers, Stop(p)
      PROVE  OutboxInv'
  <2>1. /\ event' = [event EXCEPT ![p] = [k \in Tasks |-> "none"]]
        /\ [k \in Tasks |-> "none"] \in
             [Tasks -> {"none", "claimed", "stored", "acked", "failed"}]
    BY <1>3 DEF Stop
  <2>2. OutboxTypeOK'
    BY <1>3, <2>1 DEF Stop, OutboxInv, OutboxTypeOK
  <2>3. \A q \in Publishers, k \in Tasks : event'[q][k] \in {"none", event[q][k]}
    BY <2>1 DEF OutboxInv, OutboxTypeOK
  <2> QED
    BY <1>3, <2>2, <2>3 DEF Stop, OutboxInv, LockedWhileProcessing, StoredUnderLock,
                            PublishedIsTold
<1>4. ASSUME NEW p \in Publishers, NEW batch \in SUBSET Tasks, Claim(p, batch)
      PROVE  OutboxInv'
  <2>1. PICK read \in {batch, {}} :
          event' = [event EXCEPT ![p] =
                      [k \in Tasks |-> IF k \in read THEN "claimed" ELSE "none"]]
    BY <1>4 DEF Claim, Claimable
  <2>2. [k \in Tasks |-> IF k \in read THEN "claimed" ELSE "none"]
          \in [Tasks -> {"none", "claimed", "stored", "acked", "failed"}]
    OBVIOUS
  <2>3. event' \in [Publishers -> [Tasks -> {"none", "claimed", "stored", "acked", "failed"}]]
    BY <2>1, <2>2 DEF OutboxInv, OutboxTypeOK
  <2>4. /\ \A k \in Tasks : event'[p][k] \in {"claimed", "none"}
        /\ \A q \in Publishers \ {p} : event'[q] = event[q]
    BY <2>1 DEF OutboxInv, OutboxTypeOK
  <2>5. /\ row'      = [k \in Tasks |-> IF k \in batch THEN "processing" ELSE row[k]]
        /\ lockedBy' = [k \in Tasks |-> IF k \in batch THEN p ELSE lockedBy[k]]
        /\ expired'  = [k \in Tasks |-> IF k \in batch THEN FALSE ELSE expired[k]]
        /\ stopped' = stopped /\ told' = told
    BY <1>4 DEF Claim, Claimable
  <2>6. OutboxTypeOK'
    BY <2>3, <2>5 DEF OutboxInv, OutboxTypeOK
  <2>7. LockedWhileProcessing' /\ PublishedIsTold'
    BY <2>5 DEF OutboxInv, LockedWhileProcessing, PublishedIsTold
  <2>8. StoredUnderLock'
    BY <2>4, <2>5 DEF OutboxInv, StoredUnderLock
  <2> QED
    BY <2>6, <2>7, <2>8 DEF OutboxInv
<1>5. ASSUME NEW p \in Publishers, NEW k \in Tasks, Store(p, k)
      PROVE  OutboxInv'
  <2>1. /\ SetEvent(p, k, "stored") /\ UNCHANGED <<row, lockedBy, expired, stopped>>
        /\ told' = [told EXCEPT ![k] = TRUE]
    BY <1>5 DEF Store
  <2> QED
    BY <2>1, EventEffect DEF OutboxInv, OutboxTypeOK, LockedWhileProcessing, StoredUnderLock,
                             PublishedIsTold
<1>6. ASSUME NEW p \in Publishers, NEW k \in Tasks,
             \/ Acknowledge(p, k) \/ PublishFails(p, k)
             \/ MarkPublishedFails(p, k) \/ MarkRetryFails(p, k)
      PROVE  OutboxInv'
  <2>1. PICK next \in {"none", "acked", "failed"} :
          /\ SetEvent(p, k, next)
          /\ next = "acked" => event[p][k] = "stored"
    BY <1>6 DEF Acknowledge, PublishFails, MarkPublishedFails, MarkRetryFails
  <2>2. UNCHANGED <<row, lockedBy, expired, stopped, told>>
    BY <1>6 DEF Acknowledge, PublishFails, MarkPublishedFails, MarkRetryFails
  <2>3. /\ event' \in [Publishers ->
                         [Tasks -> {"none", "claimed", "stored", "acked", "failed"}]]
        /\ event'[p][k] = next
        /\ \A q \in Publishers, j \in Tasks : q # p \/ j # k => event'[q][j] = event[q][j]
    BY <2>1, EventEffect DEF OutboxInv
  <2>4. OutboxTypeOK' /\ LockedWhileProcessing' /\ PublishedIsTold'
    BY <2>2, <2>3 DEF OutboxInv, OutboxTypeOK, LockedWhileProcessing, PublishedIsTold
  <2>5. StoredUnderLock'
    BY <2>1, <2>2, <2>3 DEF OutboxInv, StoredUnderLock
  <2> QED
    BY <2>4, <2>5 DEF OutboxInv
<1>7. ASSUME NEW p \in Publishers, NEW k \in Tasks,
             MarkPublished(p, k) \/ MarkRetry(p, k)
      PROVE  OutboxInv'
  <2>1. PICK mark \in {"published", "pending"} :
          /\ Release(p, k, mark)
          /\ mark = "published" => event[p][k] = "acked"
    BY <1>7 DEF MarkPublished, MarkRetry
  <2>2. SetEvent(p, k, "none") /\ stopped' = stopped /\ told' = told
    BY <1>7 DEF MarkPublished, MarkRetry
  <2>3. /\ event' \in [Publishers ->
                         [Tasks -> {"none", "claimed", "stored", "acked", "failed"}]]
        /\ \A q \in Publishers, j \in Tasks : event'[q][j] \in {"none", event[q][j]}
    BY <2>2, EventEffect DEF OutboxInv
  <2>4. /\ row' = [row EXCEPT ![k] = mark]
        /\ lockedBy' = [lockedBy EXCEPT ![k] = NoPublisher]
        /\ expired' = [expired EXCEPT ![k] = FALSE]
        /\ row[k] = "processing" /\ lockedBy[k] = p
    BY <2>1 DEF Release
  <2>5. OutboxTypeOK'
    BY <2>2, <2>3, <2>4 DEF OutboxInv, OutboxTypeOK
  <2>6. LockedWhileProcessing' /\ StoredUnderLock'
    BY <2>2, <2>3, <2>4 DEF OutboxInv, OutboxTypeOK, LockedWhileProcessing, StoredUnderLock
  <2>7. PublishedIsTold'
    BY <2>1, <2>2, <2>4 DEF OutboxInv, OutboxTypeOK, StoredUnderLock, PublishedIsTold
  <2> QED
    BY <2>5, <2>6, <2>7 DEF OutboxInv
<1>8. CASE UNCHANGED outboxVars
  BY <1>8 DEF outboxVars, OutboxInv, OutboxTypeOK, LockedWhileProcessing, StoredUnderLock,
              PublishedIsTold
<1> QED
  BY <1>1, <1>2, <1>3, <1>4, <1>5, <1>6, <1>7, <1>8 DEF OutboxNext, Publish, Mark

\* Every reachable state of the outbox is well typed: a row's lock names a
\* publisher or nobody, and a publisher stands at one step of its loop.
THEOREM OutboxTypes == OutboxSpec => []OutboxTypeOK
<1>1. OutboxInv => OutboxTypeOK
  BY DEF OutboxInv
<1> QED
  BY <1>1, OutboxStarts, OutboxKeeps, PTL DEF OutboxSpec

\* An outbox row is marked published only when the broker holds a message
\* stored after the row was last written, for any number of publishers.
THEOREM PublishedMeansTold == OutboxSpec => []PublishedIsTold
<1>1. OutboxInv => PublishedIsTold
  BY DEF OutboxInv
<1> QED
  BY <1>1, OutboxStarts, OutboxKeeps, PTL DEF OutboxSpec

\* The status and the lock column of a row never disagree.
THEOREM LockMatchesStatus == OutboxSpec => []LockedWhileProcessing
<1>1. OutboxInv => LockedWhileProcessing
  BY DEF OutboxInv
<1> QED
  BY <1>1, OutboxStarts, OutboxKeeps, PTL DEF OutboxSpec
=============================================================================
