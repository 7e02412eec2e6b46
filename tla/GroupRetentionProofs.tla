------------------------ MODULE GroupRetentionProofs ------------------------
(***************************************************************************)
(* Proofs about GroupRetention, for any number of days, workers, messages, *)
(* policies and attempts: the plan of a job is that of its last claim, the *)
(* bounds of plan, OpenIM and clients agree, the published one only grows, *)
(* and what is hidden was let go by the policy of a saved plan, or came    *)
(* with a summary of its snapshot.                                         *)
(***************************************************************************)
EXTENDS GroupRetention, FiniteSetTheorems, WellFoundedInduction, TLAPS

USE RetentionAssumption

-----------------------------------------------------------------------------
(* Minima and maxima of sets of numbers                                    *)

LEMMA MinOf ==
  ASSUME NEW S, S \subseteq Nat, NEW m \in S
  PROVE  Min(S) \in S /\ \A n \in S : Min(S) <= n
<1> DEFINE T      == S \cap (0..m)
           Low(n) == {k \in T : k <= n}
           I      == {Low(n) : n \in T}
<1>1. IsFiniteSet(T)
  BY FS_Interval, FS_Subset, m \in Int, 0 \in Int
<1>2. I \subseteq FiniteSubsetsOf(T)
  BY <1>1, FS_FiniteSubsetsOfFinite
<1>3. I # {}
  BY m \in T
<1>4. PICK x \in I : \A y \in I : <<y, x>> \notin StrictSubsetOrdering(T)
  <2> HIDE DEF I
  <2> QED
    BY <1>2, <1>3, FS_StrictSubsetOrderingWellFounded, WFMin, Zenon
<1>5. PICK n \in T : x = Low(n)
  OBVIOUS
<1>6. \A k \in T : n <= k
  <2> SUFFICES ASSUME NEW k \in T, k < n PROVE FALSE
    OBVIOUS
  <2>1. <<Low(k), Low(n)>> \notin StrictSubsetOrdering(T)
    BY <1>4, <1>5
  <2>2. Low(k) \subseteq Low(n) /\ n \in Low(n) /\ n \notin Low(k)
    OBVIOUS
  <2>3. Low(k) \in SUBSET T /\ Low(n) \in SUBSET T
    OBVIOUS
  <2> QED
    BY <2>1, <2>2, <2>3 DEF StrictSubsetOrdering
<1>7. \A k \in S : n <= k
  BY <1>6
<1> QED
  BY <1>7 DEF Min

LEMMA MaxOf ==
  ASSUME NEW top \in Nat, NEW S, S \subseteq 0..top, NEW m \in S
  PROVE  Max(S) \in S /\ \A n \in S : n <= Max(S)
<1> DEFINE R == {top - n : n \in S}
<1>1. R \subseteq Nat /\ top - m \in R
  OBVIOUS
<1>2. Min(R) \in R /\ \A n \in R : Min(R) <= n
  BY <1>1, MinOf
<1>3. PICK n \in S : Min(R) = top - n
  BY <1>2
<1>4. \A k \in S : k <= n
  <2> SUFFICES ASSUME NEW k \in S PROVE k <= n
    OBVIOUS
  <2>1. top - k \in R
    OBVIOUS
  <2>2. top - n <= top - k
    BY <1>2, <1>3, <2>1
  <2>3. k \in Nat /\ n \in Nat
    OBVIOUS
  <2> HIDE DEF R
  <2> QED
    BY <2>2, <2>3
<1>5. \A k \in S : n >= k
  BY <1>4
<1> QED
  BY <1>5 DEF Max

\* More messages above a lower number.
LEMMA MoreAbove ==
  ASSUME NEW S, IsFiniteSet(S), NEW T \in SUBSET S, NEW n
  PROVE  Above(T, n) \in Nat /\ Above(S, n) \in Nat /\ Above(T, n) <= Above(S, n)
<1>1. /\ {m \in T : n < m} \in SUBSET {m \in S : n < m}
      /\ {m \in S : n < m} \in SUBSET S
  OBVIOUS
<1>2. IsFiniteSet({m \in S : n < m})
  BY <1>1, FS_Subset
<1>3. IsFiniteSet({m \in T : n < m})
      /\ Cardinality({m \in T : n < m}) <= Cardinality({m \in S : n < m})
  BY <1>1, <1>2, FS_Subset
<1> QED
  BY <1>2, <1>3, FS_CardinalityType DEF Above

-----------------------------------------------------------------------------
(* Snapshots and plans                                                     *)

\* A plan ends above its last candidate and not beyond the snapshot.
LEMMA PlanBounds ==
  ASSUME NEW s, s.visible \subseteq Nat, s.mark \in Nat, NEW p
  PROVE  /\ MinVisible(s, p) \in {0, NonPrefix} \/ MinVisible(s, p) \in 0..s.mark + 1
         /\ \A n \in 1..MinVisible(s, p) - 1 :
              n \in 1..s.mark /\ n \notin Rows(s) \ Candidates(s, p)
         /\ Candidates(s, p) = {} /\ s.over = 0 => MinVisible(s, p) = 0
<1> DEFINE kept  == Rows(s) \ Candidates(s, p)
           bound == Min(kept \cup {s.mark + 1})
<1>1. kept \cup {s.mark + 1} \subseteq Nat /\ s.mark + 1 \in kept \cup {s.mark + 1}
  BY DEF Rows
<1>2. /\ bound \in kept \cup {s.mark + 1}
      /\ \A n \in kept \cup {s.mark + 1} : bound <= n
  BY <1>1, MinOf
<1>3. bound \in 0..s.mark + 1
  BY <1>1, <1>2
<1>4. MinVisible(s, p) \in {0, NonPrefix, bound}
  BY DEF MinVisible
<1>5. \A n \in 1..bound - 1 : n \in 1..s.mark /\ n \notin kept
  <2> SUFFICES ASSUME NEW n \in 1..bound - 1 PROVE n \in 1..s.mark /\ n \notin kept
    OBVIOUS
  <2> HIDE DEF bound, kept
  <2> QED
    BY <1>2, <1>3
<1> HIDE DEF bound
<1>6. \A n \in 1..MinVisible(s, p) - 1 : n \in 1..s.mark /\ n \notin kept
  BY <1>3, <1>4, <1>5 DEF NonPrefix
<1> QED
  BY <1>3, <1>4, <1>6 DEF MinVisible, NonPrefix

LEMMA Numbers ==
  ASSUME TypeOK
  PROVE  /\ MaxSeq \in Nat /\ maxSeq \in Nat /\ maxSeq <= MaxSeq
         /\ minSeq \in Nat /\ minSeq <= MaxSeq + 1
         /\ old \in [Windows -> SUBSET (1..maxSeq)] /\ Visible \in SUBSET (1..maxSeq)
<1>1. maxSeq \in 0..MaxSeq /\ minSeq \in 0..MaxSeq + 1 /\ MaxSeq \in Nat
  BY DEF TypeOK, Bounds
<1>2. written \subseteq 1..maxSeq /\ old \in [Windows -> SUBSET (1..maxSeq)]
  BY DEF TypeOK, Seqs
<1>3. Visible \subseteq written
  BY DEF Visible
<1> QED
  BY <1>1, <1>2, <1>3

\* What the bridge scans: it stops at a number there is.
LEMMA ScanStops ==
  ASSUME TypeOK, NEW p \in Policies
  PROVE  /\ Over(p) \in 0..maxSeq
         /\ Over(p) > 0 => Over(p) + 1 \in old[p.window]
<1>1. CASE Stops(p) = {}
  BY <1>1, Numbers DEF Over
<1>2. CASE Stops(p) # {}
  <2>1. Stops(p) \subseteq 1..maxSeq /\ Stops(p) \subseteq old[p.window]
    BY Numbers DEF Stops, Higher
  <2>2. Max(Stops(p)) \in Stops(p)
    <3>1. PICK m : m \in Stops(p)
      BY <1>2
    <3>2. maxSeq \in Nat /\ Stops(p) \subseteq 0..maxSeq
      BY <2>1, Numbers
    <3> QED
      BY <3>1, <3>2, MaxOf
  <2> QED
    BY <1>2, <2>1, <2>2, Numbers DEF Over
<1> QED
  BY <1>1, <1>2

LEMMA TakenType ==
  ASSUME TypeOK, NEW p \in Policies
  PROVE  /\ Taken(p) \in Snapshots
         /\ Taken(p).first = Higher(Higher(minSeq, 1), Over(p) + 1)
         /\ Taken(p).mark = maxSeq /\ Taken(p).over = Over(p)
         /\ Taken(p).visible = Visible /\ Taken(p).old = old /\ Taken(p).cut = p.window
<1> DEFINE s == [first |-> Higher(Higher(minSeq, 1), Over(p) + 1), mark |-> maxSeq,
                 over |-> Over(p), cut |-> p.window, visible |-> Visible,
                 old |-> old, receipt |-> 0]
<1>1. MinVisible(s, p) \in {0, NonPrefix} \/ MinVisible(s, p) \in 0..maxSeq + 1
  <2>1. s.visible \subseteq Nat /\ s.mark \in Nat /\ s.mark = maxSeq
    BY Numbers
  <2> HIDE DEF s
  <2> QED
    BY <2>1, PlanBounds
<1>2. Higher(MinVisible(s, p), 0) \in Bounds
  BY <1>1, Numbers DEF Higher, NonPrefix, Bounds
<1>3. Taken(p) = [s EXCEPT !.receipt = Higher(MinVisible(s, p), 0)]
  BY DEF Taken
<1>4. Higher(Higher(minSeq, 1), Over(p) + 1) \in Bounds
  BY ScanStops, Numbers DEF Higher, Bounds
<1>5. Over(p) \in 0..MaxSeq /\ maxSeq \in 0..MaxSeq
  BY ScanStops, Numbers
<1>6. Visible \in SUBSET Seqs /\ old \in [Windows -> SUBSET Seqs] /\ p.window \in Windows
  BY Numbers DEF Seqs, Policies
<1> QED
  BY <1>2, <1>3, <1>4, <1>5, <1>6 DEF Snapshots

-----------------------------------------------------------------------------
(* Typing                                                                  *)

\* Who holds a claim holds one of a day.
HoldsDay ==
  \A w \in Workers :
    at[w] \in {"snapshot", "save", "retry", "apply", "complete", "fail", "reject"}
      => mine[w].day \in DayOf

HistoryType ==
  /\ maxSeq \in 0..MaxSeq
  /\ written \subseteq Seqs /\ hidden \subseteq written
  /\ old \in [Windows -> SUBSET Seqs]
  /\ expendable \subseteq Seqs /\ summed \subseteq Seqs
  /\ snap \in [Workers -> Snapshots]

TableType ==
  /\ job \in [DayOf -> JobRows] /\ app \in [DayOf -> AppRows]
  /\ plan \in [DayOf -> [attempt : 0..MaxAttempts, receipt : Bounds,
                         bound : Bounds \cup {NonPrefix}]]
  /\ visibility \in [bound : Bounds, revision : Nat]
  /\ policy \in Policies /\ active \in BOOLEAN
  /\ minSeq \in Bounds
  /\ lapsed \subseteq DayOf /\ late \subseteq DayOf
  /\ at \in [Workers -> Places]
  /\ mine \in [Workers -> [day : 0..Days, attempt : 0..MaxAttempts]]

LEMMA TypeParts == TypeOK <=> HistoryType /\ TableType
BY DEF TypeOK, HistoryType, TableType

LEMMA HistoryStep == TypeOK /\ [Next]_vars => HistoryType'
<1> SUFFICES ASSUME TypeOK, [Next]_vars PROVE HistoryType'
  OBVIOUS
<1>1. HistoryType
  BY TypeParts
<1>2. NoSnapshot \in Snapshots
  BY DEF NoSnapshot, Snapshots, Bounds
<1> USE DEF HistoryType, ghosts
<1>3. CASE Send
  BY <1>1, <1>3 DEF Send, GroupOnly, worker, Seqs, Snapshots
<1>4. ASSUME NEW n \in 1..maxSeq, Store(n) \/ Hide(n) \/ \E v \in Windows : GrowOld(v, n)
      PROVE  HistoryType'
  <2>1. CASE Store(n) \/ Hide(n)
    BY <1>1, <2>1 DEF Store, Hide, GroupOnly, worker, Visible, Seqs, Snapshots
  <2>2. ASSUME NEW v \in Windows, GrowOld(v, n)
        PROVE  HistoryType'
    <3>1. old' \in [Windows -> SUBSET Seqs]
      BY <1>1, <2>2 DEF GrowOld, Seqs
    <3> QED
      BY <1>1, <2>2, <3>1 DEF GrowOld, GroupOnly, worker, Seqs, Snapshots
  <2> QED
    BY <1>4, <2>1, <2>2
<1>5. ASSUME UNCHANGED <<history, ghosts>>,
             \/ snap' = snap
             \/ \E w \in Workers : snap' = [snap EXCEPT ![w] = NoSnapshot]
      PROVE  HistoryType'
  BY <1>1, <1>2, <1>5 DEF history, Seqs, Snapshots
<1>6. ASSUME NEW w \in Workers, NEW p \in Policies, Snapshot(w, p)
      PROVE  HistoryType'
  <2>1. Taken(p) \in Snapshots
    BY TakenType
  <2> QED
    BY <1>1, <1>6, <2>1 DEF Snapshot, Stays, history, Seqs, Snapshots
<1>7. ASSUME NEW w \in Workers, NEW p \in Policies, SavePlan(w, p)
      PROVE  HistoryType'
  <2>1. /\ at[w] = "save"
        /\ Beyond(snap[w], p) \subseteq Seqs /\ Summed(snap[w], p) \subseteq Seqs
    <3>1. /\ at[w] = "save" /\ p.window \in Windows
          /\ snap[w].cut \in Windows /\ snap[w].old \in [Windows -> SUBSET Seqs]
      BY <1>1, <1>7 DEF SavePlan, Snapshots, Policies
    <3> QED
      BY <3>1 DEF Beyond, Summed
  <2> QED
    BY <1>1, <1>2, <1>7, <2>1 DEF SavePlan, Forgets, Stays, history, Seqs, Snapshots
<1>8. CASE (\E p \in Policies : SetPolicy(p)) \/ Dismiss
  BY <1>5, <1>8 DEF SetPolicy, Dismiss, GroupOnly, worker
<1>9. CASE Time
  BY <1>5, <1>9 DEF Time, JobLeaseExpires, ApplicationLeaseExpires, ReceiptLapses,
     ApplyLate, Stays, worker
<1>10. ASSUME NEW w \in Workers,
              \/ BlockExhaustedJobs(w) \/ Skip(w) \/ SaveLate(w) \/ PlanFails(w)
              \/ Retry(w) \/ \E d \in DayOf : ClaimJob(w, d) \/ Enqueue(w, d)
       PROVE  HistoryType'
  BY <1>5, <1>10 DEF BlockExhaustedJobs, Skip, SaveLate, PlanFails, Retry, ClaimJob,
     Enqueue, Stays, Forgets, worker
<1>11. ASSUME NEW w \in Workers, Applies(w) \/ Restart(w)
       PROVE  HistoryType'
  BY <1>5, <1>11 DEF Applies, Backfill, BlockExhaustedApplications, NothingToApply,
     ApplyPrefix, ApplyFails, CompleteApplication, CompleteLate, CompleteFails,
     RetryApplication, ClaimApplication, Restart, Stays, Forgets, worker
<1>12. CASE UNCHANGED vars
  BY <1>5, <1>12 DEF vars, worker
<1> QED
  BY <1>3, <1>4, <1>6, <1>7, <1>8, <1>9, <1>10, <1>11, <1>12
  DEF Next, Group, Work, Plans

LEMMA RowTypes ==
  /\ NoClaim \in [day : 0..Days, attempt : 0..MaxAttempts]
  /\ \A r \in JobRows :
       /\ \A e \in {"blocked", "planned", "retry"} : Ended(r, e) \in JobRows
       /\ r.attempts < MaxAttempts => Leased(r, "planning") \in JobRows
       /\ [r EXCEPT !.status = "queued"] \in JobRows
       /\ [r EXCEPT !.expired = TRUE] \in JobRows
  /\ \A r \in AppRows :
       /\ \A e \in {"blocked", "applied", "retry"} : Ended(r, e) \in AppRows
       /\ r.attempts < MaxAttempts => Leased(r, "applying") \in AppRows
       /\ [r EXCEPT !.status = "queued"] \in AppRows
       /\ [r EXCEPT !.expired = TRUE] \in AppRows
<1>1. NoClaim \in [day : 0..Days, attempt : 0..MaxAttempts]
  BY DEF NoClaim
<1>2. ASSUME NEW r \in JobRows
      PROVE  /\ \A e \in {"blocked", "planned", "retry"} : Ended(r, e) \in JobRows
             /\ [r EXCEPT !.status = "queued"] \in JobRows
             /\ [r EXCEPT !.expired = TRUE] \in JobRows
  BY <1>2 DEF Ended, JobRows
<1>3. ASSUME NEW r \in JobRows, r.attempts < MaxAttempts
      PROVE  Leased(r, "planning") \in JobRows
  BY <1>3 DEF Leased, JobRows
<1>4. ASSUME NEW r \in AppRows
      PROVE  /\ \A e \in {"blocked", "applied", "retry"} : Ended(r, e) \in AppRows
             /\ [r EXCEPT !.status = "queued"] \in AppRows
             /\ [r EXCEPT !.expired = TRUE] \in AppRows
  BY <1>4 DEF Ended, AppRows
<1>5. ASSUME NEW r \in AppRows, r.attempts < MaxAttempts
      PROVE  Leased(r, "applying") \in AppRows
  BY <1>5 DEF Leased, AppRows
<1> QED
  BY <1>1, <1>2, <1>3, <1>4, <1>5

LEMMA TableStep == TypeOK /\ HoldsDay /\ [Next]_vars => TableType'
<1> SUFFICES ASSUME TypeOK, HoldsDay, [Next]_vars PROVE TableType'
  OBVIOUS
<1>1. TableType /\ HistoryType
  BY TypeParts
<1> USE DEF TableType, Goes, Forgets, Stays, Places, bridge, tables, worker, history
<1>2. CASE Group
  <2>1. CASE Send \/ \E n \in 1..maxSeq : Store(n) \/ Hide(n) \/ \E v \in Windows : GrowOld(v, n)
    BY <1>1, <2>1 DEF Send, Store, Hide, GrowOld, GroupOnly
  <2>2. CASE Dismiss \/ \E p \in Policies : SetPolicy(p)
    BY <1>1, <2>2 DEF Dismiss, SetPolicy, GroupOnly
  <2> QED
    BY <1>2, <2>1, <2>2 DEF Group
<1>3. ASSUME NEW d \in DayOf, JobLeaseExpires(d) \/ ApplicationLeaseExpires(d)
      PROVE  TableType'
  <2>1. CASE JobLeaseExpires(d)
    <3>1. [job[d] EXCEPT !.expired = TRUE] \in JobRows
      BY <1>1, RowTypes
    <3> QED
      BY <1>1, <2>1, <3>1 DEF JobLeaseExpires
  <2>2. CASE ApplicationLeaseExpires(d)
    <3>1. [app[d] EXCEPT !.expired = TRUE] \in AppRows
      BY <1>1, RowTypes
    <3> QED
      BY <1>1, <2>2, <3>1 DEF ApplicationLeaseExpires
  <2> QED
    BY <1>3, <2>1, <2>2
<1>4. ASSUME NEW d \in DayOf, ReceiptLapses(d) \/ ApplyLate(d)
      PROVE  TableType'
  <2>1. Applicable(d) => Higher(minSeq, plan[d].bound) \in Bounds
    BY <1>1 DEF Applicable, Higher, Bounds, NonPrefix
  <2> QED
    BY <1>1, <1>4, <2>1 DEF ReceiptLapses, ApplyLate
<1>5. ASSUME NEW w \in Workers, NEW d \in DayOf, Enqueue(w, d)
      PROVE  TableType'
  BY <1>1, <1>5, RowTypes DEF Enqueue
<1>6. ASSUME NEW w \in Workers, NEW d \in DayOf, ClaimJob(w, d)
      PROVE  TableType'
  <2>1. Leased(job[d], "planning") \in JobRows
    BY <1>1, <1>6, RowTypes DEF ClaimJob, Claimable
  <2>2. job' = [job EXCEPT ![d] = Leased(job[d], "planning")]
    BY <1>6 DEF ClaimJob
  <2>3. job' \in [DayOf -> JobRows] /\ job'[d].attempts \in 0..MaxAttempts
    BY <1>1, <2>1, <2>2 DEF JobRows
  <2>4. mine' \in [Workers -> [day : 0..Days, attempt : 0..MaxAttempts]]
    <3>1. [day |-> d, attempt |-> job'[d].attempts]
            \in [day : 0..Days, attempt : 0..MaxAttempts]
      BY <2>3 DEF DayOf
    <3>2. \/ mine' = mine
          \/ mine' = [mine EXCEPT ![w] = [day |-> d, attempt |-> job'[d].attempts]]
      BY <1>6 DEF ClaimJob
    <3> QED
      BY <1>1, <3>1, <3>2
  <2>5. at' \in [Workers -> Places]
    BY <1>1, <1>6 DEF ClaimJob
  <2> QED
    BY <1>1, <1>6, <2>3, <2>4, <2>5 DEF ClaimJob
<1>7. ASSUME NEW w \in Workers, NEW d \in DayOf, ClaimApplication(w, d)
      PROVE  TableType'
  <2>1. Leased(app[d], "applying") \in AppRows
    BY <1>1, <1>7, RowTypes DEF ClaimApplication, Claimable
  <2>2. app' = [app EXCEPT ![d] = Leased(app[d], "applying")]
    BY <1>7 DEF ClaimApplication
  <2>3. app' \in [DayOf -> AppRows] /\ app'[d].attempts \in 0..MaxAttempts
    BY <1>1, <2>1, <2>2 DEF AppRows
  <2>4. mine' \in [Workers -> [day : 0..Days, attempt : 0..MaxAttempts]]
    <3>1. [day |-> d, attempt |-> app'[d].attempts]
            \in [day : 0..Days, attempt : 0..MaxAttempts]
      BY <2>3 DEF DayOf
    <3>2. \/ mine' = mine
          \/ mine' = [mine EXCEPT ![w] = [day |-> d, attempt |-> app'[d].attempts]]
      BY <1>7 DEF ClaimApplication
    <3> QED
      BY <1>1, <3>1, <3>2
  <2>5. at' \in [Workers -> Places]
    BY <1>1, <1>7 DEF ClaimApplication
  <2> QED
    BY <1>1, <1>7, <2>3, <2>4, <2>5 DEF ClaimApplication
<1>8. ASSUME NEW w \in Workers,
             \/ BlockExhaustedJobs(w) \/ Backfill(w) \/ BlockExhaustedApplications(w)
      PROVE  TableType'
  <2>1. CASE BlockExhaustedJobs(w)
    BY <1>1, <2>1, RowTypes DEF BlockExhaustedJobs
  <2>2. CASE Backfill(w)
    BY <1>1, <2>2, RowTypes DEF Backfill
  <2>3. CASE BlockExhaustedApplications(w)
    BY <1>1, <2>3, RowTypes DEF BlockExhaustedApplications
  <2> QED
    BY <1>8, <2>1, <2>2, <2>3
<1>9. ASSUME NEW w \in Workers, NEW p \in Policies, SavePlan(w, p)
      PROVE  TableType'
  <2>1. /\ snap[w] \in Snapshots /\ mine[w].day \in DayOf
        /\ mine[w].attempt \in 0..MaxAttempts
    BY <1>1, <1>9 DEF SavePlan, HoldsDay, HistoryType
  <2>2. /\ snap[w].visible \subseteq Nat /\ snap[w].mark \in 0..MaxSeq
        /\ snap[w].receipt \in Bounds
    BY <2>1 DEF Snapshots, Seqs
  <2>3. MinVisible(snap[w], p) \in Bounds \cup {NonPrefix}
    BY <2>2, PlanBounds DEF Bounds
  <2> QED
    BY <1>1, <1>9, <2>1, <2>2, <2>3, RowTypes DEF SavePlan
<1>10. ASSUME NEW w \in Workers, Retry(w) \/ RetryApplication(w)
       PROVE  TableType'
  <2>1. NoClaim \in [day : 0..Days, attempt : 0..MaxAttempts]
    BY RowTypes
  <2>2. CASE Retry(w)
    <3>1. job' \in [DayOf -> JobRows]
      <4> DEFINE d == mine[w].day
      <4>1. d \in DayOf
        BY <2>2 DEF Retry, HoldsDay
      <4>2. /\ Ended(job[d], "blocked") \in JobRows
            /\ Ended(job[d], "retry") \in JobRows
        BY <1>1, <4>1, RowTypes
      <4>3. job' \in {job, [job EXCEPT ![d] = Ended(job[d], "blocked")],
                     [job EXCEPT ![d] = Ended(job[d], "retry")]}
        BY <2>2 DEF Retry
      <4> HIDE DEF d
      <4> QED
        BY <1>1, <4>1, <4>2, <4>3
    <3> QED
      BY <1>1, <2>1, <2>2, <3>1 DEF Retry
  <2>3. CASE RetryApplication(w)
    <3>1. app' \in [DayOf -> AppRows]
      <4> DEFINE d == mine[w].day
      <4>1. d \in DayOf
        BY <2>3 DEF RetryApplication, HoldsDay
      <4>2. /\ Ended(app[d], "blocked") \in AppRows
            /\ Ended(app[d], "retry") \in AppRows
        BY <1>1, <4>1, RowTypes
      <4>3. app' \in {app, [app EXCEPT ![d] = Ended(app[d], "blocked")],
                     [app EXCEPT ![d] = Ended(app[d], "retry")]}
        BY <2>3 DEF RetryApplication
      <4> HIDE DEF d
      <4> QED
        BY <1>1, <4>1, <4>2, <4>3
    <3> QED
      BY <1>1, <2>1, <2>3, <3>1 DEF RetryApplication
  <2> QED
    BY <1>10, <2>2, <2>3
<1>11. ASSUME NEW w \in Workers, ApplyPrefix(w)
       PROVE  TableType'
  BY <1>1, <1>11 DEF ApplyPrefix, Applicable, HoldsDay, Higher, Bounds
<1>12. ASSUME NEW w \in Workers, ApplyFails(w)
       PROVE  TableType'
  BY <1>1, <1>12 DEF ApplyFails, HoldsDay
<1>13. ASSUME NEW w \in Workers, CompleteApplication(w)
       PROVE  TableType'
  <2>1. mine[w].day \in DayOf
    BY <1>13 DEF CompleteApplication, HoldsDay
  <2>2. plan[mine[w].day].bound \in Bounds \cup {NonPrefix}
    BY <1>1, <2>1
  <2>3. Published(plan[mine[w].day].bound) \in [bound : Bounds, revision : Nat]
    <3>1. visibility.bound \in Bounds /\ visibility.revision \in Nat
      BY <1>1
    <3> QED
      <4> DEFINE b == plan[mine[w].day].bound
      <4>1. CASE visibility.bound < b
        <5>1. b \in Bounds /\ visibility.revision + 1 \in Nat
          BY <2>2, <3>1, <4>1 DEF Bounds, NonPrefix
        <5> QED
          BY <4>1, <5>1 DEF Published
      <4>2. CASE ~(visibility.bound < b)
        BY <1>1, <4>2 DEF Published
      <4> QED
        BY <4>1, <4>2
  <2>4. app' \in [DayOf -> AppRows]
    BY <1>1, <1>13, <2>1, RowTypes DEF CompleteApplication
  <2> QED
    BY <1>1, <1>13, <2>1, <2>3, <2>4, RowTypes DEF CompleteApplication
<1>14. ASSUME NEW w \in Workers, Restart(w)
       PROVE  TableType'
  BY <1>1, <1>14, RowTypes DEF Restart, HoldsDay
<1>15. ASSUME NEW w \in Workers,
              \/ Skip(w) \/ SaveLate(w) \/ PlanFails(w) \/ NothingToApply(w)
              \/ CompleteLate(w) \/ CompleteFails(w)
              \/ \E p \in Policies : Snapshot(w, p)
       PROVE  TableType'
  <2>1. CASE Skip(w) \/ PlanFails(w) \/ NothingToApply(w) \/ CompleteFails(w)
    BY <1>1, <2>1 DEF Skip, PlanFails, NothingToApply, CompleteFails
  <2>2. CASE SaveLate(w) \/ CompleteLate(w)
    <3>1. NoClaim \in [day : 0..Days, attempt : 0..MaxAttempts]
      BY RowTypes
    <3>2. /\ mine' = [mine EXCEPT ![w] = NoClaim]
          /\ at' \in [Workers -> Places]
      BY <1>1, <2>2 DEF SaveLate, CompleteLate
    <3> QED
      BY <1>1, <2>2, <3>1, <3>2 DEF SaveLate, CompleteLate
  <2>3. CASE \E p \in Policies : Snapshot(w, p)
    BY <1>1, <2>3 DEF Snapshot
  <2> QED
    BY <1>15, <2>1, <2>2, <2>3
<1>16. CASE UNCHANGED vars
  BY <1>1, <1>16 DEF vars
<1> QED
  BY <1>2, <1>3, <1>4, <1>5, <1>6, <1>7, <1>8, <1>9, <1>10, <1>11, <1>12, <1>13, <1>14,
     <1>15, <1>16
  DEF Next, Time, Work, Plans, Applies

-----------------------------------------------------------------------------
(* Rows, claims and bounds                                                 *)

\* An application is of a planned job, so its plan stays as it is.
AppsPlanned == \A d \in DayOf : app[d].status # "none" => job[d].status = "planned"

\* Who applies has an application, and who is to record it has applied its plan.
HoldsApp ==
  \A w \in Workers :
    /\ at[w] \in {"apply", "complete", "fail", "reject"}
         => app[mine[w].day].status # "none"
    /\ at[w] = "complete" => plan[mine[w].day].bound <= minSeq

LinkInv == HoldsDay /\ AppsPlanned /\ HoldsApp /\ PlanOfLastClaim /\ BoundsAgree

NotLowered == minSeq <= minSeq'

Free     == {"idle", "claim", "backfill", "exhausted", "claim app"}
Planning == {"snapshot", "save", "retry"}
Applying == {"apply", "complete", "fail", "reject"}

\* Workers give up what they have claimed or go on with it.
NobodyClaims ==
  \A w \in Workers :
    \/ at'[w] \in Free
    \/ /\ at[w] \in Planning /\ at'[w] \in Planning
       /\ mine'[w].day = mine[w].day
    \/ /\ at[w] \in Applying /\ at'[w] \in Applying
       /\ mine'[w].day = mine[w].day
       /\ \/ at'[w] # "complete" \/ at[w] = "complete"
          \/ plan[mine[w].day].bound <= minSeq'

LEMMA NothingLinked ==
  ASSUME TableType, TableType', LinkInv, UNCHANGED <<job, app, plan, visibility>>,
         NotLowered, NobodyClaims
  PROVE  LinkInv'
<1>0. /\ \A d \in DayOf : plan[d].bound \in Int
      /\ visibility.bound \in Int /\ minSeq \in Int /\ minSeq' \in Int
  <2>1. minSeq \in Bounds /\ minSeq' \in Bounds /\ visibility.bound \in Bounds
    BY DEF TableType
  <2>2. ASSUME NEW d \in DayOf PROVE plan[d].bound \in Bounds \cup {NonPrefix}
    BY DEF TableType
  <2>3. Bounds \subseteq Int
    BY DEF Bounds
  <2>4. NonPrefix \in Int
    BY DEF NonPrefix
  <2> QED
    BY <2>1, <2>2, <2>3, <2>4
<1>1. HoldsDay' /\ AppsPlanned' /\ PlanOfLastClaim'
  BY DEF NobodyClaims, Free, Planning, Applying, LinkInv, HoldsDay, AppsPlanned,
         PlanOfLastClaim
<1>2. HoldsApp'
  <2> SUFFICES ASSUME NEW w \in Workers, at'[w] \in Applying
               PROVE  /\ app'[mine'[w].day].status # "none"
                      /\ at'[w] = "complete" => plan'[mine'[w].day].bound <= minSeq'
    BY DEF HoldsApp, Applying
  <2>1. /\ at[w] \in Applying /\ mine'[w].day = mine[w].day /\ mine[w].day \in DayOf
        /\ \/ at'[w] # "complete" \/ at[w] = "complete"
           \/ plan[mine[w].day].bound <= minSeq'
    BY DEF NobodyClaims, Free, Planning, Applying, LinkInv, HoldsDay
  <2>2. app[mine[w].day].status # "none"
    BY <2>1 DEF LinkInv, HoldsApp, Applying
  <2>3. at[w] = "complete" => plan[mine[w].day].bound <= minSeq'
    <3>1. at[w] = "complete" => plan[mine[w].day].bound <= minSeq
      BY DEF LinkInv, HoldsApp
    <3>2. plan[mine[w].day].bound \in Int
      BY <1>0, <2>1
    <3> QED
      BY <1>0, <3>1, <3>2 DEF NotLowered
  <2> QED
    BY <2>1, <2>2, <2>3
<1>3. BoundsAgree'
  <2>1. visibility.bound <= minSeq'
    BY <1>0 DEF LinkInv, BoundsAgree, NotLowered
  <2>2. \A d \in DayOf :
          app'[d].status = "applied" => plan'[d].bound <= visibility'.bound
    BY DEF LinkInv, BoundsAgree
  <2> QED
    BY <2>1, <2>2 DEF BoundsAgree
<1> QED
  BY <1>1, <1>2, <1>3 DEF LinkInv

\* A step on rows that leaves plans, and what was applied, as they are.
RowsOnly ==
  \A d \in DayOf :
    /\ job[d].status = "planned" => job'[d] = job[d]
    /\ job'[d].status = "planned" => job[d].status = "planned"
    /\ app[d].status # "none" => app'[d].status # "none"
    /\ app'[d].status = "applied" => app[d].status = "applied"
    /\ app'[d].status # "none" => app[d].status # "none" \/ job[d].status = "planned"

\* A worker may have claimed one of them.
OneClaims ==
  \A w \in Workers :
    \/ at'[w] \in Free
    \/ at'[w] = at[w] /\ mine'[w].day = mine[w].day
    \/ at'[w] = "snapshot" /\ mine'[w].day \in DayOf
    \/ /\ at'[w] = "apply" /\ mine'[w].day \in DayOf
       /\ app'[mine'[w].day].status # "none"

LEMMA RowsChange ==
  ASSUME LinkInv, UNCHANGED <<visibility, minSeq, plan>>, RowsOnly, OneClaims
  PROVE  LinkInv'
<1>1. HoldsDay'
  BY DEF LinkInv, HoldsDay, OneClaims, Free
<1>2. AppsPlanned' /\ PlanOfLastClaim'
  BY DEF LinkInv, AppsPlanned, PlanOfLastClaim, RowsOnly
<1>3. HoldsApp'
  <2> SUFFICES ASSUME NEW w \in Workers, at'[w] \in Applying
               PROVE  /\ app'[mine'[w].day].status # "none"
                      /\ at'[w] = "complete" => plan'[mine'[w].day].bound <= minSeq'
    BY DEF HoldsApp, Applying
  <2>1. CASE at'[w] = at[w] /\ mine'[w].day = mine[w].day
    <3>1. mine[w].day \in DayOf /\ app[mine[w].day].status # "none"
      BY <2>1 DEF LinkInv, HoldsDay, HoldsApp, Applying
    <3>2. app'[mine[w].day].status # "none"
      BY <3>1 DEF RowsOnly
    <3>3. at'[w] = "complete" => plan[mine[w].day].bound <= minSeq
      BY <2>1 DEF LinkInv, HoldsApp
    <3> QED
      BY <2>1, <3>2, <3>3
  <2>2. CASE at'[w] = "apply" /\ app'[mine'[w].day].status # "none"
    BY <2>2
  <2> QED
    BY <2>1, <2>2 DEF OneClaims, Free, Applying
<1>4. BoundsAgree'
  BY DEF LinkInv, BoundsAgree, RowsOnly
<1> QED
  BY <1>1, <1>2, <1>3, <1>4 DEF LinkInv

\* Which steps change what the claims below are about.
LEMMA WhoChanges ==
  ASSUME [Next]_vars
  PROVE  /\ old' = old \/ \E n \in 1..maxSeq, v \in Windows : GrowOld(v, n)
         /\ plan' = plan \/ \E w \in Workers, p \in Policies : SavePlan(w, p)
         /\ \/ minSeq' = minSeq
            \/ \E w \in Workers : ApplyPrefix(w)
            \/ \E d \in DayOf : ApplyLate(d)
         /\ visibility' = visibility \/ \E w \in Workers : CompleteApplication(w)
         /\ expendable \subseteq expendable' /\ hidden \subseteq hidden'
         /\ summed \subseteq summed'
         /\ summed' = summed \/ \E w \in Workers, p \in Policies : SavePlan(w, p)
<1> DEFINE Goal == WhoChanges!2
<1> USE DEF Stays, tables, bridge, history, ghosts
<1>1. CASE Group
  <2>1. CASE Send \/ Dismiss \/ \E p \in Policies : SetPolicy(p)
    BY <2>1 DEF Send, Dismiss, SetPolicy, GroupOnly
  <2>2. ASSUME NEW n \in 1..maxSeq, Store(n) \/ Hide(n) \/ \E v \in Windows : GrowOld(v, n)
        PROVE  Goal
    BY <2>2 DEF Store, Hide, GrowOld, GroupOnly
  <2> QED
    BY <1>1, <2>1, <2>2 DEF Group
<1>2. CASE Time
  BY <1>2 DEF Time, JobLeaseExpires, ApplicationLeaseExpires, ReceiptLapses, ApplyLate
<1>3. ASSUME NEW w \in Workers, Plans(w)
      PROVE  Goal
  BY <1>3 DEF Plans, BlockExhaustedJobs, Skip, Snapshot, SavePlan, SaveLate, PlanFails,
     Retry, ClaimJob
<1>4. ASSUME NEW w \in Workers, Applies(w)
      PROVE  Goal
  BY <1>4 DEF Applies, Backfill, BlockExhaustedApplications, NothingToApply,
     ApplyPrefix, ApplyFails, CompleteApplication, CompleteLate, CompleteFails,
     RetryApplication, ClaimApplication
<1>5. ASSUME NEW w \in Workers, Restart(w) \/ \E d \in DayOf : Enqueue(w, d)
      PROVE  Goal
  BY <1>5 DEF Restart, Enqueue
<1>6. CASE UNCHANGED vars
  BY <1>6 DEF vars, ghosts
<1> QED
  BY <1>1, <1>2, <1>3, <1>4, <1>5, <1>6 DEF Next, Work

\* OpenIM's bound is never lowered.
LEMMA BoundRises ==
  ASSUME TypeOK, HoldsDay, [Next]_vars
  PROVE  NotLowered
<1>1. minSeq \in Int
  BY Numbers
<1>2. ASSUME NEW d, Applicable(d), d \in DayOf
      PROVE  minSeq <= Higher(minSeq, plan[d].bound)
  <2>1. plan[d].bound \in Int
    <3>1. plan[d].bound \in Bounds \cup {NonPrefix}
      BY <1>2, TypeParts DEF TableType
    <3> QED
      BY <3>1 DEF Bounds, NonPrefix
  <2> QED
    BY <1>1, <2>1 DEF Higher
<1>3. ASSUME NEW w \in Workers, ApplyPrefix(w)
      PROVE  NotLowered
  <2>1. mine[w].day \in DayOf
    BY <1>3 DEF ApplyPrefix, HoldsDay
  <2> QED
    BY <1>2, <1>3, <2>1 DEF ApplyPrefix, NotLowered
<1>4. ASSUME NEW d \in DayOf, ApplyLate(d)
      PROVE  NotLowered
  BY <1>1, <1>2, <1>4 DEF ApplyLate, NotLowered
<1>5. CASE minSeq' = minSeq
  BY <1>1, <1>5 DEF NotLowered
<1> QED
  BY <1>3, <1>4, <1>5, WhoChanges

LEMMA SavePlanLinks ==
  ASSUME TypeOK, LinkInv, NEW w \in Workers, NEW p \in Policies, SavePlan(w, p)
  PROVE  LinkInv'
<1> DEFINE d == mine[w].day
<1>1. TableType
  BY TypeParts
<1>2. /\ at[w] = "save" /\ d \in DayOf
      /\ job[d].status = "planning" /\ job[d].attempts = mine[w].attempt
  BY DEF SavePlan, LinkInv, HoldsDay, MyJob, Holds
<1>3. app[d].status = "none"
  BY <1>2 DEF LinkInv, AppsPlanned
<1>4. /\ job' = [job EXCEPT ![d] = Ended(job[d], "planned")]
      /\ plan'[d].attempt = mine[w].attempt
      /\ \A e \in DayOf \ {d} : plan'[e] = plan[e]
  BY <1>1, <1>2 DEF SavePlan, TableType
<1>5. /\ app' = app /\ visibility' = visibility /\ minSeq' = minSeq
      /\ at'[w] = "backfill"
      /\ \A v \in Workers \ {w} : at'[v] = at[v] /\ mine'[v] = mine[v]
  BY <1>1 DEF SavePlan, Forgets, Goes, bridge, TableType
<1>6. /\ job'[d].status = "planned" /\ job'[d].attempts = job[d].attempts
      /\ \A e \in DayOf \ {d} : job'[e] = job[e]
  <2>1. job[d] \in JobRows
    BY <1>1, <1>2 DEF TableType
  <2>2. Ended(job[d], "planned").status = "planned"
        /\ Ended(job[d], "planned").attempts = job[d].attempts
    BY <2>1 DEF Ended, JobRows
  <2> QED
    BY <1>1, <1>2, <1>4, <2>2 DEF TableType
<1> HIDE DEF d
<1>7. HoldsDay'
  BY <1>5 DEF HoldsDay, LinkInv
<1>8. AppsPlanned' /\ PlanOfLastClaim'
  BY <1>2, <1>3, <1>4, <1>5, <1>6 DEF AppsPlanned, PlanOfLastClaim, LinkInv
<1>9. HoldsApp'
  <2> SUFFICES ASSUME NEW v \in Workers, at'[v] \in Applying
               PROVE  /\ app'[mine'[v].day].status # "none"
                      /\ at'[v] = "complete" => plan'[mine'[v].day].bound <= minSeq'
    BY DEF HoldsApp, Applying
  <2>1. v # w
    BY <1>5 DEF Applying
  <2>2. mine[v].day \in DayOf /\ app[mine[v].day].status # "none"
    BY <1>5, <2>1 DEF LinkInv, HoldsDay, HoldsApp, Applying
  <2>3. mine[v].day # d
    BY <1>3, <2>2
  <2>4. at[v] = "complete" => plan[mine[v].day].bound <= minSeq
    BY DEF LinkInv, HoldsApp
  <2> QED
    BY <1>4, <1>5, <2>1, <2>2, <2>3, <2>4
<1>10. BoundsAgree'
  BY <1>3, <1>4, <1>5 DEF BoundsAgree, LinkInv
<1> QED
  BY <1>7, <1>8, <1>9, <1>10 DEF LinkInv

LEMMA CompletionLinks ==
  ASSUME TypeOK, LinkInv, NEW w \in Workers, CompleteApplication(w)
  PROVE  LinkInv'
<1> DEFINE d == mine[w].day
           b == plan[d].bound
<1>1. TableType
  BY TypeParts
<1>2. at[w] = "complete" /\ d \in DayOf /\ app[d].status = "applying" /\ b <= minSeq
  BY DEF CompleteApplication, LinkInv, HoldsDay, HoldsApp, MyApp, Holds
<1>3. /\ job' = job /\ plan' = plan /\ minSeq' = minSeq
      /\ visibility' = Published(b)
      /\ at'[w] = "idle"
      /\ \A v \in Workers \ {w} : at'[v] = at[v] /\ mine'[v] = mine[v]
  BY <1>1 DEF CompleteApplication, Forgets, Goes, bridge, TableType
<1>4. app'[d].status = "applied" /\ \A e \in DayOf \ {d} : app'[e] = app[e]
  <2>1. app[d] \in AppRows
    BY <1>1, <1>2 DEF TableType
  <2>2. Ended(app[d], "applied").status = "applied"
    BY <2>1 DEF Ended, AppRows
  <2> QED
    BY <1>1, <1>2, <2>2 DEF TableType, CompleteApplication
<1>5. b \in Int /\ visibility.bound \in Int /\ minSeq \in Int
      /\ \A e \in DayOf : plan[e].bound \in Int
  <2>1. minSeq \in Bounds /\ visibility.bound \in Bounds
    BY <1>1 DEF TableType
  <2>2. ASSUME NEW e \in DayOf PROVE plan[e].bound \in Bounds \cup {NonPrefix}
    BY <1>1 DEF TableType
  <2>3. Bounds \subseteq Int /\ NonPrefix \in Int
    BY DEF Bounds, NonPrefix
  <2> QED
    BY <1>2, <2>1, <2>2, <2>3
<1> HIDE DEF b, d
<1>6. /\ visibility'.bound \in Int
      /\ b <= visibility'.bound /\ visibility.bound <= visibility'.bound
      /\ visibility'.bound \in {b, visibility.bound}
  <2>1. CASE visibility.bound < b
    BY <1>3, <1>5, <2>1 DEF Published
  <2>2. CASE ~(visibility.bound < b)
    BY <1>3, <1>5, <2>2 DEF Published
  <2> QED
    BY <2>1, <2>2
<1>7. HoldsDay' /\ PlanOfLastClaim'
  BY <1>3 DEF HoldsDay, PlanOfLastClaim, LinkInv
<1>8. AppsPlanned'
  BY <1>2, <1>3, <1>4 DEF AppsPlanned, LinkInv
<1>9. HoldsApp'
  <2> SUFFICES ASSUME NEW v \in Workers, at'[v] \in Applying
               PROVE  /\ app'[mine'[v].day].status # "none"
                      /\ at'[v] = "complete" => plan'[mine'[v].day].bound <= minSeq'
    BY DEF HoldsApp, Applying
  <2>1. v # w
    BY <1>3 DEF Applying
  <2>2. mine[v].day \in DayOf /\ app[mine[v].day].status # "none"
    BY <1>3, <2>1 DEF LinkInv, HoldsDay, HoldsApp, Applying
  <2>3. app'[mine[v].day].status # "none"
    BY <1>4, <2>2
  <2>4. at[v] = "complete" => plan[mine[v].day].bound <= minSeq
    BY DEF LinkInv, HoldsApp
  <2> QED
    BY <1>3, <2>1, <2>3, <2>4
<1>10. BoundsAgree'
  <2>1. visibility'.bound <= minSeq'
    <3>1. visibility.bound <= minSeq
      BY DEF LinkInv, BoundsAgree
    <3> QED
      BY <1>2, <1>3, <1>6, <3>1 DEF b
  <2>2. ASSUME NEW e \in DayOf, app'[e].status = "applied"
        PROVE  plan'[e].bound <= visibility'.bound
    <3>1. CASE e = d
      BY <1>3, <1>6, <3>1 DEF b
    <3>2. CASE e # d
      <4>1. plan[e].bound <= visibility.bound
        BY <1>4, <2>2, <3>2 DEF LinkInv, BoundsAgree
      <4> QED
        BY <1>3, <1>5, <1>6, <4>1
    <3> QED
      BY <3>1, <3>2
  <2> QED
    BY <2>1, <2>2 DEF BoundsAgree
<1> QED
  BY <1>7, <1>8, <1>9, <1>10 DEF LinkInv

\* Whom a step passes by.
Untouched(v) == at'[v] = at[v] /\ mine'[v] = mine[v]

LEMMA LinkStep ==
  ASSUME TypeOK, TableType', LinkInv, [Next]_vars
  PROVE  LinkInv'
<1>1. TableType /\ NotLowered
  BY TypeParts, BoundRises DEF LinkInv
<1>2. \A v \in Workers : at[v] \in Free \cup Planning \cup Applying
  BY <1>1 DEF TableType, Places, Free, Planning, Applying
<1>3. ASSUME UNCHANGED <<job, app, plan, visibility>>, NobodyClaims
      PROVE  LinkInv'
  BY <1>1, <1>3, NothingLinked
<1>4. ASSUME UNCHANGED <<job, app, plan, visibility, at, mine>>
      PROVE  LinkInv'
  <2>1. NobodyClaims
    BY <1>2, <1>4 DEF NobodyClaims
  <2> QED
    BY <1>3, <1>4, <2>1
<1>5. ASSUME NEW w \in Workers, UNCHANGED <<job, app, plan, visibility>>,
             \A v \in Workers \ {w} : Untouched(v),
             \/ at'[w] \in Free
             \/ /\ at[w] \in Planning /\ at'[w] \in Planning
                /\ mine'[w].day = mine[w].day
             \/ /\ at[w] \in Applying /\ at'[w] \in Applying
                /\ mine'[w].day = mine[w].day
                /\ at'[w] # "complete" \/ plan[mine[w].day].bound <= minSeq'
      PROVE  LinkInv'
  <2>1. NobodyClaims
    BY <1>2, <1>5 DEF NobodyClaims, Untouched
  <2> QED
    BY <1>3, <1>5, <2>1
<1>6. /\ \A r \in JobRows, e \in {"blocked", "retry"} : Ended(r, e).status = e
      /\ \A r \in AppRows, e \in {"blocked", "retry"} : Ended(r, e).status = e
  BY DEF Ended, JobRows, AppRows
<1>7. ASSUME NEW w \in Workers, NEW place, Goes(w, place)
      PROVE  at'[w] = place /\ \A v \in Workers \ {w} : at'[v] = at[v]
  BY <1>1, <1>7 DEF TableType, Goes
<1>8. ASSUME NEW w \in Workers, NEW place, Forgets(w, place)
      PROVE  at'[w] = place /\ \A v \in Workers \ {w} : Untouched(v)
  BY <1>1, <1>7, <1>8 DEF TableType, Forgets, Untouched
<1>9. CASE Group
  BY <1>4, <1>9 DEF Group, Send, Store, Hide, GrowOld, SetPolicy, Dismiss, GroupOnly,
     tables, worker
<1>10. ASSUME NEW d \in DayOf, ReceiptLapses(d) \/ ApplyLate(d)
       PROVE  LinkInv'
  BY <1>4, <1>10 DEF ReceiptLapses, ApplyLate, tables, worker
<1>11. ASSUME NEW w \in Workers, Skip(w)
       PROVE  LinkInv'
  <2>1. mine' = mine /\ UNCHANGED <<job, app, plan, visibility>>
    BY <1>11 DEF Skip, tables
  <2>2. Goes(w, "backfill") \/ Goes(w, "idle")
    BY <1>11 DEF Skip
  <2> QED
    BY <1>5, <1>7, <2>1, <2>2 DEF Free, Untouched
<1>12. ASSUME NEW w \in Workers, SaveLate(w) \/ CompleteLate(w) \/ Restart(w)
       PROVE  LinkInv'
  <2>1. UNCHANGED <<job, app, plan, visibility>>
    BY <1>12 DEF SaveLate, CompleteLate, Restart, tables
  <2>2. Forgets(w, "backfill") \/ Forgets(w, "idle")
    BY <1>12 DEF SaveLate, CompleteLate, Restart
  <2> QED
    BY <1>5, <1>8, <2>1, <2>2 DEF Free
<1>13. ASSUME NEW w \in Workers, PlanFails(w) \/ \E p \in Policies : Snapshot(w, p)
       PROVE  LinkInv'
  <2>1. mine' = mine /\ UNCHANGED <<job, app, plan, visibility>>
    BY <1>13 DEF PlanFails, Snapshot, tables
  <2>2. at[w] \in {"snapshot", "save"} /\ (Goes(w, "retry") \/ Goes(w, "save"))
    BY <1>13 DEF PlanFails, Snapshot
  <2> QED
    BY <1>5, <1>7, <2>1, <2>2 DEF Planning, Untouched
<1>14. ASSUME NEW w \in Workers,
              \/ NothingToApply(w) \/ ApplyPrefix(w) \/ ApplyFails(w)
              \/ CompleteFails(w)
       PROVE  LinkInv'
  <2>1. mine' = mine /\ UNCHANGED <<job, app, plan, visibility>>
    BY <1>14 DEF NothingToApply, ApplyPrefix, ApplyFails, CompleteFails, tables
  <2>2. at[w] \in Applying
    BY <1>14 DEF NothingToApply, ApplyPrefix, ApplyFails, CompleteFails, Applying
  <2>3. mine[w].day \in DayOf
    BY <2>2 DEF Applying, LinkInv, HoldsDay
  <2>4. minSeq \in Nat /\ minSeq' \in Nat
    BY <1>1 DEF TableType, Bounds
  <2>5. plan[mine[w].day].bound \in Int
    <3>1. plan[mine[w].day].bound \in Bounds \cup {NonPrefix}
      BY <1>1, <2>3 DEF TableType
    <3> QED
      BY <3>1 DEF Bounds, NonPrefix
  <2>6. \/ Goes(w, "reject") \/ Goes(w, "fail")
        \/ Goes(w, "complete") /\ plan[mine[w].day].bound <= minSeq'
    <3>1. CASE NothingToApply(w)
      <4>1. CASE plan[mine[w].day].bound = 0
        BY <2>4, <3>1, <4>1 DEF NothingToApply
      <4>2. CASE plan[mine[w].day].bound # 0
        BY <3>1, <4>2 DEF NothingToApply
      <4> QED
        BY <4>1, <4>2
    <3>2. CASE ApplyPrefix(w)
      BY <2>4, <2>5, <3>2 DEF ApplyPrefix, Higher
    <3>3. CASE ApplyFails(w) \/ CompleteFails(w)
      BY <3>3 DEF ApplyFails, CompleteFails
    <3> QED
      BY <1>14, <3>1, <3>2, <3>3
  <2>7. at'[w] \in Applying /\ \A v \in Workers \ {w} : at'[v] = at[v]
    BY <1>7, <2>6 DEF Applying
  <2>8. at'[w] # "complete" \/ plan[mine[w].day].bound <= minSeq'
    BY <1>7, <2>6
  <2> QED
    BY <1>5, <2>1, <2>2, <2>7, <2>8 DEF Untouched
<1>15. ASSUME NEW w \in Workers,
              (\E p \in Policies : SavePlan(w, p)) \/ CompleteApplication(w)
       PROVE  LinkInv'
  BY <1>15, SavePlanLinks, CompletionLinks
<1>16. ASSUME UNCHANGED <<app, at, mine, visibility, minSeq, plan>>,
              \E d \in DayOf : JobLeaseExpires(d) \/ \E w \in Workers : Enqueue(w, d)
       PROVE  LinkInv'
  <2>1. OneClaims
    BY <1>16 DEF OneClaims
  <2>2. RowsOnly
    <3>1. PICK d \in DayOf : JobLeaseExpires(d) \/ \E w \in Workers : Enqueue(w, d)
      BY <1>16
    <3>2. /\ job[d].status \in {"none", "planning"}
          /\ \A e \in DayOf \ {d} : job'[e] = job[e]
          /\ job'[d].status \in {"queued", "planning"}
      <4>1. CASE JobLeaseExpires(d)
        BY <1>1, <4>1 DEF JobLeaseExpires, TableType, JobRows
      <4>2. ASSUME NEW w \in Workers, Enqueue(w, d)
            PROVE  <3>2!:
        <5>1. job[d].status = "none"
          BY <4>2 DEF Enqueue, DayOf
        <5> QED
          BY <1>1, <4>2, <5>1 DEF Enqueue, TableType, JobRows
      <4> QED
        BY <3>1, <4>1, <4>2
    <3> QED
      BY <1>16, <3>2 DEF RowsOnly
  <2> QED
    BY <1>16, <2>1, <2>2, RowsChange
<1>17. ASSUME NEW d \in DayOf, JobLeaseExpires(d) \/ \E w \in Workers : Enqueue(w, d)
       PROVE  LinkInv'
  BY <1>16, <1>17 DEF JobLeaseExpires, Enqueue, worker, bridge
<1>18. ASSUME NEW d \in DayOf, ApplicationLeaseExpires(d)
       PROVE  LinkInv'
  <2>1. OneClaims
    BY <1>18 DEF OneClaims, ApplicationLeaseExpires, worker
  <2>2. RowsOnly
    BY <1>1, <1>18 DEF RowsOnly, ApplicationLeaseExpires, TableType, AppRows
  <2> QED
    BY <1>18, <2>1, <2>2, RowsChange DEF ApplicationLeaseExpires, bridge
<1>19. ASSUME NEW w \in Workers,
              \/ BlockExhaustedJobs(w) \/ Backfill(w) \/ BlockExhaustedApplications(w)
       PROVE  LinkInv'
  <2>1. /\ mine' = mine /\ UNCHANGED <<visibility, minSeq, plan>>
        /\ Goes(w, "claim") \/ Goes(w, "exhausted") \/ Goes(w, "claim app")
    BY <1>19 DEF BlockExhaustedJobs, Backfill, BlockExhaustedApplications, bridge
  <2>2. OneClaims
    BY <1>7, <2>1 DEF OneClaims, Free
  <2>3. RowsOnly
    <3>1. CASE BlockExhaustedJobs(w)
      <4>1. ASSUME NEW d \in DayOf
            PROVE  \/ job'[d] = job[d]
                   \/ job[d].status = "planning" /\ job'[d].status = "blocked"
        <5>1. job'[d] = IF Exhausted(job[d], "planning")
                          THEN Ended(job[d], "blocked") ELSE job[d]
          BY <3>1 DEF BlockExhaustedJobs
        <5>2. job[d] \in JobRows
          BY <1>1 DEF TableType
        <5> QED
          BY <1>6, <5>1, <5>2 DEF Exhausted
      <4>2. app' = app
        BY <3>1 DEF BlockExhaustedJobs
      <4> QED
        BY <4>1, <4>2 DEF RowsOnly
    <3>2. CASE Backfill(w)
      BY <1>1, <3>2 DEF RowsOnly, Backfill, TableType, AppRows
    <3>3. CASE BlockExhaustedApplications(w)
      <4>1. ASSUME NEW d \in DayOf
            PROVE  \/ app'[d] = app[d]
                   \/ app[d].status = "applying" /\ app'[d].status = "blocked"
        <5>1. app'[d] = IF Exhausted(app[d], "applying")
                          THEN Ended(app[d], "blocked") ELSE app[d]
          BY <3>3 DEF BlockExhaustedApplications
        <5>2. app[d] \in AppRows
          BY <1>1 DEF TableType
        <5> QED
          BY <1>6, <5>1, <5>2 DEF Exhausted
      <4>2. job' = job
        BY <3>3 DEF BlockExhaustedApplications
      <4> QED
        BY <4>1, <4>2 DEF RowsOnly
    <3> QED
      BY <1>19, <3>1, <3>2, <3>3
  <2> QED
    BY <2>1, <2>2, <2>3, RowsChange
<1>20. ASSUME NEW w \in Workers, NEW d \in DayOf, ClaimJob(w, d)
       PROVE  LinkInv'
  <2>1. /\ job' = [job EXCEPT ![d] = Leased(job[d], "planning")]
        /\ job[d].status # "planned"
        /\ app' = app /\ UNCHANGED <<visibility, minSeq, plan>>
    BY <1>20 DEF ClaimJob, Claimable, bridge
  <2>2. OneClaims
    <3>1. CASE Goes(w, "backfill") /\ mine' = mine
      BY <1>7, <3>1 DEF OneClaims, Free
    <3>2. CASE /\ Goes(w, "snapshot")
               /\ mine' = [mine EXCEPT ![w] = [day |-> d, attempt |-> job'[d].attempts]]
      BY <1>1, <1>7, <3>2 DEF OneClaims, TableType
    <3> QED
      BY <1>20, <3>1, <3>2 DEF ClaimJob
  <2>3. RowsOnly
    BY <1>1, <2>1 DEF RowsOnly, Leased, TableType, JobRows
  <2> QED
    BY <2>1, <2>2, <2>3, RowsChange
<1>21. ASSUME NEW w \in Workers, NEW d \in DayOf, ClaimApplication(w, d)
       PROVE  LinkInv'
  <2>1. /\ app' = [app EXCEPT ![d] = Leased(app[d], "applying")]
        /\ app[d].status \in {"queued", "retry", "applying"}
        /\ job' = job /\ UNCHANGED <<visibility, minSeq, plan>>
    BY <1>21 DEF ClaimApplication, Claimable, bridge
  <2>2. app'[d].status = "applying"
    BY <1>1, <2>1 DEF Leased, TableType
  <2>3. OneClaims
    <3>1. CASE Goes(w, "idle") /\ mine' = mine
      BY <1>7, <3>1 DEF OneClaims, Free
    <3>2. CASE /\ Goes(w, "apply")
               /\ mine' = [mine EXCEPT ![w] = [day |-> d, attempt |-> app'[d].attempts]]
      BY <1>1, <1>7, <2>2, <3>2 DEF OneClaims, TableType
    <3> QED
      BY <1>21, <3>1, <3>2 DEF ClaimApplication
  <2>4. RowsOnly
    BY <1>1, <2>1, <2>2 DEF RowsOnly, TableType
  <2> QED
    BY <2>1, <2>3, <2>4, RowsChange
<1>22. ASSUME NEW w \in Workers, Retry(w)
       PROVE  LinkInv'
  <2> DEFINE d == mine[w].day
  <2>1. d \in DayOf /\ Forgets(w, "backfill") /\ app' = app
        /\ UNCHANGED <<visibility, minSeq, plan>>
    BY <1>22 DEF Retry, LinkInv, HoldsDay, bridge
  <2>2. \/ job' = job
        \/ /\ job[d].status = "planning"
           /\ \/ job' = [job EXCEPT ![d] = Ended(job[d], "blocked")]
              \/ job' = [job EXCEPT ![d] = Ended(job[d], "retry")]
    BY <1>22 DEF Retry, MyJob, Holds
  <2>3. OneClaims
    BY <1>8, <2>1 DEF OneClaims, Free, Untouched
  <2> HIDE DEF d
  <2>4. RowsOnly
    <3>1. job[d] \in JobRows
      BY <1>1, <2>1 DEF TableType
    <3>2. \A e \in DayOf :
            \/ job'[e] = job[e]
            \/ job[e].status = "planning" /\ job'[e].status \in {"blocked", "retry"}
      BY <1>1, <1>6, <2>1, <2>2, <3>1 DEF TableType
    <3> QED
      BY <2>1, <3>2 DEF RowsOnly
  <2> QED
    BY <2>1, <2>3, <2>4, RowsChange
<1>23. ASSUME NEW w \in Workers, RetryApplication(w)
       PROVE  LinkInv'
  <2> DEFINE d == mine[w].day
  <2>1. d \in DayOf /\ Forgets(w, "idle") /\ job' = job
        /\ UNCHANGED <<visibility, minSeq, plan>>
    BY <1>23 DEF RetryApplication, LinkInv, HoldsDay, bridge
  <2>2. \/ app' = app
        \/ /\ app[d].status = "applying"
           /\ \/ app' = [app EXCEPT ![d] = Ended(app[d], "blocked")]
              \/ app' = [app EXCEPT ![d] = Ended(app[d], "retry")]
    BY <1>23 DEF RetryApplication, MyApp, Holds
  <2>3. OneClaims
    BY <1>8, <2>1 DEF OneClaims, Free, Untouched
  <2> HIDE DEF d
  <2>4. RowsOnly
    <3>1. app[d] \in AppRows
      BY <1>1, <2>1 DEF TableType
    <3>2. \A e \in DayOf :
            \/ app'[e] = app[e]
            \/ app[e].status = "applying" /\ app'[e].status \in {"blocked", "retry"}
      BY <1>1, <1>6, <2>1, <2>2, <3>1 DEF TableType
    <3> QED
      BY <2>1, <3>2 DEF RowsOnly
  <2> QED
    BY <2>1, <2>3, <2>4, RowsChange
<1>24. CASE UNCHANGED vars
  BY <1>4, <1>24 DEF vars, tables, worker
<1> QED
  BY <1>9, <1>10, <1>11, <1>12, <1>13, <1>14, <1>15, <1>17, <1>18, <1>19, <1>20, <1>21,
     <1>22, <1>23, <1>24
  DEF Next, Time, Work, Plans, Applies

-----------------------------------------------------------------------------
(* Theorems                                                                *)

LEMMA RetentionInit == Init => TypeOK /\ LinkInv
<1> SUFFICES ASSUME Init PROVE TypeOK /\ LinkInv
  OBVIOUS
<1>1. HistoryType
  BY DEF Init, HistoryType, Seqs, NoSnapshot, Snapshots, Bounds
<1>2. TableType
  BY DEF Init, TableType, NoRow, JobRows, AppRows, NoPlan, NoClaim, Bounds, Places,
     Bound!BoundInit, Bound!Unpublished
<1>3. HoldsDay /\ AppsPlanned /\ HoldsApp
  BY DEF Init, HoldsDay, AppsPlanned, HoldsApp, NoRow
<1>4. PlanOfLastClaim /\ BoundsAgree
  BY DEF Init, PlanOfLastClaim, BoundsAgree, NoRow, Bound!BoundInit, Bound!Unpublished
<1> QED
  BY <1>1, <1>2, <1>3, <1>4, TypeParts DEF LinkInv

LEMMA Linked == Spec => [](TypeOK /\ LinkInv)
<1>1. TypeOK /\ LinkInv /\ [Next]_vars => (TypeOK /\ LinkInv)'
  <2> SUFFICES ASSUME TypeOK, LinkInv, [Next]_vars PROVE (TypeOK /\ LinkInv)'
    OBVIOUS
  <2>1. HistoryType' /\ TableType'
    BY HistoryStep, TableStep DEF LinkInv
  <2>2. LinkInv'
    BY <2>1, LinkStep
  <2>3. TypeOK'
    BY <2>1 DEF TypeOK, HistoryType, TableType
  <2> QED
    BY <2>2, <2>3
<1> QED
  BY <1>1, RetentionInit, PTL DEF Spec

\* Rows, plans, claims and snapshots have the values that the code gives them: the
\* attempts of a row stay within the limit, and every bound within the history.
THEOREM RetentionTypes == Spec => []TypeOK
BY Linked, PTL

\* A job that is planned has the plan of its last claim, however late a planner
\* with an older one comes to SavePlan.
THEOREM LastClaimPlans == Spec => []PlanOfLastClaim
<1>1. LinkInv => PlanOfLastClaim
  BY DEF LinkInv
<1> QED
  BY <1>1, Linked, PTL

\* Clients are told a bound only once OpenIM has it, and all that an application
\* which counts as applied hides.
THEOREM BoundsStayInStep == Spec => []BoundsAgree
<1>1. LinkInv => BoundsAgree
  BY DEF LinkInv
<1> QED
  BY <1>1, Linked, PTL

\* The published bound grows by one revision at a time, and only by the transaction
\* that ends an application whose bound is higher.
THEOREM PublishedBoundGrows == Spec => BoundGrows
<1>1. Init => Bound!BoundInit
  BY DEF Init
<1>2. TypeOK /\ LinkInv /\ [Next]_vars => [Bound!Advance]_visibility
  <2> SUFFICES ASSUME TypeOK, LinkInv, NEW w \in Workers, CompleteApplication(w),
                      visibility' # visibility
               PROVE  Bound!Advance
    BY WhoChanges
  <2> DEFINE b == plan[mine[w].day].bound
  <2>1. b \in Int /\ visibility.bound \in Int
    <3>1. TableType /\ mine[w].day \in DayOf
      BY TypeParts DEF CompleteApplication, LinkInv, HoldsDay
    <3>2. visibility.bound \in Bounds /\ b \in Bounds \cup {NonPrefix}
      BY <3>1 DEF TableType
    <3> QED
      BY <3>2 DEF Bounds, NonPrefix
  <2>2. visibility' = Published(b)
    BY DEF CompleteApplication
  <2> HIDE DEF b
  <2>3. visibility.bound < b
    BY <2>2 DEF Published
  <2> QED
    BY <2>1, <2>2, <2>3 DEF Published, Bound!Advance
<1> QED
  BY <1>1, <1>2, Linked, PTL DEF Spec, BoundGrows, Bound!BoundSpec

-----------------------------------------------------------------------------
(* What is hidden, when send times grow with the sequence numbers          *)

Covered(n) == n \in expendable \cup summed \cup hidden

OldClosed  == \A v \in Windows : \A n \in old[v] : 1..n \subseteq old[v]
PlanCovers == \A d \in DayOf : \A n \in 1..plan[d].bound - 1 : Covered(n)

\* A snapshot that waits to be planned: what it does not list is covered, or is
\* older than the window it was cut by and followed by the rows it lists.
SnapTrue(s) ==
  /\ \A n \in 1..s.first - 1 : n <= s.over \/ Covered(n)
  /\ \A n \in s.first..s.mark : n \in s.visible \/ Covered(n)
  /\ 1..s.over \subseteq s.old[s.cut]
  /\ s.over < s.first
  /\ s.over <= s.mark

SnapsTrue == \A w \in Workers : at[w] = "save" => SnapTrue(snap[w])

ShownInv == OldClosed /\ PlanCovers /\ OnlyExpendableHidden /\ SnapsTrue

LEMMA SnapshotTrue ==
  ASSUME TypeOK, ShownInv, NEW p \in Policies, Taken(p).first..maxSeq \subseteq written
  PROVE  SnapTrue(Taken(p))
<1> DEFINE s == Taken(p)
<1>1. /\ s.first = Higher(Higher(minSeq, 1), Over(p) + 1) /\ s.mark = maxSeq
      /\ s.over = Over(p) /\ s.visible = Visible /\ s.old = old /\ s.cut = p.window
  BY TakenType
<1>2. minSeq \in Nat /\ Over(p) \in 0..maxSeq /\ maxSeq \in Nat /\ p.window \in Windows
  BY Numbers, ScanStops DEF Policies
<1> HIDE DEF s
<1>3. /\ s.first \in Nat /\ s.over < s.first /\ s.over <= s.mark
      /\ s.first <= minSeq \/ s.first = 1 \/ s.first = s.over + 1
  BY <1>1, <1>2 DEF Higher
<1>4. \A n \in 1..s.first - 1 : n <= s.over \/ Covered(n)
  <2> SUFFICES ASSUME NEW n \in 1..s.first - 1, ~(n <= s.over) PROVE Covered(n)
    OBVIOUS
  <2>1. n \in 1..minSeq - 1
    BY <1>1, <1>2, <1>3
  <2> QED
    BY <2>1 DEF ShownInv, OnlyExpendableHidden, Covered
<1>5. \A n \in s.first..s.mark : n \in s.visible \/ Covered(n)
  BY <1>1 DEF Visible, Covered, s
<1>6. 1..s.over \subseteq s.old[s.cut]
  <2>1. CASE Over(p) = 0
    BY <1>1, <2>1
  <2>2. CASE Over(p) > 0
    <3>1. Over(p) + 1 \in old[p.window]
      BY <2>2, ScanStops
    <3>2. 1..Over(p) + 1 \subseteq old[p.window]
      BY <1>2, <3>1 DEF ShownInv, OldClosed
    <3> QED
      BY <1>1, <1>2, <3>2
  <2> QED
    BY <1>2, <2>1, <2>2
<1> QED
  BY <1>3, <1>4, <1>5, <1>6 DEF SnapTrue, s

\* The heart of the matter: a plan that SavePlan takes hides only what is covered
\* already, or beyond both limits of the policy that it reads, or taken over from
\* the summary.
LEMMA SavedPlanCovers ==
  ASSUME NEW s \in Snapshots, NEW p \in Policies, SnapTrue(s), Provable(s, p), TypeOK,
         NEW n \in 1..MinVisible(s, p) - 1
  PROVE  Covered(n) \/ n \in Beyond(s, p) \cup Summed(s, p)
<1>1. /\ s.visible \in SUBSET (1..maxSeq) /\ s.mark \in Nat /\ s.first \in Nat
      /\ s.over \in Nat /\ p.quota \in Nat /\ maxSeq \in Nat /\ MaxSeq \in Nat
  <2>1. s.mark \in 0..MaxSeq /\ s.first \in 0..MaxSeq + 1 /\ s.over \in 0..MaxSeq
    BY DEF Snapshots, Bounds
  <2>2. s.visible \in SUBSET (1..maxSeq)
    BY DEF Snapshots, Seqs
  <2>3. p.quota \in Nat
    BY DEF Policies
  <2> QED
    BY <2>1, <2>2, <2>3, Numbers
<1>2. n \in 1..s.mark /\ n \notin Rows(s) \ Candidates(s, p)
  <2>1. s.visible \subseteq Nat
    BY <1>1
  <2> QED
    BY <1>1, <2>1, PlanBounds
<1>3. IsFiniteSet(s.visible)
  <2>1. IsFiniteSet(1..maxSeq)
    BY <1>1, FS_Interval, 1 \in Int
  <2> QED
    BY <1>1, <2>1, FS_Subset
<1>4. Rows(s) \in SUBSET s.visible
  BY DEF Rows
<1>5. /\ Above(Rows(s), n) \in Nat /\ Above(s.visible, n) \in Nat
      /\ Above(Rows(s), n) <= Above(s.visible, n)
  BY <1>3, <1>4, MoreAbove
<1>6. CASE s.first <= n
  <2>1. n \in s.visible \/ Covered(n)
    BY <1>1, <1>2, <1>6 DEF SnapTrue
  <2>2. CASE n \in s.visible
    <3>1. n \in Candidates(s, p)
      BY <1>2, <1>6, <2>2 DEF Rows
    <3>2. n \in s.old[p.window] /\ Above(Rows(s), n) >= p.quota
      BY <3>1 DEF Candidates
    <3> QED
      BY <1>1, <1>2, <1>5, <3>2 DEF Beyond
  <2> QED
    BY <2>1, <2>2
<1>7. CASE n < s.first
  <2>1. n <= s.over \/ Covered(n)
    BY <1>1, <1>2, <1>7 DEF SnapTrue
  <2>2. CASE n <= s.over
    <3>1. n \in s.old[s.cut]
      BY <1>1, <1>2, <2>2 DEF SnapTrue
    <3>2. Cardinality(Rows(s)) >= p.quota
      BY <1>1, <1>2, <2>2 DEF Provable
    <3>3. Above(Rows(s), n) = Cardinality(Rows(s))
      <4>1. \A m \in Rows(s) : n < m
        BY <1>1, <1>2, <1>7 DEF Rows
      <4>2. {m \in Rows(s) : n < m} = Rows(s)
        BY <4>1
      <4> QED
        BY <4>2 DEF Above
    <3> QED
      BY <1>1, <1>2, <1>5, <2>2, <3>1, <3>2, <3>3 DEF Summed
  <2> QED
    BY <2>1, <2>2
<1> QED
  BY <1>1, <1>2, <1>6, <1>7

\* Who comes to hold a snapshot has just got it.
LEMMA WhoHolds ==
  ASSUME TypeOK, [Next]_vars, NEW w \in Workers, at'[w] = "save"
  PROVE  \/ at[w] = "save" /\ snap'[w] = snap[w]
         \/ \E p \in Policies : Snapshot(w, p)
<1>1. at \in [Workers -> Places] /\ snap \in [Workers -> Snapshots]
  BY TypeParts DEF TableType, HistoryType
<1> DEFINE Goal == \/ at[w] = "save" /\ snap'[w] = snap[w]
                   \/ \E p \in Policies : Snapshot(w, p)
<1> USE DEF Stays, Goes, Forgets, worker
<1>2. ASSUME UNCHANGED worker
      PROVE  Goal
  BY <1>2
<1>3. ASSUME Group \/ Time \/ UNCHANGED vars
      PROVE  Goal
  BY <1>2, <1>3 DEF Group, Send, Store, Hide, GrowOld, SetPolicy, Dismiss, GroupOnly,
     Time, JobLeaseExpires, ApplicationLeaseExpires, ReceiptLapses, ApplyLate, vars
<1>4. ASSUME NEW v \in Workers, NEW place \in Places \ {"save"},
             at' = [at EXCEPT ![v] = place],
             snap' = snap \/ snap' = [snap EXCEPT ![v] = NoSnapshot]
      PROVE  Goal
  BY <1>1, <1>4
<1>5. ASSUME NEW v \in Workers, NEW p \in Policies, Snapshot(v, p)
      PROVE  Goal
  BY <1>1, <1>5 DEF Snapshot
<1>6. ASSUME NEW v \in Workers,
             \/ BlockExhaustedJobs(v) \/ Skip(v) \/ SaveLate(v)
             \/ (\E p \in Policies : SavePlan(v, p))
             \/ PlanFails(v) \/ Retry(v) \/ \E d \in DayOf : ClaimJob(v, d)
      PROVE  Goal
  <2>1. /\ snap' = snap \/ snap' = [snap EXCEPT ![v] = NoSnapshot]
        /\ \E place \in Places \ {"save"} : at' = [at EXCEPT ![v] = place]
    BY <1>6 DEF BlockExhaustedJobs, Skip, SavePlan, SaveLate, PlanFails, Retry,
       ClaimJob, Places
  <2> QED
    BY <1>4, <2>1
<1>7. ASSUME NEW v \in Workers, Applies(v) \/ Restart(v)
      PROVE  Goal
  <2>1. /\ snap' = snap \/ snap' = [snap EXCEPT ![v] = NoSnapshot]
        /\ \E place \in Places \ {"save"} : at' = [at EXCEPT ![v] = place]
    BY <1>7 DEF Applies, Backfill, BlockExhaustedApplications, NothingToApply,
       ApplyPrefix, ApplyFails, CompleteApplication, CompleteLate, CompleteFails,
       RetryApplication, ClaimApplication, Restart, Places
  <2> QED
    BY <1>4, <2>1
<1> HIDE DEF Goal
<1>8. ASSUME NEW v \in Workers, Plans(v)
      PROVE  Goal
  BY <1>5, <1>6, <1>8 DEF Plans
<1>9. ASSUME NEW v \in Workers, NEW d \in DayOf, Enqueue(v, d)
      PROVE  Goal
  BY <1>2, <1>9 DEF Enqueue
<1>10. Goal
  BY <1>3, <1>7, <1>8, <1>9 DEF Next, Work
<1> QED
  BY <1>10 DEF Goal

LEMMA ShownStep ==
  ASSUME TimesInOrder, TypeOK, HoldsDay, ShownInv, [Next]_vars
  PROVE  ShownInv'
<1>1. TableType /\ HistoryType
  BY TypeParts
<1>2. \A n : Covered(n) => Covered(n)'
  BY WhoChanges DEF Covered
<1>3. OldClosed'
  <2>1. CASE old' = old
    BY <2>1 DEF ShownInv, OldClosed
  <2>2. ASSUME NEW n \in 1..maxSeq, NEW v \in Windows, GrowOld(v, n)
        PROVE  OldClosed'
    <3>1. /\ old'[v] = old[v] \cup {n} /\ 1..n - 1 \subseteq old[v]
          /\ \A u \in Windows \ {v} : old'[u] = old[u]
      BY <1>1, <2>2 DEF GrowOld, HistoryType
    <3>2. 1..n \subseteq old'[v]
      <4> SUFFICES ASSUME NEW k \in 1..n PROVE k \in old'[v]
        OBVIOUS
      <4>1. k = n \/ k \in 1..n - 1
        BY Numbers
      <4> QED
        BY <3>1, <4>1
    <3> QED
      BY <3>1, <3>2 DEF ShownInv, OldClosed
  <2> QED
    BY <2>1, <2>2, WhoChanges
<1>4. PlanCovers'
  <2>1. CASE plan' = plan
    BY <1>2, <2>1 DEF ShownInv, PlanCovers
  <2>2. ASSUME NEW w \in Workers, NEW p \in Policies, SavePlan(w, p)
        PROVE  PlanCovers'
    <3> DEFINE s == snap[w]
               d == mine[w].day
    <3>1. /\ s \in Snapshots /\ SnapTrue(s) /\ Provable(s, p)
          /\ d \in DayOf
      BY <1>1, <2>2 DEF SavePlan, HistoryType, TableType, ShownInv, SnapsTrue, HoldsDay
    <3>2. /\ plan'[d].bound = MinVisible(s, p)
          /\ \A e \in DayOf \ {d} : plan'[e] = plan[e]
          /\ expendable' = expendable \cup Beyond(s, p)
          /\ summed' = summed \cup Summed(s, p)
      BY <1>1, <2>2, <3>1 DEF SavePlan, TableType
    <3> HIDE DEF s, d
    <3> SUFFICES ASSUME NEW e \in DayOf, NEW n \in 1..plan'[e].bound - 1
                 PROVE  Covered(n)'
      BY DEF PlanCovers
    <3>3. CASE e = d
      <4>1. Covered(n) \/ n \in Beyond(s, p) \cup Summed(s, p)
        BY <3>1, <3>2, <3>3, SavedPlanCovers
      <4> QED
        BY <1>2, <3>2, <4>1 DEF Covered
    <3>4. CASE e # d
      BY <1>2, <3>2, <3>4 DEF ShownInv, PlanCovers
    <3> QED
      BY <3>3, <3>4
  <2> QED
    BY <2>1, <2>2, WhoChanges
<1>5. OnlyExpendableHidden'
  <2> SUFFICES ASSUME NEW n \in 1..minSeq' - 1 PROVE Covered(n)'
    BY DEF OnlyExpendableHidden, Covered
  <2>1. CASE minSeq' = minSeq
    BY <1>2, <2>1 DEF ShownInv, OnlyExpendableHidden, Covered
  <2>2. ASSUME NEW d \in DayOf, minSeq' = Higher(minSeq, plan[d].bound)
        PROVE  Covered(n)'
    <3>1. n \in 1..minSeq - 1 \/ n \in 1..plan[d].bound - 1
      BY <2>2 DEF Higher
    <3>2. Covered(n)
      BY <3>1 DEF ShownInv, OnlyExpendableHidden, PlanCovers, Covered
    <3> QED
      BY <1>2, <3>2
  <2>3. ASSUME NEW w \in Workers, ApplyPrefix(w)
        PROVE  Covered(n)'
    <3>1. mine[w].day \in DayOf /\ minSeq' = Higher(minSeq, plan[mine[w].day].bound)
      BY <2>3 DEF ApplyPrefix, HoldsDay
    <3> QED
      BY <2>2, <3>1
  <2>4. ASSUME NEW d \in DayOf, ApplyLate(d)
        PROVE  Covered(n)'
    BY <2>1, <2>2, <2>4 DEF ApplyLate
  <2> QED
    BY <2>1, <2>3, <2>4, WhoChanges
<1>6. SnapsTrue'
  <2> SUFFICES ASSUME NEW w \in Workers, at'[w] = "save" PROVE SnapTrue(snap[w])'
    BY DEF SnapsTrue
  <2>1. CASE at[w] = "save" /\ snap'[w] = snap[w]
    <3>1. SnapTrue(snap[w])
      BY <2>1 DEF ShownInv, SnapsTrue
    <3> QED
      BY <1>2, <2>1, <3>1 DEF SnapTrue
  <2>2. ASSUME NEW p \in Policies, Snapshot(w, p)
        PROVE  SnapTrue(snap[w])'
    <3>1. snap'[w] = Taken(p) /\ SnapTrue(Taken(p))
      BY <1>1, <2>2, SnapshotTrue DEF Snapshot, HistoryType
    <3> QED
      BY <1>2, <3>1 DEF SnapTrue
  <2> QED
    BY <2>1, <2>2, WhoHolds
<1> QED
  BY <1>3, <1>4, <1>5, <1>6 DEF ShownInv

LEMMA Shown ==
  ASSUME TimesInOrder
  PROVE  Spec => []ShownInv
<1>1. Init => ShownInv
  BY DEF Init, ShownInv, OldClosed, PlanCovers, OnlyExpendableHidden, SnapsTrue, NoPlan
<1>2. (TypeOK /\ LinkInv) /\ ShownInv /\ [Next]_vars => ShownInv'
  BY ShownStep DEF LinkInv
<1> QED
  BY <1>1, <1>2, Linked, PTL DEF Spec

\* Where send times grow with the sequence numbers, OpenIM hides no message that was
\* shown except one that is beyond both limits of the policy by which its plan was
\* saved, or that came with the summary of the plan's snapshot, which is only known
\* to be beyond the quota of that policy and older than the window the snapshot was
\* asked for.  Policies and windows may change and fail to be read at any time.
THEOREM NothingElseIsHidden ==
  ASSUME TimesInOrder
  PROVE  Spec => []OnlyExpendableHidden
<1>1. ShownInv => OnlyExpendableHidden
  BY DEF ShownInv
<1> QED
  BY <1>1, Shown, PTL

SummedBeyond == summed \subseteq expendable

\* With one window for ever, a summary is cut by the window that the plan is saved by.
LEMMA SummedStep ==
  ASSUME Windows = {DefaultWindow}, TypeOK, ShownInv, SummedBeyond, [Next]_vars
  PROVE  SummedBeyond'
<1>1. CASE summed' = summed
  BY <1>1, WhoChanges DEF SummedBeyond
<1>2. ASSUME NEW w \in Workers, NEW p \in Policies, SavePlan(w, p)
      PROVE  SummedBeyond'
  <2> DEFINE s == snap[w]
  <2>1. /\ s \in Snapshots /\ SnapTrue(s)
        /\ expendable' = expendable \cup Beyond(s, p)
        /\ summed' = summed \cup Summed(s, p)
    BY <1>2, TypeParts DEF SavePlan, HistoryType, ShownInv, SnapsTrue
  <2>2. s.cut = p.window
    BY <2>1 DEF Snapshots, Policies
  <2>3. s.over <= s.mark /\ s.over \in Nat /\ s.mark \in Nat
    BY <2>1, Numbers DEF SnapTrue, Snapshots
  <2> HIDE DEF s
  <2>4. Summed(s, p) \subseteq Beyond(s, p)
    BY <2>2, <2>3 DEF Summed, Beyond
  <2> QED
    BY <2>1, <2>4 DEF SummedBeyond
<1> QED
  BY <1>1, <1>2, WhoChanges

\* What retention_visibility.go:15-16 claims holds where nothing moves that breaks
\* it: with one window that never changes, and send times that grow with
\* the sequence numbers, the bound never advances across a message that is shown and
\* that the policy by which the plan was saved keeps, whatever becomes of the quota.
THEOREM NothingKeptIsCrossed ==
  ASSUME TimesInOrder, Windows = {DefaultWindow}
  PROVE  Spec => []NoKeptMessageCrossed
<1>1. Init => SummedBeyond
  BY DEF Init, SummedBeyond
<1>2. (TypeOK /\ LinkInv) /\ ShownInv /\ SummedBeyond /\ [Next]_vars => SummedBeyond'
  BY SummedStep
<1>3. TypeOK /\ ShownInv /\ SummedBeyond => NoKeptMessageCrossed
  <2> SUFFICES ASSUME TypeOK, ShownInv, SummedBeyond, NEW n \in Visible, n < minSeq
               PROVE  n \in expendable
    BY DEF NoKeptMessageCrossed
  <2>1. n \in 1..minSeq - 1
    BY Numbers
  <2> QED
    BY <2>1 DEF ShownInv, OnlyExpendableHidden, SummedBeyond, Visible
<1> QED
  BY <1>1, <1>2, <1>3, Linked, Shown, PTL DEF Spec
=============================================================================
