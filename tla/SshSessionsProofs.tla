-------------------------- MODULE SshSessionsProofs --------------------------
(***************************************************************************)
(* What the pool of connections guarantees for every set of callers and    *)
(* keys and every bound.  A resource lives through: not made, in the pool, *)
(* disposed of; the invariant ties that life to where its maker and its    *)
(* holder stand.                                                           *)
(*                                                                         *)
(* The sessions are callers of the pool: every step of theirs is a step of *)
(* the pool or leaves it alone, so that what holds of the pool holds under *)
(* them.  On top of it, the registry of connections and the sessions of    *)
(* the manager agree, whatever ends a session and whenever it does.        *)
(***************************************************************************)
EXTENDS SshSessions, FiniteSetTheorems, TLAPS

-----------------------------------------------------------------------------
(* The pool by itself                                                      *)

Unmade == {"none", "cleaning", "creating"}

\* The life of a resource.
Life(r) ==
  /\ disposed[r] \in {0, 1}
  /\ r \in entries => disposed[r] = 0 /\ at[r] \in {"held", "released"}
                      /\ r \notin refused
  /\ r \in idle => r \in entries
  /\ at[r] \in Unmade => disposed[r] = 0
  /\ r \in refused => at[r] \notin {"none", "cleaning"}
                      /\ (at[r] = "creating" => r \in outdated)

\* A lease is on something that was made and is not there to be taken.
Hold(c) ==
  /\ at[c] = "held" <=> lease[c] # None
  /\ lease[c] # None => /\ lease[c] \notin idle
                        /\ lease[c] \in entries \/ disposed[lease[c]] = 1
                        /\ at[lease[c]] \in {"held", "released"}

Apart(c, d) == lease[c] # None /\ c # d => lease[c] # lease[d]

PoolInv ==
  /\ PoolTypeOK
  /\ \A c \in Callers : Life(c) /\ Hold(c)
  /\ \A c, d \in Callers : Apart(c, d)
  /\ IdleBounded

LEMMA PoolInitInv == PoolInit => PoolInv
<1> SUFFICES ASSUME PoolInit PROVE PoolInv
  OBVIOUS
<1>1. PoolTypeOK
  BY DEF PoolInit, PoolTypeOK
<1>2. \A c \in Callers : Life(c) /\ Hold(c)
  BY DEF PoolInit, Life, Hold, Unmade
<1>3. \A c, d \in Callers : Apart(c, d)
  BY DEF PoolInit, Apart
<1>4. IdleBounded
  <2>1. \A k \in Keys : IdleOf(k) = {}
    BY DEF PoolInit, IdleOf
  <2> QED
    BY <2>1, FS_EmptySet, PoolAssumption DEF IdleBounded
<1> QED
  BY <1>1, <1>2, <1>3, <1>4 DEF PoolInv

\* What is taken out of the idle ones only makes them fewer.
LEMMA FewerIdle ==
  ASSUME PoolTypeOK, IdleBounded, keyOf' = keyOf, idle' \subseteq idle
  PROVE  IdleBounded'
<1> SUFFICES ASSUME NEW k \in Keys PROVE Cardinality(IdleOf(k)') <= MaxIdle
  BY DEF IdleBounded
<1>1. IdleOf(k) \subseteq Callers /\ IdleOf(k)' \in SUBSET IdleOf(k)
  BY DEF PoolTypeOK, IdleOf
<1>2. IsFiniteSet(IdleOf(k))
  BY <1>1, FS_Subset, PoolAssumption
<1>3. Cardinality(IdleOf(k)') <= Cardinality(IdleOf(k))
  BY <1>1, <1>2, FS_Subset
<1>4. Cardinality(IdleOf(k)) <= MaxIdle
  BY DEF IdleBounded
<1>5. Cardinality(IdleOf(k)) \in Nat /\ Cardinality(IdleOf(k)') \in Nat
  BY <1>1, <1>2, FS_CardinalityType, FS_Subset
<1> QED
  BY <1>3, <1>4, <1>5, PoolAssumption

\* A release keeps as many idle ones of its key as the pool may have.
LEMMA TrimBounds ==
  ASSUME PoolTypeOK, IdleBounded, NEW r \in Callers, Trim(r), keyOf' = keyOf
  PROVE  IdleBounded'
<1> DEFINE same == IdleOf(keyOf[r]) \cup {r}
<1>1. PICK over \in SUBSET same :
        /\ IF Cardinality(same) <= MaxIdle THEN over = {}
           ELSE Cardinality(same \ over) = MaxIdle
        /\ idle' = (idle \cup {r}) \ over
  BY DEF Trim
<1> SUFFICES ASSUME NEW k \in Keys PROVE Cardinality(IdleOf(k)') <= MaxIdle
  BY DEF IdleBounded
<1>2. CASE k = keyOf[r]
  <2>1. IdleOf(k)' = same \ over
    BY <1>1, <1>2 DEF IdleOf, PoolTypeOK
  <2>2. CASE Cardinality(same) <= MaxIdle
    <3>1. same \ over = same
      BY <1>1, <2>2
    <3> QED
      BY <2>1, <2>2, <3>1
  <2>3. CASE ~(Cardinality(same) <= MaxIdle)
    BY <1>1, <2>1, <2>3, PoolAssumption
  <2> QED
    BY <2>2, <2>3
<1>3. CASE k # keyOf[r]
  <2>1. IdleOf(k)' = IdleOf(k)
    BY <1>1, <1>3 DEF IdleOf, PoolTypeOK
  <2> QED
    BY <2>1 DEF IdleBounded
<1> QED
  BY <1>2, <1>3

\* A cleanup takes idle resources out of the pool.
LEMMA CleanupKeeps ==
  ASSUME PoolInv, NEW old \in SUBSET idle, Cleanup(old),
         UNCHANGED <<keyOf, at, outdated, lease, dead, refused>>
  PROVE  PoolInv'
<1> DEFINE gone == old \cup (idle \cap dead)
<1>1. /\ entries' = entries \ gone /\ idle' = idle \ gone /\ gone \subseteq idle
      /\ disposed' = [r \in Callers |->
                        disposed[r] + IF r \in gone \cap entries THEN 1 ELSE 0]
  BY DEF Cleanup, Remove
<1>2. PoolTypeOK'
  BY <1>1 DEF PoolInv, PoolTypeOK
<1>3. ASSUME NEW r \in Callers PROVE Life(r)'
  BY <1>1, <1>3 DEF PoolInv, PoolTypeOK, Life, Unmade
<1>4. ASSUME NEW c \in Callers PROVE Hold(c)'
  <2>1. Hold(c) /\ (lease[c] # None => lease[c] \in Callers)
    BY <1>4 DEF PoolInv, PoolTypeOK
  <2> QED
    BY <1>1, <1>4, <2>1 DEF PoolInv, PoolTypeOK, Hold
<1>5. \A c, d \in Callers : Apart(c, d)'
  BY DEF PoolInv, Apart
<1>6. IdleBounded'
  BY <1>1, FewerIdle DEF PoolInv
<1> QED
  BY <1>2, <1>3, <1>4, <1>5, <1>6 DEF PoolInv

LEMMA AcquireBeginsKeeps ==
  ASSUME PoolInv, NEW c \in Callers, AcquireBegins(c)
  PROVE  PoolInv'
<1>1. PICK old \in SUBSET idle : Cleanup(old)
  BY DEF AcquireBegins
<1> DEFINE gone == old \cup (idle \cap dead)
<1>2. /\ entries' = entries \ gone /\ idle' = idle \ gone /\ gone \subseteq idle
      /\ disposed' = [r \in Callers |->
                        disposed[r] + IF r \in gone \cap entries THEN 1 ELSE 0]
  BY <1>1 DEF Cleanup, Remove
<1>3. /\ at[c] = "none" /\ at' = [at EXCEPT ![c] = "cleaning"]
      /\ UNCHANGED <<keyOf, outdated, lease, dead, refused>>
  BY DEF AcquireBegins
<1>4. PoolTypeOK'
  BY <1>2, <1>3 DEF PoolInv, PoolTypeOK
<1>5. ASSUME NEW r \in Callers PROVE Life(r)'
  BY <1>2, <1>3, <1>5 DEF PoolInv, PoolTypeOK, Life, Unmade
<1>6. ASSUME NEW d \in Callers PROVE Hold(d)'
  <2>1. Hold(d) /\ (lease[d] # None => lease[d] \in Callers)
    BY <1>6 DEF PoolInv, PoolTypeOK
  <2> QED
    BY <1>2, <1>3, <1>6, <2>1 DEF PoolInv, PoolTypeOK, Hold
<1>7. \A d, e \in Callers : Apart(d, e)'
  BY <1>3 DEF PoolInv, Apart
<1>8. IdleBounded'
  BY <1>2, <1>3, FewerIdle DEF PoolInv
<1> QED
  BY <1>4, <1>5, <1>6, <1>7, <1>8 DEF PoolInv

LEMMA TakeIdleKeeps ==
  ASSUME PoolInv, NEW c \in Callers, TakeIdle(c)
  PROVE  PoolInv'
<1>1. PICK r \in Ready(c) : lease' = [lease EXCEPT ![c] = r] /\ idle' = idle \ {r}
  BY DEF TakeIdle
<1>2. r \in Callers /\ r \in idle /\ r \in entries /\ r # None
  BY <1>1, PoolAssumption DEF Ready, IdleOf, PoolInv, PoolTypeOK, Life
<1>3. /\ at[c] = "cleaning" /\ at' = [at EXCEPT ![c] = "held"]
      /\ UNCHANGED <<keyOf, outdated, entries, dead, disposed, refused>>
  BY DEF TakeIdle
<1>4. PoolTypeOK'
  BY <1>1, <1>2, <1>3 DEF PoolInv, PoolTypeOK
<1>5. ASSUME NEW q \in Callers PROVE Life(q)'
  BY <1>1, <1>3, <1>5 DEF PoolInv, PoolTypeOK, Life, Unmade
<1>6. ASSUME NEW d \in Callers PROVE Hold(d)'
  <2>1. Hold(d) /\ Life(r) /\ (lease[d] # None => lease[d] \in Callers)
    BY <1>2, <1>6 DEF PoolInv, PoolTypeOK
  <2>2. CASE d = c
    BY <1>1, <1>2, <1>3, <2>1, <2>2 DEF PoolInv, PoolTypeOK, Hold, Life
  <2>3. CASE d # c
    BY <1>1, <1>2, <1>3, <1>6, <2>1, <2>3 DEF PoolInv, PoolTypeOK, Hold
  <2> QED
    BY <2>2, <2>3
<1>7. ASSUME NEW d \in Callers, NEW e \in Callers PROVE Apart(d, e)'
  <2>1. lease[d] # r /\ lease[e] # r
    BY <1>2, <1>7 DEF PoolInv, Hold
  <2> QED
    BY <1>1, <1>2, <1>7, <2>1 DEF PoolInv, PoolTypeOK, Apart
<1>8. IdleBounded'
  BY <1>1, <1>3, FewerIdle DEF PoolInv
<1> QED
  BY <1>4, <1>5, <1>6, <1>7, <1>8 DEF PoolInv

\* A caller that made nothing goes on to make it, or fails.
LEMMA CreateBeginsKeeps ==
  ASSUME PoolInv, NEW c \in Callers, CreateBegins(c) \/ CreateFails(c)
  PROVE  PoolInv'
<1>1. /\ \/ at[c] = "cleaning" /\ at' = [at EXCEPT ![c] = "creating"]
              /\ outdated' = outdated \ {c}
         \/ at[c] = "creating" /\ at' = [at EXCEPT ![c] = "failed"]
              /\ outdated' = outdated
      /\ UNCHANGED <<keyOf, lease, entries, idle, dead, disposed, refused>>
  BY DEF CreateBegins, CreateFails
<1>2. PoolTypeOK'
  BY <1>1 DEF PoolInv, PoolTypeOK
<1>3. ASSUME NEW r \in Callers PROVE Life(r)'
  BY <1>1, <1>3 DEF PoolInv, PoolTypeOK, Life, Unmade
<1>4. ASSUME NEW d \in Callers PROVE Hold(d)'
  <2>1. Hold(d) /\ (lease[d] # None => lease[d] \in Callers)
    BY <1>4 DEF PoolInv, PoolTypeOK
  <2> QED
    BY <1>1, <1>4, <2>1 DEF PoolInv, PoolTypeOK, Hold
<1>5. \A d, e \in Callers : Apart(d, e)'
  BY <1>1 DEF PoolInv, Apart
<1>6. IdleBounded'
  BY <1>1, FewerIdle DEF PoolInv
<1> QED
  BY <1>2, <1>3, <1>4, <1>5, <1>6 DEF PoolInv

LEMMA CreatedKeeps ==
  ASSUME PoolInv, NEW c \in Callers, Created(c)
  PROVE  PoolInv'
<1>1. at[c] = "creating" /\ UNCHANGED <<keyOf, outdated, idle, dead, refused>>
  BY DEF Created
<1>2. IdleBounded'
  BY <1>1, FewerIdle DEF PoolInv
<1>3. CASE c \in outdated
  <2>1. /\ at' = [at EXCEPT ![c] = "failed"]
        /\ disposed' = [disposed EXCEPT ![c] = @ + 1]
        /\ UNCHANGED <<lease, entries>>
    BY <1>3 DEF Created
  <2>2. PoolTypeOK'
    BY <1>1, <2>1 DEF PoolInv, PoolTypeOK
  <2>3. ASSUME NEW r \in Callers PROVE Life(r)'
    BY <1>1, <2>1, <2>3 DEF PoolInv, PoolTypeOK, Life, Unmade
  <2>4. ASSUME NEW d \in Callers PROVE Hold(d)'
    <3>1. Hold(d) /\ (lease[d] # None => lease[d] \in Callers)
      BY <2>4 DEF PoolInv, PoolTypeOK
    <3> QED
      BY <1>1, <2>1, <2>4, <3>1 DEF PoolInv, PoolTypeOK, Hold
  <2>5. \A d, e \in Callers : Apart(d, e)'
    BY <2>1 DEF PoolInv, Apart
  <2> QED
    BY <1>2, <2>2, <2>3, <2>4, <2>5 DEF PoolInv
<1>4. CASE c \notin outdated
  <2>1. /\ at' = [at EXCEPT ![c] = "held"]
        /\ lease' = [lease EXCEPT ![c] = c]
        /\ entries' = entries \cup {c}
        /\ UNCHANGED disposed
    BY <1>4 DEF Created
  <2>2. PoolTypeOK'
    BY <1>1, <2>1 DEF PoolInv, PoolTypeOK
  <2>3. ASSUME NEW r \in Callers PROVE Life(r)'
    BY <1>1, <1>4, <2>1, <2>3 DEF PoolInv, PoolTypeOK, Life, Unmade
  <2>4. ASSUME NEW d \in Callers PROVE Hold(d)'
    <3>1. Hold(d) /\ Life(c) /\ (lease[d] # None => lease[d] \in Callers)
      BY <2>4 DEF PoolInv, PoolTypeOK
    <3>2. CASE d = c
      BY <1>1, <2>1, <3>1, <3>2, PoolAssumption DEF PoolInv, PoolTypeOK, Hold,
         Life
    <3>3. CASE d # c
      BY <1>1, <2>1, <2>4, <3>1, <3>3 DEF PoolInv, PoolTypeOK, Hold
    <3> QED
      BY <3>2, <3>3
  <2>5. ASSUME NEW d \in Callers, NEW e \in Callers PROVE Apart(d, e)'
    <3>1. lease[d] # c /\ lease[e] # c
      BY <1>1, <2>5, PoolAssumption DEF PoolInv, Hold
    <3> QED
      BY <2>1, <2>5, <3>1 DEF PoolInv, PoolTypeOK, Apart
  <2> QED
    BY <1>2, <2>2, <2>3, <2>4, <2>5 DEF PoolInv
<1> QED
  BY <1>3, <1>4

LEMMA ReleaseKeeps ==
  ASSUME PoolInv, NEW c \in Callers, Release(c)
  PROVE  PoolInv'
<1> DEFINE r == lease[c]
<1>1. /\ at[c] = "held" /\ at' = [at EXCEPT ![c] = "released"]
      /\ lease' = [lease EXCEPT ![c] = None]
      /\ UNCHANGED <<keyOf, outdated, dead, refused>>
  BY DEF Release
<1>2. r \in Callers /\ r # None /\ r \notin idle
  BY <1>1 DEF PoolInv, PoolTypeOK, Hold
<1>3. \A d \in Callers \ {c} : lease[d] # r
  BY <1>2 DEF PoolInv, Apart
<1>4. PICK gone \in SUBSET (idle \cup {r}) :
        /\ Remove(gone)
        /\ \/ idle' \subseteq idle \ gone
           \/ r \in entries /\ idle' = (idle \cup {r}) \ gone
  <2>1. CASE r \notin entries /\ UNCHANGED <<idle, entries, disposed>>
    <3>1. disposed = [q \in Callers |->
                        disposed[q] + IF q \in {} \cap entries THEN 1 ELSE 0]
      BY DEF PoolInv, PoolTypeOK
    <3>2. Remove({})
      BY <2>1, <3>1 DEF Remove
    <3>3. {} \in SUBSET (idle \cup {r}) /\ idle' \subseteq idle \ {}
      BY <2>1
    <3> QED
      BY <3>2, <3>3
  <2>2. CASE r \in entries \cap dead /\ Remove({r}) /\ UNCHANGED idle
    <3>1. {r} \in SUBSET (idle \cup {r}) /\ idle' \subseteq idle \ {r}
      BY <1>2, <2>2
    <3> QED
      BY <2>2, <3>1
  <2>3. CASE r \in entries \ dead /\ Trim(r)
    <3>1. IdleOf(keyOf[r]) \subseteq idle
      BY DEF IdleOf
    <3>2. PICK over \in SUBSET (IdleOf(keyOf[r]) \cup {r}) :
            Remove(over) /\ idle' = (idle \cup {r}) \ over
      BY <2>3 DEF Trim
    <3>3. over \in SUBSET (idle \cup {r})
      BY <3>1
    <3> QED
      BY <2>3, <3>2, <3>3
  <2> QED
    BY <2>1, <2>2, <2>3 DEF Release
<1>a. /\ entries' = entries \ gone
      /\ disposed' = [q \in Callers |->
                        disposed[q] + IF q \in gone \cap entries THEN 1 ELSE 0]
      /\ \/ idle' \subseteq idle \ gone
         \/ r \in entries /\ idle' = (idle \cup {r}) \ gone
  BY <1>4 DEF Remove
<1>5. PoolTypeOK'
  BY <1>1, <1>2, <1>a DEF PoolInv, PoolTypeOK
<1>6. ASSUME NEW q \in Callers PROVE Life(q)'
  <2>1. Life(q)
    BY <1>6 DEF PoolInv
  <2>2. q \in entries' => q \in entries
    BY <1>a
  <2>3. q \in idle' => q \in entries'
    BY <1>a, <2>1 DEF Life
  <2>4. /\ disposed'[q] \in {0, 1}
        /\ disposed'[q] = disposed[q] \/ (q \in entries /\ q \notin entries')
    BY <1>a, <1>6, <2>1 DEF PoolInv, PoolTypeOK, Life
  <2>5. at'[q] = at[q] \/ (at[q] = "held" /\ at'[q] = "released")
    BY <1>1, <1>6 DEF PoolInv, PoolTypeOK
  <2> QED
    BY <1>1, <2>1, <2>2, <2>3, <2>4, <2>5 DEF Life, Unmade
<1>7. ASSUME NEW d \in Callers PROVE Hold(d)'
  <2>1. CASE d = c
    BY <1>1, <2>1 DEF PoolInv, PoolTypeOK, Hold
  <2>2. CASE d # c
    <3>1. Hold(d) /\ lease'[d] = lease[d] /\ at'[d] = at[d] /\ lease[d] # r
      BY <1>1, <1>3, <1>7, <2>2 DEF PoolInv, PoolTypeOK
    <3>2. ASSUME lease[d] # None
          PROVE  /\ lease[d] \notin idle'
                 /\ lease[d] \in entries' \/ disposed'[lease[d]] = 1
                 /\ at'[lease[d]] \in {"held", "released"}
      <4>1. lease[d] \in Callers /\ lease[d] \notin idle /\ lease[d] \notin gone
        BY <1>a, <1>7, <3>1, <3>2 DEF PoolInv, PoolTypeOK, Hold
      <4>2. lease[d] \notin idle'
        BY <1>a, <3>1, <4>1
      <4>3. disposed'[lease[d]] = disposed[lease[d]]
        BY <1>a, <4>1 DEF PoolInv, PoolTypeOK
      <4> QED
        BY <1>1, <1>a, <3>1, <3>2, <4>1, <4>2, <4>3 DEF PoolInv, PoolTypeOK,
           Hold
    <3> QED
      BY <3>1, <3>2 DEF Hold
  <2> QED
    BY <2>1, <2>2
<1>8. \A d, e \in Callers : Apart(d, e)'
  BY <1>1 DEF PoolInv, PoolTypeOK, Apart
<1>9. IdleBounded'
  <2>1. CASE idle' = idle
    BY <1>1, <2>1, FewerIdle DEF PoolInv
  <2>2. CASE Trim(r)
    BY <1>1, <1>2, <2>2, TrimBounds DEF PoolInv
  <2> QED
    BY <2>1, <2>2 DEF Release
<1> QED
  BY <1>5, <1>6, <1>7, <1>8, <1>9 DEF PoolInv

LEMMA InvalidateKeeps ==
  ASSUME PoolInv, NEW keys \in SUBSET Keys, NEW back \in SUBSET Holding,
         Invalidate(keys, back)
  PROVE  PoolInv'
<1> DEFINE gone == {r \in entries : keyOf[r] \in keys}
           vain == {c \in Callers : at[c] = "creating"}
           vainKey == {c \in Callers : at[c] = "creating" /\ keyOf[c] \in keys}
<1>1. /\ entries' = entries \ gone
      /\ disposed' = [r \in Callers |->
                        disposed[r] + IF r \in gone \cap entries THEN 1 ELSE 0]
      /\ idle' = idle \ gone
      /\ outdated' = outdated \cup vain
      /\ refused' = refused \cup gone \cup vainKey
      /\ at' = [c \in Callers |-> IF c \in back THEN "released" ELSE at[c]]
      /\ lease' = [c \in Callers |-> IF c \in back THEN None ELSE lease[c]]
      /\ UNCHANGED <<keyOf, dead>>
  BY DEF Invalidate, Remove
<1>2. \A c \in back : c \in Callers /\ at[c] = "held"
  BY DEF Holding
<1>3. PoolTypeOK'
  BY <1>1 DEF PoolInv, PoolTypeOK
<1>4. ASSUME NEW r \in Callers PROVE Life(r)'
  <2>1. Life(r)
    BY <1>4 DEF PoolInv
  <2>2. at'[r] = at[r] \/ (at[r] = "held" /\ at'[r] = "released")
    BY <1>1, <1>2, <1>4
  <2>3. /\ r \in entries' => r \in entries /\ r \notin gone /\ disposed'[r] = disposed[r]
        /\ r \notin entries => disposed'[r] = disposed[r]
        /\ disposed'[r] \in {0, 1}
    BY <1>1, <1>4, <2>1 DEF PoolInv, PoolTypeOK, Life
  <2>4. r \in refused' => r \in refused \/ r \in gone
                          \/ (at[r] = "creating" /\ r \in outdated')
    BY <1>1, <1>4
  <2>5. r \in gone => r \in entries /\ r \notin entries'
    BY <1>1
  <2>6. r \in refused' /\ r \in entries' => FALSE
    BY <2>1, <2>3, <2>4, <2>5 DEF Life
  <2>7. r \in idle' => r \in entries'
    BY <1>1, <2>1 DEF Life
  <2>8. outdated \subseteq outdated'
    BY <1>1
  <2> QED
    BY <2>1, <2>2, <2>3, <2>4, <2>5, <2>6, <2>7, <2>8 DEF Life, Unmade
<1>5. ASSUME NEW c \in Callers PROVE Hold(c)'
  <2>1. CASE c \in back
    BY <1>1, <1>5, <2>1 DEF Hold
  <2>2. CASE c \notin back
    <3>1. Hold(c) /\ lease'[c] = lease[c] /\ at'[c] = at[c]
      BY <1>1, <1>5, <2>2 DEF PoolInv
    <3>2. ASSUME lease[c] # None
          PROVE  /\ lease[c] \notin idle'
                 /\ lease[c] \in entries' \/ disposed'[lease[c]] = 1
                 /\ at'[lease[c]] \in {"held", "released"}
      <4>1. lease[c] \in Callers /\ Life(lease[c])
        BY <1>5, <3>2 DEF PoolInv, PoolTypeOK
      <4>2. at'[lease[c]] \in {"held", "released"}
        BY <1>1, <3>1, <3>2, <4>1 DEF Hold
      <4>3. lease[c] \notin idle'
        BY <1>1, <3>1, <3>2 DEF Hold
      <4>4. lease[c] \in entries' \/ disposed'[lease[c]] = 1
        BY <1>1, <3>1, <3>2, <4>1 DEF PoolInv, PoolTypeOK, Hold, Life
      <4> QED
        BY <4>2, <4>3, <4>4
    <3> QED
      BY <3>1, <3>2 DEF Hold
  <2> QED
    BY <2>1, <2>2
<1>6. ASSUME NEW c \in Callers, NEW d \in Callers PROVE Apart(c, d)'
  BY <1>1, <1>6 DEF PoolInv, Apart
<1>7. IdleBounded'
  BY <1>1, FewerIdle DEF PoolInv
<1> QED
  BY <1>3, <1>4, <1>5, <1>6, <1>7 DEF PoolInv

LEMMA DiesKeeps ==
  ASSUME PoolInv, NEW r \in Callers, Dies(r)
  PROVE  PoolInv'
<1>1. /\ dead' = dead \cup {r}
      /\ UNCHANGED <<keyOf, at, outdated, lease, entries, idle, disposed, refused>>
  BY DEF Dies
<1>2. PoolTypeOK' /\ IdleBounded'
  BY <1>1, FewerIdle DEF PoolInv, PoolTypeOK
<1>3. \A c \in Callers : Life(c)' /\ Hold(c)'
  BY <1>1 DEF PoolInv, Life, Hold
<1>4. \A c, d \in Callers : Apart(c, d)'
  BY <1>1 DEF PoolInv, Apart
<1> QED
  BY <1>2, <1>3, <1>4 DEF PoolInv

LEMMA PoolNextKeeps == PoolInv /\ [PoolNext]_poolVars => PoolInv'
<1> SUFFICES ASSUME PoolInv, [PoolNext]_poolVars PROVE PoolInv'
  OBVIOUS
<1>1. ASSUME NEW c \in Callers, AcquireBegins(c) PROVE PoolInv'
  BY <1>1, AcquireBeginsKeeps
<1>2. ASSUME NEW c \in Callers, TakeIdle(c) PROVE PoolInv'
  BY <1>2, TakeIdleKeeps
<1>3. ASSUME NEW c \in Callers, CreateBegins(c) \/ CreateFails(c) PROVE PoolInv'
  BY <1>3, CreateBeginsKeeps
<1>4. ASSUME NEW c \in Callers, Created(c) PROVE PoolInv'
  BY <1>4, CreatedKeeps
<1>5. ASSUME NEW c \in Callers, Release(c) PROVE PoolInv'
  BY <1>5, ReleaseKeeps
<1>6. ASSUME NEW c \in Callers, Dies(c) PROVE PoolInv'
  BY <1>6, DiesKeeps
<1>7. CASE CleansUp
  BY <1>7, CleanupKeeps DEF CleansUp
<1>8. ASSUME NEW keys \in SUBSET Keys, Invalidate(keys, {}) PROVE PoolInv'
  <2>1. {} \in SUBSET Holding
    OBVIOUS
  <2> QED
    BY <1>8, <2>1, InvalidateKeeps
<1>9. ASSUME NEW back \in SUBSET Holding, Invalidate(Keys, back) PROVE PoolInv'
  <2>1. Keys \in SUBSET Keys
    OBVIOUS
  <2> QED
    BY <1>9, <2>1, InvalidateKeeps
<1>10. CASE UNCHANGED poolVars
  <2>1. UNCHANGED <<keyOf, at, outdated, lease, entries, idle, dead, disposed,
                    refused>>
    BY <1>10 DEF poolVars
  <2>2. PoolTypeOK' /\ IdleBounded'
    BY <2>1, FewerIdle DEF PoolInv, PoolTypeOK
  <2>3. \A c \in Callers : Life(c)' /\ Hold(c)'
    BY <2>1 DEF PoolInv, Life, Hold
  <2>4. \A c, d \in Callers : Apart(c, d)'
    BY <2>1 DEF PoolInv, Apart
  <2> QED
    BY <2>2, <2>3, <2>4 DEF PoolInv
<1> QED
  BY <1>1, <1>2, <1>3, <1>4, <1>5, <1>6, <1>7, <1>8, <1>9, <1>10 DEF PoolNext

LEMMA PoolInvSafe == PoolInv => PoolSafe
<1> SUFFICES ASSUME PoolInv PROVE PoolSafe
  OBVIOUS
<1>1. LeaseExclusive
  BY DEF PoolInv, Hold, Apart, LeaseExclusive
<1>2. DisposedOnce
  BY PoolAssumption DEF PoolInv, PoolTypeOK, Life, Hold, DisposedOnce
<1>3. NothingOutdated
  BY DEF PoolInv, PoolTypeOK, Life, NothingOutdated
<1> QED
  BY <1>1, <1>2, <1>3 DEF PoolInv, PoolSafe

\* In every run of the pool (acquire, release, invalidate, cleanup) a resource
\* has one holder at most, is disposed of once, is not reused once invalidated
\* or while it was made, and at most maxIdlePerKey of a key are idle.
THEOREM PoolIsSafe == PoolSpec => [](PoolTypeOK /\ PoolSafe)
<1>1. PoolInv => PoolTypeOK /\ PoolSafe
  BY PoolInvSafe DEF PoolInv
<1> QED
  BY <1>1, PoolInitInv, PoolNextKeeps, PTL DEF PoolSpec


-----------------------------------------------------------------------------
(* The pool under the sessions                                             *)

LEMMA GivesBackIsPool ==
  ASSUME NEW s \in Callers, GivesBack(s)
  PROVE  [PoolNext]_poolVars
BY DEF GivesBack, PoolNext

LEMMA StepIsPool == [Next]_vars => [PoolNext]_poolVars
<1> SUFFICES ASSUME [Next]_vars PROVE [PoolNext]_poolVars
  OBVIOUS
<1>1. ASSUME NEW s \in Callers,
             \/ Begin(s) \/ Reserved(s) \/ Recorded(s) \/ CloseEnds(s)
             \/ CloseErrs(s)
      PROVE  UNCHANGED poolVars
  BY <1>1 DEF Begin, Reserved, Recorded, CloseEnds, CloseErrs
<1>2. ASSUME NEW s \in Callers, Loaded(s) \/ Connects(s) \/ HasTransport(s)
      PROVE  PoolNext
  BY <1>2 DEF Loaded, Connects, HasTransport, PoolNext
<1>3. ASSUME NEW s \in Callers, ConnectFails(s)
      PROVE  [PoolNext]_poolVars
  BY <1>3, GivesBackIsPool DEF ConnectFails, PoolNext
<1>4. ASSUME NEW s \in Callers, ShellOpens(s)
      PROVE  UNCHANGED poolVars
  BY <1>4 DEF ShellOpens
<1>5. ASSUME NEW s \in Callers, RecordFails(s) \/ UserCloses(s)
      PROVE  [PoolNext]_poolVars
  BY <1>5, GivesBackIsPool DEF RecordFails, UserCloses, Close
<1>6. ASSUME NEW s \in Callers, RequestClose(s)
      PROVE  [PoolNext]_poolVars
  BY <1>6, GivesBackIsPool DEF RequestClose, Close
<1>7. ASSUME NEW s \in Callers, TransportDies(s)
      PROVE  PoolNext
  BY <1>7 DEF TransportDies, PoolNext
<1>8. ASSUME NEW u \in Users, Revoke(u)
      PROVE  PoolNext
  <2>1. PICK back \in SUBSET Holding : Invalidate(Keys, back)
    BY <1>8 DEF Revoke, Holding
  <2> QED
    BY <2>1 DEF PoolNext
<1>9. ASSUME NEW k \in Keys, ConnectionChanges(k)
      PROVE  PoolNext
  <2>1. {k} \in SUBSET Keys /\ Invalidate({k}, {})
    BY <1>9 DEF ConnectionChanges
  <2> QED
    BY <2>1 DEF PoolNext
<1>10. CASE PoolCleansUp
  BY <1>10 DEF PoolCleansUp, PoolNext
<1>11. CASE UNCHANGED vars
  BY <1>11 DEF vars
<1> QED
  BY <1>1, <1>2, <1>3, <1>4, <1>5, <1>6, <1>7, <1>8, <1>9, <1>10, <1>11 DEF Next

\* The sessions of the manager, with the routes and events that end them, use
\* the pool as its own specification says: nothing they do is not an acquire,
\* a release or an invalidation.
THEOREM SessionsUseThePool == Spec => PoolSpec
<1>1. Init => PoolInit
  BY DEF Init
<1> QED
  BY <1>1, StepIsPool, PTL DEF Spec, PoolSpec

\* No session ever runs on the transport of another, none is left with a
\* transport of a configuration or user that was revoked before it was made.
THEOREM TransportsSafe == Spec => [](PoolTypeOK /\ PoolSafe)
BY SessionsUseThePool, PoolIsSafe, PTL

-----------------------------------------------------------------------------
(* The registry and the manager                                            *)

\* Where a creation stands says what there may be of its entry and session.
SessionInv(s) ==
  /\ create[s] \in {"new", "reserving"} => entry[s] = "none" /\ s \notin early
  /\ create[s] \in {"new", "reserving", "loading", "pooling", "opening"}
       => sess[s] = "none"
  /\ create[s] \in {"loading", "pooling", "opening"}
       => entry[s] = "reserved" \/ (entry[s] = "none" /\ s \in early)
  /\ create[s] \in {"recording", "done"} => sess[s] # "none"
  /\ sess[s] = "open" => \/ entry[s] = "active"
                         \/ entry[s] = "none"
                              /\ (s \in early \/ create[s] = "failed")
  /\ sess[s] = "gone" => entry[s] = "none"
  /\ create[s] = "failed" /\ sess[s] = "none" => entry[s] = "none"

SessionType ==
  /\ owner \in [Callers -> Users]
  /\ create \in [Callers -> {"new", "reserving", "loading", "pooling", "opening",
                             "recording", "done", "failed"}]
  /\ sess \in [Callers -> {"none", "open", "closing", "stuck", "gone"}]
  /\ entry \in [Callers -> {"none", "reserved", "active", "closing"}]
  /\ early \subseteq Callers

SessionsInv ==
  /\ SessionType
  /\ \A s \in Callers : SessionInv(s)
  /\ LimitHolds

\* What the limit counts does not grow unless an entry is added.
LEMMA FewerEntries ==
  ASSUME SessionType, LimitHolds, owner' = owner,
         \A s \in Callers : entry'[s] # "none" => entry[s] # "none"
  PROVE  LimitHolds'
<1> SUFFICES ASSUME NEW u \in Users PROVE Cardinality(EntriesOf(u)') <= Limit
  BY DEF LimitHolds
<1>1. /\ EntriesOf(u) \in SUBSET Callers
      /\ EntriesOf(u)' \in SUBSET EntriesOf(u)
  BY DEF EntriesOf
<1>2. IsFiniteSet(EntriesOf(u))
  BY <1>1, FS_Subset, PoolAssumption
<1>3. /\ IsFiniteSet(EntriesOf(u)')
      /\ Cardinality(EntriesOf(u)') <= Cardinality(EntriesOf(u))
  BY <1>1, <1>2, FS_Subset
<1>4. Cardinality(EntriesOf(u)) \in Nat /\ Cardinality(EntriesOf(u)') \in Nat
  BY <1>2, <1>3, FS_CardinalityType
<1>5. Cardinality(EntriesOf(u)) <= Limit
  BY DEF LimitHolds
<1> QED
  BY <1>3, <1>4, <1>5, SessionsAssumption

\* The check of the limit and the entry are one step: the count it saw is the
\* count it adds to.
LEMMA ReservedBounds ==
  ASSUME SessionType, LimitHolds, NEW s \in Callers, Reserved(s)
  PROVE  LimitHolds'
<1>1. CASE Cardinality(EntriesOf(owner[s])) >= Limit
  BY <1>1, FewerEntries DEF Reserved
<1>2. CASE ~(Cardinality(EntriesOf(owner[s])) >= Limit)
  <2>1. entry' = [entry EXCEPT ![s] = "reserved"] /\ owner' = owner
    BY <1>2 DEF Reserved
  <2> SUFFICES ASSUME NEW u \in Users PROVE Cardinality(EntriesOf(u)') <= Limit
    BY DEF LimitHolds
  <2>2. CASE u = owner[s]
    <3>1. EntriesOf(u)' = EntriesOf(u) \cup {s}
      BY <2>1, <2>2 DEF EntriesOf, SessionType
    <3>2. EntriesOf(u) \in SUBSET Callers
      BY DEF EntriesOf
    <3>3. IsFiniteSet(EntriesOf(u))
      BY <3>2, FS_Subset, PoolAssumption
    <3>4. Cardinality(EntriesOf(u)) \in Nat
      BY <3>3, FS_CardinalityType
    <3>5. Cardinality(EntriesOf(u) \cup {s}) \in
            {Cardinality(EntriesOf(u)), Cardinality(EntriesOf(u)) + 1}
      BY <3>3, FS_AddElement
    <3> QED
      BY <1>2, <2>2, <3>1, <3>4, <3>5, SessionsAssumption
  <2>3. CASE u # owner[s]
    <3>1. EntriesOf(u)' = EntriesOf(u)
      BY <2>1, <2>3 DEF EntriesOf, SessionType
    <3> QED
      BY <3>1 DEF LimitHolds
  <2> QED
    BY <2>2, <2>3
<1> QED
  BY <1>1, <1>2

LEMMA SessionsInitInv == Init => SessionsInv
<1> SUFFICES ASSUME Init PROVE SessionsInv
  OBVIOUS
<1>1. SessionType /\ \A s \in Callers : SessionInv(s)
  BY DEF Init, SessionType, SessionInv
<1>2. LimitHolds
  <2>1. \A u \in Users : EntriesOf(u) = {}
    BY DEF Init, EntriesOf
  <2> QED
    BY <2>1, FS_EmptySet, SessionsAssumption DEF LimitHolds
<1> QED
  BY <1>1, <1>2 DEF SessionsInv

\* A creation goes on, or fails.
LEMMA CreateKeeps ==
  ASSUME SessionsInv, NEW s \in Callers,
         \/ Begin(s) \/ Reserved(s) \/ Loaded(s) \/ Connects(s)
         \/ HasTransport(s) \/ ConnectFails(s) \/ ShellOpens(s)
         \/ Recorded(s) \/ RecordFails(s)
  PROVE  SessionsInv'
<1>1. CASE Begin(s)
  <2>1. SessionType'
    BY <1>1 DEF Begin, Going, SessionsInv, SessionType
  <2>2. \A q \in Callers : SessionInv(q)'
    BY <1>1 DEF Begin, Going, SessionsInv, SessionType, SessionInv
  <2>3. LimitHolds'
    BY <1>1, FewerEntries DEF Begin, SessionsInv
  <2> QED
    BY <2>1, <2>2, <2>3 DEF SessionsInv
<1>2. CASE Reserved(s)
  <2>1. SessionType'
    BY <1>2 DEF Reserved, Going, SessionsInv, SessionType
  <2>2. \A q \in Callers : SessionInv(q)'
    BY <1>2 DEF Reserved, Going, SessionsInv, SessionType, SessionInv
  <2>3. LimitHolds'
    BY <1>2, ReservedBounds DEF SessionsInv
  <2> QED
    BY <2>1, <2>2, <2>3 DEF SessionsInv
<1>3. CASE Loaded(s) \/ HasTransport(s)
  <2>1. SessionType'
    BY <1>3 DEF Loaded, HasTransport, Going, SessionsInv, SessionType
  <2>2. \A q \in Callers : SessionInv(q)'
    BY <1>3 DEF Loaded, HasTransport, Going, SessionsInv, SessionType,
       SessionInv
  <2>3. LimitHolds'
    BY <1>3, FewerEntries DEF Loaded, HasTransport, SessionsInv
  <2> QED
    BY <2>1, <2>2, <2>3 DEF SessionsInv
<1>4. CASE ConnectFails(s)
  <2>1. create[s] \in {"loading", "pooling", "opening"} /\ Fails(s)
    BY <1>4 DEF ConnectFails
  <2>2. SessionType'
    BY <2>1 DEF Fails, Going, SessionsInv, SessionType
  <2>3. \A q \in Callers : SessionInv(q)'
    BY <2>1 DEF Fails, Going, SessionsInv, SessionType, SessionInv
  <2>4. LimitHolds'
    BY <2>1, FewerEntries DEF Fails, SessionsInv, SessionType
  <2> QED
    BY <2>2, <2>3, <2>4 DEF SessionsInv
<1>5. CASE ShellOpens(s)
  <2>1. SessionType'
    BY <1>5 DEF ShellOpens, Going, SessionsInv, SessionType
  <2>2. \A q \in Callers : SessionInv(q)'
    BY <1>5 DEF ShellOpens, Going, SessionsInv, SessionType, SessionInv
  <2>3. LimitHolds'
    BY <1>5, FewerEntries DEF ShellOpens, SessionsInv, SessionType
  <2> QED
    BY <2>1, <2>2, <2>3 DEF SessionsInv
<1>6. CASE Recorded(s)
  <2>1. SessionType'
    BY <1>6 DEF Recorded, Going, SessionsInv, SessionType
  <2>2. \A q \in Callers : SessionInv(q)'
    BY <1>6 DEF Recorded, Going, SessionsInv, SessionType, SessionInv
  <2>3. LimitHolds'
    BY <1>6, FewerEntries DEF Recorded, SessionsInv
  <2> QED
    BY <2>1, <2>2, <2>3 DEF SessionsInv
<1>7. CASE RecordFails(s)
  <2>1. create[s] = "recording" /\ Fails(s)
    BY <1>7 DEF RecordFails
  <2>2. SessionType'
    BY <2>1 DEF Fails, Going, SessionsInv, SessionType
  <2>3. \A q \in Callers : SessionInv(q)'
    BY <2>1 DEF Fails, Going, SessionsInv, SessionType, SessionInv
  <2>4. LimitHolds'
    BY <2>1, FewerEntries DEF Fails, SessionsInv, SessionType
  <2> QED
    BY <2>2, <2>3, <2>4 DEF SessionsInv
<1>8. CASE Connects(s)
  <2>1. UNCHANGED sessionVars
    BY <1>8 DEF Connects
  <2>2. SessionType' /\ \A q \in Callers : SessionInv(q)'
    BY <2>1 DEF sessionVars, SessionsInv, SessionType, SessionInv
  <2>3. LimitHolds'
    BY <2>1, FewerEntries DEF sessionVars, SessionsInv
  <2> QED
    BY <2>2, <2>3 DEF SessionsInv
<1> QED
  BY <1>1, <1>2, <1>3, <1>4, <1>5, <1>6, <1>7, <1>8

\* A session is closed, by its user, its transport or its entry.
LEMMA CloseKeeps ==
  ASSUME SessionsInv, NEW s \in Callers,
         UserCloses(s) \/ CloseEnds(s) \/ CloseErrs(s) \/ RequestClose(s)
  PROVE  SessionsInv'
<1>1. CASE UserCloses(s) \/ CloseErrs(s)
  <2>1. /\ \/ sess[s] = "open" /\ sess' = [sess EXCEPT ![s] = "closing"]
           \/ sess[s] = "closing" /\ sess' = [sess EXCEPT ![s] = "stuck"]
        /\ UNCHANGED <<owner, create, entry, early>>
    BY <1>1 DEF UserCloses, CloseErrs, Close
  <2>2. SessionType'
    BY <2>1 DEF SessionsInv, SessionType
  <2>3. \A q \in Callers : SessionInv(q)'
    BY <2>1 DEF SessionsInv, SessionType, SessionInv
  <2>4. LimitHolds'
    BY <2>1, FewerEntries DEF SessionsInv
  <2> QED
    BY <2>2, <2>3, <2>4 DEF SessionsInv
<1>2. CASE CloseEnds(s)
  <2>1. SessionType'
    BY <1>2 DEF CloseEnds, SessionsInv, SessionType
  <2>2. \A q \in Callers : SessionInv(q)'
    BY <1>2 DEF CloseEnds, SessionsInv, SessionType, SessionInv
  <2>3. LimitHolds'
    BY <1>2, FewerEntries DEF CloseEnds, SessionsInv, SessionType
  <2> QED
    BY <2>1, <2>2, <2>3 DEF SessionsInv
<1>3. CASE RequestClose(s)
  <2>1. /\ \/ /\ entry[s] = "reserved" /\ entry' = [entry EXCEPT ![s] = "none"]
              /\ early' = early \cup {s} /\ UNCHANGED sess
           \/ /\ entry[s] = "active" /\ sess[s] = "open"
              /\ entry' = [entry EXCEPT ![s] = "closing"]
              /\ sess' = [sess EXCEPT ![s] = "closing"] /\ UNCHANGED early
           \/ /\ entry[s] = "active" /\ sess[s] # "open"
              /\ entry' = [entry EXCEPT ![s] = "none"]
              /\ UNCHANGED <<sess, early>>
        /\ UNCHANGED <<owner, create>>
    BY <1>3 DEF RequestClose, Close
  <2>2. SessionType'
    BY <2>1 DEF SessionsInv, SessionType
  <2>3. \A q \in Callers : SessionInv(q)'
    BY <2>1 DEF SessionsInv, SessionType, SessionInv
  <2>4. LimitHolds'
    BY <2>1, FewerEntries DEF SessionsInv, SessionType
  <2> QED
    BY <2>2, <2>3, <2>4 DEF SessionsInv
<1> QED
  BY <1>1, <1>2, <1>3

\* The access of a user ends: sessions are closed and entries go.
LEMMA RevokeKeeps ==
  ASSUME SessionsInv, NEW u \in Users, Revoke(u)
  PROVE  SessionsInv'
<1> DEFINE mine == {s \in Callers : owner[s] = u}
           open == {s \in mine : sess[s] = "open"}
<1>1. /\ sess' = [s \in Callers |-> IF s \in open THEN "closing" ELSE sess[s]]
      /\ entry' = [s \in Callers |-> IF s \in mine /\ entry[s] # "closing"
                                     THEN "none" ELSE entry[s]]
      /\ early' = early \cup {s \in mine : entry[s] = "reserved"}
      /\ UNCHANGED <<owner, create>>
  BY DEF Revoke
<1>2. SessionType'
  BY <1>1 DEF SessionsInv, SessionType
<1>3. \A q \in Callers : SessionInv(q)'
  BY <1>1 DEF SessionsInv, SessionType, SessionInv
<1>4. LimitHolds'
  BY <1>1, FewerEntries DEF SessionsInv
<1> QED
  BY <1>2, <1>3, <1>4 DEF SessionsInv

LEMMA SessionsNextKeeps == SessionsInv /\ [Next]_vars => SessionsInv'
<1> SUFFICES ASSUME SessionsInv, [Next]_vars PROVE SessionsInv'
  OBVIOUS
<1>1. ASSUME UNCHANGED sessionVars PROVE SessionsInv'
  <2>1. SessionType' /\ \A q \in Callers : SessionInv(q)'
    BY <1>1 DEF sessionVars, SessionsInv, SessionType, SessionInv
  <2>2. LimitHolds'
    BY <1>1, FewerEntries DEF sessionVars, SessionsInv
  <2> QED
    BY <2>1, <2>2 DEF SessionsInv
<1>2. CASE UNCHANGED vars \/ PoolCleansUp
  BY <1>1, <1>2 DEF vars, PoolCleansUp
<1>3. ASSUME NEW k \in Keys, ConnectionChanges(k) PROVE SessionsInv'
  BY <1>1, <1>3 DEF ConnectionChanges
<1>4. ASSUME NEW s \in Callers, TransportDies(s) PROVE SessionsInv'
  BY <1>1, <1>4 DEF TransportDies
<1> QED
  BY <1>2, <1>3, <1>4, CreateKeeps, CloseKeeps, RevokeKeeps DEF Next

LEMMA SessionsAlways == Spec => []SessionsInv
BY SessionsInitInv, SessionsNextKeeps, PTL DEF Spec

\* Every variable of the sessions and of the pool has its type.
THEOREM SessionsTypeCorrect == Spec => []TypeOK
<1>1. SessionsInv /\ PoolTypeOK => TypeOK
  BY DEF SessionsInv, SessionType, TypeOK
<1> QED
  BY <1>1, SessionsAlways, TransportsSafe, PTL

\* However the reservations of a user interleave, reserve never lets the user
\* have more entries than userConnectionLimit: the await before the check
\* cannot come between the check and the entry.
THEOREM LimitAlways == Spec => []LimitHolds
<1>1. SessionsInv => LimitHolds
  BY DEF SessionsInv
<1> QED
  BY <1>1, SessionsAlways, PTL

\* The registry and the manager agree but for the two ways in which the code
\* loses an entry: requestClose before activate, and a failed recording.
THEOREM RegistryAlways == Spec => []RegistryMatches
<1>1. SessionsInv => RegistryMatches
  BY DEF SessionsInv, SessionType, SessionInv, RegistryMatches
<1> QED
  BY <1>1, SessionsAlways, PTL

=============================================================================
