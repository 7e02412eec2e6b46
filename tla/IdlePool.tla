------------------------------ MODULE IdlePool ------------------------------
(***************************************************************************)
(* The pool of connections that Viron reuses (IM-ops/viron/src/shared/     *)
(* idle-resource-pool.ts): acquire, release, invalidate and cleanup.       *)
(*                                                                         *)
(* A resource is named after the caller that creates it, each caller       *)
(* acquires once.  Which of the idle ones has been idle the longest makes  *)
(* no difference here: a cleanup finds any of them old, a caller gets any. *)
(***************************************************************************)
EXTENDS Integers, FiniteSets

CONSTANTS
  Callers,
  Keys,     \* what a resource is a connection to
  MaxIdle,  \* maxIdlePerKey
  None

ASSUME PoolAssumption ==
  IsFiniteSet(Callers) /\ MaxIdle \in Nat /\ None \notin Callers

VARIABLES
  keyOf,     \* the key a caller asks for, and its resource has
  at,        \* where acquire stands, for each caller
  outdated,  \* the generation has moved on since the caller began to create
  lease,     \* the resource a caller holds
  entries,   \* the resources in the pool
  idle,      \* those that are not busy
  dead,      \* resources that are not usable any more
  disposed,  \* how often dispose was called
  refused    \* what invalidate was called for while it was made or in the pool

poolVars == <<keyOf, at, outdated, lease, entries, idle, dead, disposed, refused>>

PoolInit ==
  /\ keyOf \in [Callers -> Keys]
  /\ at = [c \in Callers |-> "none"]
  /\ outdated = {}
  /\ lease = [c \in Callers |-> None]
  /\ entries = {} /\ idle = {} /\ dead = {}
  /\ disposed = [c \in Callers |-> 0]
  /\ refused = {}

IdleOf(k) == {r \in idle : keyOf[r] = k}

\* remove: what is in the pool leaves it and is disposed of.
Remove(gone) ==
  /\ entries' = entries \ gone
  /\ disposed' = [r \in Callers |->
                    disposed[r] + IF r \in gone \cap entries THEN 1 ELSE 0]

-----------------------------------------------------------------------------
(* acquire                                                                 *)

\* The cleanup, of acquire or of the timer: the unusable and the old.
Cleanup(old) ==
  LET gone == old \cup (idle \cap dead)
  IN  Remove(gone) /\ idle' = idle \ gone

AcquireBegins(c) ==
  /\ at[c] = "none"
  /\ \E old \in SUBSET idle : Cleanup(old)
  /\ at' = [at EXCEPT ![c] = "cleaning"]
  /\ UNCHANGED <<keyOf, outdated, lease, dead, refused>>

Ready(c) == IdleOf(keyOf[c]) \ dead

TakeIdle(c) ==
  /\ at[c] = "cleaning"
  /\ \E r \in Ready(c) : /\ lease' = [lease EXCEPT ![c] = r]
                         /\ idle' = idle \ {r}
  /\ at' = [at EXCEPT ![c] = "held"]
  /\ UNCHANGED <<keyOf, outdated, entries, dead, disposed, refused>>

CreateBegins(c) ==
  /\ at[c] = "cleaning" /\ Ready(c) = {}
  /\ at' = [at EXCEPT ![c] = "creating"]
  /\ outdated' = outdated \ {c}
  /\ UNCHANGED <<keyOf, lease, entries, idle, dead, disposed, refused>>

\* It is disposed of when an invalidation came while it was made.
Created(c) ==
  /\ at[c] = "creating"
  /\ IF c \in outdated
     THEN /\ at' = [at EXCEPT ![c] = "failed"]
          /\ disposed' = [disposed EXCEPT ![c] = @ + 1]
          /\ UNCHANGED <<lease, entries>>
     ELSE /\ at' = [at EXCEPT ![c] = "held"]
          /\ lease' = [lease EXCEPT ![c] = c]
          /\ entries' = entries \cup {c}
          /\ UNCHANGED disposed
  /\ UNCHANGED <<keyOf, outdated, idle, dead, refused>>

CreateFails(c) ==
  /\ at[c] = "creating"
  /\ at' = [at EXCEPT ![c] = "failed"]
  /\ UNCHANGED <<keyOf, outdated, lease, entries, idle, dead, disposed, refused>>

-----------------------------------------------------------------------------
(* release, invalidate and the resource itself                             *)

\* Fault: what the caller gives back goes into the pool unseen.
ReleaseUnseen(c) ==
  /\ at[c] = "held"
  /\ at' = [at EXCEPT ![c] = "released"]
  /\ lease' = [lease EXCEPT ![c] = None]
  /\ idle' = idle \cup {lease[c]}
  /\ UNCHANGED <<keyOf, outdated, entries, dead, disposed, refused>>

\* More than maxIdle of the key are idle: those beyond it leave.
Trim(r) ==
  LET same == IdleOf(keyOf[r]) \cup {r}
  IN  \E over \in SUBSET same :
        /\ IF Cardinality(same) <= MaxIdle THEN over = {}
           ELSE Cardinality(same \ over) = MaxIdle
        /\ Remove(over)
        /\ idle' = (idle \cup {r}) \ over

\* Unusable or taken out of the pool before, it is not reused.
Release(c) ==
  LET r == lease[c]
  IN
  /\ at[c] = "held"
  /\ at' = [at EXCEPT ![c] = "released"]
  /\ lease' = [lease EXCEPT ![c] = None]
  /\ \/ r \notin entries /\ UNCHANGED <<idle, entries, disposed>>
     \/ r \in entries \cap dead /\ Remove({r}) /\ UNCHANGED idle
     \/ r \in entries \ dead /\ Trim(r)
  /\ UNCHANGED <<keyOf, outdated, dead, refused>>

\* The resources of these keys leave, busy or not; whoever creates one now has
\* created it in vain.  Callers of `back` give theirs back in the same tick.
Invalidate(keys, back) ==
  LET gone == {r \in entries : keyOf[r] \in keys}
  IN
  /\ Remove(gone)
  /\ idle' = idle \ gone
  /\ outdated' = outdated \cup {c \in Callers : at[c] = "creating"}
  /\ refused' = refused \cup gone
                \cup {c \in Callers : at[c] = "creating" /\ keyOf[c] \in keys}
  /\ at' = [c \in Callers |-> IF c \in back THEN "released" ELSE at[c]]
  /\ lease' = [c \in Callers |-> IF c \in back THEN None ELSE lease[c]]
  /\ UNCHANGED <<keyOf, dead>>

Holding == {c \in Callers : at[c] = "held"}

CleansUp ==
  /\ \E old \in SUBSET idle : Cleanup(old)
  /\ UNCHANGED <<keyOf, at, outdated, lease, dead, refused>>

Dies(r) ==
  /\ r \in entries \ dead
  /\ dead' = dead \cup {r}
  /\ UNCHANGED <<keyOf, at, outdated, lease, entries, idle, disposed, refused>>

PoolNext ==
  \/ \E c \in Callers :
       \/ AcquireBegins(c) \/ TakeIdle(c) \/ CreateBegins(c) \/ Created(c)
       \/ CreateFails(c) \/ Release(c) \/ Dies(c)
  \/ CleansUp
  \/ \E keys \in SUBSET Keys : Invalidate(keys, {})
  \/ \E back \in SUBSET Holding : Invalidate(Keys, back)

PoolSpec == PoolInit /\ [][PoolNext]_poolVars

-----------------------------------------------------------------------------
PoolTypeOK ==
  /\ keyOf \in [Callers -> Keys]
  /\ at \in [Callers -> {"none", "cleaning", "creating", "held", "failed",
                         "released"}]
  /\ outdated \subseteq Callers
  /\ lease \in [Callers -> Callers \cup {None}]
  /\ entries \subseteq Callers
  /\ idle \subseteq Callers
  /\ dead \subseteq Callers
  /\ disposed \in [Callers -> Nat]
  /\ refused \subseteq Callers

\* Nobody else has the connection a caller holds, nor is it in the pool to be
\* taken: a shell or a query never runs on another caller's connection.
LeaseExclusive ==
  \A c \in Callers : lease[c] # None =>
    /\ lease[c] \notin idle
    /\ \A d \in Callers \ {c} : lease[d] # lease[c]

\* A connection is closed once, when it leaves the pool: none is closed while
\* it can still be taken, none is forgotten open.
DisposedOnce ==
  \A r \in Callers :
    /\ disposed[r] <= 1
    /\ r \in entries => disposed[r] = 0
    /\ lease[r] = r => r \in entries \/ disposed[r] = 1
    /\ r \in idle => r \in entries

\* After an invalidation no connection made for the old configuration or user
\* is in the pool, not even one that was being made meanwhile.
NothingOutdated == refused \cap entries = {}

\* At most maxIdlePerKey connections of a key wait for reuse.
IdleBounded == \A k \in Keys : Cardinality(IdleOf(k)) <= MaxIdle

PoolSafe == LeaseExclusive /\ DisposedOnce /\ NothingOutdated /\ IdleBounded

=============================================================================
