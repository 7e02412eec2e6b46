----------------------------- MODULE SshSessions -----------------------------
(***************************************************************************)
(* The SSH terminals of the Viron server (IM-ops/viron/src/server): the    *)
(* session manager (ssh/session-manager.ts) over the registry of active    *)
(* connections (active-connections.ts) and the pool of transports          *)
(* (ssh/connector.ts, IdlePool), and what ends a user's access             *)
(* (user-runtime.ts).  A step runs from one await to the next; every await *)
(* may also fail.  A session is a caller of the pool.                      *)
(***************************************************************************)
EXTENDS IdlePool

CONSTANTS
  Users,
  Limit,       \* userConnectionLimit, 30
  MaxSessions  \* of the manager, 20

ASSUME SessionsAssumption == Limit \in Nat /\ MaxSessions \in Nat

VARIABLES
  owner,
  create,  \* where SshSessionManager.create stands
  sess,    \* the session of the manager; "closing", "stuck": it is closed
  entry,   \* the entry of the registry; "active": with its close function
  early    \* it was to be closed before its entry had the close function

sessionVars == <<owner, create, sess, entry, early>>
vars == <<poolVars, sessionVars>>

Init ==
  /\ PoolInit
  /\ owner \in [Callers -> Users]
  /\ create = [s \in Callers |-> "new"]
  /\ sess = [s \in Callers |-> "none"]
  /\ entry = [s \in Callers |-> "none"]
  /\ early = {}

Going(s, place) == create' = [create EXCEPT ![s] = place]

InMap == {s \in Callers : sess[s] \in {"open", "closing", "stuck"}}

EntriesOf(u) == {s \in Callers : owner[s] = u /\ entry[s] # "none"}

\* connected.close(): the lease is given back once.
GivesBack(s) == IF at[s] = "held" THEN Release(s) ELSE UNCHANGED poolVars

-----------------------------------------------------------------------------
(* create                                                                  *)

Begin(s) ==
  /\ create[s] = "new" /\ Cardinality(InMap) < MaxSessions
  /\ Going(s, "reserving")
  /\ UNCHANGED <<poolVars, owner, sess, entry, early>>

\* Fault: the limit is looked at before the metadata is read, as that of the
\* manager is before everything else.
ReservedUnchecked(s) ==
  /\ create[s] = "reserving"
  /\ Going(s, "loading")
  /\ entry' = [entry EXCEPT ![s] = "reserved"]
  /\ UNCHANGED <<poolVars, owner, sess, early>>

\* The metadata is read: the limit is checked and the entry set in one go.
Reserved(s) ==
  /\ create[s] = "reserving"
  /\ IF Cardinality(EntriesOf(owner[s])) >= Limit
     THEN Going(s, "failed") /\ UNCHANGED entry
     ELSE Going(s, "loading") /\ entry' = [entry EXCEPT ![s] = "reserved"]
  /\ UNCHANGED <<poolVars, owner, sess, early>>

Loaded(s) ==
  /\ create[s] = "loading"
  /\ AcquireBegins(s)
  /\ Going(s, "pooling")
  /\ UNCHANGED <<owner, sess, entry, early>>

\* There is none to take: connect.
Connects(s) ==
  /\ create[s] = "pooling"
  /\ CreateBegins(s)
  /\ UNCHANGED sessionVars

HasTransport(s) ==
  /\ create[s] = "pooling"
  /\ TakeIdle(s) \/ (s \notin outdated /\ Created(s))
  /\ Going(s, "opening")
  /\ UNCHANGED <<owner, sess, entry, early>>

\* The catch of create.
Fails(s) ==
  /\ Going(s, "failed")
  /\ entry' = [entry EXCEPT ![s] = "none"]
  /\ UNCHANGED <<owner, sess, early>>

ConnectFails(s) ==
  /\ \/ create[s] = "loading" /\ UNCHANGED poolVars
     \/ create[s] = "pooling" /\ CreateFails(s)
     \/ create[s] = "pooling" /\ s \in outdated /\ Created(s)
     \/ create[s] = "opening" /\ GivesBack(s)
  /\ Fails(s)

\* Fault: the entry takes the state of the session.
ShellOpensAsSession(s) ==
  /\ create[s] = "opening" /\ lease[s] \in entries \ dead
  /\ Going(s, "recording")
  /\ sess' = [sess EXCEPT ![s] = "open"]
  /\ entry' = [entry EXCEPT ![s] = IF @ = "reserved" THEN "open" ELSE @]
  /\ UNCHANGED <<poolVars, owner, early>>

\* The shell is open: the session is in the map and its entry activated.
ShellOpens(s) ==
  /\ create[s] = "opening" /\ lease[s] \in entries \ dead
  /\ Going(s, "recording")
  /\ sess' = [sess EXCEPT ![s] = "open"]
  /\ entry' = [entry EXCEPT ![s] = IF @ = "reserved" THEN "active" ELSE @]
  /\ UNCHANGED <<poolVars, owner, early>>

\* The recording is in the database; the creation has succeeded.
Recorded(s) ==
  /\ create[s] = "recording"
  /\ Going(s, "done")
  /\ UNCHANGED <<poolVars, owner, sess, entry, early>>

\* ... or it is not: the session stays in the map without its transport.
RecordFails(s) ==
  /\ create[s] = "recording"
  /\ GivesBack(s)
  /\ Fails(s)

-----------------------------------------------------------------------------
(* close                                                                   *)

Close(s) == sess' = [sess EXCEPT ![s] = "closing"] /\ GivesBack(s)

\* The user closes it, or the end of the shell or the transport does.
UserCloses(s) ==
  /\ sess[s] = "open"
  /\ Close(s)
  /\ UNCHANGED <<owner, create, entry, early>>

CloseEnds(s) ==
  /\ sess[s] = "closing"
  /\ sess' = [sess EXCEPT ![s] = "gone"]
  /\ entry' = [entry EXCEPT ![s] = "none"]
  /\ UNCHANGED <<poolVars, owner, create, early>>

\* The recording cannot be completed: nothing closes the session again.
CloseErrs(s) ==
  /\ sess[s] = "closing"
  /\ sess' = [sess EXCEPT ![s] = "stuck"]
  /\ UNCHANGED <<poolVars, owner, create, entry, early>>

-----------------------------------------------------------------------------
(* requestClose: a viewer closes the connection, or it is idle too long    *)

\* Fault: the entry is released and its close function not called.
RequestCloseForgets(s) ==
  /\ entry[s] \in {"reserved", "active"}
  /\ entry' = [entry EXCEPT ![s] = "none"]
  /\ early' = IF entry[s] = "reserved" THEN early \cup {s} ELSE early
  /\ UNCHANGED <<poolVars, owner, create, sess>>

\* Without a close function the entry goes and the creation goes on.
RequestClose(s) ==
  /\ \/ /\ entry[s] = "reserved"
        /\ entry' = [entry EXCEPT ![s] = "none"]
        /\ early' = early \cup {s}
        /\ UNCHANGED <<poolVars, sess>>
     \/ /\ entry[s] = "active" /\ sess[s] = "open"
        /\ entry' = [entry EXCEPT ![s] = "closing"]
        /\ Close(s)
        /\ UNCHANGED early
     \/ /\ entry[s] = "active" /\ sess[s] # "open"
        /\ entry' = [entry EXCEPT ![s] = "none"]
        /\ UNCHANGED <<poolVars, sess, early>>
  /\ UNCHANGED <<owner, create>>

-----------------------------------------------------------------------------
(* What ends access, and the transport                                     *)

\* revokeUserRuntime: the sessions of the user, the entries, all transports.
Revoke(u) ==
  LET mine == {s \in Callers : owner[s] = u}
      open == {s \in mine : sess[s] = "open"}
  IN
  /\ \E s \in mine : create[s] # "new"
  /\ sess' = [s \in Callers |-> IF s \in open THEN "closing" ELSE sess[s]]
  /\ entry' = [s \in Callers |-> IF s \in mine /\ entry[s] # "closing"
                                 THEN "none" ELSE entry[s]]
  /\ early' = early \cup {s \in mine : entry[s] = "reserved"}
  /\ Invalidate(Keys, {s \in open : at[s] = "held"})
  /\ UNCHANGED <<owner, create>>

\* closeSshConnectionPool: a connection was edited or deleted.
ConnectionChanges(k) == Invalidate({k}, {}) /\ UNCHANGED sessionVars

TransportDies(r) == Dies(r) /\ UNCHANGED sessionVars

PoolCleansUp == CleansUp /\ UNCHANGED sessionVars

Next ==
  \/ \E s \in Callers :
       \/ Begin(s) \/ Reserved(s) \/ Loaded(s) \/ Connects(s) \/ HasTransport(s)
       \/ ConnectFails(s) \/ ShellOpens(s) \/ Recorded(s) \/ RecordFails(s)
       \/ UserCloses(s) \/ CloseEnds(s) \/ CloseErrs(s) \/ RequestClose(s)
       \/ TransportDies(s)
  \/ \E u \in Users : Revoke(u)
  \/ \E k \in Keys : ConnectionChanges(k)
  \/ PoolCleansUp

Spec == Init /\ [][Next]_vars

-----------------------------------------------------------------------------
TypeOK ==
  /\ PoolTypeOK
  /\ owner \in [Callers -> Users]
  /\ create \in [Callers -> {"new", "reserving", "loading", "pooling", "opening",
                             "recording", "done", "failed"}]
  /\ sess \in [Callers -> {"none", "open", "closing", "stuck", "gone"}]
  /\ entry \in [Callers -> {"none", "reserved", "active", "closing"}]
  /\ early \subseteq Callers

\* However many reservations of a user overlap, the user never has more
\* entries than the limit.
LimitHolds == \A u \in Users : Cardinality(EntriesOf(u)) <= Limit

\* The registry and the manager tell of the same sessions.  A session that is
\* open has an entry, but for the two ways in which the code loses it: it was
\* to be closed while it connected, or its recording could not be stored.  An
\* entry belongs to a session that is made, open, being closed or, after an
\* error, stuck.
RegistryMatches ==
  \A s \in Callers :
    /\ sess[s] = "open" /\ entry[s] = "none" => s \in early \/ create[s] = "failed"
    /\ entry[s] # "none" => \/ create[s] \in {"loading", "pooling", "opening"}
                            \/ sess[s] \in {"open", "closing", "stuck"}

=============================================================================
