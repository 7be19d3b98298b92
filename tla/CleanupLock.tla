----------------------------- MODULE CleanupLock -----------------------------
(***************************************************************************)
(* The lock that keeps the cleanup cycles of several replicas apart: a     *)
(* Postgres advisory lock, taken by PostgresDB.TryLock on a connection that *)
(* is pinned for the cycle and released on the same connection.            *)
(*                                                                         *)
(* The lock belongs to the database session behind the connection, not to  *)
(* the cycle.  The session can end while the replica still sweeps; a call  *)
(* can fail or take effect and lose its reply; and a session that keeps    *)
(* the lock by mistake while its connection is back in the pool would shut *)
(* out every other replica.                                                *)
(***************************************************************************)
EXTENDS Naturals

CONSTANTS
    Replicas,   \* the isrv processes
    Sessions,   \* the database sessions that may exist at a time
    None,       \* "no such value"
    Faults      \* what may go wrong, a subset of FaultKinds

\* "error": a statement fails, or times out with its effect unknown;
\* "sessionLoss": the server ends a session whose connection is open;
\* "crash": a replica stops and is restarted;
\* "lateTimeout": TryLock's 10 s end when the reply has come in and has not
\* been scanned yet: an error, the lock taken, and the connection still works
FaultKinds == {"error", "sessionLoss", "crash", "lateTimeout"}

ASSUME LockAssumption ==
    /\ None \notin Replicas \cup Sessions
    /\ Faults \subseteq FaultKinds

VARIABLES
    pc,         \* where each replica is in its cleanup cycle
    pinned,     \* the session of the connection it has pinned
    owner,      \* the replica that has a connection to the session open
    live,       \* the sessions that exist on the server
    locks       \* how often a session has taken the advisory lock

vars == <<pc, pinned, owner, live, locks>>

\* the connections in a replica's pool, free for any statement
Pool(h) == {s \in Sessions : owner[s] = h /\ pinned[h] # s}

\* the cycles that sweep, in the belief that they hold the lock
Sweeping == {h \in Replicas : pc[h] = "sweep"}

-----------------------------------------------------------------------------
(* The server.  The lock is held by one session at a time, which may take  *)
(* it again.                                                               *)

Grantable(s) == s \in live /\ \A t \in Sessions \ {s} : locks[t] = 0

End(s) ==
    /\ live' = live \ {s}
    /\ locks' = [locks EXCEPT ![s] = 0]
    /\ UNCHANGED <<pc, pinned, owner>>

\* a session whose connection has been closed ends
SessionEnd(s) == s \in live /\ owner[s] = None /\ End(s)

\* any session may be ended by the server or the network
SessionLoss(s) ==
    /\ "sessionLoss" \in Faults
    /\ s \in live
    /\ End(s)

-----------------------------------------------------------------------------
(* The connection a replica has pinned goes back to the pool, or is closed *)
(* because the driver has found it broken.                                 *)

Unpin(h) ==
    /\ pc' = [pc EXCEPT ![h] = "idle"]
    /\ pinned' = [pinned EXCEPT ![h] = None]

Close(h) ==
    /\ Unpin(h)
    /\ UNCHANGED owner

Discard(h) ==
    /\ Unpin(h)
    /\ owner' = [owner EXCEPT ![pinned[h]] = None]

-----------------------------------------------------------------------------
(* TryLock.                                                                *)

\* db.sqldb.Conn: a connection of the pool, even one whose session has ended
\* unnoticed, or a new one.  Without a connection the cycle is skipped.
Conn(h, s) ==
    /\ pc[h] = "idle"
    /\ \/ s \in Pool(h) /\ UNCHANGED <<owner, live>>
       \/ /\ s \notin live /\ owner[s] = None
          /\ owner' = [owner EXCEPT ![s] = h]
          /\ live' = live \cup {s}
    /\ pc' = [pc EXCEPT ![h] = "lock"]
    /\ pinned' = [pinned EXCEPT ![h] = s]
    /\ UNCHANGED locks

Acquire(h) ==
    /\ pc[h] = "lock"
    /\ Grantable(pinned[h])
    /\ pc' = [pc EXCEPT ![h] = "sweep"]
    /\ locks' = [locks EXCEPT ![pinned[h]] = @ + 1]
    /\ UNCHANGED <<pinned, owner, live>>

\* mutant: `locked` is not looked at
NotAcquiredMutant(h) ==
    /\ pc[h] = "lock"
    /\ pinned[h] \in live
    /\ ~Grantable(pinned[h])
    /\ pc' = [pc EXCEPT ![h] = "sweep"]
    /\ UNCHANGED <<pinned, owner, live, locks>>

NotAcquired(h) ==
    /\ pc[h] = "lock"
    /\ pinned[h] \in live
    /\ ~Grantable(pinned[h])
    /\ Close(h)
    /\ UNCHANGED <<live, locks>>

\* mutant: one that timed out is given back instead of closed
TryLockFailsMutant(h) ==
    /\ pc[h] = "lock"
    /\ Close(h)
    /\ UNCHANGED live
    /\ \/ UNCHANGED locks
       \/ Grantable(pinned[h]) /\ locks' = [locks EXCEPT ![pinned[h]] = @ + 1]

\* TryLock only closes the connection after a statement that timed out with the
\* lock taken.  The driver has found the connection broken and discards it,
\* unless the context ended too late for that: it goes back with the lock.
CloseTimedOut(h) ==
    IF "lateTimeout" \in Faults THEN Discard(h) \/ Close(h) ELSE Discard(h)

\* the query reports an error, with the lock taken or not
TryLockFails(h) ==
    /\ pc[h] = "lock"
    /\ \/ /\ pinned[h] \in live /\ "error" \in Faults
          /\ Close(h)
          /\ UNCHANGED locks
       \/ /\ pinned[h] \notin live \/ "error" \in Faults
          /\ Discard(h)
          /\ UNCHANGED locks
       \/ /\ Grantable(pinned[h]) /\ Faults \cap {"error", "lateTimeout"} # {}
          /\ CloseTimedOut(h)
          /\ locks' = [locks EXCEPT ![pinned[h]] = @ + 1]
    /\ UNCHANGED live

-----------------------------------------------------------------------------
(* The cycle and its release function.                                     *)

\* mutant: no deferred release
FinishSweepMutant(h) ==
    /\ pc[h] = "sweep"
    /\ Close(h)
    /\ UNCHANGED <<live, locks>>

FinishSweep(h) ==
    /\ pc[h] = "sweep"
    /\ pc' = [pc EXCEPT ![h] = "unlock"]
    /\ UNCHANGED <<pinned, owner, live, locks>>

\* mutant: the server gives back a lock that is not held
UnlockedMutant(s) == [locks EXCEPT ![s] = @ - 1]

Unlocked(s) == [locks EXCEPT ![s] = IF @ = 0 THEN 0 ELSE @ - 1]

Unlock(h) ==
    /\ pc[h] = "unlock"
    /\ pinned[h] \in live
    /\ Close(h)
    /\ locks' = Unlocked(pinned[h])
    /\ UNCHANGED live

\* mutant: the connection goes back to the pool with the lock
UnlockFailsMutant(h) ==
    /\ pc[h] = "unlock"
    /\ pinned[h] \notin live \/ "error" \in Faults
    /\ Close(h)
    /\ UNCHANGED <<live, locks>>

\* the unlock reports an error, done or not: the connection is marked bad, so
\* that it is closed and the server gives the lock back
UnlockFails(h) ==
    /\ pc[h] = "unlock"
    /\ pinned[h] \notin live \/ "error" \in Faults
    /\ Discard(h)
    /\ UNCHANGED live
    /\ UNCHANGED locks \/ locks' = Unlocked(pinned[h])

-----------------------------------------------------------------------------
(* The rest of the replica's life.                                         *)

\* the pool closes a connection it has too many of or has found broken
PoolClose(h, s) ==
    /\ s \in Pool(h)
    /\ owner' = [owner EXCEPT ![s] = None]
    /\ UNCHANGED <<pc, pinned, live, locks>>

Crash(h) ==
    /\ "crash" \in Faults
    /\ Unpin(h)
    /\ owner' = [s \in Sessions |-> IF owner[s] = h THEN None ELSE owner[s]]
    /\ UNCHANGED <<live, locks>>

Init ==
    /\ pc = [h \in Replicas |-> "idle"]
    /\ pinned = [h \in Replicas |-> None]
    /\ owner = [s \in Sessions |-> None]
    /\ live = {}
    /\ locks = [s \in Sessions |-> 0]

Cycle(h) ==
    \/ \E s \in Sessions : Conn(h, s)
    \/ Acquire(h) \/ NotAcquired(h) \/ TryLockFails(h)
    \/ FinishSweep(h) \/ Unlock(h) \/ UnlockFails(h)

Next ==
    \/ \E h \in Replicas : Cycle(h) \/ Crash(h)
    \/ \E h \in Replicas, s \in Sessions : PoolClose(h, s)
    \/ \E s \in Sessions : SessionEnd(s) \/ SessionLoss(s)

Spec == Init /\ [][Next]_vars

\* The ticker keeps ticking, a cycle ends, and the server notices, sooner or
\* later, that a connection has been closed.
Fairness ==
    /\ \A h \in Replicas : WF_vars(Cycle(h)) /\ SF_vars(Acquire(h))
    /\ \A s \in Sessions : WF_vars(SessionEnd(s))

FairSpec == Spec /\ Fairness

-----------------------------------------------------------------------------
(* Properties. *)

\* Every variable has its type.
TypeOK ==
    /\ pc \in [Replicas -> {"idle", "lock", "sweep", "unlock"}]
    /\ pinned \in [Replicas -> Sessions \cup {None}]
    /\ owner \in [Sessions -> Replicas \cup {None}]
    /\ live \subseteq Sessions
    /\ locks \in [Sessions -> Nat]

\* CycleLocker: two replicas sweep at the same time only after the session of
\* one of them has been lost; one whose session lasts is alone among such.
CyclesSerialized ==
    \A g, h \in Sweeping : pinned[g] \in live /\ pinned[h] \in live => g = h

\* No late timeout leaves TryLock with the lock and an error.
RepliesInTime == "lateTimeout" \notin Faults

\* No connection in a pool has kept the lock: TryLock on it would succeed for
\* its own replica again and again and for no other replica ever.  That is so
\* as long as the replies to TryLock come in time.
PoolHoldsNoLock ==
    \A h \in Replicas : \A s \in Pool(h) : locks[s] = 0

\* A replica that sweeps holds the lock unless its session is gone.
SweepHoldsLock ==
    \A h \in Sweeping : pinned[h] \in live => locks[pinned[h]] > 0

\* Whatever happens to the holder, the lock is free again later.
LockComesFree ==
    (\E s \in Sessions : locks[s] > 0) ~> (\A s \in Sessions : locks[s] = 0)

\* Cleanup cycles never stop for good.
CyclesGoOn == []<>(Sweeping # {})
=============================================================================
