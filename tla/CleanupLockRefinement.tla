------------------------- MODULE CleanupLockRefinement -------------------------
(***************************************************************************)
(* CleanupLock implements CycleLocker.  The lock is taken while a session   *)
(* on the server has it; a replica is in a cycle from TryLock's success to  *)
(* the end of its release function, and holds the lock while the session of *)
(* the connection it has pinned does.                                       *)
(***************************************************************************)
EXTENDS CleanupLock

lockerTaken == \E s \in Sessions : locks[s] > 0

lockerCycles == {h \in Replicas : pc[h] \in {"sweep", "unlock"}}

lockerHolding == {h \in lockerCycles : locks[pinned[h]] > 0}

Locker == INSTANCE CycleLocker WITH
    Losable <- "sessionLoss" \in Faults,
    taken <- lockerTaken, cycles <- lockerCycles, holding <- lockerHolding

\* The advisory lock, its sessions and its pools together behave like a lock
\* that one cycle holds at a time, that is never given back by anybody else
\* than the cycle that holds it unless its session is lost, and that a cycle
\* that has lost it does not take from the next.
ImplementsCycleLocker == Locker!LockerSpec
================================================================================
