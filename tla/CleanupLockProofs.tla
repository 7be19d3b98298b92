-------------------------- MODULE CleanupLockProofs --------------------------
(***************************************************************************)
(* Proofs about CleanupLock, for every number of replicas and sessions and *)
(* every set of faults.                                                    *)
(***************************************************************************)
EXTENDS CleanupLockRefinement, TLAPS

\* a replica has pinned a connection of its own from Conn until the cycle ends
Pinning ==
    \A h \in Replicas :
        IF pc[h] = "idle" THEN pinned[h] = None
        ELSE pinned[h] \in Sessions /\ owner[pinned[h]] = h

\* the server grants the lock to one session, which exists
OneHolder ==
    /\ \A s \in Sessions : locks[s] > 0 => s \in live
    /\ \A s, t \in Sessions : locks[s] > 0 /\ locks[t] > 0 => s = t

\* the cycle and its release run on a session that has the lock
HeldWhile ==
    \A h \in Replicas :
        pc[h] \in {"sweep", "unlock"} /\ pinned[h] \in live
            => locks[pinned[h]] > 0

\* with replies in time TryLock starts on a session without the lock, a cycle
\* has it once, and no pool has it
HeldOnce ==
    RepliesInTime =>
        /\ \A h \in Replicas :
              /\ pc[h] = "lock" => locks[pinned[h]] = 0
              /\ pc[h] \in {"sweep", "unlock"} /\ pinned[h] \in live
                   => locks[pinned[h]] = 1
        /\ PoolHoldsNoLock

\* open connections have a session, unless the server may end it
OpenIsLive ==
    "sessionLoss" \notin Faults =>
        \A s \in Sessions : owner[s] # None => s \in live

LockInv ==
    /\ TypeOK
    /\ Pinning
    /\ OneHolder
    /\ HeldWhile
    /\ HeldOnce
    /\ OpenIsLive

-----------------------------------------------------------------------------
USE LockAssumption

LEMMA InitLockInv == Init => LockInv
  BY DEF Init, LockInv, TypeOK, Pinning, OneHolder, HeldWhile, HeldOnce,
     PoolHoldsNoLock, OpenIsLive, Pool

\* a replica's pinned connection and its pool are nobody else's
LEMMA Disjoint ==
  ASSUME LockInv, NEW g \in Replicas, NEW h \in Replicas, pc[h] # "idle",
         g # h
  PROVE  /\ pinned[h] \notin Pool(g)
         /\ pinned[h] # pinned[g]
  BY DEF LockInv, Pinning, Pool, TypeOK

LEMMA CycleLockInv ==
  ASSUME LockInv, NEW h \in Replicas, Cycle(h)
  PROVE  LockInv'
<1> USE DEF LockInv, TypeOK, Pinning, OneHolder, HeldWhile, HeldOnce,
            PoolHoldsNoLock, RepliesInTime, OpenIsLive, Pool
<1>1. CASE \E s \in Sessions : Conn(h, s)
  BY <1>1 DEF Conn
<1>2. CASE Acquire(h)
  BY <1>2 DEF Acquire, Grantable
<1>3. CASE NotAcquired(h)
  BY <1>3 DEF NotAcquired, Close, Unpin
<1>4. CASE TryLockFails(h)
  BY <1>4 DEF TryLockFails, CloseTimedOut, Close, Discard, Unpin, Grantable
<1>5. CASE FinishSweep(h)
  BY <1>5 DEF FinishSweep
<1>6. CASE Unlock(h)
  BY <1>6 DEF Unlock, Close, Unpin, Unlocked
<1>7. CASE UnlockFails(h)
  BY <1>7 DEF UnlockFails, Discard, Unpin, Unlocked
<1> QED BY <1>1, <1>2, <1>3, <1>4, <1>5, <1>6, <1>7 DEF Cycle

LEMMA NextLockInv ==
  ASSUME LockInv, Next
  PROVE  LockInv'
<1>1. CASE \E h \in Replicas : Cycle(h)
  BY <1>1, CycleLockInv
<1> USE DEF LockInv, TypeOK, Pinning, OneHolder, HeldWhile, HeldOnce,
            PoolHoldsNoLock, RepliesInTime, OpenIsLive, Pool
<1>2. CASE \E h \in Replicas : Crash(h)
  BY <1>2 DEF Crash, Unpin
<1>3. CASE \E h \in Replicas, s \in Sessions : PoolClose(h, s)
  BY <1>3 DEF PoolClose
<1>4. CASE \E s \in Sessions : SessionEnd(s)
  BY <1>4 DEF SessionEnd, End
<1>5. CASE \E s \in Sessions : SessionLoss(s)
  BY <1>5 DEF SessionLoss, End
<1> QED BY <1>1, <1>2, <1>3, <1>4, <1>5 DEF Next

\* The inductive invariant of the lock.
THEOREM LockInvariant == Spec => []LockInv
<1>1. LockInv /\ [Next]_vars => LockInv'
  <2>1. LockInv /\ UNCHANGED vars => LockInv'
    BY DEF vars, LockInv, TypeOK, Pinning, OneHolder, HeldWhile,
       HeldOnce, PoolHoldsNoLock, OpenIsLive, Pool
  <2> QED BY <2>1, NextLockInv
<1> QED BY InitLockInv, <1>1, PTL DEF Spec

\* Type correctness of the replicas' connections and the server's sessions.
THEOREM LockTypeCorrect == Spec => []TypeOK
<1>1. LockInv => TypeOK
  BY DEF LockInv
<1> QED BY <1>1, LockInvariant, PTL

\* No connection in a pool keeps the lock: TryLock and its release function
\* put none back that might have it, if no context of TryLock ends between the
\* reply and its Scan.
THEOREM PoolNeverHoldsLock == RepliesInTime => (Spec => []PoolHoldsNoLock)
<1> SUFFICES ASSUME RepliesInTime PROVE Spec => []PoolHoldsNoLock OBVIOUS
<1>1. LockInv => PoolHoldsNoLock
  BY DEF LockInv, HeldOnce
<1>2. Spec => []LockInv
  BY LockInvariant
<1> QED BY <1>1, <1>2, PTL

\* performCleanup runs while its session, as long as it lasts, holds the lock.
THEOREM CyclesHoldTheLock == Spec => []SweepHoldsLock
<1>1. LockInv => SweepHoldsLock
  BY DEF LockInv, HeldWhile, SweepHoldsLock, Sweeping
<1> QED BY <1>1, LockInvariant, PTL

\* Cycles of different replicas whose sessions last never overlap, whatever
\* errors, lost sessions and crashes there are.
THEOREM CyclesAreSerialized == Spec => []CyclesSerialized
<1>1. LockInv => CyclesSerialized
  <2> SUFFICES ASSUME LockInv, NEW g \in Sweeping, NEW h \in Sweeping,
                      pinned[g] \in live, pinned[h] \in live
               PROVE  g = h
    BY DEF CyclesSerialized
  <2>1. \A k \in {g, h} : /\ k \in Replicas
                          /\ pinned[k] \in Sessions
                          /\ owner[pinned[k]] = k
    BY DEF Sweeping, LockInv, Pinning
  <2>2. locks[pinned[g]] > 0 /\ locks[pinned[h]] > 0
    BY <2>1 DEF LockInv, HeldWhile, Sweeping
  <2>3. pinned[g] = pinned[h]
    BY <2>1, <2>2 DEF LockInv, OneHolder
  <2> QED BY <2>1, <2>3
<1> QED BY <1>1, LockInvariant, PTL

\* the cycles of all replicas, one at a time
OneCycle == \A g, h \in Sweeping : g = h

\* Where the server ends no session under an open connection, cycles never
\* overlap at all.
THEOREM OneCycleAtATime ==
  ASSUME "sessionLoss" \notin Faults
  PROVE  Spec => []OneCycle
<1>1. LockInv /\ CyclesSerialized => OneCycle
  <2>1. LockInv => \A h \in Sweeping : pinned[h] \in live
    BY DEF LockInv, Pinning, OpenIsLive, Sweeping
  <2> QED BY <2>1 DEF CyclesSerialized, OneCycle
<1> QED BY <1>1, LockInvariant, CyclesAreSerialized, PTL

-----------------------------------------------------------------------------
(* The refinement of CycleLocker. *)

\* The session that a cycle holds the lock with is its own, and the only one.
LEMMA Holder ==
  ASSUME RepliesInTime, LockInv, NEW h \in lockerHolding
  PROVE  /\ h \in Replicas /\ pc[h] \in {"sweep", "unlock"}
         /\ pinned[h] \in Sessions /\ pinned[h] \in live /\ locks[pinned[h]] = 1
         /\ \A s \in Sessions \ {pinned[h]} : locks[s] = 0
         /\ \A g \in Replicas \ {h} : pinned[g] # pinned[h]
<1>1. h \in Replicas /\ pc[h] \in {"sweep", "unlock"} /\ locks[pinned[h]] > 0
  BY DEF lockerHolding, lockerCycles
<1>2. pinned[h] \in Sessions
  BY <1>1 DEF LockInv, Pinning
<1>3. pinned[h] \in live /\ locks[pinned[h]] = 1
  BY <1>1, <1>2 DEF LockInv, OneHolder, HeldOnce
<1>4. ASSUME NEW s \in Sessions \ {pinned[h]}
      PROVE  locks[s] = 0
  BY <1>1, <1>2, <1>4 DEF LockInv, OneHolder, TypeOK
<1>5. \A g \in Replicas \ {h} : pinned[g] # pinned[h]
  BY <1>1, Disjoint
<1> QED BY <1>1, <1>2, <1>3, <1>4, <1>5

LEMMA TakenOrNot ==
  ASSUME RepliesInTime, LockInv
  PROVE  /\ lockerTaken \in BOOLEAN
         /\ ~lockerTaken <=> \A s \in Sessions : locks[s] = 0
         /\ ~lockerTaken => lockerHolding = {}
<1>1. \A s \in Sessions : locks[s] \in Nat
  BY DEF LockInv, TypeOK
<1>2. ~lockerTaken <=> \A s \in Sessions : locks[s] = 0
  BY <1>1 DEF lockerTaken
<1>3. lockerHolding # {} => lockerTaken
  BY Holder DEF lockerTaken
<1> QED BY <1>2, <1>3 DEF lockerTaken

\* A step in the cycle of one replica leaves the others where they are.
OthersKept(h) ==
    \A g \in Replicas \ {h} : pc'[g] = pc[g] /\ pinned'[g] = pinned[g]

LEMMA OthersHold ==
  ASSUME LockInv, NEW h \in Replicas, OthersKept(h),
         \A s \in Sessions : s # pinned[h] => locks'[s] = locks[s]
  PROVE  \A g \in Replicas \ {h} :
            /\ g \in lockerCycles' <=> g \in lockerCycles
            /\ g \in lockerHolding' <=> g \in lockerHolding
<1> SUFFICES ASSUME NEW g \in Replicas \ {h}
             PROVE  /\ g \in lockerCycles' <=> g \in lockerCycles
                    /\ g \in lockerHolding' <=> g \in lockerHolding
  OBVIOUS
<1>1. pc'[g] = pc[g] /\ pinned'[g] = pinned[g]
  BY DEF OthersKept
<1>2. ASSUME pc[g] \in {"sweep", "unlock"}
      PROVE  locks'[pinned[g]] = locks[pinned[g]]
  <2>1. pinned[g] \in Sessions /\ pinned[g] # pinned[h]
    BY <1>2, Disjoint DEF LockInv, Pinning
  <2> QED BY <2>1
<1> QED BY <1>1, <1>2 DEF lockerCycles, lockerHolding

\* A replica that neither enters a cycle nor leaves one, nor anyone's lock.
LEMMA LockerStutters ==
  ASSUME LockInv, NEW h \in Replicas, OthersKept(h), UNCHANGED locks,
         {pc[h], pc'[h]} \subseteq {"idle", "lock"}
  PROVE  UNCHANGED Locker!lockerVars
<1>1. /\ lockerCycles' \subseteq Replicas /\ lockerCycles \subseteq Replicas
      /\ lockerHolding' \subseteq Replicas /\ lockerHolding \subseteq Replicas
  BY DEF lockerCycles, lockerHolding
<1>2. h \notin lockerCycles /\ h \notin lockerCycles'
      /\ h \notin lockerHolding /\ h \notin lockerHolding'
  BY DEF lockerCycles, lockerHolding
<1>3. lockerCycles' = lockerCycles /\ lockerHolding' = lockerHolding
  BY <1>1, <1>2, OthersHold
<1> QED BY <1>3 DEF lockerTaken, Locker!lockerVars

\* The end of a cycle, with the lock given back or kept by the session.
LEMMA CycleReleased ==
  ASSUME LockInv, LockInv', NEW h \in Replicas, OthersKept(h),
         h \in lockerCycles, pc'[h] = "idle",
         \A s \in Sessions : s # pinned[h] => locks'[s] = locks[s],
         h \notin lockerHolding => UNCHANGED locks
  PROVE  Locker!Released(h)
<1>1. /\ lockerCycles' \subseteq Replicas /\ lockerCycles \subseteq Replicas
      /\ lockerHolding' \subseteq Replicas /\ lockerHolding \subseteq Replicas
  BY DEF lockerCycles, lockerHolding
<1>2. h \notin lockerCycles' /\ h \notin lockerHolding'
  BY DEF lockerCycles, lockerHolding
<1>3. lockerCycles' = lockerCycles \ {h} /\ lockerHolding' = lockerHolding \ {h}
  BY <1>1, <1>2, OthersHold
<1>4. h \notin lockerHolding => lockerTaken' = lockerTaken
  BY DEF lockerTaken
<1> QED BY <1>3, <1>4 DEF lockerTaken, Locker!Released

-----------------------------------------------------------------------------

LEMMA AcquireLocks ==
  ASSUME RepliesInTime, LockInv, LockInv', NEW h \in Replicas, Acquire(h)
  PROVE  Locker!Acquired(h)
<1>1. /\ pinned[h] \in Sessions /\ locks[pinned[h]] = 0 /\ h \notin lockerCycles
      /\ h \notin lockerHolding
  BY DEF Acquire, LockInv, Pinning, HeldOnce, lockerCycles, lockerHolding
<1>2. ~lockerTaken
  BY <1>1, TakenOrNot DEF Acquire, Grantable
<1>3. /\ OthersKept(h) /\ pc'[h] = "sweep" /\ pinned' = pinned
      /\ locks'[pinned[h]] = 1
      /\ \A s \in Sessions : s # pinned[h] => locks'[s] = locks[s]
  BY <1>1 DEF Acquire, OthersKept, LockInv, TypeOK
<1>4. h \in lockerCycles' /\ h \in lockerHolding' /\ lockerTaken'
  BY <1>1, <1>3 DEF lockerCycles, lockerHolding, lockerTaken
<1>5. /\ lockerCycles' \subseteq Replicas /\ lockerCycles \subseteq Replicas
      /\ lockerHolding' \subseteq Replicas /\ lockerHolding \subseteq Replicas
  BY DEF lockerCycles, lockerHolding
<1>6. lockerCycles' = lockerCycles \cup {h} /\ lockerHolding' = lockerHolding \cup {h}
  BY <1>3, <1>4, <1>5, OthersHold
<1> QED BY <1>1, <1>2, <1>4, <1>6 DEF Locker!Acquired

\* A TryLock that fails takes the lock for nobody, or does not.
LEMMA TryLockFailsLocks ==
  ASSUME RepliesInTime, LockInv, LockInv', NEW h \in Replicas, TryLockFails(h)
  PROVE  Locker!TakenInVain \/ UNCHANGED Locker!lockerVars
<1>1. /\ pinned[h] \in Sessions /\ pc[h] = "lock" /\ pc'[h] = "idle" /\ OthersKept(h)
  BY DEF TryLockFails, CloseTimedOut, Close, Discard, Unpin, OthersKept, LockInv, Pinning, TypeOK
<1>2. CASE UNCHANGED locks
  BY <1>1, <1>2, LockerStutters
<1>3. CASE Grantable(pinned[h]) /\ locks' = [locks EXCEPT ![pinned[h]] = @ + 1]
  <2>1. locks[pinned[h]] = 0
    BY <1>1 DEF LockInv, HeldOnce
  <2>2. ~lockerTaken
    BY <1>3, <2>1, TakenOrNot DEF Grantable
  <2>3. locks'[pinned[h]] = 1 /\ \A s \in Sessions : s # pinned[h] => locks'[s] = locks[s]
    BY <1>1, <1>3, <2>1 DEF LockInv, TypeOK
  <2>4. lockerTaken'
    BY <1>1, <2>3 DEF lockerTaken
  <2>5. /\ lockerCycles' \subseteq Replicas /\ lockerCycles \subseteq Replicas
        /\ lockerHolding' \subseteq Replicas /\ lockerHolding \subseteq Replicas
    BY DEF lockerCycles, lockerHolding
  <2>6. h \notin lockerCycles /\ h \notin lockerCycles'
        /\ h \notin lockerHolding /\ h \notin lockerHolding'
    BY <1>1 DEF lockerCycles, lockerHolding
  <2>7. lockerCycles' = lockerCycles /\ lockerHolding' = lockerHolding
    BY <1>1, <2>3, <2>5, <2>6, OthersHold
  <2> QED BY <2>2, <2>4, <2>7 DEF Locker!TakenInVain
<1> QED BY <1>2, <1>3 DEF TryLockFails

\* The release function, whatever its unlock reports.
LEMMA ReleaseLocks ==
  ASSUME LockInv, LockInv', NEW h \in Replicas, Unlock(h) \/ UnlockFails(h)
  PROVE  Locker!Released(h)
<1>1. /\ pinned[h] \in Sessions /\ pc[h] = "unlock" /\ pc'[h] = "idle" /\ OthersKept(h)
      /\ h \in lockerCycles
  BY DEF Unlock, UnlockFails, Close, Discard, Unpin, OthersKept, LockInv, Pinning,
     TypeOK, lockerCycles
<1>2. UNCHANGED locks \/ locks' = Unlocked(pinned[h])
  BY DEF Unlock, UnlockFails
<1>3. \A s \in Sessions : s # pinned[h] => locks'[s] = locks[s]
  BY <1>1, <1>2 DEF Unlocked, LockInv, TypeOK
<1>4. ASSUME h \notin lockerHolding
      PROVE  UNCHANGED locks
  <2>1. locks[pinned[h]] = 0
    BY <1>1, <1>4 DEF lockerHolding, LockInv, TypeOK
  <2> QED BY <1>1, <1>2, <2>1 DEF Unlocked, LockInv, TypeOK
<1> QED BY <1>1, <1>3, <1>4, CycleReleased

LEMMA CrashLocks ==
  ASSUME LockInv, LockInv', NEW h \in Replicas, Crash(h)
  PROVE  Locker!Released(h) \/ UNCHANGED Locker!lockerVars
<1>1. pc'[h] = "idle" /\ OthersKept(h) /\ UNCHANGED locks
  BY DEF Crash, Unpin, OthersKept, LockInv, TypeOK
<1>2. CASE h \in lockerCycles
  BY <1>1, <1>2, CycleReleased
<1>3. CASE h \notin lockerCycles
  <2>1. pc[h] \in {"idle", "lock"}
    BY <1>3 DEF lockerCycles, LockInv, TypeOK
  <2> QED BY <1>1, <2>1, LockerStutters
<1> QED BY <1>2, <1>3

\* A session that ends takes its lock with it.
LEMMA EndLocks ==
  ASSUME RepliesInTime, LockInv, LockInv', NEW s \in Sessions, End(s),
         owner[s] = None \/ "sessionLoss" \in Faults
  PROVE  \/ \E h \in Replicas : Locker!Lost(h)
         \/ Locker!GivenBack \/ UNCHANGED Locker!lockerVars
<1>1. /\ UNCHANGED <<pc, pinned>> /\ locks'[s] = 0
      /\ \A t \in Sessions \ {s} : locks'[t] = locks[t]
  BY DEF End, LockInv, TypeOK
<1>2. lockerCycles' = lockerCycles
  BY <1>1 DEF lockerCycles
<1>3. CASE locks[s] = 0
  <2>1. locks' = locks
    BY <1>3 DEF End, LockInv, TypeOK
  <2> QED BY <1>1, <1>2, <2>1 DEF lockerHolding, lockerTaken, Locker!lockerVars
<1>4. CASE locks[s] > 0
  <2>1. lockerTaken /\ \A t \in Sessions \ {s} : locks[t] = 0
    BY <1>4 DEF lockerTaken, LockInv, OneHolder, TypeOK
  <2>2. \A t \in Sessions : locks'[t] = 0
    BY <1>1, <2>1
  <2>3. ~lockerTaken' /\ lockerHolding' = {}
    <3>1. \A h \in lockerCycles' : pinned'[h] \in Sessions
      BY DEF LockInv, Pinning, lockerCycles
    <3> QED BY <2>2, <3>1 DEF lockerTaken, lockerHolding
  <2>4. CASE lockerHolding = {}
    BY <1>2, <2>1, <2>3, <2>4 DEF Locker!GivenBack
  <2>5. ASSUME NEW h \in lockerHolding
        PROVE  Locker!Lost(h) /\ h \in Replicas
    <3>1. h \in Replicas /\ pinned[h] = s /\ lockerHolding = {h}
      <4>1. \A g \in lockerHolding : g = h
        BY Holder
      <4> QED BY <4>1, <1>4, Holder
    <3>2. owner[s] = h /\ h # None
      BY <3>1, Holder DEF LockInv, Pinning
    <3>3. "sessionLoss" \in Faults
      BY <3>2
    <3> QED BY <1>2, <2>3, <3>1, <3>3 DEF Locker!Lost
  <2> QED BY <2>4, <2>5
<1> QED BY <1>3, <1>4 DEF LockInv, TypeOK

LEMMA CycleLocks ==
  ASSUME RepliesInTime, LockInv, LockInv', NEW h \in Replicas, Cycle(h)
  PROVE  Locker!LockerNext \/ UNCHANGED Locker!lockerVars
<1>1. CASE (\E s \in Sessions : Conn(h, s)) \/ NotAcquired(h)
  <2>1. OthersKept(h) /\ UNCHANGED locks /\ {pc[h], pc'[h]} \subseteq {"idle", "lock"}
    BY <1>1 DEF Conn, NotAcquired, Close, Unpin, OthersKept, LockInv, TypeOK
  <2> QED BY <2>1, LockerStutters
<1>2. CASE Acquire(h)
  BY <1>2, AcquireLocks DEF Locker!LockerNext
<1>3. CASE TryLockFails(h)
  BY <1>3, TryLockFailsLocks DEF Locker!LockerNext
<1>4. CASE FinishSweep(h)
  <2>1. /\ UNCHANGED <<pinned, locks>> /\ pc' = [pc EXCEPT ![h] = "unlock"]
        /\ pc[h] = "sweep"
    BY <1>4 DEF FinishSweep
  <2>2. lockerCycles' = lockerCycles
    BY <2>1 DEF lockerCycles, LockInv, TypeOK
  <2> QED BY <2>1, <2>2 DEF lockerHolding, lockerTaken, Locker!lockerVars
<1>5. CASE Unlock(h) \/ UnlockFails(h)
  BY <1>5, ReleaseLocks DEF Locker!LockerNext
<1> QED BY <1>1, <1>2, <1>3, <1>4, <1>5 DEF Cycle

LEMMA NextLocks ==
  ASSUME RepliesInTime, LockInv, LockInv', [Next]_vars
  PROVE  [Locker!LockerNext]_(Locker!lockerVars)
<1>1. CASE \E h \in Replicas : Cycle(h)
  BY <1>1, CycleLocks
<1>2. CASE \E h \in Replicas : Crash(h)
  BY <1>2, CrashLocks DEF Locker!LockerNext
<1>3. CASE \E s \in Sessions : SessionEnd(s) \/ SessionLoss(s)
  BY <1>3, EndLocks DEF SessionEnd, SessionLoss, Locker!LockerNext
<1>4. CASE UNCHANGED <<pc, pinned, locks>>
  BY <1>4 DEF Locker!lockerVars, lockerTaken, lockerCycles, lockerHolding
<1> QED BY <1>1, <1>2, <1>3, <1>4 DEF Next, PoolClose, vars

\* PostgresDB.TryLock and its release function implement the CycleLocker that
\* runCleanupCycle asks for: what happens to connections and sessions is a step
\* of the abstract lock or no step at all; with replies in time.
THEOREM LocksCycles == RepliesInTime => (Spec => ImplementsCycleLocker)
<1> SUFFICES ASSUME RepliesInTime PROVE Spec => Locker!LockerSpec
  BY DEF ImplementsCycleLocker
<1>1. Init => Locker!LockerInit
  BY DEF Init, Locker!LockerInit, lockerTaken, lockerCycles, lockerHolding
<1>2. LockInv /\ LockInv' /\ [Next]_vars => [Locker!LockerNext]_(Locker!lockerVars)
  BY NextLocks
<1>3. Spec => []LockInv
  BY LockInvariant
<1> QED BY <1>1, <1>2, <1>3, PTL DEF Spec, Locker!LockerSpec

\* The abstract lock keeps the cycles that have not lost it apart; with the
\* refinement, this is what the replicas' cycles do.
THEOREM LockersAreSafe == RepliesInTime => (Spec => []Locker!LockerSafe)
<1> USE DEF Locker!LockerSafe
<1>1. Locker!LockerInit => Locker!LockerSafe
  BY DEF Locker!LockerInit
<1>2. Locker!LockerSafe /\ [Locker!LockerNext]_(Locker!lockerVars)
        => Locker!LockerSafe'
  BY DEF Locker!LockerNext, Locker!lockerVars, Locker!Acquired, Locker!Released,
     Locker!Lost, Locker!TakenInVain, Locker!GivenBack
<1>3. Locker!LockerSpec => []Locker!LockerSafe
  BY <1>1, <1>2, PTL DEF Locker!LockerSpec
<1> QED BY <1>3, LocksCycles DEF ImplementsCycleLocker
=============================================================================
