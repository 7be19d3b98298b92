------------------------------ MODULE CycleLocker ------------------------------
(***************************************************************************)
(* What the cleanup expects of its CycleLocker, without connections,       *)
(* sessions or statements.  The lock is granted to one cycle at a time.    *)
(* It may be lost under the cycle that holds it, which goes on all the     *)
(* same; what that cycle does then, its release included, leaves the lock  *)
(* of the next one alone.  The lock may also be taken by nobody: a caller  *)
(* that has heard of an error, or that is gone.                            *)
(***************************************************************************)
CONSTANTS
    Replicas,   \* the callers
    Losable     \* may a cycle lose the lock before it releases it?

VARIABLES
    taken,      \* is the lock refused to everybody?
    cycles,     \* the replicas that have acquired it and not yet released it
    holding     \* those among them for which it is taken

lockerVars == <<taken, cycles, holding>>

LockerTypeOK ==
    /\ taken \in BOOLEAN
    /\ cycles \subseteq Replicas
    /\ holding \subseteq cycles

LockerInit == ~taken /\ cycles = {} /\ holding = {}

\* TryLock returns acquired = true
Acquired(h) ==
    /\ ~taken /\ h \notin cycles
    /\ taken'
    /\ cycles' = cycles \cup {h}
    /\ holding' = holding \cup {h}

\* TryLock returns an error, and the lock is taken
TakenInVain ==
    /\ ~taken
    /\ taken'
    /\ UNCHANGED <<cycles, holding>>

\* the release function returns, or the replica stops: the lock is given back,
\* now or later, if it was this cycle that held it
Released(h) ==
    /\ h \in cycles
    /\ cycles' = cycles \ {h}
    /\ holding' = holding \ {h}
    /\ taken' \in BOOLEAN
    /\ h \in holding \/ UNCHANGED taken

\* the lock is given back for a holder that is gone
GivenBack ==
    /\ taken /\ holding = {}
    /\ ~taken'
    /\ UNCHANGED <<cycles, holding>>

Lost(h) ==
    /\ Losable /\ h \in holding
    /\ holding' = holding \ {h}
    /\ ~taken'
    /\ UNCHANGED cycles

LockerNext ==
    \/ \E h \in Replicas : Acquired(h) \/ Released(h) \/ Lost(h)
    \/ TakenInVain \/ GivenBack

LockerSpec == LockerInit /\ [][LockerNext]_lockerVars

\* The cycles that have not lost the lock are one at most, and while there is
\* one nobody else is granted it.
LockerSafe ==
    /\ holding # {} => taken
    /\ \A g, h \in holding : g = h
    /\ ~Losable => cycles = holding
================================================================================
