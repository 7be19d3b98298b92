----------------------------- MODULE ShareService -----------------------------
(***************************************************************************)
(* What isrv promises the people who share files, without its stores, its  *)
(* handlers or its cleanup loop.  A shared file is withdrawn only after it *)
(* has been released (it expired, or somebody entitled to asked for its    *)
(* deletion), it is never shared again after that, and a reader who has    *)
(* found a file gets that file or, if it has been withdrawn in the         *)
(* meantime, nothing.                                                      *)
(***************************************************************************)
CONSTANTS
    Shares,     \* the files that may be shared
    Readers,    \* the readers, each of whom asks once
    None        \* "no such value"

VARIABLES
    state,      \* of each file: "none", "shared" or "withdrawn"
    released,   \* the files that may be withdrawn
    reading     \* of each reader: the file it has found and what it got

shareVars == <<state, released, reading>>

NotReading == [file |-> None, got |-> "nothing"]

Reading == [file : Shares \cup {None}, got : {"nothing", "file", "miss"}]

ShareTypeOK ==
    /\ state \in [Shares -> {"none", "shared", "withdrawn"}]
    /\ released \subseteq Shares
    /\ reading \in [Readers -> Reading]

ShareInit ==
    /\ state = [s \in Shares |-> "none"]
    /\ released = {}
    /\ reading = [r \in Readers |-> NotReading]

\* files are released whenever the clock or their owners decide so
Release == released \subseteq released' /\ released' \subseteq Shares

Share(s) ==
    /\ state[s] = "none"
    /\ state' = [state EXCEPT ![s] = "shared"]
    /\ UNCHANGED reading

Withdraw(s) ==
    /\ state[s] = "shared"
    /\ s \in released
    /\ state' = [state EXCEPT ![s] = "withdrawn"]
    /\ UNCHANGED reading

Find(r, s) ==
    /\ reading[r] = NotReading
    /\ state[s] # "none"
    /\ reading' = [reading EXCEPT ![r] = [file |-> s, got |-> "nothing"]]
    /\ UNCHANGED state

Get(r) ==
    /\ reading[r].file # None
    /\ reading[r].got = "nothing"
    /\ reading' = [reading EXCEPT ![r].got = "file"]
    /\ UNCHANGED state

Miss(r) ==
    /\ reading[r].file # None
    /\ reading[r].got = "nothing"
    /\ state[reading[r].file] = "withdrawn"
    /\ reading' = [reading EXCEPT ![r].got = "miss"]
    /\ UNCHANGED state

ShareNext ==
    /\ Release
    /\ \/ \E s \in Shares : Share(s) \/ Withdraw(s)
       \/ \E r \in Readers, s \in Shares : Find(r, s)
       \/ \E r \in Readers : Get(r) \/ Miss(r)
       \/ UNCHANGED <<state, reading>>

ShareSpec == ShareInit /\ [][ShareNext]_shareVars

\* Only released files are withdrawn, nobody finds one that was not shared, and
\* who has found one and goes away without it was sent away from a withdrawn one.
ShareSafe ==
    /\ \A s \in Shares : state[s] = "withdrawn" => s \in released
    /\ \A r \in Readers :
          LET s == reading[r].file
          IN  /\ s # None => state[s] # "none"
              /\ reading[r].got # "nothing" => s # None
              /\ reading[r].got = "miss" => state[s] = "withdrawn"
===============================================================================
