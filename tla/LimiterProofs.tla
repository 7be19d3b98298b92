--------------------------- MODULE LimiterProofs ---------------------------
(***************************************************************************)
(* Proofs about Limiter.                                                   *)
(***************************************************************************)
EXTENDS Limiter, Induction

USE LimiterAssumption

-----------------------------------------------------------------------------
(* The back-off. *)

\* What shiftLeft is, for the shifts below k, and what it says.
Shifts(f, k) == f = [n \in 0..(k - 1) |-> IF n = 0 THEN 1 ELSE 2 * f[n - 1]]

LEMMA ShiftExists == \E f : Shifts(f, maxBackoffFactor + 1)
<1> DEFINE m == maxBackoffFactor + 1
           S == {k \in 1..m : \E f : Shifts(f, k)}
<1>1. 1 \in S
  <2>1. Shifts([n \in 0..0 |-> 1], 1)
    BY DEF Shifts
  <2> QED
    BY <2>1
<1>2. ASSUME NEW k \in 1..(m - 1), k \in S
      PROVE  k + 1 \in S
  <2>1. PICK f : Shifts(f, k)
    BY <1>2
  <2> DEFINE g == [n \in 0..k |-> IF n < k THEN f[n] ELSE 2 * f[k - 1]]
  <2>2. \A n \in 0..(k - 1) : f[n] = IF n = 0 THEN 1 ELSE 2 * f[n - 1]
    BY <2>1 DEF Shifts
  <2>3. ASSUME NEW n \in 0..k
        PROVE  g[n] = IF n = 0 THEN 1 ELSE 2 * g[n - 1]
    <3>1. CASE n < k
      <4>1. n \in 0..(k - 1) /\ (n # 0 => n - 1 \in 0..k /\ n - 1 < k)
        BY <3>1
      <4>2. g[n] = f[n] /\ (n # 0 => g[n - 1] = f[n - 1])
        BY <3>1, <4>1
      <4> HIDE DEF g
      <4> QED
        BY <2>2, <4>1, <4>2
    <3>2. CASE n = k
      <4>1. k # 0 /\ k - 1 \in 0..k /\ k - 1 < k /\ ~(k < k)
        OBVIOUS
      <4>2. g[k] = 2 * f[k - 1] /\ g[k - 1] = f[k - 1]
        BY <4>1
      <4> HIDE DEF g
      <4> QED
        BY <3>2, <4>1, <4>2
    <3> QED
      BY <3>1, <3>2
  <2>4. Shifts(g, k + 1)
    <3>1. g = [n \in 0..k |-> g[n]] /\ (k + 1) - 1 = k
      OBVIOUS
    <3> HIDE DEF g
    <3> QED
      BY <2>3, <3>1 DEF Shifts
  <2> HIDE DEF g
  <2> QED
    BY <2>4
<1>3. m \in Nat
  OBVIOUS
<1> HIDE DEF S
<1>4. m \in S
  <2>1. 1..m \subseteq S
    BY <1>1, <1>2, <1>3, UpTo
  <2> QED
    BY <2>1
<1> QED
  BY <1>4 DEF S

LEMMA ShiftUnfolds ==
    \A n \in 0..maxBackoffFactor :
        shiftLeft[n] = IF n = 0 THEN 1 ELSE 2 * shiftLeft[n - 1]
<1>1. (maxBackoffFactor + 1) - 1 = maxBackoffFactor
  OBVIOUS
<1>2. shiftLeft = [n \in 0..maxBackoffFactor |->
                     IF n = 0 THEN 1 ELSE 2 * shiftLeft[n - 1]]
  BY <1>1, ShiftExists DEF shiftLeft, Shifts
<1> QED
  BY <1>2

\* A shift by one more doubles.
LEMMA ShiftDoubles ==
    /\ \A n \in 0..maxBackoffFactor : shiftLeft[n] \in Nat \ {0}
    /\ \A n \in 0..(maxBackoffFactor - 1) : shiftLeft[n + 1] = 2 * shiftLeft[n]
<1>1. \A n \in 0..(maxBackoffFactor - 1) : shiftLeft[n + 1] = 2 * shiftLeft[n]
  <2>1. \A n \in 0..(maxBackoffFactor - 1) :
          n + 1 \in 0..maxBackoffFactor /\ n + 1 # 0 /\ (n + 1) - 1 = n
    OBVIOUS
  <2> QED
    BY <2>1, ShiftUnfolds
<1>2. shiftLeft[0] = 1
  BY ShiftUnfolds
<1> DEFINE S == {k \in Nat : shiftLeft[k - 1] \in Nat \ {0}}
<1>3. 1 \in S
  BY <1>2
<1>4. ASSUME NEW k \in 1..maxBackoffFactor, k \in S
      PROVE  k + 1 \in S
  <2>1. shiftLeft[k] = 2 * shiftLeft[k - 1]
    <3>1. k - 1 \in 0..(maxBackoffFactor - 1) /\ (k - 1) + 1 = k
      OBVIOUS
    <3> QED
      BY <1>1, <3>1
  <2>2. k + 1 \in Nat /\ (k + 1) - 1 = k
    OBVIOUS
  <2> QED
    BY <1>4, <2>1, <2>2
<1>5. 1..(maxBackoffFactor + 1) \subseteq S
  <2>1. maxBackoffFactor + 1 \in Nat /\ (maxBackoffFactor + 1) - 1 = maxBackoffFactor
    OBVIOUS
  <2> HIDE DEF S
  <2> QED
    BY <1>3, <1>4, <2>1, UpTo
<1>6. ASSUME NEW n \in 0..maxBackoffFactor
      PROVE  shiftLeft[n] \in Nat \ {0}
  <2>1. n + 1 \in 1..(maxBackoffFactor + 1) /\ (n + 1) - 1 = n
    OBVIOUS
  <2>2. n + 1 \in S
    <3> HIDE DEF S
    <3> QED
      BY <1>5, <2>1
  <2> QED
    BY <2>1, <2>2
<1> QED
  BY <1>1, <1>6

\* The factor is positive, and the next offense does not lower it.
LEMMA FactorGrows ==
    ASSUME NEW o \in Nat \ {0}
    PROVE  /\ Factor(o) \in Nat \ {0}
           /\ Factor(o + 1) \in Nat \ {0}
           /\ Factor(o) <= Factor(o + 1)
<1> DEFINE Shift(n) == IF n - 1 < maxBackoffFactor THEN n - 1 ELSE maxBackoffFactor
<1>1. Factor(o) = shiftLeft[Shift(o)] /\ Factor(o + 1) = shiftLeft[Shift(o + 1)]
  BY DEF Factor
<1>2. Shift(o) \in 0..maxBackoffFactor /\ Shift(o + 1) \in 0..maxBackoffFactor
  OBVIOUS
<1>3. \/ Shift(o + 1) = Shift(o)
      \/ Shift(o) \in 0..(maxBackoffFactor - 1) /\ Shift(o + 1) = Shift(o) + 1
  OBVIOUS
<1> HIDE DEF Shift
<1>4. shiftLeft[Shift(o)] \in Nat \ {0} /\ shiftLeft[Shift(o + 1)] \in Nat \ {0}
  BY <1>2, ShiftDoubles
<1>5. shiftLeft[Shift(o)] <= shiftLeft[Shift(o + 1)]
  <2>1. CASE Shift(o + 1) = Shift(o)
    BY <2>1, <1>4
  <2>2. CASE Shift(o) \in 0..(maxBackoffFactor - 1) /\ Shift(o + 1) = Shift(o) + 1
    <3>1. shiftLeft[Shift(o + 1)] = 2 * shiftLeft[Shift(o)]
      BY <2>2, ShiftDoubles
    <3> QED
      BY <3>1, <1>4
  <2> QED
    BY <1>3, <2>1, <2>2
<1> QED
  BY <1>1, <1>4, <1>5

\* Redis blocks for the base duration at least, also where the back-off
\* overflows.
LEMMA RedisBlocksLongEnough ==
    ASSUME NEW o \in Nat \ {0}
    PROVE  RedisBlockDuration(o) \in Nat /\ RedisBlockDuration(o) >= BlockDuration
<1>1. Factor(o) \in Nat \ {0}
  BY FactorGrows
<1>2. BlockDuration * Factor(o) \in Nat /\ BlockDuration * Factor(o) >= BlockDuration
  BY <1>1
<1> QED
  BY <1>2 DEF RedisBlockDuration

\* A duration that fits is not wrapped.
LEMMA FittingIsKept ==
    ASSUME NEW n \in 0..MaxDuration
    PROVE  Wrap(n) = n
<1>1. n % (2 * (MaxDuration + 1)) = n
  OBVIOUS
<1> QED
  BY <1>1 DEF Wrap

LEMMA WrapIsInt ==
    ASSUME NEW n \in Int
    PROVE  Wrap(n) \in Int
  BY DEF Wrap

-----------------------------------------------------------------------------
(* Types. *)

Pcs == {"unsent", "check", "handler", "allow", "block", "set", "expire",
        "served", "tooMany", "rejected"}

Entry == [bucket : Nat, lastSeen : 0..MaxNow]

Block0 == [offenses : Nat, until : Int]

RedisEntry == [bucket : Nat, block : Nat, offenses : Nat, expires : Nat \cup {None}]

Request == [pc : Pcs, client : Clients \cup {None},
            replica : Replicas \cup {None}, duration : Nat]

\* A request that has been sent has a client and a replica, and carries the
\* duration of a block that it is about to record in Redis.
Carries ==
    \A r \in Requests :
        /\ req[r].pc # "unsent" =>
              req[r].client \in Clients /\ req[r].replica \in Replicas
        /\ req[r].pc \in {"set", "expire"} => req[r].duration >= BlockDuration

Typed == TypeOK /\ Carries

\* A request that only goes on.
LEMMA GotoTyped ==
    ASSUME Typed, NEW r \in Requests, NEW step \in Pcs \ {"unsent"},
           Goto(r, step), req[r].pc # "unsent",
           step \in {"set", "expire"} => req[r].pc \in {"set", "expire"}
    PROVE  /\ req' \in [Requests -> Request]
           /\ Carries'
<1> DEFINE new == [req[r] EXCEPT !.pc = step]
<1>1. req \in [Requests -> Request]
  BY DEF Typed, TypeOK, Request, Pcs
<1>2. /\ new \in Request /\ new.pc = step
      /\ new.client = req[r].client /\ new.replica = req[r].replica
      /\ new.duration = req[r].duration
  BY <1>1 DEF Request, Pcs
<1>3. req' = [req EXCEPT ![r] = new]
  BY DEF Goto
<1> HIDE DEF new
<1>4. req' \in [Requests -> Request]
  BY <1>1, <1>2, <1>3
<1>5. req'[r] = new /\ \A q \in Requests \ {r} : req'[q] = req[q]
  BY <1>1, <1>3
<1> QED
  BY <1>2, <1>4, <1>5 DEF Typed, Carries

LEMMA BucketTyped ==
    ASSUME Typed, NEW b \in Nat
    PROVE  Spend(b) \in Nat /\ HasToken(b) \in BOOLEAN
  BY DEF Typed, TypeOK, Spend, HasToken, Later

\* None, one or two executions of the script.
LEMMA SpendTimesTyped ==
    ASSUME Typed, NEW b \in Nat, NEW n \in {0, 1, 2}
    PROVE  SpendTimes(b, n) \in Nat
<1>1. Spend(b) \in Nat /\ Spend(Spend(b)) \in Nat
  BY BucketTyped
<1> QED
  BY <1>1 DEF SpendTimes

LEMMA GrantTyped ==
    ASSUME Typed, NEW s \in Stores, NEW k \in Clients, NEW allowed \in BOOLEAN,
           Grant(s, k, allowed)
    PROVE  granted' \in [Stores -> [Clients -> [0..MaxNow -> Nat]]]
<1> DEFINE more == [t \in 0..MaxNow |-> IF t <= now THEN granted[s][k][t] + 1
                                                    ELSE granted[s][k][t]]
<1>1. granted \in [Stores -> [Clients -> [0..MaxNow -> Nat]]]
  BY DEF Typed, TypeOK
<1>2. more \in [0..MaxNow -> Nat]
  BY <1>1
<1>3. granted' = granted \/ granted' = [granted EXCEPT ![s][k] = more]
  BY DEF Grant
<1> HIDE DEF more
<1>4. [granted[s] EXCEPT ![k] = more] \in [Clients -> [0..MaxNow -> Nat]]
  BY <1>1, <1>2
<1> QED
  BY <1>1, <1>3, <1>4

LEMMA BucketOf ==
    ASSUME Typed, NEW h \in Replicas, NEW k \in Clients
    PROVE  Bucket(h, k) \in Nat
  BY DEF Typed, TypeOK, Bucket

LEMMA SpentTyped ==
    ASSUME Typed, NEW k \in Clients, NEW b \in Nat,
           redis' = [redis EXCEPT ![k].bucket = b]
    PROVE  redis' \in [Clients -> RedisEntry]
<1> DEFINE new == [redis[k] EXCEPT !.bucket = b]
<1>1. redis \in [Clients -> RedisEntry]
  BY DEF Typed, TypeOK, RedisEntry
<1>2. new \in RedisEntry
  BY <1>1 DEF RedisEntry
<1>3. redis' = [redis EXCEPT ![k] = new]
  OBVIOUS
<1> HIDE DEF new
<1> QED
  BY <1>1, <1>2, <1>3

\* Allow decides between answers.
LEMMA DecideTyped ==
    ASSUME Typed, NEW r \in Requests, req[r].pc = "allow",
           NEW allowed \in BOOLEAN, Decide(r, allowed)
    PROVE  /\ req' \in [Requests -> Request]
           /\ Carries'
<1>1. PICK step \in {"served", "block", "tooMany"} : Goto(r, step)
  BY DEF Decide
<1> QED
  BY <1>1, GotoTyped DEF Pcs

LEMMA MemoryAllowTyped ==
    ASSUME Typed, NEW r \in Requests, req[r].pc = "allow", MemoryAllow(r)
    PROVE  /\ visitors' \in [Replicas -> [Clients -> {None} \cup Entry]]
           /\ granted' \in [Stores -> [Clients -> [0..MaxNow -> Nat]]]
           /\ req' \in [Requests -> Request]
           /\ Carries'
<1>1. PICK h \in Replicas, k \in Clients : h = req[r].replica /\ k = req[r].client
  BY DEF Typed, Carries
<1>2. Spend(Bucket(h, k)) \in Nat /\ HasToken(Bucket(h, k)) \in BOOLEAN
  BY BucketOf, BucketTyped
<1>3. [bucket |-> Spend(Bucket(h, k)), lastSeen |-> now] \in Entry
  BY <1>2 DEF Typed, TypeOK, Entry
<1>4. /\ visitors' = [visitors EXCEPT ![h][k] =
                        [bucket |-> Spend(Bucket(h, k)), lastSeen |-> now]]
      /\ Grant(h, k, HasToken(Bucket(h, k)))
      /\ Decide(r, HasToken(Bucket(h, k)))
  BY <1>1 DEF MemoryAllow
<1>5. visitors' \in [Replicas -> [Clients -> {None} \cup Entry]]
  BY <1>3, <1>4 DEF Typed, TypeOK, Entry
<1>6. h \in Stores
  BY DEF Stores
<1> QED
  BY <1>2, <1>4, <1>5, <1>6, GrantTyped, DecideTyped

LEMMA AllowTyped ==
    ASSUME Typed, NEW r \in Requests, Allow(r)
    PROVE  Typed'
<1>1. req[r].pc = "allow"
  BY DEF Allow
<1>2. PICK k \in Clients : k = req[r].client
  BY <1>1 DEF Typed, Carries
<1>3. UNCHANGED <<now, config, blockList, promised, errors>>
  BY DEF Allow
<1>4. redis[k].bucket \in Nat
  BY DEF Typed, TypeOK
<1>5. CASE ~config.cluster /\ MemoryAllow(r) /\ UNCHANGED redis
  BY <1>1, <1>3, <1>5, MemoryAllowTyped DEF Typed, TypeOK, Entry, Request, Pcs
<1>6. CASE RedisAllow(r)
  <2>1. PICK n \in Executions :
          LET bucket == SpendTimes(redis[k].bucket, n - 1)
          IN  /\ redis' = [redis EXCEPT ![k].bucket = Spend(bucket)]
              /\ Grant("redis", k, HasToken(bucket))
              /\ Decide(r, HasToken(bucket))
              /\ UNCHANGED visitors
    BY <1>2, <1>6 DEF RedisAllow
  <2>2. n - 1 \in {0, 1, 2}
    BY DEF Executions
  <2>3. PICK bucket \in Nat : bucket = SpendTimes(redis[k].bucket, n - 1)
    BY <1>4, <2>2, SpendTimesTyped
  <2>4. Spend(bucket) \in Nat /\ HasToken(bucket) \in BOOLEAN
    BY BucketTyped
  <2>5. redis' \in [Clients -> RedisEntry]
    BY <2>1, <2>3, <2>4, SpentTyped
  <2>6. "redis" \in Stores
    BY DEF Stores
  <2>7. granted' \in [Stores -> [Clients -> [0..MaxNow -> Nat]]]
    BY <2>1, <2>3, <2>4, <2>6, GrantTyped
  <2>8. /\ req' \in [Requests -> Request]
        /\ Carries'
    BY <1>1, <2>1, <2>3, <2>4, DecideTyped
  <2> QED
    BY <1>3, <2>1, <2>5, <2>7, <2>8 DEF Typed, TypeOK, RedisEntry, Request, Pcs
<1>7. CASE RedisAllowFails(r)
  <2>1. PICK n \in FailedExecutions :
          /\ redis' = [redis EXCEPT ![k].bucket = SpendTimes(@, n)]
          /\ MemoryAllow(r)
    BY <1>2, <1>7 DEF RedisAllowFails
  <2>2. SpendTimes(redis[k].bucket, n) \in Nat
    BY <1>4, SpendTimesTyped DEF FailedExecutions
  <2>3. redis' \in [Clients -> RedisEntry]
    BY <2>1, <2>2, SpentTyped
  <2> QED
    BY <1>1, <1>3, <2>1, <2>3, MemoryAllowTyped
    DEF Typed, TypeOK, Entry, RedisEntry, Request, Pcs
<1> QED
  BY <1>5, <1>6, <1>7 DEF Allow

\* memoryLimiterStore.Block, here and where Redis fails
LEMMA BlockInMemoryTyped ==
    ASSUME Typed, NEW r \in Requests, req[r].pc \in {"block", "set", "expire"},
           BlockInMemory(r)
    PROVE  /\ blockList' \in [Replicas -> [Clients -> Block0]]
           /\ promised' \in [Stores -> [Clients -> Nat]]
           /\ req' \in [Requests -> Request]
           /\ Carries'
<1>1. PICK h \in Replicas, k \in Clients : h = req[r].replica /\ k = req[r].client
  BY DEF Typed, Carries
<1>2. PICK o \in Nat \ {0} : o = blockList[h][k].offenses + 1
  BY DEF Typed, TypeOK
<1>3. Factor(o) \in Nat
  BY FactorGrows
<1>4. now + Wrap(BlockDuration * Factor(o)) \in Int
  <2>1. BlockDuration * Factor(o) \in Int /\ now \in Int
    BY <1>3 DEF Typed, TypeOK
  <2> QED
    BY <2>1, WrapIsInt
<1>5. MemoryBlock(blockList[h][k]) \in Block0
  BY <1>2, <1>4 DEF MemoryBlock, Block0
<1>6. blockList' = [blockList EXCEPT ![h][k] = MemoryBlock(blockList[h][k])]
  BY <1>1 DEF BlockInMemory
<1>7. blockList' \in [Replicas -> [Clients -> Block0]]
  BY <1>5, <1>6 DEF Typed, TypeOK, Block0
<1>8. promised' \in [Stores -> [Clients -> Nat]]
  <2>1. promised' = [promised EXCEPT ![h][k] = now + BlockDuration]
    BY <1>1 DEF BlockInMemory, Promise
  <2>2. now + BlockDuration \in Nat
    BY DEF Typed, TypeOK
  <2> QED
    BY <2>1, <2>2 DEF Typed, TypeOK, Stores
<1> QED
  BY <1>7, <1>8, GotoTyped DEF BlockInMemory, Pcs

LEMMA OffensesTyped ==
    ASSUME Typed, NEW k \in Clients
    PROVE  Offenses(k) \in Nat
  BY DEF Typed, TypeOK, Offenses

LEMMA IncrTyped ==
    ASSUME Typed, NEW k \in Clients, NEW n \in Nat
    PROVE  Incr(k, n) \in [Clients -> RedisEntry]
<1> DEFINE new == [redis[k] EXCEPT !.offenses = Offenses(k) + n,
                      !.expires = IF Offenses(k) = 0 THEN None ELSE @]
<1>1. redis \in [Clients -> RedisEntry]
  BY DEF Typed, TypeOK, RedisEntry
<1>2. new \in RedisEntry
  <2>1. Offenses(k) + n \in Nat /\ redis[k] \in RedisEntry
    BY <1>1, OffensesTyped
  <2> QED
    BY <2>1 DEF RedisEntry
<1>3. Incr(k, n) = [redis EXCEPT ![k] = new]
  BY <1>1 DEF Incr, RedisEntry
<1> HIDE DEF new
<1> QED
  BY <1>1, <1>2, <1>3

LEMMA BlockTyped ==
    ASSUME Typed, NEW r \in Requests, Block(r)
    PROVE  Typed'
<1>1. req[r].pc = "block" /\ UNCHANGED <<now, config, visitors, granted>>
  BY DEF Block
<1>2. PICK k \in Clients : k = req[r].client
  BY <1>1 DEF Typed, Carries
<1>3. CASE ~config.cluster /\ BlockInMemory(r) /\ UNCHANGED <<redis, errors>>
  BY <1>1, <1>3, BlockInMemoryTyped DEF Typed, TypeOK, Block0, Request, Pcs
<1>4. CASE /\ config.cluster
           /\ \E n \in Executions :
                /\ redis' = Incr(k, n)
                /\ req' = [req EXCEPT ![r].pc = "set",
                      ![r].duration = RedisBlockDuration(Offenses(k) + n)]
           /\ UNCHANGED <<blockList, promised, errors>>
  <2>1. PICK n \in Executions :
          /\ redis' = Incr(k, n)
          /\ req' = [req EXCEPT ![r].pc = "set",
                ![r].duration = RedisBlockDuration(Offenses(k) + n)]
    BY <1>4
  <2>2. n \in Nat \ {0}
    BY DEF Executions
  <2>3. PICK d \in Nat : d = RedisBlockDuration(Offenses(k) + n) /\ d >= BlockDuration
    BY <2>2, OffensesTyped, RedisBlocksLongEnough
  <2>4. redis' \in [Clients -> RedisEntry]
    BY <2>1, <2>2, IncrTyped
  <2> DEFINE new == [req[r] EXCEPT !.pc = "set", !.duration = d]
  <2>5. req \in [Requests -> Request]
    BY DEF Typed, TypeOK, Request, Pcs
  <2>6. /\ new \in Request /\ new.pc = "set" /\ new.duration = d
        /\ new.client = req[r].client /\ new.replica = req[r].replica
    BY <2>5 DEF Request, Pcs
  <2>7. req' = [req EXCEPT ![r] = new]
    BY <2>1, <2>3, <2>5 DEF Request
  <2> HIDE DEF new
  <2>8. req' \in [Requests -> Request]
    BY <2>5, <2>6, <2>7
  <2>9. Carries'
    BY <1>1, <2>3, <2>5, <2>6, <2>7 DEF Carries, Typed
  <2> QED
    BY <1>1, <1>4, <2>4, <2>8, <2>9 DEF Typed, TypeOK, RedisEntry, Request, Pcs
<1>5. CASE /\ config.cluster
           /\ \E n \in FailedExecutions :
                redis' = IF n = 0 THEN redis ELSE Incr(k, n)
           /\ DegradeBlock(r)
  <2>1. PICK n \in Nat : redis' = redis \/ redis' = Incr(k, n)
    BY <1>5 DEF FailedExecutions
  <2>2. redis' \in [Clients -> RedisEntry]
    <3>1. Incr(k, n) \in [Clients -> RedisEntry]
      BY IncrTyped
    <3>2. redis \in [Clients -> RedisEntry]
      BY DEF Typed, TypeOK, RedisEntry
    <3> QED
      BY <2>1, <3>1, <3>2
  <2> QED
    BY <1>1, <1>2, <1>5, <2>2, BlockInMemoryTyped
    DEF DegradeBlock, Typed, TypeOK, Block0, RedisEntry, Request, Pcs
<1> QED
  BY <1>2, <1>3, <1>4, <1>5 DEF Block

LEMMA BlockSetTyped ==
    ASSUME Typed, NEW r \in Requests, BlockSet(r)
    PROVE  Typed'
<1>1. req[r].pc = "set" /\ UNCHANGED <<now, config, visitors, granted>>
  BY DEF BlockSet
<1>2. PICK k \in Clients : k = req[r].client
  BY <1>1 DEF Typed, Carries
<1>3. CASE /\ redis' = [redis EXCEPT ![k].block = now + req[r].duration]
           /\ Promise("redis", k)
           /\ Goto(r, "expire")
           /\ UNCHANGED <<blockList, errors>>
  <2> DEFINE new == [redis[k] EXCEPT !.block = now + req[r].duration]
  <2>1. redis \in [Clients -> RedisEntry]
    BY DEF Typed, TypeOK, RedisEntry
  <2>2. now + req[r].duration \in Nat
    BY DEF Typed, TypeOK
  <2>3. new \in RedisEntry
    BY <2>1, <2>2 DEF RedisEntry
  <2>4. redis' = [redis EXCEPT ![k] = new]
    BY <1>3
  <2> HIDE DEF new
  <2>5. redis' \in [Clients -> RedisEntry]
    BY <2>1, <2>3, <2>4
  <2>6. promised' \in [Stores -> [Clients -> Nat]]
    <3>1. promised \in [Stores -> [Clients -> Nat]] /\ now + BlockDuration \in Nat
      BY DEF Typed, TypeOK
    <3>2. promised' = [promised EXCEPT !["redis"][k] = now + BlockDuration]
      BY <1>3 DEF Promise
    <3> QED
      BY <3>1, <3>2
  <2>7. req' \in [Requests -> Request] /\ Carries'
    BY <1>1, <1>3, GotoTyped DEF Pcs
  <2> QED
    BY <1>1, <1>3, <2>5, <2>6, <2>7 DEF Typed, TypeOK, RedisEntry, Request, Pcs
<1>4. CASE DegradeBlock(r) /\ UNCHANGED redis
  BY <1>1, <1>2, <1>4, BlockInMemoryTyped
  DEF DegradeBlock, Typed, TypeOK, Block0, Request, Pcs
<1> QED
  BY <1>2, <1>3, <1>4 DEF BlockSet

LEMMA ExpiringTyped ==
    ASSUME Typed, NEW k \in Clients, NEW d \in Nat
    PROVE  Expiring(k, d) \in [Clients -> RedisEntry]
<1> DEFINE new == [redis[k] EXCEPT !.expires = now + d + cleanupInterval]
<1>1. redis \in [Clients -> RedisEntry]
  BY DEF Typed, TypeOK, RedisEntry
<1>2. now + d + cleanupInterval \in Nat
  BY DEF Typed, TypeOK
<1>3. new \in RedisEntry
  BY <1>1, <1>2 DEF RedisEntry
<1>4. Expiring(k, d) = redis \/ Expiring(k, d) = [redis EXCEPT ![k] = new]
  BY DEF Expiring
<1> HIDE DEF new
<1> QED
  BY <1>1, <1>3, <1>4

LEMMA BlockExpireTyped ==
    ASSUME Typed, NEW r \in Requests, BlockExpire(r)
    PROVE  Typed'
<1>1. req[r].pc = "expire" /\ UNCHANGED <<now, config, visitors, granted>>
  BY DEF BlockExpire
<1>2. PICK k \in Clients : k = req[r].client
  BY <1>1 DEF Typed, Carries
<1>3. req[r].duration \in Nat
  BY DEF Typed, TypeOK
<1>4. redis' = redis \/ redis' = Expiring(k, req[r].duration)
  BY <1>2 DEF BlockExpire
<1>5. redis' \in [Clients -> RedisEntry]
  <2>1. Expiring(k, req[r].duration) \in [Clients -> RedisEntry]
    BY <1>3, ExpiringTyped
  <2>2. redis \in [Clients -> RedisEntry]
    BY DEF Typed, TypeOK, RedisEntry
  <2> QED
    BY <1>4, <2>1, <2>2
<1>6. CASE DegradeBlock(r)
  BY <1>1, <1>2, <1>5, <1>6, BlockInMemoryTyped
  DEF DegradeBlock, Typed, TypeOK, Block0, RedisEntry, Request, Pcs
<1>7. CASE /\ \E step \in {"rejected", "set"} : Goto(r, step)
           /\ UNCHANGED <<blockList, promised, errors>>
  <2>1. req' \in [Requests -> Request] /\ Carries'
    BY <1>1, <1>7, GotoTyped DEF Pcs
  <2> QED
    BY <1>1, <1>5, <1>7, <2>1 DEF Typed, TypeOK, RedisEntry, Request, Pcs
<1> QED
  BY <1>6, <1>7 DEF BlockExpire

\* The other steps.
LEMMA OtherTyped ==
    ASSUME Typed,
           \/ \E r \in Requests : Send(r) \/ Check(r) \/ Handler(r)
           \/ \E h \in Replicas : PruneVisitors(h) \/ PruneBlocks(h)
           \/ Tick
           \/ UNCHANGED vars
    PROVE  Typed'
<1>1. ASSUME NEW r \in Requests, Send(r)
      PROVE  Typed'
  <2>1. PICK k \in Clients, h \in Replicas :
          req' = [req EXCEPT ![r] =
                    [pc |-> "check", client |-> k, replica |-> h, duration |-> 0]]
    BY <1>1 DEF Send
  <2>2. UNCHANGED <<now, config, visitors, blockList, redis, history>>
    BY <1>1 DEF Send
  <2> DEFINE new == [pc |-> "check", client |-> k, replica |-> h, duration |-> 0]
  <2>3. /\ new \in Request /\ new.pc = "check"
        /\ new.client \in Clients /\ new.replica \in Replicas
    BY DEF Request, Pcs
  <2>4. req \in [Requests -> Request] /\ req' = [req EXCEPT ![r] = new]
    BY <2>1 DEF Typed, TypeOK, Request, Pcs
  <2> HIDE DEF new
  <2>5. req' \in [Requests -> Request] /\ Carries'
    BY <2>3, <2>4 DEF Typed, Carries
  <2> QED
    BY <2>2, <2>5 DEF history, Typed, TypeOK, Request, Pcs
<1>2. ASSUME NEW r \in Requests, Check(r) \/ Handler(r)
      PROVE  Typed'
  <2>1. /\ req[r].pc \in {"check", "handler"}
        /\ \E step \in {"rejected", "allow", "handler", "served"} : Goto(r, step)
        /\ UNCHANGED <<now, config, visitors, blockList, redis, history>>
    BY <1>2 DEF Check, Checked, Handler
  <2>2. req' \in [Requests -> Request] /\ Carries'
    BY <2>1, GotoTyped DEF Pcs
  <2> QED
    BY <2>1, <2>2 DEF history, Typed, TypeOK, Request, Pcs
<1>3. ASSUME NEW h \in Replicas, PruneVisitors(h)
      PROVE  Typed'
  <2>1. visitors' \in [Replicas -> [Clients -> {None} \cup Entry]]
    <3>1. visitors \in [Replicas -> [Clients -> {None} \cup Entry]]
      BY DEF Typed, TypeOK, Entry
    <3>2. [k \in Clients |-> IF Stale(h, k) THEN None ELSE visitors[h][k]]
            \in [Clients -> {None} \cup Entry]
      BY <3>1
    <3> QED
      BY <1>3, <3>1, <3>2 DEF PruneVisitors
  <2> QED
    BY <1>3, <2>1 DEF PruneVisitors, history, Typed, TypeOK, Carries, Entry
<1>4. ASSUME NEW h \in Replicas, PruneBlocks(h)
      PROVE  Typed'
  <2>1. blockList' \in [Replicas -> [Clients -> [offenses : Nat, until : Int]]]
    <3>1. blockList \in [Replicas -> [Clients -> [offenses : Nat, until : Int]]]
      BY DEF Typed, TypeOK
    <3>2. NoBlock \in [offenses : Nat, until : Int]
      BY DEF NoBlock
    <3>3. [k \in Clients |-> IF Over(h, k) THEN NoBlock ELSE blockList[h][k]]
            \in [Clients -> [offenses : Nat, until : Int]]
      BY <3>1, <3>2
    <3> QED
      BY <1>4, <3>1, <3>3 DEF PruneBlocks
  <2> QED
    BY <1>4, <2>1 DEF PruneBlocks, history, Typed, TypeOK, Carries
<1>5. ASSUME Tick
      PROVE  Typed'
  BY <1>5 DEF Tick, history, Typed, TypeOK, Carries
<1>6. ASSUME UNCHANGED vars
      PROVE  Typed'
  BY <1>6 DEF vars, history, Typed, TypeOK, Carries
<1> QED
  BY <1>1, <1>2, <1>3, <1>4, <1>5, <1>6

LEMMA InitTyped == Init => Typed
  BY DEF Init, Typed, TypeOK, Carries, Unsent, NoBlock, Stores

LEMMA StepTyped == Typed /\ [Next]_vars => Typed'
  BY AllowTyped, BlockTyped, BlockSetTyped, BlockExpireTyped, OtherTyped DEF Next

\* Every variable has its type.  The durations of the back-off are integers
\* whatever overflows, and a Redis block is never one of a negative duration.
THEOREM LimiterTypeCorrect == Spec => []TypeOK
<1>1. Typed => TypeOK
  BY DEF Typed
<1> QED
  BY <1>1, InitTyped, StepTyped, PTL DEF Spec

-----------------------------------------------------------------------------
(* Offense keys expire. *)

\* r is a Block of client k between INCR and EXPIRE
Pending(r, k) == req[r].client = k /\ req[r].pc \in {"set", "expire"}

\* Client k may go on having an offense key without an expiry.
Excused(k) == k \in errors \/ \E r \in Requests : Pending(r, k)

Expires(k) == redis[k].offenses > 0 /\ redis[k].expires = None => Excused(k)

\* A step that leaves an offense key alone, and its excuse.
LEMMA ExcuseKept ==
    ASSUME NEW k \in Clients, Expires(k), errors \subseteq errors',
           redis'[k].offenses = redis[k].offenses,
           redis'[k].expires = redis[k].expires,
           \A r \in Requests : Pending(r, k) => Pending(r, k)' \/ k \in errors'
    PROVE  Expires(k)'
  BY DEF Expires, Excused

\* A step of one request leaves those of other clients alone.
LEMMA OthersExpire ==
    ASSUME OffensesExpire, errors \subseteq errors',
           NEW r \in Requests,
           \A q \in Requests \ {r} : req'[q] = req[q],
           \A k \in Clients \ {req[r].client} : redis'[k] = redis[k]
    PROVE  \A k \in Clients \ {req[r].client} : Expires(k)'
<1> SUFFICES ASSUME NEW k \in Clients \ {req[r].client}
             PROVE  Expires(k)'
  OBVIOUS
<1>1. Expires(k)
  BY DEF OffensesExpire, Expires, Excused, Pending
<1>2. \A q \in Requests : Pending(q, k) => Pending(q, k)'
  BY DEF Pending
<1> QED
  BY <1>1, <1>2, ExcuseKept

\* What Goto does to the requests.
LEMMA GotoMoves ==
    ASSUME Typed, NEW r \in Requests, NEW step, Goto(r, step)
    PROVE  /\ req'[r].pc = step
           /\ req'[r].client = req[r].client
           /\ \A q \in Requests \ {r} : req'[q] = req[q]
  BY DEF Typed, TypeOK, Goto

LEMMA AllowExpires ==
    ASSUME Typed, OffensesExpire, NEW r \in Requests, Allow(r)
    PROVE  OffensesExpire'
<1>1. req[r].pc = "allow" /\ UNCHANGED errors
  BY DEF Allow
<1>2. PICK allowed : Decide(r, allowed)
  BY DEF Allow, RedisAllow, RedisAllowFails, MemoryAllow
<1>3. \A q \in Requests \ {r} : req'[q] = req[q]
  BY <1>2, GotoMoves DEF Decide
<1>4. \A k \in Clients : \A q \in Requests : Pending(q, k) => Pending(q, k)'
  BY <1>1, <1>3 DEF Pending
<1>5. redis' = redis \/ \E b : redis' = [redis EXCEPT ![req[r].client].bucket = b]
  BY DEF Allow, RedisAllow, RedisAllowFails
<1>6. \A k \in Clients : /\ redis'[k].offenses = redis[k].offenses
                         /\ redis'[k].expires = redis[k].expires
  <2>1. redis \in [Clients -> RedisEntry]
    BY DEF Typed, TypeOK, RedisEntry
  <2>2. CASE redis' = redis
    BY <2>2
  <2>3. ASSUME NEW b, redis' = [redis EXCEPT ![req[r].client].bucket = b]
        PROVE  \A k \in Clients : /\ redis'[k].offenses = redis[k].offenses
                                 /\ redis'[k].expires = redis[k].expires
    BY <2>1, <2>3 DEF RedisEntry
  <2> QED
    BY <1>5, <2>2, <2>3
<1>7. ASSUME NEW k \in Clients
      PROVE  Expires(k)'
  <2>1. Expires(k)
    BY DEF OffensesExpire, Expires, Excused, Pending
  <2> QED
    BY <1>1, <1>4, <1>6, <2>1, ExcuseKept
<1> QED
  BY <1>7 DEF OffensesExpire, Expires, Excused, Pending

\* Whoever meets a Redis error excuses its client.
LEMMA DegradeExcuses ==
    ASSUME Typed, OffensesExpire, NEW r \in Requests, req[r].client \in Clients,
           DegradeBlock(r),
           \A k \in Clients \ {req[r].client} : redis'[k] = redis[k]
    PROVE  OffensesExpire'
<1>1. \A q \in Requests \ {r} : req'[q] = req[q]
  BY GotoMoves DEF DegradeBlock, BlockInMemory
<1>2. errors \subseteq errors' /\ req[r].client \in errors'
  BY DEF DegradeBlock
<1>3. \A k \in Clients \ {req[r].client} : Expires(k)'
  BY <1>1, <1>2, OthersExpire
<1>4. PICK c \in Clients : c = req[r].client
  OBVIOUS
<1>5. Expires(c)'
  BY <1>2, <1>4 DEF Expires, Excused
<1> QED
  BY <1>3, <1>4, <1>5 DEF OffensesExpire, Expires, Excused, Pending

\* An offense key that the step has no business with.
LEMMA IncrMoves ==
    ASSUME Typed, NEW k \in Clients, NEW n \in Nat
    PROVE  \A c \in Clients \ {k} : Incr(k, n)[c] = redis[c]
  BY DEF Typed, TypeOK, Incr

LEMMA ExpiringMoves ==
    ASSUME Typed, NEW k \in Clients, NEW d \in Nat
    PROVE  /\ \A c \in Clients \ {k} : Expiring(k, d)[c] = redis[c]
           /\ Expiring(k, d)[k].offenses > 0 => Expiring(k, d)[k].expires # None
<1>1. redis \in [Clients -> RedisEntry]
  BY DEF Typed, TypeOK, RedisEntry
<1>2. CASE Offenses(k) = 0
  <2>1. Expiring(k, d) = redis
    BY <1>2 DEF Expiring
  <2>2. redis[k].offenses > 0 => redis[k].expires # None
    BY <1>1, <1>2 DEF Offenses, RedisEntry
  <2> QED
    BY <2>1, <2>2
<1>3. CASE Offenses(k) # 0
  <2>1. Expiring(k, d) = [redis EXCEPT ![k].expires = now + d + cleanupInterval]
    BY <1>3 DEF Expiring
  <2>2. now + d + cleanupInterval \in Int
    BY DEF Typed, TypeOK
  <2> QED
    BY <1>1, <2>1, <2>2 DEF RedisEntry
<1> QED
  BY <1>2, <1>3

LEMMA BlockExpires ==
    ASSUME Typed, OffensesExpire, NEW r \in Requests, Block(r)
    PROVE  OffensesExpire'
<1>1. req[r].pc = "block"
  BY DEF Block
<1>2. PICK k \in Clients : k = req[r].client
  BY <1>1 DEF Typed, Carries
<1>3. CASE ~config.cluster /\ BlockInMemory(r) /\ UNCHANGED <<redis, errors>>
  <2>1. \A q \in Requests \ {r} : req'[q] = req[q]
    BY <1>3, GotoMoves DEF BlockInMemory
  <2> QED
    BY <1>1, <1>3, <2>1 DEF OffensesExpire
<1>4. CASE /\ config.cluster
           /\ \E n \in Executions :
                /\ redis' = Incr(k, n)
                /\ req' = [req EXCEPT ![r].pc = "set",
                      ![r].duration = RedisBlockDuration(Offenses(k) + n)]
           /\ UNCHANGED <<blockList, promised, errors>>
  <2>1. PICK n \in Nat :
          /\ redis' = Incr(k, n)
          /\ req' = [req EXCEPT ![r].pc = "set",
                ![r].duration = RedisBlockDuration(Offenses(k) + n)]
    BY <1>4 DEF Executions
  <2>2. req \in [Requests -> Request]
    BY DEF Typed, TypeOK, Request, Pcs
  <2>3. /\ req'[r].pc = "set" /\ req'[r].client = k
        /\ \A q \in Requests \ {r} : req'[q] = req[q]
    BY <1>2, <2>1, <2>2 DEF Request
  <2>4. \A c \in Clients \ {k} : Expires(c)'
    <3>1. \A c \in Clients \ {k} : redis'[c] = redis[c]
      BY <2>1, IncrMoves
    <3> QED
      BY <1>2, <1>4, <2>3, <3>1, OthersExpire
  <2>5. Expires(k)'
    BY <2>3 DEF Expires, Excused, Pending
  <2> QED
    BY <2>4, <2>5 DEF OffensesExpire, Expires, Excused, Pending
<1>5. CASE /\ config.cluster
           /\ \E n \in FailedExecutions :
                redis' = IF n = 0 THEN redis ELSE Incr(k, n)
           /\ DegradeBlock(r)
  <2>1. PICK n \in Nat : redis' = redis \/ redis' = Incr(k, n)
    BY <1>5 DEF FailedExecutions
  <2>2. \A c \in Clients \ {k} : redis'[c] = redis[c]
    BY <2>1, IncrMoves
  <2> QED
    BY <1>2, <1>5, <2>2, DegradeExcuses
<1> QED
  BY <1>2, <1>3, <1>4, <1>5 DEF Block

LEMMA BlockSetExpires ==
    ASSUME Typed, OffensesExpire, NEW r \in Requests, BlockSet(r)
    PROVE  OffensesExpire'
<1>1. req[r].pc = "set"
  BY DEF BlockSet
<1>2. PICK k \in Clients : k = req[r].client
  BY <1>1 DEF Typed, Carries
<1>3. CASE /\ redis' = [redis EXCEPT ![k].block = now + req[r].duration]
           /\ Promise("redis", k)
           /\ Goto(r, "expire")
           /\ UNCHANGED <<blockList, errors>>
  <2>1. /\ req'[r].pc = "expire" /\ req'[r].client = k
        /\ \A q \in Requests \ {r} : req'[q] = req[q]
    BY <1>2, <1>3, GotoMoves
  <2>2. redis \in [Clients -> RedisEntry]
    BY DEF Typed, TypeOK, RedisEntry
  <2>3. \A c \in Clients \ {k} : redis'[c] = redis[c]
    BY <1>3, <2>2
  <2>4. \A c \in Clients \ {k} : Expires(c)'
    BY <1>2, <1>3, <2>1, <2>3, OthersExpire
  <2>5. Expires(k)'
    BY <2>1 DEF Expires, Excused, Pending
  <2> QED
    BY <2>4, <2>5 DEF OffensesExpire, Expires, Excused, Pending
<1>4. CASE DegradeBlock(r) /\ UNCHANGED redis
  BY <1>2, <1>4, DegradeExcuses
<1> QED
  BY <1>2, <1>3, <1>4 DEF BlockSet

LEMMA BlockExpireExpires ==
    ASSUME Typed, OffensesExpire, NEW r \in Requests, BlockExpire(r)
    PROVE  OffensesExpire'
<1>1. req[r].pc = "expire"
  BY DEF BlockExpire
<1>2. PICK k \in Clients : k = req[r].client
  BY <1>1 DEF Typed, Carries
<1>3. PICK d \in Nat : d = req[r].duration
  BY DEF Typed, TypeOK
<1>4. \A c \in Clients \ {k} : redis'[c] = redis[c]
  BY <1>2, <1>3, ExpiringMoves DEF BlockExpire
<1>5. CASE /\ redis' = Expiring(k, d)
           /\ Goto(r, "rejected")
           /\ UNCHANGED <<blockList, promised, errors>>
  <2>1. \A q \in Requests \ {r} : req'[q] = req[q]
    BY <1>5, GotoMoves
  <2>2. \A c \in Clients \ {k} : Expires(c)'
    BY <1>2, <1>4, <1>5, <2>1, OthersExpire
  <2>3. Expires(k)'
    BY <1>5, ExpiringMoves DEF Expires
  <2> QED
    BY <2>2, <2>3 DEF OffensesExpire, Expires, Excused, Pending
<1>6. CASE DegradeBlock(r)
  BY <1>2, <1>4, <1>6, DegradeExcuses
<1>7. CASE /\ Goto(r, "set")
           /\ UNCHANGED <<blockList, redis, promised, errors>>
  <2>1. /\ req'[r].pc = "set" /\ req'[r].client = k
        /\ \A q \in Requests \ {r} : req'[q] = req[q]
    BY <1>2, <1>7, GotoMoves
  <2>2. \A c \in Clients \ {k} : Expires(c)'
    BY <1>2, <1>4, <1>7, <2>1, OthersExpire
  <2>3. Expires(k)'
    BY <2>1 DEF Expires, Excused, Pending
  <2> QED
    BY <2>2, <2>3 DEF OffensesExpire, Expires, Excused, Pending
<1> QED
  BY <1>2, <1>3, <1>5, <1>6, <1>7 DEF BlockExpire

LEMMA OtherExpires ==
    ASSUME Typed, OffensesExpire,
           \/ \E r \in Requests : Send(r) \/ Check(r) \/ Handler(r)
           \/ \E h \in Replicas : PruneVisitors(h) \/ PruneBlocks(h)
           \/ Tick
           \/ UNCHANGED vars
    PROVE  OffensesExpire'
<1>1. UNCHANGED <<redis, errors>>
  BY DEF Send, Check, Checked, Handler, PruneVisitors, PruneBlocks, Tick, history,
     vars
<1>2. ASSUME NEW r \in Requests, Send(r)
      PROVE  OffensesExpire'
  <2>1. req[r].pc = "unsent" /\ \A q \in Requests \ {r} : req'[q] = req[q]
    BY <1>2 DEF Send, Typed, TypeOK
  <2> QED
    BY <1>1, <2>1 DEF OffensesExpire
<1>3. ASSUME NEW r \in Requests, Check(r) \/ Handler(r)
      PROVE  OffensesExpire'
  <2>1. /\ req[r].pc \in {"check", "handler"}
        /\ \A q \in Requests \ {r} : req'[q] = req[q]
    BY <1>3, GotoMoves DEF Check, Checked, Handler
  <2> QED
    BY <1>1, <2>1 DEF OffensesExpire
<1>4. ASSUME UNCHANGED req
      PROVE  OffensesExpire'
  BY <1>1, <1>4 DEF OffensesExpire
<1> QED
  BY <1>2, <1>3, <1>4 DEF PruneVisitors, PruneBlocks, Tick, vars

LEMMA InitExpires == Init => OffensesExpire
  BY DEF Init, OffensesExpire

LEMMA StepExpires == Typed /\ OffensesExpire /\ [Next]_vars => OffensesExpire'
  BY AllowExpires, BlockExpires, BlockSetExpires, BlockExpireExpires, OtherExpires
  DEF Next

\* No offense key stays for ever: one without an expiry belongs to a Block that
\* is about to give it one, or to a client for which a Block has met a Redis
\* error, however the commands of several replicas and their retries interleave
\* (redisLimiterStore.Block).
THEOREM OffenseKeysExpire == Spec => []OffensesExpire
  BY InitTyped, StepTyped, InitExpires, StepExpires, PTL DEF Spec

-----------------------------------------------------------------------------
(* Budgets.  The tokens that a store has granted since t have moved its     *)
(* bucket from t, at the earliest, to where it is; it is never further than *)
(* a full bucket ahead of the clock.                                        *)

\* a bucket that is pruned is full
BucketsRefill == Burst * Period <= visitorTTL

\* the bucket of a store, where pruning leaves a full one
Tab(s, k) == IF s = "redis" THEN redis[k].bucket ELSE Bucket(s, k)

Account(s, k) ==
    \A t \in 0..MaxNow :
        IF t > now THEN granted[s][k][t] = 0
        ELSE granted[s][k][t] * Period <= Later(Tab(s, k), now) - t

Topped ==
    /\ \A k \in Clients : redis[k].bucket <= now + Burst * Period
    /\ \A h \in Replicas, k \in Clients : visitors[h][k] # None =>
          /\ visitors[h][k].lastSeen <= now
          /\ visitors[h][k].bucket <= visitors[h][k].lastSeen + Burst * Period

Ledger == Topped /\ \A s \in Stores, k \in Clients : Account(s, k)

LEMMA TabTyped ==
    ASSUME Typed, NEW s \in Stores, NEW k \in Clients
    PROVE  Tab(s, k) \in Nat
  BY BucketOf DEF Tab, Stores, Typed, TypeOK

LEMMA NowTyped == Typed => now \in Nat
  BY DEF Typed, TypeOK

LEMMA CapacityTyped == Burst * Period \in Nat
  OBVIOUS

LEMMA TabTopped ==
    ASSUME Typed, Topped, NEW s \in Stores, NEW k \in Clients
    PROVE  Tab(s, k) <= now + Burst * Period
<1>1. CASE s = "redis"
  BY <1>1 DEF Tab, Topped
<1>2. CASE s # "redis"
  <2>1. s \in Replicas
    BY <1>2 DEF Stores
  <2>2. CASE visitors[s][k] = None
    <3>1. Tab(s, k) = 0
      BY <1>2, <2>2 DEF Tab, Bucket
    <3> QED
      BY <3>1, CapacityTyped, NowTyped
  <2>3. CASE visitors[s][k] # None
    <3>1. visitors[s][k] \in Entry
      BY <2>1, <2>3 DEF Typed, TypeOK, Entry
    <3> QED
      BY <1>2, <2>1, <2>3, <3>1, CapacityTyped DEF Tab, Bucket, Topped, Entry, Typed, TypeOK
  <2> QED
    BY <2>2, <2>3
<1> QED
  BY <1>1, <1>2

\* A script of Redis or a reservation in memory: it moves the bucket on by a
\* token, no further than a full bucket.
LEMMA SpendMoves ==
    ASSUME Typed, NEW b \in Nat, b <= now + Burst * Period
    PROVE  /\ Spend(b) \in Nat
           /\ Spend(b) >= b
           /\ Spend(b) <= now + Burst * Period
           /\ HasToken(b) => Spend(b) = Later(b, now) + Period
  BY CapacityTyped DEF Typed, TypeOK, Spend, HasToken, Later

LEMMA SpendTimesMoves ==
    ASSUME Typed, NEW b \in Nat, b <= now + Burst * Period, NEW n \in {0, 1, 2}
    PROVE  /\ SpendTimes(b, n) \in Nat
           /\ SpendTimes(b, n) >= b
           /\ SpendTimes(b, n) <= now + Burst * Period
<1>1. PICK c \in Nat : c = Spend(b) /\ c >= b /\ c <= now + Burst * Period
  BY SpendMoves
<1>2. PICK d \in Nat : d = Spend(c) /\ d >= c /\ d <= now + Burst * Period
  BY <1>1, SpendMoves
<1> QED
  BY <1>1, <1>2 DEF SpendTimes

\* Nothing is granted and the bucket is no emptier than it was.
LEMMA AccountKept ==
    ASSUME Typed, NEW s \in Stores, NEW k \in Clients, Account(s, k),
           now' = now, granted'[s][k] = granted[s][k],
           Later(Tab(s, k)', now) >= Later(Tab(s, k), now), Tab(s, k)' \in Nat
    PROVE  Account(s, k)'
<1> SUFFICES ASSUME NEW t \in 0..MaxNow
             PROVE  IF t > now THEN granted[s][k][t] = 0
                    ELSE granted[s][k][t] * Period <= Later(Tab(s, k)', now) - t
  BY DEF Account
<1>1. IF t > now THEN granted[s][k][t] = 0
      ELSE granted[s][k][t] * Period <= Later(Tab(s, k), now) - t
  BY DEF Account
<1>2. granted[s][k][t] * Period \in Int
  BY DEF Typed, TypeOK
<1>3. Later(Tab(s, k), now) \in Int /\ Later(Tab(s, k)', now) \in Int
  <2>1. now \in Int /\ Tab(s, k) \in Int
    BY TabTyped, NowTyped
  <2> QED
    BY <2>1 DEF Later
<1>4. t \in Int /\ now \in Int
  BY DEF Typed, TypeOK
<1> DEFINE spent == granted[s][k][t] * Period
           from == Later(Tab(s, k), now)
           to == Later(Tab(s, k)', now)
<1>5. ~(t > now) => spent <= to - t
  <2>1. from <= to /\ (~(t > now) => spent <= from - t)
    BY <1>1
  <2>2. spent \in Int /\ from \in Int /\ to \in Int
    BY <1>2, <1>3
  <2> HIDE DEF spent, from, to
  <2> QED
    BY <1>4, <2>1, <2>2
<1> QED
  BY <1>1, <1>5

\* A token is granted, or not, from a bucket that is no emptier than the one
\* of the account.
LEMMA AccountGrants ==
    ASSUME Typed, NEW s \in Stores, NEW k \in Clients, Account(s, k), now' = now,
           NEW b \in Nat, b >= Tab(s, k), b <= now + Burst * Period,
           Tab(s, k)' = Spend(b), Grant(s, k, HasToken(b))
    PROVE  Account(s, k)'
<1>1. granted \in [Stores -> [Clients -> [0..MaxNow -> Nat]]] /\ now \in Nat
  <2>1. TypeOK
    BY DEF Typed
  <2> HIDE DEF Typed
  <2>2. granted \in [Stores -> [Clients -> [0..MaxNow -> Nat]]]
    BY <2>1 DEF TypeOK
  <2> QED
    BY <2>2, NowTyped
<1>2. /\ Spend(b) \in Nat /\ Spend(b) >= b
      /\ HasToken(b) => Spend(b) = Later(b, now) + Period
  BY SpendMoves
<1>3. CASE ~HasToken(b)
  <2>1. granted' = granted
    BY <1>3 DEF Grant
  <2>2. Later(Tab(s, k)', now) >= Later(Tab(s, k), now)
    BY <1>1, <1>2, TabTyped DEF Later
  <2> QED
    BY <1>2, <2>1, <2>2, AccountKept
<1>4. CASE HasToken(b)
  <2> SUFFICES ASSUME NEW t \in 0..MaxNow
               PROVE  IF t > now THEN granted'[s][k][t] = 0
                      ELSE granted'[s][k][t] * Period <= Later(Spend(b), now) - t
    BY DEF Account
  <2>1. granted'[s][k][t] = IF t <= now THEN granted[s][k][t] + 1
                                        ELSE granted[s][k][t]
    BY <1>1, <1>4 DEF Grant
  <2>2. IF t > now THEN granted[s][k][t] = 0
        ELSE granted[s][k][t] * Period <= Later(Tab(s, k), now) - t
    BY DEF Account
  <2>3. CASE t > now
    BY <1>1, <2>1, <2>2, <2>3
  <2>4. CASE t <= now
    <3>1. PICK g \in Nat : g = granted[s][k][t]
      BY <1>1
    <3>2. (g + 1) * Period = g * Period + Period /\ g * Period \in Int
      OBVIOUS
    <3>3. g * Period <= Later(Tab(s, k), now) - t
      BY <1>1, <2>2, <2>4, <3>1
    <3>4. /\ Later(Tab(s, k), now) <= Later(b, now)
          /\ Later(Spend(b), now) = Later(b, now) + Period
          /\ Later(b, now) \in Int /\ Later(Tab(s, k), now) \in Int
      BY <1>1, <1>2, <1>4, TabTyped DEF Later
    <3>5. (g + 1) * Period <= Later(Spend(b), now) - t
      BY <3>2, <3>3, <3>4
    <3> QED
      BY <1>1, <2>1, <2>4, <3>1, <3>5
  <2> QED
    BY <1>1, <2>3, <2>4
<1> QED
  BY <1>3, <1>4

\* memoryLimiterStore.Allow, alone or after Redis has failed.
LEMMA MemoryAllowLedger ==
    ASSUME Typed, Ledger, NEW r \in Requests, req[r].pc = "allow",
           MemoryAllow(r), now' = now,
           \A c \in Clients : /\ redis'[c].bucket \in Nat
                              /\ redis'[c].bucket >= redis[c].bucket
                              /\ redis'[c].bucket <= now + Burst * Period
    PROVE  Ledger'
<1>1. PICK h \in Replicas, k \in Clients : h = req[r].replica /\ k = req[r].client
  BY DEF Typed, Carries
<1>2. h \in Stores /\ h # "redis" /\ now \in Nat
  BY NowTyped DEF Stores
<1>3. PICK b \in Nat : b = Bucket(h, k) /\ b = Tab(h, k) /\ b <= now + Burst * Period
  BY <1>2, BucketOf, TabTopped DEF Tab, Ledger
<1>4. /\ Spend(b) \in Nat /\ Spend(b) <= now + Burst * Period
  BY <1>3, SpendMoves
<1>5. /\ visitors' = [visitors EXCEPT ![h][k] = [bucket |-> Spend(b), lastSeen |-> now]]
      /\ Grant(h, k, HasToken(b))
  BY <1>1, <1>3 DEF MemoryAllow
<1>6. /\ visitors'[h][k] = [bucket |-> Spend(b), lastSeen |-> now]
      /\ Tab(h, k)' = Spend(b)
      /\ \A g \in Replicas, c \in Clients :
            <<g, c>> # <<h, k>> => visitors'[g][c] = visitors[g][c]
  <2>1. /\ visitors'[h][k] = [bucket |-> Spend(b), lastSeen |-> now]
        /\ \A g \in Replicas, c \in Clients :
              <<g, c>> # <<h, k>> => visitors'[g][c] = visitors[g][c]
    BY <1>5 DEF Typed, TypeOK
  <2>2. visitors'[h][k] \in [bucket : Nat, lastSeen : 0..MaxNow]
    BY <1>4, <2>1 DEF Typed, TypeOK
  <2>3. visitors'[h][k] # None
    BY <2>2
  <2> QED
    BY <1>2, <2>1, <2>3 DEF Tab, Bucket
<1>7. Topped'
  <2>1. \A c \in Clients : redis'[c].bucket <= now' + Burst * Period
    OBVIOUS
  <2>2. ASSUME NEW g \in Replicas, NEW c \in Clients, visitors'[g][c] # None
        PROVE  /\ visitors'[g][c].lastSeen <= now'
               /\ visitors'[g][c].bucket <= visitors'[g][c].lastSeen + Burst * Period
    <3>1. CASE <<g, c>> = <<h, k>>
      BY <1>2, <1>4, <1>6, <3>1
    <3>2. CASE <<g, c>> # <<h, k>>
      BY <1>6, <2>2, <3>2 DEF Ledger, Topped
    <3> QED
      BY <3>1, <3>2
  <2> QED
    BY <2>1, <2>2 DEF Topped
<1>8. ASSUME NEW s \in Stores, NEW c \in Clients
      PROVE  Account(s, c)'
  <2>1. Account(s, c)
    BY DEF Ledger
  <2>2. CASE s = h /\ c = k
    BY <1>2, <1>3, <1>5, <1>6, <2>1, <2>2, AccountGrants
  <2>3. CASE ~(s = h /\ c = k)
    <3>1. granted'[s][c] = granted[s][c]
      BY <1>5, <2>3 DEF Grant, Typed, TypeOK
    <3>2. Tab(s, c)' \in Nat /\ Tab(s, c)' >= Tab(s, c)
      <4>1. CASE s = "redis"
        BY <4>1 DEF Tab
      <4>2. CASE s # "redis"
        <5>1. s \in Replicas /\ visitors'[s][c] = visitors[s][c]
          BY <1>6, <2>3, <4>2 DEF Stores
        <5>2. Tab(s, c)' = Tab(s, c)
          BY <4>2, <5>1 DEF Tab, Bucket
        <5> QED
          BY <5>2, TabTyped
      <4> QED
        BY <4>1, <4>2
    <3>3. Later(Tab(s, c)', now) >= Later(Tab(s, c), now)
      BY <1>2, <3>2, TabTyped DEF Later
    <3> QED
      BY <2>1, <3>1, <3>2, <3>3, AccountKept
  <2> QED
    BY <2>2, <2>3
<1> QED
  BY <1>7, <1>8 DEF Ledger

LEMMA AllowLedger ==
    ASSUME Typed, Ledger, NEW r \in Requests, Allow(r)
    PROVE  Ledger'
<1>1. req[r].pc = "allow" /\ now' = now
  BY DEF Allow
<1>2. PICK k \in Clients : k = req[r].client
  BY <1>1 DEF Typed, Carries
<1>3. redis \in [Clients -> RedisEntry] /\ now \in Nat
  BY DEF Typed, TypeOK, RedisEntry
<1>4. \A c \in Clients : /\ redis[c].bucket \in Nat
                         /\ redis[c].bucket <= now + Burst * Period
  BY <1>3 DEF Ledger, Topped, RedisEntry
<1>5. CASE ~config.cluster /\ MemoryAllow(r) /\ UNCHANGED redis
  BY <1>1, <1>4, <1>5, MemoryAllowLedger
<1>6. CASE RedisAllow(r)
  <2>1. PICK n \in Executions :
          LET bucket == SpendTimes(redis[k].bucket, n - 1)
          IN  /\ redis' = [redis EXCEPT ![k].bucket = Spend(bucket)]
              /\ Grant("redis", k, HasToken(bucket))
              /\ UNCHANGED visitors
    BY <1>2, <1>6 DEF RedisAllow
  <2>2. n - 1 \in {0, 1, 2}
    BY DEF Executions
  <2>3. PICK b \in Nat : /\ b = SpendTimes(redis[k].bucket, n - 1)
                         /\ b >= redis[k].bucket /\ b <= now + Burst * Period
    BY <1>4, <2>2, SpendTimesMoves
  <2>4. Spend(b) \in Nat /\ Spend(b) <= now + Burst * Period
    BY <2>3, SpendMoves
  <2>5. /\ redis' = [redis EXCEPT ![k].bucket = Spend(b)]
        /\ Grant("redis", k, HasToken(b))
    BY <2>1, <2>3
  <2>6. /\ redis'[k].bucket = Spend(b)
        /\ \A c \in Clients \ {k} : redis'[c] = redis[c]
    BY <1>3, <2>5 DEF RedisEntry
  <2>7. Topped'
    BY <1>1, <2>1, <2>4, <2>6 DEF Ledger, Topped
  <2>8. "redis" \in Stores
    BY DEF Stores
  <2>9. ASSUME NEW s \in Stores, NEW c \in Clients
        PROVE  Account(s, c)'
    <3>1. Account(s, c)
      BY DEF Ledger
    <3>2. CASE s = "redis" /\ c = k
      <4>1. Tab("redis", k)' = Spend(b) /\ Tab("redis", k) = redis[k].bucket
        BY <2>6 DEF Tab
      <4> QED
        BY <1>1, <2>3, <2>5, <2>8, <3>1, <3>2, <4>1, AccountGrants
    <3>3. CASE ~(s = "redis" /\ c = k)
      <4>1. granted'[s][c] = granted[s][c]
        BY <2>5, <3>3 DEF Grant, Typed, TypeOK
      <4>2. Tab(s, c)' = Tab(s, c)
        BY <2>1, <2>6, <3>3 DEF Tab, Bucket
      <4>3. Tab(s, c)' \in Nat /\ Later(Tab(s, c)', now) >= Later(Tab(s, c), now)
        BY <1>3, <4>2, TabTyped DEF Later
      <4> QED
        BY <1>1, <3>1, <4>1, <4>3, AccountKept
    <3> QED
      BY <3>2, <3>3
  <2> QED
    BY <2>7, <2>9 DEF Ledger
<1>7. CASE RedisAllowFails(r)
  <2>1. PICK n \in FailedExecutions :
          /\ redis' = [redis EXCEPT ![k].bucket = SpendTimes(@, n)]
          /\ MemoryAllow(r)
    BY <1>2, <1>7 DEF RedisAllowFails
  <2>2. n \in {0, 1, 2}
    BY DEF FailedExecutions
  <2>3. PICK b \in Nat : /\ b = SpendTimes(redis[k].bucket, n)
                         /\ b >= redis[k].bucket /\ b <= now + Burst * Period
    BY <1>4, <2>2, SpendTimesMoves
  <2>4. redis' = [redis EXCEPT ![k].bucket = b]
    BY <2>1, <2>3
  <2>5. redis'[k].bucket = b /\ \A c \in Clients \ {k} : redis'[c] = redis[c]
    BY <1>3, <2>4 DEF RedisEntry
  <2>6. \A c \in Clients : /\ redis'[c].bucket \in Nat
                           /\ redis'[c].bucket >= redis[c].bucket
                           /\ redis'[c].bucket <= now + Burst * Period
    BY <1>4, <2>3, <2>5
  <2> QED
    BY <1>1, <2>1, <2>6, MemoryAllowLedger
<1> QED
  BY <1>5, <1>6, <1>7 DEF Allow

\* Steps that touch no bucket.
LEMMA LedgerKept ==
    ASSUME Typed, Ledger, now' = now, UNCHANGED <<visitors, granted>>,
           \A k \in Clients : redis'[k].bucket = redis[k].bucket
    PROVE  Ledger'
<1>1. Topped'
  BY DEF Ledger, Topped
<1>2. ASSUME NEW s \in Stores, NEW k \in Clients
      PROVE  Account(s, k)'
  <2>1. Tab(s, k)' = Tab(s, k)
    BY DEF Tab, Bucket
  <2>2. Tab(s, k)' \in Nat /\ Later(Tab(s, k)', now) >= Later(Tab(s, k), now)
    BY <2>1, TabTyped, NowTyped DEF Later
  <2> QED
    BY <2>2, AccountKept DEF Ledger
<1> QED
  BY <1>1, <1>2 DEF Ledger

LEMMA BlocksLedger ==
    ASSUME Typed, Ledger, NEW r \in Requests, Block(r) \/ BlockSet(r) \/ BlockExpire(r)
    PROVE  Ledger'
<1>1. PICK k \in Clients : k = req[r].client
  BY DEF Block, BlockSet, BlockExpire, Typed, Carries
<1>2. now' = now /\ UNCHANGED <<visitors, granted>>
  BY DEF Block, BlockSet, BlockExpire
<1>3. redis \in [Clients -> RedisEntry]
  BY DEF Typed, TypeOK, RedisEntry
<1>4. \A n : \A c \in Clients : Incr(k, n)[c].bucket = redis[c].bucket
  BY <1>3 DEF Incr, RedisEntry
<1>5. \A d : \A c \in Clients : Expiring(k, d)[c].bucket = redis[c].bucket
  BY <1>3 DEF Expiring, RedisEntry
<1>6. \A d : \A c \in Clients :
         [redis EXCEPT ![k].block = d][c].bucket = redis[c].bucket
  BY <1>3 DEF RedisEntry
<1>7. \/ redis' = redis
      \/ \E n : redis' = Incr(k, n)
      \/ \E d : redis' = Expiring(k, d)
      \/ \E d : redis' = [redis EXCEPT ![k].block = d]
  BY <1>1 DEF Block, BlockSet, BlockExpire
<1>8. \A c \in Clients : redis'[c].bucket = redis[c].bucket
  <2>1. ASSUME NEW n, redis' = Incr(k, n)
        PROVE  \A c \in Clients : redis'[c].bucket = redis[c].bucket
    BY <1>4, <2>1
  <2>2. ASSUME NEW d, redis' = Expiring(k, d)
        PROVE  \A c \in Clients : redis'[c].bucket = redis[c].bucket
    BY <1>5, <2>2
  <2>3. ASSUME NEW d, redis' = [redis EXCEPT ![k].block = d]
        PROVE  \A c \in Clients : redis'[c].bucket = redis[c].bucket
    BY <1>6, <2>3
  <2> QED
    BY <1>7, <2>1, <2>2, <2>3
<1> QED
  BY <1>2, <1>8, LedgerKept

\* A bucket is pruned when it has not been used for visitorTTL: it is full.
LEMMA PruneLedger ==
    ASSUME Typed, Ledger, BucketsRefill, NEW h \in Replicas, PruneVisitors(h)
    PROVE  Ledger'
<1>1. now' = now /\ UNCHANGED <<redis, granted>>
  BY DEF PruneVisitors, history
<1>2. visitors \in [Replicas -> [Clients -> {None} \cup Entry]] /\ now \in Nat
  BY DEF Typed, TypeOK, Entry
<1>3. \A g \in Replicas, k \in Clients :
         \/ visitors'[g][k] = visitors[g][k]
         \/ g = h /\ Stale(h, k) /\ visitors'[g][k] = None
  BY <1>2 DEF PruneVisitors
<1>4. Topped'
  BY <1>1, <1>3 DEF Ledger, Topped
<1>5. ASSUME NEW s \in Stores, NEW k \in Clients
      PROVE  Account(s, k)'
  <2>1. Account(s, k)
    BY DEF Ledger
  <2>2. CASE s = "redis" \/ visitors'[s][k] = visitors[s][k]
    <3>1. Tab(s, k)' = Tab(s, k)
      BY <1>1, <2>2 DEF Tab, Bucket
    <3>2. Tab(s, k)' \in Nat /\ Later(Tab(s, k)', now) >= Later(Tab(s, k), now)
      BY <1>2, <3>1, TabTyped DEF Later
    <3> QED
      BY <1>1, <2>1, <3>2, AccountKept
  <2>3. CASE s # "redis" /\ visitors'[s][k] # visitors[s][k]
    <3>1. s = h /\ Stale(h, k) /\ visitors'[s][k] = None
      BY <1>3, <2>3 DEF Stores
    <3>2. visitors[h][k] # None /\ visitors[h][k] \in Entry
      BY <1>2, <3>1 DEF Stale
    <3>3. /\ now - visitors[h][k].lastSeen > visitorTTL
          /\ visitors[h][k].bucket <= visitors[h][k].lastSeen + Burst * Period
      BY <3>1, <3>2 DEF Stale, Ledger, Topped
    <3>4. visitors[h][k].bucket < now
      BY <1>2, <3>2, <3>3, CapacityTyped DEF BucketsRefill, Entry
    <3>5. Tab(s, k)' = 0 /\ Tab(s, k) = visitors[h][k].bucket
      BY <2>3, <3>1, <3>2 DEF Tab, Bucket
    <3>6. Tab(s, k)' \in Nat /\ Later(Tab(s, k)', now) >= Later(Tab(s, k), now)
      BY <1>2, <3>4, <3>5, TabTyped DEF Later
    <3> QED
      BY <1>1, <2>1, <3>6, AccountKept
  <2> QED
    BY <2>2, <2>3
<1> QED
  BY <1>4, <1>5 DEF Ledger

\* While time passes, what has not been granted may be.
LEMMA TickLedger ==
    ASSUME Typed, Ledger, Tick
    PROVE  Ledger'
<1>1. now \in Nat /\ now' = now + 1 /\ UNCHANGED <<redis, visitors, granted>>
  BY NowTyped DEF Tick, history
<1>2. redis \in [Clients -> RedisEntry]
      /\ visitors \in [Replicas -> [Clients -> {None} \cup Entry]]
  BY DEF Typed, TypeOK, Entry, RedisEntry
<1>3. Topped'
  <2>1. \A k \in Clients : redis'[k].bucket <= now' + Burst * Period
    BY <1>1, <1>2, CapacityTyped DEF Ledger, Topped, RedisEntry
  <2>2. ASSUME NEW h \in Replicas, NEW k \in Clients, visitors[h][k] # None
        PROVE  /\ visitors[h][k].lastSeen <= now'
               /\ visitors[h][k].bucket <= visitors[h][k].lastSeen + Burst * Period
    <3>1. visitors[h][k].lastSeen \in Nat
      BY <1>2, <2>2 DEF Entry
    <3> QED
      BY <1>1, <2>2, <3>1 DEF Ledger, Topped
  <2> QED
    BY <1>1, <2>1, <2>2 DEF Topped
<1>4. ASSUME NEW s \in Stores, NEW k \in Clients
      PROVE  Account(s, k)'
  <2>1. Tab(s, k)' = Tab(s, k)
    BY <1>1 DEF Tab, Bucket
  <2>2. PICK b \in Nat : b = Tab(s, k)
    BY TabTyped
  <2> SUFFICES ASSUME NEW t \in 0..MaxNow
               PROVE  IF t > now' THEN granted[s][k][t] = 0
                      ELSE granted[s][k][t] * Period <= Later(b, now') - t
    BY <1>1, <2>1, <2>2 DEF Account
  <2>3. IF t > now THEN granted[s][k][t] = 0
        ELSE granted[s][k][t] * Period <= Later(b, now) - t
    BY <2>2 DEF Ledger, Account
  <2>4. granted[s][k][t] * Period \in Int
    BY DEF Typed, TypeOK
  <2>5. CASE t > now
    BY <1>1, <2>3, <2>5 DEF Later
  <2>6. CASE t <= now
    BY <1>1, <2>3, <2>4, <2>6 DEF Later
  <2> QED
    BY <1>1, <2>5, <2>6
<1> QED
  BY <1>3, <1>4 DEF Ledger

LEMMA InitLedger == Init => Ledger
<1> SUFFICES ASSUME Init
             PROVE  Ledger
  OBVIOUS
<1>1. Topped
  BY CapacityTyped DEF Init, Topped
<1>2. \A s \in Stores, k \in Clients : Tab(s, k) = 0
  BY DEF Init, Tab, Bucket, Stores
<1>3. \A s \in Stores, k \in Clients : Account(s, k)
  BY <1>2 DEF Init, Account, Later
<1> QED
  BY <1>1, <1>3 DEF Ledger

LEMMA StepLedger ==
    BucketsRefill => (Typed /\ Ledger /\ [Next]_vars => Ledger')
<1> SUFFICES ASSUME BucketsRefill, Typed, Ledger, [Next]_vars
             PROVE  Ledger'
  OBVIOUS
<1>1. ASSUME \/ \E r \in Requests : Send(r) \/ Check(r) \/ Handler(r)
             \/ \E h \in Replicas : PruneBlocks(h)
             \/ UNCHANGED vars
      PROVE  Ledger'
  <2>1. now' = now /\ UNCHANGED <<visitors, granted, redis>>
    BY <1>1 DEF Send, Check, Checked, Handler, PruneBlocks, history, vars
  <2> QED
    BY <2>1, LedgerKept
<1> QED
  BY <1>1, AllowLedger, BlocksLedger, PruneLedger, TickLedger DEF Next

LEMMA LedgerKeepsBudget == Typed /\ Ledger => BudgetKept
<1> SUFFICES ASSUME Typed, Ledger, NEW s \in Stores, NEW k \in Clients,
                    NEW t \in 0..now
             PROVE  granted[s][k][t] <= Burst + (now - t) \div Period
  BY DEF BudgetKept
<1>1. now \in Nat /\ t \in 0..MaxNow
  BY DEF Typed, TypeOK
<1>2. PICK g \in Nat : g = granted[s][k][t]
  BY <1>1 DEF Typed, TypeOK
<1>3. PICK b \in Nat : b = Tab(s, k) /\ b <= now + Burst * Period
  BY TabTyped, TabTopped DEF Ledger
<1>4. g * Period <= Later(b, now) - t
  BY <1>1, <1>2, <1>3 DEF Ledger, Account
<1>5. g * Period - Burst * Period <= now - t
  BY <1>1, <1>3, <1>4, CapacityTyped DEF Later
<1>6. (g - Burst) * Period <= now - t
  BY <1>5
<1>7. g - Burst <= (now - t) \div Period
  BY <1>1, <1>6
<1> QED
  BY <1>1, <1>2, <1>7

\* In no interval does a store grant more than a full bucket and what is
\* refilled meanwhile, though scripts are executed twice and idle buckets
\* pruned, if a bucket refills within visitorTTL.  It need not: see the run
\* limiter_budget (memoryLimiterStore.Allow, cleanup, redisLimiterStore.Allow).
THEOREM BudgetsKept == BucketsRefill => (Spec => []BudgetKept)
<1> SUFFICES ASSUME BucketsRefill
             PROVE  Spec => []BudgetKept
  OBVIOUS
<1>1. Typed /\ Ledger /\ [Next]_vars => Ledger'
  BY StepLedger
<1> QED
  BY <1>1, InitTyped, StepTyped, InitLedger, LedgerKeepsBudget, PTL DEF Spec

-----------------------------------------------------------------------------
(* Blocks. *)

\* The shift of no offense recorded in memory overflows a time.Duration.
BackoffFits ==
    \A h \in Replicas, k \in Clients :
        blockList[h][k].offenses > 0 =>
            BlockDuration * Factor(blockList[h][k].offenses) <= MaxDuration

RedisTrack == \A k \in Clients : promised["redis"][k] <= redis[k].block

\* A block lasts as long as was promised, and no longer than its number of
\* offenses is worth: so that the next one, worth as much, cannot shorten it.
Lasts(h, k) ==
    /\ now < promised[h][k] => promised[h][k] <= blockList[h][k].until
    /\ IF blockList[h][k].offenses = 0 THEN blockList[h][k].until = 0
       ELSE blockList[h][k].until <=
                now + BlockDuration * Factor(blockList[h][k].offenses)

MemoryTrack == \A h \in Replicas, k \in Clients : Lasts(h, k)

LEMMA WorthTyped ==
    ASSUME NEW o \in Nat \ {0}
    PROVE  /\ BlockDuration * Factor(o) \in Nat
           /\ BlockDuration <= BlockDuration * Factor(o)
           /\ BlockDuration * Factor(o) <= BlockDuration * Factor(o + 1)
<1>1. PICK f \in Nat \ {0}, g \in Nat \ {0} :
        f = Factor(o) /\ g = Factor(o + 1) /\ f <= g
  BY FactorGrows
<1>2. /\ BlockDuration * f \in Nat
      /\ BlockDuration <= BlockDuration * f
      /\ BlockDuration * f <= BlockDuration * g
  <2>1. BlockDuration * f \in Nat /\ BlockDuration <= BlockDuration * f
    OBVIOUS
  <2>2. BlockDuration * (g - f) >= 0
    BY <1>1
  <2>3. BlockDuration * (g - f) = BlockDuration * g - BlockDuration * f
    OBVIOUS
  <2>4. BlockDuration * g \in Int
    OBVIOUS
  <2> QED
    BY <2>1, <2>2, <2>3, <2>4
<1> QED
  BY <1>1, <1>2

\* One more offense: the block is never shortened, and keeps the promise.
LEMMA BlockWorth ==
    ASSUME Typed, MemoryTrack, BackoffFits', now' = now, NEW r \in Requests,
           req[r].pc \in {"block", "set", "expire"}, BlockInMemory(r)
    PROVE  /\ MemoryTrack'
           /\ promised'["redis"] = promised["redis"]
           /\ \A h \in Replicas, k \in Clients :
                 MemoryBlocked(h, k) => blockList'[h][k].until >= blockList[h][k].until
<1>1. PICK h \in Replicas, k \in Clients : h = req[r].replica /\ k = req[r].client
  BY DEF Typed, Carries
<1>2. now \in Nat /\ blockList \in [Replicas -> [Clients -> Block0]]
      /\ promised \in [Stores -> [Clients -> Nat]]
  BY DEF Typed, TypeOK, Block0
<1>3. PICK o \in Nat, u \in Int : o = blockList[h][k].offenses /\ u = blockList[h][k].until
  BY <1>2 DEF Block0
<1>4. PICK w \in Nat : w = BlockDuration * Factor(o + 1) /\ BlockDuration <= w
  BY <1>3, WorthTyped
<1>5. blockList' = [blockList EXCEPT ![h][k] =
                      [offenses |-> o + 1, until |-> now + Wrap(w)]]
  BY <1>1, <1>3, <1>4 DEF BlockInMemory, MemoryBlock
<1>6. /\ blockList'[h][k] = [offenses |-> o + 1, until |-> now + Wrap(w)]
      /\ \A g \in Replicas, c \in Clients :
            <<g, c>> # <<h, k>> => blockList'[g][c] = blockList[g][c]
  BY <1>2, <1>5
<1>7. w <= MaxDuration
  BY <1>4, <1>6 DEF BackoffFits
<1>8. blockList'[h][k].offenses = o + 1 /\ blockList'[h][k].until = now + w
  BY <1>4, <1>6, <1>7, FittingIsKept
<1>9. h \in Stores /\ h # "redis" /\ "redis" \in Stores
  BY DEF Stores
<1>10. promised' = [promised EXCEPT ![h][k] = now + BlockDuration]
  BY <1>1 DEF BlockInMemory, Promise
<1>11. /\ promised'[h][k] = now + BlockDuration
       /\ promised'["redis"] = promised["redis"]
       /\ \A g \in Replicas, c \in Clients :
             <<g, c>> # <<h, k>> => promised'[g][c] = promised[g][c]
  BY <1>2, <1>9, <1>10 DEF Stores
<1>12. Lasts(h, k)'
  <2>1. BlockDuration * Factor(blockList'[h][k].offenses) = w
    BY <1>4, <1>8
  <2> QED
    BY <1>2, <1>4, <1>8, <1>11, <2>1 DEF Lasts
<1>13. ASSUME NEW g \in Replicas, NEW c \in Clients, <<g, c>> # <<h, k>>
       PROVE  Lasts(g, c)'
  BY <1>6, <1>11, <1>13 DEF MemoryTrack, Lasts
<1>14. MemoryTrack'
  BY <1>12, <1>13 DEF MemoryTrack
<1>15. MemoryBlocked(h, k) => u <= now + w
  <2>1. CASE o = 0
    <3>1. u = 0
      BY <1>3, <2>1 DEF MemoryTrack, Lasts
    <3> QED
      BY <1>2, <1>4, <3>1
  <2>2. CASE o # 0
    <3>1. u <= now + BlockDuration * Factor(o)
      BY <1>3, <2>2 DEF MemoryTrack, Lasts
    <3>2. BlockDuration * Factor(o) \in Nat /\ BlockDuration * Factor(o) <= w
      BY <1>4, <2>2, WorthTyped
    <3> QED
      BY <1>2, <3>1, <3>2
  <2> QED
    BY <2>1, <2>2
<1>16. ASSUME NEW g \in Replicas, NEW c \in Clients, MemoryBlocked(g, c)
       PROVE  blockList'[g][c].until >= blockList[g][c].until
  <2>1. CASE <<g, c>> = <<h, k>>
    BY <1>2, <1>3, <1>8, <1>15, <1>16, <2>1
  <2>2. CASE <<g, c>> # <<h, k>>
    <3>1. blockList[g][c].until \in Int
      BY <1>2 DEF Block0
    <3> QED
      BY <1>6, <2>2, <3>1
  <2> QED
    BY <2>1, <2>2
<1> QED
  BY <1>11, <1>14, <1>16

\* A block that is pruned has ended.
LEMMA PruneWorth ==
    ASSUME Typed, MemoryTrack, NEW h \in Replicas, PruneBlocks(h)
    PROVE  /\ MemoryTrack'
           /\ \A g \in Replicas, k \in Clients :
                 MemoryBlocked(g, k) => blockList'[g][k].until >= blockList[g][k].until
<1>1. now' = now /\ promised' = promised
  BY DEF PruneBlocks, history
<1>2. now \in Nat /\ blockList \in [Replicas -> [Clients -> Block0]]
      /\ promised \in [Stores -> [Clients -> Nat]]
  BY DEF Typed, TypeOK, Block0
<1>3. \A g \in Replicas, k \in Clients :
         \/ blockList'[g][k] = blockList[g][k]
         \/ Over(g, k) /\ blockList'[g][k] = NoBlock
  BY <1>2 DEF PruneBlocks
<1>4. ASSUME NEW g \in Replicas, NEW k \in Clients
      PROVE  /\ Lasts(g, k)'
             /\ MemoryBlocked(g, k) => blockList'[g][k].until >= blockList[g][k].until
  <2>1. Lasts(g, k)
    BY DEF MemoryTrack
  <2>2. blockList[g][k].until \in Int /\ promised[g][k] \in Nat
    BY <1>2 DEF Block0, Stores
  <2>3. CASE blockList'[g][k] = blockList[g][k]
    BY <1>1, <2>1, <2>2, <2>3 DEF Lasts
  <2>4. CASE Over(g, k) /\ blockList'[g][k] = NoBlock
    <3>1. now > blockList[g][k].until
      BY <2>4 DEF Over
    <3>2. ~(now < promised[g][k]) /\ ~MemoryBlocked(g, k)
      BY <1>2, <2>1, <2>2, <3>1 DEF Lasts, MemoryBlocked
    <3> QED
      BY <1>1, <2>4, <3>2 DEF Lasts, NoBlock
  <2> QED
    BY <1>3, <2>3, <2>4
<1> QED
  BY <1>4 DEF MemoryTrack

\* Every other step leaves the memory stores alone.
LEMMA TimeWorth ==
    ASSUME Typed, MemoryTrack, UNCHANGED blockList, now' \in {now, now + 1},
           \A h \in Replicas : promised'[h] = promised[h]
    PROVE  MemoryTrack'
<1> SUFFICES ASSUME NEW h \in Replicas, NEW k \in Clients
             PROVE  Lasts(h, k)'
  BY DEF MemoryTrack
<1>1. now \in Nat /\ blockList \in [Replicas -> [Clients -> Block0]]
      /\ promised \in [Stores -> [Clients -> Nat]]
  BY DEF Typed, TypeOK, Block0
<1>2. promised[h][k] \in Nat /\ blockList[h][k] \in Block0
  BY <1>1 DEF Stores
<1>3. Lasts(h, k)
  BY DEF MemoryTrack
<1>4. CASE blockList[h][k].offenses = 0
  BY <1>1, <1>2, <1>3, <1>4 DEF Lasts, Block0
<1>5. CASE blockList[h][k].offenses # 0
  <2>1. PICK o \in Nat \ {0} : o = blockList[h][k].offenses
    BY <1>2, <1>5 DEF Block0
  <2>2. PICK w \in Nat : w = BlockDuration * Factor(o)
    BY WorthTyped
  <2> QED
    BY <1>1, <1>2, <1>3, <2>1, <2>2 DEF Lasts, Block0
<1> QED
  BY <1>4, <1>5

\* What each step does to the memory stores.
MemoryStep ==
    \/ \E r \in Requests :
          req[r].pc \in {"block", "set", "expire"} /\ BlockInMemory(r) /\ now' = now
    \/ \E h \in Replicas : PruneBlocks(h)
    \/ /\ UNCHANGED blockList /\ now' \in {now, now + 1}
       /\ \A h \in Replicas : promised'[h] = promised[h]

LEMMA MemorySteps == Typed /\ [Next]_vars => MemoryStep
<1> SUFFICES ASSUME Typed, [Next]_vars
             PROVE  MemoryStep
  OBVIOUS
<1>1. ASSUME NEW r \in Requests, Block(r) \/ BlockExpire(r)
      PROVE  MemoryStep
  BY <1>1 DEF Block, BlockExpire, DegradeBlock, MemoryStep
<1>2. ASSUME NEW r \in Requests, BlockSet(r)
      PROVE  MemoryStep
  <2>1. CASE DegradeBlock(r)
    BY <1>2, <2>1 DEF BlockSet, DegradeBlock, MemoryStep
  <2>2. CASE Promise("redis", req[r].client) /\ UNCHANGED blockList
    <3>1. \A h \in Replicas : promised'[h] = promised[h]
      BY <2>2 DEF Promise, Typed, TypeOK, Stores
    <3> QED
      BY <1>2, <2>2, <3>1 DEF BlockSet, MemoryStep
  <2> QED
    BY <1>2, <2>1, <2>2 DEF BlockSet
<1>3. ASSUME \/ \E r \in Requests : Send(r) \/ Check(r) \/ Handler(r) \/ Allow(r)
             \/ \E h \in Replicas : PruneVisitors(h)
             \/ Tick
             \/ UNCHANGED vars
      PROVE  MemoryStep
  BY <1>3 DEF Send, Check, Checked, Handler, Allow, PruneVisitors, Tick, history,
     vars, MemoryStep
<1> QED
  BY <1>1, <1>2, <1>3 DEF Next, MemoryStep

LEMMA StepMemoryTrack ==
    Typed /\ MemoryTrack /\ BackoffFits' /\ [Next]_vars => MemoryTrack'
<1> SUFFICES ASSUME Typed, MemoryTrack, BackoffFits', [Next]_vars
             PROVE  MemoryTrack'
  OBVIOUS
<1>1. MemoryStep
  BY MemorySteps
<1> QED
  BY <1>1, BlockWorth, PruneWorth, TimeWorth DEF MemoryStep

LEMMA StepNotShortened ==
    Typed /\ MemoryTrack /\ BackoffFits' /\ [Next]_vars =>
        \A h \in Replicas, k \in Clients :
            MemoryBlocked(h, k) => blockList'[h][k].until >= blockList[h][k].until
<1> SUFFICES ASSUME Typed, MemoryTrack, BackoffFits', [Next]_vars,
                    NEW h \in Replicas, NEW k \in Clients, MemoryBlocked(h, k)
             PROVE  blockList'[h][k].until >= blockList[h][k].until
  OBVIOUS
<1>1. MemoryStep
  BY MemorySteps
<1>2. CASE UNCHANGED blockList
  <2>1. blockList[h][k].until \in Int
    BY DEF Typed, TypeOK
  <2> QED
    BY <1>2, <2>1
<1> QED
  BY <1>1, <1>2, BlockWorth, PruneWorth DEF MemoryStep

LEMMA StepRedisTrack == Typed /\ RedisTrack /\ [Next]_vars => RedisTrack'
<1> SUFFICES ASSUME Typed, RedisTrack, [Next]_vars
             PROVE  RedisTrack'
  OBVIOUS
<1>1. redis \in [Clients -> RedisEntry] /\ promised \in [Stores -> [Clients -> Nat]]
  BY DEF Typed, TypeOK, RedisEntry
<1>2. "redis" \in Stores
  BY DEF Stores
<1>3. ASSUME promised'["redis"] = promised["redis"],
             \A k \in Clients : redis'[k].block = redis[k].block
      PROVE  RedisTrack'
  BY <1>3 DEF RedisTrack
<1>4. ASSUME NEW r \in Requests, req[r].pc # "unsent", BlockInMemory(r)
      PROVE  promised'["redis"] = promised["redis"]
  BY <1>1, <1>2, <1>4 DEF BlockInMemory, Promise, Typed, Carries
<1>5. ASSUME NEW r \in Requests, Allow(r)
      PROVE  RedisTrack'
  <2>1. redis' = redis \/ \E b : redis' = [redis EXCEPT ![req[r].client].bucket = b]
    BY <1>5 DEF Allow, RedisAllow, RedisAllowFails
  <2>2. ASSUME NEW b, redis' = [redis EXCEPT ![req[r].client].bucket = b]
        PROVE  \A k \in Clients : redis'[k].block = redis[k].block
    BY <1>1, <2>2 DEF RedisEntry
  <2> QED
    BY <1>3, <1>5, <2>1, <2>2 DEF Allow
<1>6. ASSUME NEW r \in Requests, Block(r)
      PROVE  RedisTrack'
  <2>1. \/ redis' = redis
        \/ \E n : redis' = Incr(req[r].client, n)
    BY <1>6 DEF Block
  <2>2. ASSUME NEW n, redis' = Incr(req[r].client, n)
        PROVE  \A k \in Clients : redis'[k].block = redis[k].block
    BY <1>1, <2>2 DEF Incr, RedisEntry
  <2>3. promised'["redis"] = promised["redis"]
    BY <1>4, <1>6 DEF Block, DegradeBlock
  <2> QED
    BY <1>3, <2>1, <2>2, <2>3
<1>7. ASSUME NEW r \in Requests, BlockSet(r)
      PROVE  RedisTrack'
  <2>1. req[r].pc = "set"
    BY <1>7 DEF BlockSet
  <2>2. PICK k \in Clients : k = req[r].client
    BY <2>1 DEF Typed, Carries
  <2>3. now \in Nat /\ req[r].duration \in Nat /\ req[r].duration >= BlockDuration
    BY <2>1 DEF Typed, TypeOK, Carries
  <2>4. CASE /\ redis' = [redis EXCEPT ![k].block = now + req[r].duration]
             /\ Promise("redis", k)
    <3>1. /\ redis'[k].block = now + req[r].duration
          /\ \A c \in Clients \ {k} : redis'[c] = redis[c]
      BY <1>1, <2>4 DEF RedisEntry
    <3>2. /\ promised'["redis"][k] = now + BlockDuration
          /\ \A c \in Clients \ {k} : promised'["redis"][c] = promised["redis"][c]
      BY <1>1, <1>2, <2>4 DEF Promise
    <3>3. promised'["redis"][k] <= redis'[k].block
      BY <2>3, <3>1, <3>2
    <3> QED
      BY <3>1, <3>2, <3>3 DEF RedisTrack
  <2>5. CASE DegradeBlock(r) /\ UNCHANGED redis
    BY <1>3, <1>4, <2>1, <2>5 DEF DegradeBlock
  <2> QED
    BY <1>7, <2>2, <2>4, <2>5 DEF BlockSet
<1>8. ASSUME NEW r \in Requests, BlockExpire(r)
      PROVE  RedisTrack'
  <2>1. \/ redis' = redis
        \/ \E d : redis' = Expiring(req[r].client, d)
    BY <1>8 DEF BlockExpire
  <2>2. ASSUME NEW d, redis' = Expiring(req[r].client, d)
        PROVE  \A k \in Clients : redis'[k].block = redis[k].block
    BY <1>1, <2>2 DEF Expiring, RedisEntry
  <2>3. promised'["redis"] = promised["redis"]
    BY <1>4, <1>8 DEF BlockExpire, DegradeBlock
  <2> QED
    BY <1>3, <2>1, <2>2, <2>3
<1>9. ASSUME \/ \E r \in Requests : Send(r) \/ Check(r) \/ Handler(r)
             \/ \E h \in Replicas : PruneVisitors(h) \/ PruneBlocks(h)
             \/ Tick
             \/ UNCHANGED vars
      PROVE  RedisTrack'
  BY <1>3, <1>9 DEF Send, Check, Checked, Handler, PruneVisitors, PruneBlocks,
     Tick, history, vars
<1> QED
  BY <1>5, <1>6, <1>7, <1>8, <1>9 DEF Next

LEMMA InitTracks == Init => RedisTrack /\ MemoryTrack
  BY DEF Init, RedisTrack, MemoryTrack, Lasts, NoBlock, Stores

LEMMA RedisTrackBlocks ==
    Typed /\ RedisTrack =>
        \A k \in Clients : now < promised["redis"][k] => RedisBlocked(k)
  BY DEF Typed, TypeOK, RedisTrack, RedisBlocked, Stores

\* Once a block has reached Redis the client is blocked there for the base
\* duration, whatever other replicas, retries and failures do meanwhile, and
\* though the back-off may overflow (redisLimiterStore.Block, blockDuration).
THEOREM RedisBlocksKept ==
    Spec => [](\A k \in Clients : now < promised["redis"][k] => RedisBlocked(k))
<1> DEFINE Kept == \A k \in Clients : now < promised["redis"][k] => RedisBlocked(k)
<1>1. Typed /\ RedisTrack => Kept
  BY RedisTrackBlocks
<1> HIDE DEF Kept
<1>2. Spec => []Kept
  BY <1>1, InitTyped, StepTyped, InitTracks, StepRedisTrack, PTL DEF Spec
<1> QED
  BY <1>2 DEF Kept

\* Every store that has recorded a block keeps it for the base duration, as
\* long as the shift overflows in no replica's memory.  It can: see the run
\* limiter_overflow (memoryLimiterStore.Block, cleanup).
THEOREM BlocksKept == Spec /\ []BackoffFits => []BlockKept
<1>1. Typed /\ RedisTrack /\ MemoryTrack => BlockKept
  <2> SUFFICES ASSUME Typed, RedisTrack, MemoryTrack
               PROVE  BlockKept
    OBVIOUS
  <2>1. ASSUME NEW h \in Replicas, NEW k \in Clients, now < promised[h][k]
        PROVE  MemoryBlocked(h, k)
    <3>1. promised[h][k] \in Nat /\ blockList[h][k].until \in Int /\ now \in Nat
      BY DEF Typed, TypeOK, Stores
    <3> QED
      BY <2>1, <3>1 DEF MemoryTrack, Lasts, MemoryBlocked
  <2> QED
    BY <2>1, RedisTrackBlocks DEF BlockKept
<1> QED
  BY <1>1, InitTyped, StepTyped, InitTracks, StepRedisTrack, StepMemoryTrack, PTL
  DEF Spec

\* With the same proviso, neither a further offense nor the cleanup shortens a
\* block that lasts.
THEOREM BlocksNotShortened == Spec /\ []BackoffFits => BlockNotShortened
  BY InitTyped, StepTyped, InitTracks, StepMemoryTrack, StepNotShortened, PTL
  DEF Spec, BlockNotShortened
=============================================================================
