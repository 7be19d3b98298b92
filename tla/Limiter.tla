------------------------------- MODULE Limiter -------------------------------
(***************************************************************************)
(* The rate limiter of one namespace: the middleware RateLimit or          *)
(* RateLimitFailedLogins, and the store behind it, which is a map in the   *)
(* memory of the process or, in cluster mode, Redis with such a map as its *)
(* fallback.                                                               *)
(*                                                                         *)
(* A request makes up to four store calls, and requests of one client run  *)
(* in parallel, on several replicas.  A call to Redis can fail, before or  *)
(* after its effect, and is retried once, so that a command may take effect *)
(* twice.  Requests that bypass the limiter (disabled, no requests per     *)
(* minute, whitelisted address) touch nothing and are left out.            *)
(***************************************************************************)
EXTENDS Integers

CONSTANTS
    Requests,
    Clients,            \* the IP addresses
    Replicas,           \* the isrv processes
    Clustered,          \* the values of config.Cluster.Enabled looked at
    Middlewares,        \* which of "RateLimit", "RateLimitFailedLogins"
    Actions,            \* the values of OnLimitExceeded looked at
    None,               \* "no such value"
    Burst,              \* the tokens of a full bucket
    Period,             \* the time in which a token is refilled
    BlockDuration,      \* the base of the back-off
    maxBackoffFactor,   \* the largest shift of the back-off
    MaxDuration,        \* the largest time.Duration, 2^63 - 1
    maxBlockDuration,   \* what Redis blocks for where the back-off overflows
    visitorTTL,         \* how long an idle bucket is kept in memory
    cleanupInterval,    \* what the offense key outlives the block key by
    Faults,             \* {"redis"} if calls to Redis may fail, or {}
    MaxNow              \* bound on the clock

ASSUME LimiterAssumption ==
    /\ Clustered \subseteq BOOLEAN
    /\ Middlewares \subseteq {"RateLimit", "RateLimitFailedLogins"}
    /\ Actions \subseteq {"block", "throttle", "none"}
    /\ None \notin Clients \cup Replicas \cup Int /\ "redis" \notin Replicas
    /\ None \notin [bucket : Nat, lastSeen : 0..MaxNow]
    /\ Burst \in Nat /\ maxBackoffFactor \in Nat /\ MaxNow \in Nat
    /\ visitorTTL \in Nat /\ cleanupInterval \in Nat
    /\ Period \in Nat \ {0} /\ BlockDuration \in Nat \ {0}
    /\ maxBlockDuration \in Nat /\ MaxDuration \in Nat
    /\ BlockDuration <= maxBlockDuration /\ maxBlockDuration <= MaxDuration
    /\ Faults \subseteq {"redis"}

VARIABLES
    now,        \* the clock
    config,     \* cluster mode, middleware and OnLimitExceeded
    visitors,   \* memory store of a replica: bucket and last use by client
    blockList,  \* memory store of a replica: end of the block and offenses
    redis,      \* by client: bucket, block key and offense key
    req,        \* the requests
    granted,    \* history: by store, client and time, the tokens granted since
    promised,   \* history: when the last block of each store may end, at the
                \* earliest, by client
    errors      \* the clients for which a Block has met a Redis error

memory == <<visitors, blockList>>
history == <<granted, promised, errors>>
vars == <<now, config, visitors, blockList, redis, req, granted, promised,
          errors>>

\* the stores: the memory of each replica, and Redis
Stores == Replicas \cup {"redis"}

Later(a, b) == IF a > b THEN a ELSE b

-----------------------------------------------------------------------------
(* Token buckets, in memory and in Redis.  A bucket is the time at which it *)
(* will be full; Allow spends a token unless that is too far ahead.        *)

HasToken(bucket) == Later(bucket, now) + Period - now <= Burst * Period

\* mutant: a token is given back instead of spent
SpendMutant(bucket) == IF HasToken(bucket) THEN bucket - Period ELSE bucket

Spend(bucket) == IF HasToken(bucket) THEN Later(bucket, now) + Period ELSE bucket

-----------------------------------------------------------------------------
(* Blocks.                                                                 *)

\* 1 << n
shiftLeft[n \in 0..maxBackoffFactor] == IF n = 0 THEN 1 ELSE 2 * shiftLeft[n - 1]

\* mutant: the shift starts again where it should stay
FactorMutant(offenses) == shiftLeft[(offenses - 1) % (maxBackoffFactor + 1)]

\* 1 << min(offenses - 1, maxBackoffFactor)
Factor(offenses) ==
    shiftLeft[IF offenses - 1 < maxBackoffFactor THEN offenses - 1
                                                 ELSE maxBackoffFactor]

\* time.Duration is a two's complement integer
Wrap(n) ==
    LET width == 2 * (MaxDuration + 1)
    IN  IF n % width > MaxDuration THEN (n % width) - width ELSE n % width

\* memoryLimiterStore.Block
MemoryBlock(entry) ==
    [offenses |-> entry.offenses + 1,
     until |-> now + Wrap(BlockDuration * Factor(entry.offenses + 1))]

\* blockDuration of the Redis store
RedisBlockDuration(offenses) ==
    IF BlockDuration > MaxDuration \div Factor(offenses)
    THEN maxBlockDuration
    ELSE BlockDuration * Factor(offenses)

NoBlock == [offenses |-> 0, until |-> 0]

MemoryBlocked(h, k) == now < blockList[h][k].until

RedisBlocked(k) == now < redis[k].block

\* a key that has expired is not there
Offenses(k) ==
    IF redis[k].expires # None /\ now >= redis[k].expires THEN 0
    ELSE redis[k].offenses

-----------------------------------------------------------------------------
(* Requests.                                                               *)

Unsent == [pc |-> "unsent", client |-> None, replica |-> None, duration |-> 0]

Goto(r, step) == req' = [req EXCEPT ![r].pc = step]

\* One to two executions of a Redis command: MaxRetries is 1, and a command
\* whose reply is lost is sent again.
Executions == IF Faults = {} THEN {1} ELSE {1, 2}

\* a call to Redis fails in the end, having been executed so often
FailedExecutions == IF Faults = {} THEN {} ELSE {0, 1, 2}

\* the middleware is entered
Send(r) ==
    /\ req[r].pc = "unsent"
    /\ \E k \in Clients, h \in Replicas :
        req' = [req EXCEPT ![r] =
                  [pc |-> "check", client |-> k, replica |-> h, duration |-> 0]]
    /\ UNCHANGED <<now, config, visitors, blockList, redis, history>>

\* IsBlocked
Checked(r, blocked) ==
    /\ Goto(r, IF blocked THEN "rejected"
               ELSE IF config.middleware = "RateLimit" THEN "allow"
               ELSE "handler")
    /\ UNCHANGED <<now, config, visitors, blockList, redis, history>>

Check(r) ==
    /\ req[r].pc = "check"
    /\ \/ config.cluster /\ Checked(r, RedisBlocked(req[r].client))
       \/ /\ ~config.cluster \/ FailedExecutions # {}
          /\ Checked(r, MemoryBlocked(req[r].replica, req[r].client))

\* RateLimitFailedLogins runs the handler first; only a 401 goes on to Allow
Handler(r) ==
    /\ req[r].pc = "handler"
    /\ Goto(r, "allow") \/ Goto(r, "served")
    /\ UNCHANGED <<now, config, visitors, blockList, redis, history>>

\* what the request does when its client has a token, and when not
Decide(r, allowed) ==
    Goto(r, IF allowed \/ config.action = "none" THEN "served"
            ELSE IF config.action = "block" THEN "block"
            ELSE "tooMany")

Grant(store, k, allowed) ==
    granted' =
      IF ~allowed THEN granted
      ELSE [granted EXCEPT ![store][k] =
              [t \in 0..MaxNow |-> IF t <= now THEN @[t] + 1 ELSE @[t]]]

Bucket(h, k) == IF visitors[h][k] = None THEN 0 ELSE visitors[h][k].bucket

\* memoryLimiterStore.Allow
MemoryAllow(r) ==
    LET h == req[r].replica
        k == req[r].client
    IN  /\ visitors' = [visitors EXCEPT ![h][k] =
                          [bucket |-> Spend(Bucket(h, k)), lastSeen |-> now]]
        /\ Grant(h, k, HasToken(Bucket(h, k)))
        /\ Decide(r, HasToken(Bucket(h, k)))

\* the bucket after so many executions of the script of redis_rate
SpendTimes(bucket, n) ==
    CASE n = 0 -> bucket [] n = 1 -> Spend(bucket) [] n = 2 -> Spend(Spend(bucket))

\* redisLimiterStore.Allow
RedisAllow(r) ==
    LET k == req[r].client
    IN  \E n \in Executions :
          LET bucket == SpendTimes(redis[k].bucket, n - 1)
          IN  /\ redis' = [redis EXCEPT ![k].bucket = Spend(bucket)]
              /\ Grant("redis", k, HasToken(bucket))
              /\ Decide(r, HasToken(bucket))
              /\ UNCHANGED visitors

RedisAllowFails(r) ==
    LET k == req[r].client
    IN  \E n \in FailedExecutions :
          /\ redis' = [redis EXCEPT ![k].bucket = SpendTimes(@, n)]
          /\ MemoryAllow(r)

Allow(r) ==
    /\ req[r].pc = "allow"
    /\ \/ ~config.cluster /\ MemoryAllow(r) /\ UNCHANGED redis
       \/ config.cluster /\ (RedisAllow(r) \/ RedisAllowFails(r))
    /\ UNCHANGED <<now, config, blockList, promised, errors>>

\* a block is recorded in a store: it may not end before the base duration
Promise(store, k) ==
    promised' = [promised EXCEPT ![store][k] = now + BlockDuration]

\* memoryLimiterStore.Block, and the answer 403
BlockInMemory(r) ==
    LET h == req[r].replica
        k == req[r].client
    IN  /\ blockList' = [blockList EXCEPT ![h][k] = MemoryBlock(@)]
        /\ Promise(h, k)
        /\ Goto(r, "rejected")

\* a Redis error in Block: the memory of the replica takes the block
DegradeBlock(r) ==
    /\ BlockInMemory(r)
    /\ errors' = errors \cup {req[r].client}

\* INCR, which makes a key without an expiry
Incr(k, n) ==
    [redis EXCEPT ![k].offenses = Offenses(k) + n,
                  ![k].expires = IF Offenses(k) = 0 THEN None ELSE @]

\* Block, up to its first reply
Block(r) ==
    LET k == req[r].client
    IN  /\ req[r].pc = "block"
        /\ \/ /\ ~config.cluster
              /\ BlockInMemory(r)
              /\ UNCHANGED <<redis, errors>>
           \/ /\ config.cluster
              /\ \E n \in Executions :
                   /\ redis' = Incr(k, n)
                   /\ req' = [req EXCEPT ![r].pc = "set",
                         ![r].duration = RedisBlockDuration(Offenses(k) + n)]
              /\ UNCHANGED <<blockList, promised, errors>>
           \/ /\ config.cluster
              /\ \E n \in FailedExecutions :
                   redis' = IF n = 0 THEN redis ELSE Incr(k, n)
              /\ DegradeBlock(r)
        /\ UNCHANGED <<now, config, visitors, granted>>

\* the first command of the pipeline is executed, or its connection is lost
BlockSet(r) ==
    LET k == req[r].client
    IN  /\ req[r].pc = "set"
        /\ \/ /\ redis' = [redis EXCEPT ![k].block = now + req[r].duration]
              /\ Promise("redis", k)
              /\ Goto(r, "expire")
              /\ UNCHANGED <<blockList, errors>>
           \/ /\ FailedExecutions # {}
              /\ DegradeBlock(r)
              /\ UNCHANGED redis
        /\ UNCHANGED <<now, config, visitors, granted>>

\* mutant: without the EXPIRE
ExpiringMutant(k, duration) == redis

\* EXPIRE does nothing to a key that is not there
Expiring(k, duration) ==
    IF Offenses(k) = 0 THEN redis
    ELSE [redis EXCEPT ![k].expires = now + duration + cleanupInterval]

\* The second one is executed, or not, and its reply arrives, or not; or the
\* pipeline is sent again (once; the model does not count).
BlockExpire(r) ==
    LET k == req[r].client
    IN  /\ req[r].pc = "expire"
        /\ \/ /\ redis' = Expiring(k, req[r].duration)
              /\ Goto(r, "rejected")
              /\ UNCHANGED <<blockList, promised, errors>>
           \/ /\ FailedExecutions # {}
              /\ DegradeBlock(r)
              /\ redis' = redis \/ redis' = Expiring(k, req[r].duration)
           \/ /\ FailedExecutions # {}
              /\ Goto(r, "set")
              /\ UNCHANGED <<blockList, redis, promised, errors>>
        /\ UNCHANGED <<now, config, visitors, granted>>

-----------------------------------------------------------------------------
(* The cleanup goroutine of a memory store; the phase of its ticker is     *)
(* arbitrary.                                                              *)

\* mutant: the age of an entry is not looked at
StaleMutant(h, k) == visitors[h][k] # None

Stale(h, k) ==
    visitors[h][k] # None /\ now - visitors[h][k].lastSeen > visitorTTL

PruneVisitors(h) ==
    /\ \E k \in Clients : Stale(h, k)
    /\ visitors' = [visitors EXCEPT ![h] =
                      [k \in Clients |-> IF Stale(h, k) THEN None ELSE @[k]]]
    /\ UNCHANGED <<now, config, blockList, redis, req, history>>

\* mutant: an entry is pruned by its number of offenses
OverMutant(h, k) == blockList[h][k].offenses = 1

Over(h, k) == blockList[h][k].offenses > 0 /\ now > blockList[h][k].until

PruneBlocks(h) ==
    /\ \E k \in Clients : Over(h, k)
    /\ blockList' = [blockList EXCEPT ![h] =
                       [k \in Clients |-> IF Over(h, k) THEN NoBlock ELSE @[k]]]
    /\ UNCHANGED <<now, config, visitors, redis, req, history>>

Tick ==
    /\ now < MaxNow
    /\ now' = now + 1
    /\ UNCHANGED <<config, visitors, blockList, redis, req, history>>

Init ==
    /\ now = 0
    /\ config \in [cluster : Clustered, middleware : Middlewares, action : Actions]
    /\ config.middleware = "RateLimitFailedLogins" => config.action = "block"
    /\ visitors = [h \in Replicas |-> [k \in Clients |-> None]]
    /\ blockList = [h \in Replicas |-> [k \in Clients |-> NoBlock]]
    /\ redis = [k \in Clients |->
                  [bucket |-> 0, block |-> 0, offenses |-> 0, expires |-> None]]
    /\ req = [r \in Requests |-> Unsent]
    /\ granted = [s \in Stores |-> [k \in Clients |-> [t \in 0..MaxNow |-> 0]]]
    /\ promised = [s \in Stores |-> [k \in Clients |-> 0]]
    /\ errors = {}

Next ==
    \/ \E r \in Requests :
         \/ Send(r) \/ Check(r) \/ Handler(r) \/ Allow(r)
         \/ Block(r) \/ BlockSet(r) \/ BlockExpire(r)
    \/ \E h \in Replicas : PruneVisitors(h) \/ PruneBlocks(h)
    \/ Tick

Spec == Init /\ [][Next]_vars

-----------------------------------------------------------------------------
(* Properties. *)

\* Every variable has its type.
TypeOK ==
    /\ now \in 0..MaxNow
    /\ config \in [cluster : Clustered, middleware : Middlewares,
                   action : Actions \cup {"block"}]
    /\ visitors \in [Replicas -> [Clients ->
                       {None} \cup [bucket : Nat, lastSeen : 0..MaxNow]]]
    /\ blockList \in [Replicas -> [Clients -> [offenses : Nat, until : Int]]]
    /\ redis \in [Clients -> [bucket : Nat, block : Nat, offenses : Nat,
                              expires : Nat \cup {None}]]
    /\ req \in [Requests ->
          [pc : {"unsent", "check", "handler", "allow", "block", "set",
                 "expire", "served", "tooMany", "rejected"},
           client : Clients \cup {None}, replica : Replicas \cup {None},
           duration : Nat]]
    /\ granted \in [Stores -> [Clients -> [0..MaxNow -> Nat]]]
    /\ promised \in [Stores -> [Clients -> Nat]]
    /\ errors \subseteq Clients

\* A store in which a block has been recorded blocks the client for at least
\* the base duration, whatever offenses follow, in whatever order their calls
\* reach the store, and whatever is pruned.
BlockKept ==
    \A k \in Clients :
        /\ now < promised["redis"][k] => RedisBlocked(k)
        /\ \A h \in Replicas : now < promised[h][k] => MemoryBlocked(h, k)

\* Allow: in no interval does a store grant more tokens than a full bucket and
\* what is refilled meanwhile, though buckets are pruned and calls retried.
BudgetKept ==
    \A s \in Stores, k \in Clients : \A t \in 0..now :
        granted[s][k][t] <= Burst + (now - t) \div Period

\* The back-off of the memory store: no offense and no pruning shortens a block
\* that lasts.
BlockNotShortened ==
    [][\A h \in Replicas, k \in Clients :
          MemoryBlocked(h, k) => blockList'[h][k].until >= blockList[h][k].until]_vars

\* An offense key without an expiry, which would keep the offenses of a client
\* for ever, belongs to a Block that is about to set it, or to one that has met
\* a Redis error.
OffensesExpire ==
    \A k \in Clients :
        redis[k].offenses > 0 /\ redis[k].expires = None =>
            \/ k \in errors
            \/ \E r \in Requests :
                  req[r].client = k /\ req[r].pc \in {"set", "expire"}
=============================================================================
