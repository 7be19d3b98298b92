# Formal models of isrv

TLA+ modules, TLC configurations and TLAPS proofs for the file-sharing server
isrv. Everything here is derived from the source in `src/`; paths below are
relative to it.

## 1. Inventory of the system

| Part | State it keeps | Operations | What makes it correct |
|---|---|---|---|
| Upload handler (`internal/app/handlers/upload.go`) | none of its own | accept, `Save`, `OnFileUpload`, rollback | an acknowledged file has its row and all its bytes; a refused one leaves nothing behind |
| Download handlers (`handlers/download.go`) | none | `GetFile`, `OnFileDownload`, `Open` or a pre-signed redirect, byte ranges, decryption | the bytes served are those of the row that was read, whole and in range |
| Delete and Expire (`handlers/manage.go`), `middleware/requiretoken.go` | none | token check, `deleteFile` in two halves, `GetFile` + `SetExpiration` | only the token's file is touched; 204 means row and bytes are gone |
| Admin (`handlers/admin.go`, `auth/session.go`, `middleware/requireadmin.go`) | none; the session is in the signed cookie | login, logout, session, list, delete | a cookie is honoured until it expires and only with the right key |
| Cleanup service (`internal/cleanup/cleanup.go`) | its goroutine, one snapshot per cycle | tick, lock, `GetExpiredFiles`, `cleanupFile` for each id | expired files go, others stay, nothing is orphaned |
| Cleanup cycle lock (`internal/database/postgreslock.go`) | a session-scoped advisory lock | `TryLock`, release | at most one replica cleans at a time; the lock is never lost for good |
| SQL store (`internal/database/sqlstore.go`) | the table `files` | one statement per operation, `ListFiles` two | ids are unique; a missing row is an error of update and delete |
| Object stores (`internal/storage`) | objects by key | `Save`, `DeleteFile`, `Open`, `PresignedURL` | deleting a missing object is not an error; remote puts are atomic, local ones are not |
| Rate limiting (`internal/app/middleware/*limit*.go`) | token buckets, blocks with offense counts, in memory or in Redis | `Allow`, `Block`, `IsBlocked`, pruning | a client over its budget is refused; blocks grow and end |
| End-to-end encryption (`internal/clientencryption`, `web/src/features/e2ee`) | the container format | encrypt, decrypt, limits | what the browser writes the server accepts and the browser reads |
| At-rest encryption (`internal/encryption`) | keys | encrypt, decrypt | files remain readable across key rotation |
| Expiration arithmetic (`internal/utils`) | none | `ParseExpiresForm`, `MaxExpirationTime` | larger files do not live longer; limits are met |
| Start and shutdown (`internal/app/application.go`) | goroutines and connections | `StartApp` | nothing is used after it is closed; shutdown ends |
| Configuration (`internal/configuration`) | the settings | load, override, verify | the combinations the other parts rely on |
| systemd installer (`internal/systemd`) | files and units on the host | install, uninstall | a failure half-way can be repeated |
| Web application (`web/src`) | what the browser shows | the download page's size check, the dashboard's walk through the pages; the rest is user interface | nothing admitted is refused, no file is hidden |
| Telemetry, logging, headers, favicon, static files, health | none that another part reads | | not modelled |

How the parts interact: HTTP handlers (any number at a time) and one cleanup
goroutine per process share two stores, the SQL table `files` and the object
store, with no transaction across them and no lock between them. Several
processes (replicas) may share both. The only coordination is the primary key
of `files`, the cleanup cycle lock, and Redis for the rate limits.

What is hard about it: every store call can interleave with those of any other
handler; a call can fail, or take effect and lose its reply; the process can
stop between two calls; the cleanup works from a snapshot, and by a column that
does not say in which time zone it was written; the storage delete
and the row delete of a cleanup share one 30 s budget; ids are random and not
checked for use; settings are read at every start, so that replicas that share
files and sessions may have read different ones; the installer's commands may be
broken off between any two steps and are then repeated; and several pairs of
functions, some of them in two languages, have to agree on the same sizes and
positions. `PROJECT.json` lists each hazard at its line, with the
properties that watch it or the reason none does.

## 2. Modules

| Module | What it is |
|---|---|
| `FileLifecycle` | the two stores, the upload, download, delete, admin delete and expire handlers, the token check, the cleanup loops, crashes and the clock |
| `ShareService` | the abstract specification: what somebody who shares a file may rely on |
| `FileLifecycleRefinement` | the refinement mapping, `FileLifecycle` to `ShareService` |
| `FileLifecycleProofs` | the inductive invariant and the TLAPS proofs |
| `FileLifecycleRefinementProofs` | the proof of the refinement, step by step |
| `CleanupLock` | the advisory lock around a cleanup cycle: connections, database sessions, replicas |
| `CycleLocker` | the abstract specification of the lock: what the cleanup expects of its `CycleLocker` |
| `CleanupLockRefinement` | the refinement mapping, `CleanupLock` to `CycleLocker` |
| `CleanupLockProofs` | its inductive invariant, the proof of the refinement and the other TLAPS proofs |
| `Limiter` | the rate-limiting middlewares, their memory store and their Redis store with its fallback |
| `LimiterProofs` | its invariants and TLAPS proofs |
| `Server` | a process from `configuration.Load` to the end of `StartApp`: settings and their verification, keys and admin sessions, cleanup, shutdown; several replicas over the same files |
| `Installer` | composes `Server` with what starts and stops it: the install and uninstall commands and systemd, or a cluster's supervisor |
| `InstallerProofs` | the invariants and TLAPS proofs of `Server` and `Installer` together |
| `Word` | Go's wrapping int64 |
| `ByteRange` | the Range header, over the three storages' `Open` |
| `Container` | the end-to-end encryption container: writer and reader of the browser, limit of the server |
| `Expiration` | how long a file may stay, with the overflows |
| `Listing` | the admin panel's pages |
| `MCFileLifecycle`, `MCCleanupLock`, `MCLimiter`, `MCInstaller` | what TLC runs: a component with its proofs and refinement, symmetry sets, settings |
| `MCBoundaries` | the four pure modules over bounded inputs |
| `BoundaryProofs` | what ranges, expirations and pages are for every input |
| `ContainerProofs` | what the container is for every file |
| `Induction` | induction on numbers, for the three modules above that need it |

### FileLifecycle and the code

State. `files[i]` is the row with primary key `i`, reduced to its token,
expiration and download counter; a token stands for the upload that drew it
(16 random bytes, `utils.GenerateFileToken`). `objects[i]` is the object with
key `i`: which uploads' bytes are in it and whether they are all there. The
column of the expiration is a `TIMESTAMP` without a zone, and what is written
there is the reading of the writing host's wall clock, from `time.Now` or
`time.UnixMilli`; so a row has the expiration its client was given and how far
that clock was ahead of the database's (`zone`, from `Zones`), and
`ExpiredFiles` compares their sum (`Stored`) with the time in UTC.
`req[r]` is a request with the step its handler is at (`pc`), the replica that
serves it, and its outcome. `cleaner[h]` is a replica's cleanup goroutine: the
rest of its snapshot and the file in hand. `expired` and `lapsed` are history
variables, which no action reads: the uploads whose file has been past the
expiration its client was given, and those whose row the table has had as
expired. The properties are about the first.

Actions. One per store call, because nothing keeps other requests out between
two of them:

| Code | Actions |
|---|---|
| `Upload`, `processUpload` | `UploadAccept`; local: `SaveCreate` (`os.Create`), `SaveCopy` (`io.Copy` and the size check); S3, GCS: `SavePut`; then `InsertRow`, `Rollback` |
| `Download` | `DownloadLookup`, `DownloadCount`, `DownloadOpen` (the handler's `Open`, or the client's when it follows the redirect) |
| `RequireToken` then `Delete` / `Expire` | `DeleteRequest`, `ExpireRequest`, then `DeleteStorage`, `DeleteRow` / `ExpireLookup`, `ExpireSet` |
| `AdminDeleteFile` | `AdminDeleteLookup`, then as `Delete` |
| `runCleanupCycle`, `performCleanup`, `cleanupFile` | `CycleStart`, `CleanupStorage`, `CleanupRow` |
| process stop and restart | `Crash` |

Faults. `Faults` selects what may go wrong: a call fails without effect
(`storage`, `database`), takes effect and reports an error (`lostReply`),
exhausts the 30 s of `cleanupFile` (`timeout`), or a process stops (`crash`).
The proofs hold for every set of faults.

Abstractions. Byte contents are the identity of the upload; two uploads that
have the same local file open are recorded as both in it. At-rest encryption
does not change who owns the bytes. Size limits, form parsing and file names
decide only whether a request is accepted, and a refused one touches nothing.
The form's expiration may lie in the past (`CalculateExpirationTime` bounds it
from above only), so any expiration up to `now + MaxAge` is allowed; `MaxAge`
stands for the largest value of `MaxExpirationTime` (`Expiration` shows that
there is one). Downloads are whole; ranges are in `ByteRange`. The cycle lock is absent, as it is
outside cluster mode: two replicas in `lifecycle_remote` may sweep at once,
which includes every behaviour with the lock.

### CleanupLock and the code

State. `pc[h]` is where replica `h` is in `runCleanupCycle`: `lock` in
`TryLock`, `sweep` in `performCleanup`, `unlock` in the deferred release.
`pinned[h]` is the session behind the `sql.Conn` it holds. `owner`, `live` and
`locks` are the database's and the pool's side, modelled from how the code uses
them: which replica has a connection to a session open, which sessions exist on
the server, and how often each has taken the lock (a session may take an
advisory lock again, which is why a leaked one would be granted to its own
replica for ever).

| Code | Actions |
|---|---|
| `TryLock`: `db.sqldb.Conn` | `Conn` (from the pool, or new) |
| `pg_try_advisory_lock` and its three outcomes | `Acquire`, `NotAcquired`, `TryLockFails` |
| `performCleanup` returns | `FinishSweep` |
| `release` | `Unlock`, `UnlockFails` (`driver.ErrBadConn`: the pool closes the connection) |
| server, network, `sql.DB`, process | `SessionEnd`, `SessionLoss`, `PoolClose`, `Crash` |

A statement that reports an error has done nothing, or it has timed out with its
effect and the driver has found the connection broken (`error`). The fault
`lateTimeout` is the case in between: the 10 s of `TryLock` end when the reply
has arrived and before `Scan`. The connection works, the session has the lock,
and `TryLock`'s error path closes the `sql.Conn` without `driver.ErrBadConn`
(`CloseTimedOut`), so that the pool keeps the lock: `PoolHoldsNoLock` fails with
that fault, and with it the refinement and the two liveness properties, because
no other replica sweeps again while the session lasts. The run leaves it out; the
theorems that need that say so (`RepliesInTime`), the others hold with it.

### Limiter and the code

State. `config` is what is read at the start: cluster mode, which middleware,
`OnLimitExceeded`. `visitors` and `blockList` are the maps of a
`memoryLimiterStore`, one per replica: the whole store when not in cluster mode,
the fallback of the Redis store otherwise. `redis` holds a client's bucket, the
end of its block key and its offense key with its expiry (`None` for a key that
has none). A bucket is the time at which it will be full, which is what
`redis_rate` stores, and equivalent to the tokens of `rate.Limiter`. `granted`,
`promised` and `errors` are history variables; no action reads them.

| Code | Actions |
|---|---|
| `RateLimit`: `isBlocked`, `allow`, `applyLimitAction` | `Check`, `Allow`, `Block` |
| `RateLimitFailedLogins`: the handler between the two | `Handler` |
| `redisLimiterStore.Block`: `INCR`, then a pipeline of `SET` and `EXPIRE` | `Block`, `BlockSet`, `BlockExpire` |
| `memoryLimiterStore.cleanup`, its two critical sections | `PruneVisitors`, `PruneBlocks` |

With `Faults = {"redis"}` a command may be executed twice (`MaxRetries: 1`), and
a call may fail having been executed not at all, once or twice; then the
fallback does the work. `time.Duration` is `Wrap`: two's complement, with its
width scaled down. The ticker of the pruning may fire at any time, which
includes every phase. Requests that bypass the limiter and the fail-open
branches of `ratelimit.go`, which need an error that neither store returns, are
left out; so is a pause of a request between the two halves of
`memoryLimiterStore.Allow` that lasts longer than `visitorTTL`.

### Server, Installer and the code

State. `host` is what a start reads: `config.yaml` and the environment (each the
record of the fields it sets, or `NoFile`), the executable, and which replicas
the supervisor wants. `process[r]` is a replica: the phase of `StartApp` it is
in, what it has read and made of it (`config`, the encryption `manager`),
whether a cleanup cycle runs, its uploads between `Save` and `OnFileUpload`, and
whether the 30 s of the shutdown are over. `tokens` and `objects` are the admin
sessions in browsers and the files with their at-rest key. `systemd` is the unit
file and what systemd knows of it; `command` is the install or uninstall under
way, or how the last one ended, and whether it has created `config.yaml`.
`startLimit` counts the starts of the unit in the current
`StartLimitIntervalSec`, and says whether systemd has given it up.

| Code | Actions |
|---|---|
| `configuration.Load`, its `verify...` functions in their order, `NewManager`, `StartApp` up to `Listen` | `Start`, that is `StartApp` with `Load`, `verifyConfiguration`, `NewManager` |
| the `select` on `ctx.Done()` and `srvErr` | `Signal`, `ListenFails` |
| `cleanupLoop`, `Join` | `runCleanupCycle`, `CycleEnds`, `Join` |
| `ShutdownWithContext`, its context, the deferred `Close`, the end of `runServer` | `DeadlinePasses`, `ShutdownWithContext`, `Exit` |
| `AdminLogin`, `RequireAdmin`, `IssueToken`, `Validate` | `AdminLogin` and operators of the same names |
| `processUpload` around `Save`; `Download`, `ClientEncryptedContent`, `serveEncrypted` | `Upload`, `UploadEnds`; operators of the same names |
| `systemd.Install`, `installBinary`, `WriteDefaultConfig` | `Install`, `CopyBinary`, `RenameBinary`, `WriteDefaultConfig`, `ConfigWritten`, `WriteEnvFile`, `WriteUnit`, `UnitWritten`, `Enable`, `Restart`, `InstallDone` |
| `systemd.Uninstall` | `Uninstall`, `Disable`, `RemoveUnit`, `PurgeConfigDir`, `PurgeStateDir`, `PurgeBackingDir`, `UninstallDone` |
| an error of any step, a killed command | `Abort` |
| `StartLimitBurst`, `StartLimitIntervalSec` and `Restart=always` of the unit | `Counted` in `Start`, `FailingStart`, `StartLimitHit`, `RestartRefused`, `IntervalPasses` |
| systemd, the operator, the host | `Restarted`, `Configure`, `Schedule`, `Reboot` |

A file that the code writes in place (`config.yaml`, the unit) is written in two
steps, and a command may be broken off between them; the executable is renamed.
Every start of the unit counts, one that fails at once and one that a command
asks for as well; at the limit the service stays down, and a restart is refused
as long as the interval lasts.
A token carries what its issuer had read, so that the property can be limited
to processes with the same settings; no action reads that.

### The pure modules and the code

`ByteRange`: a header is whether it is a single range, and its two numerals.
`parseRangeHeader`, `resolveRange`, `ByteRange.header`, `gcsRange` and the three
`Open`s are operators of those names; what S3 and the GCS client do with a range
is modelled from their documentation. `Requested` is the reference definition.

`Container`: a byte of ciphertext is known by its record and its place in it. A
record is bound to key, header, type, counter and length, as `makeNonce` and
`makeAdditionalData` bind it. The padded metadata and the header are of fixed
size and are records here; only the content, whose boundaries the reader has to
derive, is a sequence of bytes. Where `assertSupportedSize` throws, the computed
size is `Throws`, below every size.

`Expiration`: times and ages are milliseconds; the product with a millisecond
and that with an hour wrap around as in Go. The cube is exact, where the code
has a `float64`.

`Listing`: `ORDER BY` returns any order that it allows; a walk asks for page
after page, each counted over one table and selected from a later one.

## 3. Properties and runs

Files: `AckedFileKept`, `DownloadIsUpload`, `DeletedIsGone`, `NoOrphans`, with
`TypeOK`; action property `CleanupRemovesBoth`; liveness `ExpiredFileRemoved`;
refinement `ImplementsShareService`. Lock: `PoolHoldsNoLock`,
`CyclesSerialized`; liveness `LockComesFree`, `CyclesGoOn`; refinement
`ImplementsCycleLocker`. Limiter: `BlockKept`, `BudgetKept`, `OffensesExpire`, `BlockNotShortened`. Deployment:
`SessionsShared`, `EncryptedFilesServed`, `ClosedLast`, `InstallTakesEffect`,
`PurgeLeavesNothing`, `ServiceStartable`; action property `KeptUntilPurge`;
liveness `ShutdownEnds`, `ServiceReturns`. Algorithms: `RangesServed`,
`ContainersReadable`, `DamagedContainersRefused`, `AdmittedContainersFetched`,
`FilesWithinLimitAdmitted`, `ExpirationsBounded`, `LargerFilesExpireSooner`,
`PagesHideNothing`. Each is stated in words above its definition.

| Run | Instance | Shows |
|---|---|---|
| `lifecycle_local` | 3 requests, 2 ids, 1 process, local disk, clocks in UTC and east of it | acknowledged files are kept, downloads are whole, deletes are final, with failures, lost replies and crashes; the handlers implement `ShareService`; the invariant of the proofs is good |
| `lifecycle_remote` | 3 requests, 1 id, 2 replicas, S3/GCS, clocks as above | the first three with atomic puts, overlapping cleanup cycles, database errors, timeouts and crashes; `NoOrphans`: while the object store works and no reply is lost, no bytes without a row but those of an upload that a crash broke off |
| `expiration_timezone` | 1 request, a clock west of UTC, no faults | *violated*: an acknowledged file is swept before it expires |
| `lifecycle_liveness` | 2 requests, 2 ids, S3/GCS, fair | every expired file is eventually removed or re-dated, through all faults |
| `cleanup_lock` | 3 replicas, 3 sessions, every fault but `lateTimeout`, fair | the lock never stays behind on a pooled connection, cycles whose sessions last never overlap, the lock is never lost for good; it implements `CycleLocker` |
| `limiter` | 3 requests, 1 client, 2 replicas, Redis that fails | `BlockKept`: a recorded block lasts; `BudgetKept`: no interval with more than its tokens; `OffensesExpire`; `BlockNotShortened` |
| `limiter_overflow` | 4 requests, memory store | *violated*: an overflow ends the block (in the code at the 19th offense, in the run at the third) |
| `limiter_budget` | 4 requests, memory store, slow refill | *violated*: a pruned bucket is full again too early |
| `cleanup_orphans_object` | 1 request | *violated*: a storage error in `cleanupFile` leaves an object without a row |
| `deployment` | a systemd host, or a cluster of 2 replicas; 2 versions, 1 file, 1 session, 2 changes, 1 crash; fair processes | sessions and encrypted files survive restarts and rotations, the database is closed last, shutdown ends, the service comes back unless systemd gives it up, install and purge can be broken off anywhere and repeated, and a purge leaves no configuration, secrets or data |
| `boundaries` | every small input | ranges are exact on every storage; the reader reads what the writer wrote and nothing else; the page fetches what the server admits, up to the record counter; expirations stay within the settings; pages hide no file |
| `container_limit` | every small input | *violated*: the container of a file within the limit is refused |

Bounds. Three requests are an upload and two others that race with it or with
each other (a download against a delete, two deletes, two uploads under one
key, an upload, its re-dating and a download), each against the cleanup; every
one of these hazards needs at most that. A request is served once, so a
behaviour ends when all are done; that is why deadlock is not checked. Two
values of time are enough for an expiration to be past, present or future;
the other runs have three. `Zones = {0, 1}` lets every insert and every re-dating
be written in UTC or by a clock one unit ahead of it, two replicas or two seasons
apart; the liveness run has UTC only. Requests, ids and replicas are
interchangeable (symmetry), except in the liveness run, where TLC's symmetry
would be unsound. For the lock, three replicas are a holder and two that
try; when one of three sessions is on its way out, two replicas compete for the
other two.
Its `Nat` counter needs no bound, because a session never takes the lock twice.

For the limiter, one client is enough, because no two
clients share a key; three requests are two offenses that race after one that
was granted, or three in a row; `MaxNow = 2` lets a block end, be pruned and
come again, an idle bucket be pruned and refilled, and an offense key expire.
`maxBackoffFactor = 1` reaches the cap at the third offense. In `limiter` the
settings satisfy `visitorTTL >= Burst * Period` (true of the general limiter
with, say, 60 requests per minute and a burst of 10; not of the login limiter)
and no product overflows; the two violated runs drop one of these each.

In `deployment`, two changes (`MaxChanges`: commands started, settings edited,
replicas wanted or not) are an install that is broken off and its repetition, an
uninstall after an install, or a rotation between two starts; the hosts start
empty or installed, so that an upgrade or a purge need no install before them.
Each change may meet every phase of a process, one crash, reboot or failing
listener (`MaxCrashes`), and the loss of a command at every step. With
`StartLimitBurst = 2`, where the unit has 5, one crash is enough for systemd to
give the service up, after an install as well; an interval may also pass between
any two starts. `Current` is the version installed earlier: the two versions are
interchangeable. The four
settings of the cluster rotate a key, turn encryption off, and empty a secret
by a variable. One file and one session (`MaxSessions`) suffice because no
property relates two; `MaxNow = 1` lets the session, of one unit, expire.
Replicas that nobody wants stay down, so deadlock is not checked.

In `boundaries` and `container_limit` the state is one input. A record has 2
bytes and a file up to 5 (`ChunkSize`, `MaxFileSize`): none, a part of a record,
whole records, and three of them, which is `MaxCounter`; tags and headers have
their real sizes, limits go up to 8 bytes (`MaxLimit`), two more than the record
counter reaches to (in the code 2^32 - 1 records of 1 MiB, and
`verifyE2EEConfig` accepts a larger `e2ee.max_file_size_mb`). Damaged containers are
all sequences of up to four records of two keys, less up to two bytes. Ranges
have all numerals up to past the file's end and around `MaxInt64 = 63`, where
`gcsRange` overflows. Forms have every value of the word, at an hour of 2 ms, a
millisecond of 2 units and 10 in place of 1,000,000 (`Hour`, `Millisecond`,
`HoursBelow`), so that both products wrap around; sizes go to twice the
limit (`MaxSize = 3`), ages from 1 to 14. Tables have up to three rows in every
order of sizes (`MaxRows`), uploaded at any of the six statements of a walk of
three pages (`MaxPages`), with pages of one or two rows.

`FreshIds`. `GenerateRandomString` draws ids of at least 4 and by default 12
characters, and the code relies on their not repeating while in use: with an id
that is taken, `Save` would overwrite the other file before the insert fails and
the rollback would delete it. The runs and the proofs assume `FreshIds`.

`Zones`. A clock behind the database's makes the cleanup delete files too early;
`expiration_timezone` shows it. The compose files set `TZ=UTC`; the systemd unit
and a plain `isrv serve` take the host's zone. The passing runs have clocks in
UTC and east of it, and the theorems about files that must not go assume that no
clock is behind (`NoZoneBehind`). East of UTC files stay longer than promised,
which no property forbids.

Fairness. `WF(Proceed)` and `WF(Cleanup)`: goroutines that can run do, and the
ticker of `cleanupLoop` fires again and again. `SF` of a successful storage
delete and of a successful row delete for each file: a store that is called
again and again does not fail every time. Without the latter a permanently
broken store keeps expired files for ever. No fairness is assumed of clients,
of crashes or of the clock. In `CleanupLock`, `WF(Cycle)` per replica is the
ticker of `cleanupLoop` and the timeouts of 10 s; `SF(Acquire)` says that a
replica that tries again and again while the lock is free does not fail every
time; `WF(SessionEnd)` that the server notices, some time, that a connection is
closed. Without `driver.ErrBadConn` in the release function both liveness
properties would fail under the same fairness.

In `Installer`, `WF` of each step of a process that starts or stops: the
supervisor starts what is wanted and signals what is not (`Restart=always` of
the unit), the deadline of 30 s passes, a cycle whose context is cancelled ends.
`SF(Join)`: `select` picks at random between the ticker and the ended context,
so the loop ends although cycles may begin meanwhile. `WF(Restarted)`,
`WF(RestartRefused)` and `WF(StartLimitHit)`: systemd completes a restart it was
told of or, at the limit, refuses it and gives the service up. Requests may hang
for ever, commands stop anywhere and intervals need not pass between two starts;
no fairness is assumed of them.

Limits of what is shown. In these cases the code does less than a reader may
expect, and the properties say no more than it does:

* `AckedFileKept` lets a file go that has been past its expiration once: a cycle
  that has taken its snapshot deletes a file although its expiration is moved
  into the future before the cycle gets to it.
* An insert that took effect and lost its reply leaves a row without bytes until
  it expires. Its upload was answered 500, so no property is about it but
  `ExpiredFileRemoved`.
* `OffensesExpire` is about clients none of whose calls to Redis has failed, and
  how long offenses are remembered in memory is nobody's promise.
* A `TryLock` whose time is up after the reply leaves the lock in the pool
  (`lateTimeout`, above).
* Under an `e2ee.max_file_size_mb` beyond the record counter the server stores
  containers that the download page never fetches;
  `AdmittedContainersFetched` states both sides of that limit.
* An install killed while it writes `config.yaml` leaves a part of it. The next
  install keeps that as the operator's own and succeeds, and the service panics,
  although `systemd.go:130` and `docs/systemd.md:13` call the install idempotent.
  `InstallTakesEffect` promises a whole configuration only of the install that
  has created it. An enabled unit file that was begun does not boot either.
* `docs/systemd.md:4-5` says that after any failure "systemd's restart policy
  brings it back"; the unit gives up after five starts in 60 s
  (`systemd.go:90-91`). `ServiceReturns` excepts that and settings that panic.
* `PagesHideNothing` excepts an upload between the count and the select of the
  last page, deletions during the walk, and ties in the sort column.

The findings in `PROJECT.json` give the lines behind the violations.

## 4. Proofs

Every safety property and every action property that a passing run checks is
also a theorem, for all values of the constants that the assumptions of the
modules allow, and so is the refinement. What TLC checks on an instance in
section 3 holds without its bounds, under the provisos named here.

### Files

`FileLifecycleProofs` proves, for any sets of requests, ids and replicas, both
kinds of storage and every set of faults, assuming `LifecycleAssumption` (the
types of the constants) and `FreshIds`:

* `TypeCorrect`, `DownloadsServeTheirUpload`, `DeletedFilesAreGone` and, with
  `NoZoneBehind`, `AcknowledgedFilesAreKept`, all from
* `InductiveInvariant`: `Spec => []IInv`, and
* `NothingIsOrphaned`, from the same invariant with `RowTrack`, if only the
  database and the cleanup's 30 s context fail or processes stop (`NoLoss`); the
  run `cleanup_orphans_object` shows why object store failures are excluded.
* `CleanupsRemoveBoth`, the property that run violates, if the object store does
  not fail (`DeletesWork`), whatever else does: `RowTrack` says that a cleanup
  about to delete a row has deleted the object.

None of the safety properties is inductive. The argument: ids are unique
among uploads (`UniqueIds`), so while an upload saves and inserts, nobody else
writes or deletes its object (`UploadObject`), because every delete in flight
was admitted by reading a row, and a row exists only once its upload has
inserted it (`RowSettled`). From then on the object under that id is that
upload's, whole, or gone (`Settled`), and gone is for good. So a download that
has read a row finds these bytes or none (`DownloadTrack`), a delete that
reaches its second half leaves neither (`DeleteTrack`), and the cleanup's
snapshot, however old, names only uploads that the table has had as expired
(`CleanupTrack`, `LapsedRows`). That is as far as the invariant goes, in any zone.
If no clock is behind the database's, whatever the table has as expired is past
the expiration its client was given, so an acknowledged file disappears only for
one of the reasons in `Ended`.

The proof first says what any step can do to one request (`StepShape`), to one
object (`ObjectFrame`) and to one row (`RowFrame`); the preservation of each
conjunct then follows from these frames instead of from twenty actions.

`FileLifecycleRefinementProofs` proves `ServesShares`: under `FreshIds` and
`NoZoneBehind`, `Spec` implements `ShareService`. With `IInv` on both sides of a step, an upload's
last step is `Share` or nothing, a download's is `Find`, `Get` or `Miss`, and
whatever a delete, a re-dating, the cleanup, a crash or the clock does touches
one key and is `Withdraw` of a released file or nothing. `SharesAreSafe` proves
of the abstract service, and so of the handlers, that only released files are
withdrawn and that who misses a file misses a withdrawn one. `MissesWereReleased`
says it in the terms of the code: a download that has read the row of an
acknowledged file and is answered 404 was for a file that had expired or been
deleted, though it opens the object well after it has read the row.

### Lock

`CleanupLockProofs` proves, for any numbers of replicas and sessions,
`LockTypeCorrect`, `CyclesHoldTheLock` and `CyclesAreSerialized` under every set
of faults, `PoolNeverHoldsLock` under every set without `lateTimeout`
(`RepliesInTime`), and `OneCycleAtATime` if the server ends no session under an
open connection. So a late timeout can keep every replica but one from sweeping,
and never lets two sweep at once. When it does, the cycle goes on
without the lock, because `performCleanup` never looks at the connection, and
another may start; `lifecycle_remote`, which has no lock at all, shows that this
harms no file. The invariant `LockInv` adds what they rest on: a replica that
is in a cycle has pinned a connection of its own (`Pinning`), at most one
session, an existing one, has the lock (`OneHolder`), where in the cycle the
pinned session has it (`HeldWhile`), and, if replies come in time, that it has
taken it once and no pool has kept it (`HeldOnce`).

`LocksCycles` proves that `CleanupLock` implements `CycleLocker`, under every set
of faults with `RepliesInTime`. The abstract lock has no connections: it is `taken` while some session
has the lock, a cycle lasts from `TryLock`'s success to the end of the release
function, and it holds the lock while its session does. `TakenInVain` is a
statement that took effect without its caller learning of it, `GivenBack` the end
of a session that no cycle relies on. A cycle that has lost the lock ends without
touching that of the next (`Released`): the release function unlocks through the
connection it has pinned and no other. `LockersAreSafe` follows from the abstract lock alone.

### Limiter

`LimiterProofs` proves, for any requests, clients, replicas, settings and any
failures of Redis:

* `LimiterTypeCorrect` and `OffenseKeysExpire`. A request that is about to
  record a block carries a client, a replica and a duration (`Carries`).
* `BudgetsKept`, if `BucketsRefill`: an idle bucket is not pruned before it
  would be full, `Burst * Period <= visitorTTL`. That is so for the general
  limiter and not for the login limiter; the run `limiter_budget` violates the
  property without it. The invariant `Ledger` bounds what was granted since any
  time by how far the bucket has been filled up since then.
* `RedisBlocksKept`: a block in Redis lasts, without proviso, because
  `blockDuration` clamps where it would overflow.
* `BlocksKept` and `BlocksNotShortened`, in the behaviours in which the shift
  of the memory store never overflows (`[]BackoffFits`); the run
  `limiter_overflow` violates the first without it. The invariant `MemoryTrack`
  adds that a block lasts no longer than its offenses are worth, so that the
  next, worth as much (`FactorGrows`), cannot end earlier.

### Deployment

`InstallerProofs` proves all safety properties for any settings, any
number of replicas, files, changes, crashes and starts in an interval, from these
invariants:

* `ProcessInv`: what each phase of `StartApp` implies about cycles, uploads and
  the deadline: `DatabaseClosedLast`.
* `HostInv`: ties the step a command is at, and how the last one ended, to the
  files on the host, systemd's state and the version that runs (`InstallTrack`,
  `UninstallTrack`, `HostTrack`): `DeploymentTypeCorrect`, `InstallsTakeEffect`,
  `PurgesLeaveNothing`, `ServiceAlwaysStartable`. It is needed because a command
  that is broken off leaves any prefix of its effects to the next one.
  `LimitInv` adds, for type correctness, that no more starts are counted than the
  limit has; nothing else depends on it.
* `ConfigInv` and `TokenInv`: a process that runs has a configuration that is
  the one its settings give and has passed every check, and a session that is
  promised to live on was signed with the secret of those settings:
  `SessionsAreShared`.
* `StoreInv`: files and uploads in flight are encrypted with a key that was
  there: `EncryptedFilesAreServed`, and with the other three the action property
  `EverythingKeptUntilPurge`.

`ServerAssumption` and `InstallerAssumption` say of the settings only what a
YAML file and an environment can be.

### Algorithms

For each pure module there is a theorem about every input, and from it one
about every input that `MCBoundaries` can choose, whatever its bounds
(`InputOK`, `ContainerInputOK`).

* `RangesAreServed` (`RangesServedByAll`): every header, every size a word
  holds, every width of the word, including where `gcsRange` overflows.
* `ExpirationsAreBounded` (`ExpirationsKeepBounds`) and `LargerExpireSooner`
  (`LargerFilesNeverOutlive`): every form value and every setting with ages in
  order that fit a `time.Duration` (`SaneAges`), for sizes of at most twice the limit. The only files
  above the limit are end-to-end encrypted ones, whose limit is at most
  `MaxFileSizeMB` of plaintext (`verifyE2EEConfig`) and whose container adds far
  less than that.
* `WalksMissNothing` (`WalksHideNothing`): every size of a page, every number of
  pages and every growing sequence of finite tables, if the rows differ in the
  sort column.
* `ContainersAreRead`, `AdmittedAreFetched`, `DamageIsRefused` (and their
  corollaries ending in `ByAll`): every file, key and limit, on both sides of the
  record counter, and every content
  made of bytes of any kind, as long as nobody but the browser that encrypted the
  file has sealed records under its key, which is drawn for every file. The
  proof shows where the records of a concatenation lie (`FlattenPlaces`,
  `Content`) and that equal records at all places make equal contents.
* `LimitFallsShort` gives the extent of the violation in `container_limit`: the
  server refuses every file as large as the limit, and admits every file that is
  smaller by the 32 bytes of the key commitment.

Induction. The library's induction theorems take an operator as a parameter,
which the provers cannot instantiate. `Induction` derives what is needed from the
well-foundedness of finite sets instead: a set of naturals has a least element
(`LeastNatural`), and so a set that has 1 and with each number the next one has
all up to a bound (`UpTo`). With it, the recursive function behind the shift of
the back-off (`ShiftExists`, `ShiftDoubles`), the local function of `FlattenSeq`
(`FlattenUnfolds`), and the walk through the pages are unfolded for every length.

### Only model-checked

Liveness (`ExpiredFileRemoved`, `LockComesFree`, `CyclesGoOn`, `ShutdownEnds`,
`ServiceReturns`): temporal reasoning under fairness is out of the prover's
reach. The violations are counterexamples of TLC's; for each of the five
violated properties a theorem says under which condition it does hold
(`CleanupsRemoveBoth`, `AcknowledgedFilesAreKept`, `BlocksKept`, `BudgetsKept`,
`LimitFallsShort`).

## 5. Plan

Done, the most important behaviour first: `FileLifecycle` and `CleanupLock`,
`Limiter`, `Server` and `Installer`, the pure modules; the proofs of all
their safety properties; and the two refinements, of `ShareService` and of
`CycleLocker`.

Left out on purpose:

* an abstract specification of the limiter: a budget and a block per client and
  store, with the clock, is what `BudgetKept` and `BlockNotShortened` say
  already;
* step lemmas behind the liveness properties: without fairness they would only
  repeat the guards of single actions.

What could follow is the durability of local files (`Save` returns without
`fsync`) and blocks that move between Redis and the memory of one replica, once
the code promises something of them; the hazard list has both.

## 6. Not modelled

Telemetry, logging, response headers, the favicon, static files, health
endpoints and the web pages: no other part reads what they do. Of the
configuration, the checks of one setting by itself (port, sizes, storage,
cleanup, rate limits) and the search for a file when no `--config` is given.
Opening a database, its migrations, and the clients of S3 and GCS. Key
derivation, the key token and the padding of the metadata in the browser;
parsing of identities. Durability of the local file system,
TLS, HTTP framing and the database engines themselves are taken as given; where
the code relies on them, `PROJECT.json` says so.
