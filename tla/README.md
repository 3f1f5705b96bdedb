# db_sharding: a TLA+ model of the orders system

This directory holds TLA+ modules for the order service of this repository, TLC
configurations that model-check them, and TLAPS proofs about them. Paths such as
`app/common/repository.py` are relative to the repository's root; in
`PROJECT.json` the same files carry the prefix `src/`.

Run a configuration with `tlc -config X.cfg M`, a proof with `tlapm M.tla`.

## 1. The system

Two FastAPI services (writer, reader) reach one Citus cluster through PgBouncer.
Orders are sharded by `user_id`; idempotency keys are a reference table. Redis
counts requests. Shell runbooks build, grow, back up and restore the cluster.

| Component | State it keeps | Operations | What is hard about it |
|---|---|---|---|
| Order creation (`repository.py`, `writer_service`) | a transaction and a pool connection per call; tables `orders`, `idempotency_keys` | `POST /api/v1/orders` | retries, races for a key, lock waits, lost COMMIT answers, crashes, a failed transaction that is used again |
| Order body (`writer_service`, `repository.py`, the migration) | none | validation, request hash, row | two texts of one amount, what the table accepts and the writer does not check |
| Order queries (`reader_service`, `repository.py`) | none of their own; rows that appear while shards are read | list, get, pending | page order against commit order, shards read one by one, defaults nobody validates |
| UUIDv7 (`uuidv7.py`) | none | name an order | clocks of several processes, collisions |
| Rate limiter (`security.py`) | counters with an expiry in Redis, a deque per subject and process | one check per authorised request | INCR and EXPIRE are two calls, clocks differ, Redis fails, fallback |
| Access control (`security.py`, `settings.py`) | settings, fixed at the start; the principal of a request; counters of `/metrics` | start, authenticate, tenant check, answer | combinations of modes, keys, tokens and claims; exceptions on another path than answers |
| Service lifecycle, readiness, pool (`db.py`, `api.py`) | attempts of the start, connections, some of them dead | start, probe, handle, stop | the database comes and goes, connections that only look alive |
| Producer, WAL monitor | a loop and a connection | create orders, poll | errors that end the loop, a reconnection inside an except block |
| Cluster runbooks (`scripts/init_citus_cluster.sh`, `add_citus_worker.sh`, `rebalance_citus.sh`, ...) | `.env`, rendered compose file, containers, `.pgpass`, Citus metadata, shard placement | bootstrap, add, rebalance | stop half way, run again, stale counts |
| Physical backup (`backup_full.sh`, `verify_backup.sh`, `restore_pitr.sh`) | pgBackRest stanzas | backup, check, restore | list of stanzas against the cluster that is there |
| Logical backup (`backup_all_shards.sh`, `verify_backup.sh`, drill, restore) | files of a backup directory | backup, verify, drill, restore | partial files, stale checksums |
| Logging, secrets, TLS, compose, nginx, Prometheus, database roles, CI | none or declarative | | |

How they interact: a request passes authentication, the rate limiter (Redis), the
tenant check, and then the repository, which takes a connection of the pool,
which is a connection to PgBouncer, which lends it a server connection for the
length of a transaction. The runbooks share files and the coordinator's metadata
and know nothing of one another. `PROJECT.json` lists every component with what
is modelled of it, and every hazard at its line with the properties that cover it.

What makes each component correct:

* order creation: one order per (principal, key) whatever is retried; key row,
  stored response and order appear together; answers are true and stay true;
  connections come back; every call ends;
* queries: a client finds what it was told of, pages lose orders only to newer ones
  and are bounded; ids sort with time;
* access control: exactly those whom the rules entitle get through, production keeps
  its rules, every answer is accounted for, what the writer accepts the table accepts;
* lifecycle: starting ends, connections do not pile up, everything comes back;
* rate limiter: no more than the limit per subject and window over all processes;
  nobody is refused on account of others; production never admits uncounted;
* cluster runbooks: shards are on workers that run, are registered and can be logged in
  to, and what breaks that can be repaired; tables are distributed over all the workers asked for; a failed
  script can be run again; a backup covers every worker.

## 2. Modules

| Module | Models |
|---|---|
| `IdempotentOrders` | abstract: what the writer promises about `POST /orders`: an atomic effect per call, and only true answers |
| `CreateOrder` | `OrderRepository.create_order` and its handler, one action per database statement |
| `MCCreateOrder` | instance for TLC |
| `CreateOrderProofs` | inductive invariant, theorems, refinement |
| `RateQuota` | abstract: what the limiter promises of its answers, as numbers of requests |
| `RateLimiter`, `MCRateLimiter` | the redis and memory backends of `security.py` |
| `RateLimiterProofs` | quotas of Redis and of memory, fairness to others, failing closed, refinement |
| `OrderBody` | pure: validation, hash and row of a body |
| `OrderBodyProofs` | powers of ten, and that an accepted amount is stored as it was sent |
| `AccessControl`, `MCAccessControl` | start-up validation and the way of a request to its answer; extends `OrderBody` |
| `AccessControlProofs` | who gets through, what is counted |
| `UuidV7` | pure: `new_uuidv7` as arithmetic |
| `OrderListing`, `MCOrderListing` | the queries next to the steps that create orders; extends `UuidV7` |
| `OrderListingProofs` | the listing properties, and that ids follow the clock |
| `ServiceLifecycle`, `MCServiceLifecycle` | services, producer, WAL monitor and a database that comes and goes |
| `ServiceLifecycleProofs` | types and connections |
| `ClusterScaling`, `MCClusterScaling` | bootstrap, add, rebalance and physical backup |
| `ClusterScalingProofs` | what takes shards out of reach and what puts that right, registration before migration |
| `LogicalBackup`, `MCLogicalBackup` | logical backup, verification, drill and restore |
| `LogicalBackupProofs` | what a verdict says of the files, what a restore replaces |

The modules meet at the handler of a request: `AccessControl` leaves open what the
limiter says and what the repository makes of a call, and takes every answer that
`RateLimiter` and `CreateOrder` allow for them; `OrderListing` takes of `CreateOrder`
what a reader can see of it.

Definitions marked `Mutant` in a comment are deliberate mistakes. No specification
uses them: each stands for a plausible bug and shows that a property notices it.

### CreateOrder

A call is a coroutine with a program counter `pc`, its request `req`, the HTTP
`answer`, and membership in `pool`. The server keeps `txn[c]` and the uncommitted
writes `work[c]`; `keys` and `orders` are committed. Each await of
`repository.py:64-141` is one action: `Begin` (acquire, BEGIN), `SelectContinues`
and `SelectAnswers` (67-84), `InsertKey` and `InsertKeyViolates` (86-96),
`Reselect` (97-115), `InsertOrder`, `UpdateKey`, `SendCommit`, `ServerCommit`,
`Acknowledge`. So calls interleave between any two statements.

PostgreSQL is modelled as the code relies on it: READ COMMITTED; an INSERT of a key
waits for a live transaction that has written that key and then succeeds or fails;
a failed statement fails its transaction; COMMIT may take effect although its
answer is lost. Failures: `Fault` (a statement or the connection fails on the
client, and the server's transaction stays until `Reap` or `ServerCommit`), `Kill`
(the server ends a transaction), `Crash` (the process dies and is restarted by
Docker with an empty pool). A call is also the identifier of the order it makes:
UUIDv7 has 74 random bits. A body is opaque, and its hash tells bodies apart.
Readers and the producer add nothing: the producer's calls are calls without a key.

Citus commits the two tables with one distributed transaction; the model takes its
commit to be atomic, and a deadlock found by the server is a `Kill`.

### RateLimiter

One action per await of `_enforce_redis_rate_limit`: `ArriveRedis` takes the window
number from the process's own clock, `Incr`, `Expire`, `IncrFails`, `ExpireFails`.
A failed call may have taken effect. The memory limiter has no await and is one
step; which of the two a process uses is its setting (`backend`). `Stale` is how many
entries its `while` loop pops, `Fresh` the rest of the deque. `Crash` empties the deques
of a process and loses its requests; `crashed` remembers which processes died, as
`MemoryQuota` is what a process promises until then.

`RateQuota` says the same without counters, expiries and deques: an admission finds
fewer than `Limit` admitted in its window (or, by memory, in the last `Window` ticks), a
429 finds `Limit` others. `Promise` maps a request that is between its awaits to
`asking` and keeps the other variables; `KeepsQuota` is the refinement. `INCR`,
`EXPIRE` and their failures are stutters unless they answer.

### OrderBody and AccessControl

`AllSettings` has the settings a request meets or `Settings.validate` looks at, and
`AllRequests` the parts of a request that decide its answer; claims keep the cases
that `verify_jwt` tells apart (a number, 0, none, one `int()` refuses). `Startup` is
`Settings.validate`; then one action per stage: `Receive` (middleware, parsing),
`Authenticate`, `Limit`, `Validate`, `CheckTenant`, `CallRepository`, `Metrics`,
`Finish`. `Answer` and `Raise` are the two ways out of the middleware. Requests share
only the settings, so one is followed at a time; what they share in Redis and in the
database is in `RateLimiter` and `CreateOrder`. `reached` tells a `fault` of the database
from the `repeat` of a key, the deterministic ends of `create_order` that are a 500
(`repository.py:84`, `:97`); a call without an `Idempotency-Key` has no repeat. A 500 also
answers a key that is not ASCII (`Incomparable`: `compare_digest` raises at
`security.py:118`), a redis limiter without `REDIS_URL`, and a refusal whose report is no
JSON (`Unprintable`): `api.py:48-58` puts `exc.errors()` into the answer as it is, and an
amount out of range or a payload that is too large leaves a `Decimal` or an exception in
it. Every other refusal of a body is a 422. `OnlyEntitled` compares with the rules
of `README.md` stated on their own (`KeyEntitles`, `TokenEntitles`), not with the steps.

An amount is its text (a sign and units of 10^-scale), as `Decimal` keeps it: 1.0 and
1.00 are two texts, and so are 0.0 and -0.0; `Number` and `Row`
compare amounts in units of 10^-`MaxScale`, with `TenTo` for the powers of ten and `Cent`
for the last place the column keeps. Of the libraries it
is assumed that pydantic counts decimal places without the zeros at the end
(`HasPlaces`), leaves `max_digits` less the places for the whole part (`HasDigits`) and
looks at both before the range, that
FastAPI parses a JSON body before it calls dependencies and validates it after them,
and that SHA-256 does not collide.

### UuidV7 and OrderListing

`Name` (the id, from the clock of the process), `Begin` (`created_at`, the clock of the
database), `Commit`, `Acknowledge`; a client repeats one of the four queries with `Ask`
and one `ReadShard` per shard. A query that names no user goes to all shards, which
Citus reads without a common snapshot. An unordered query may answer any of its rows.

### ServiceLifecycle

A web service, the producer and the monitor, each with a `phase`, its failed `attempt`s
and its connections, `live` or `dead`. When the database goes, asyncpg notices some of
the connections and the monitor (psycopg, which only reads) none. A command takes any
connection of the pool; one that fails on a dead connection makes the pool discard it.
An exception ends the producer, and the monitor when its reconnection fails inside the
except block; Docker boots what has exited. `probe` counts the four queries of
readiness. A pool of `min_size` 0 opens no connection and so starts without its database.
`/ready` answers 200 with either text, so `ReadyFollows` is about its text.

### ClusterScaling

A script is a list of steps under `set -e`: it stops at the first that fails,
keeps what it did and is run again. Steps share `env` (`CITUS_WORKER_COUNT` in
`.env`), `rendered` (the compose file), `up`, `pgpass`, `registered`, `placement`.
`StepFails` is a step failing for outside reasons. One script runs at a time; the
backup may run beside it. `MoveShard` moves one shard at a time, as Citus commits
each move. `init_db_roles.sh` sources `.env` again, which overrides the count its
caller exported, so `CheckRoles` uses `env`.

A bootstrap takes any count, as `init_citus_cluster.sh:7` does: fewer workers than the
cluster has, or the stale count of `.env`. It then writes `.pgpass` without the others
(33-49), and the coordinator is locked out of shards they hold. So that shards stay in
reach is no invariant of the runbooks; the properties say what takes them out of reach
(`OnlyNarrowBootstrapLocksOut`: nothing but that) and what puts it right
(`CoveringBootstrapRestores`: any bootstrap for all of them). With `AuthRequired` (the
default of the PostgreSQL image) the add of a worker stops at its registration, as only
the bootstrap writes `.pgpass`; a bootstrap with the new count repairs that, too.

`Migrate` has three outcomes: nothing to do on a migrated database; the shards dealt out
in turn over the registered workers (`Spread`); or failure, when one of them cannot be
reached. `rebalance_table_shards('orders')` goes by the size of shards on disk with a
threshold, so `MoveShard` may take any shard to any worker and `Rebalance` may end at any
time, with the counts even or not; no property promises an even spread.

### LogicalBackup

The module follows one directory. `dir` holds its files, each with the run that
wrote it and whether it was written to its end; `sums` holds the lines of
`SHA256SUMS`, which `sha256sum` writes one by one. The backup (`backup`) and the
operator's script (`op`) are two processes. Files are opened, and so emptied, in one
step and closed in another; `BackupFails` and `ScriptFails` end a script at any
command, the drill through its `EXIT` trap. `verdict` is what the last verification
said and is forgotten when a file changes. `data` says whether the production
database is all there: `Clean` drops its objects before `Load` fills it again.

Assumed of the operator: application writes are stopped before a restore, as the
runbook asks, and nobody runs a script on a directory that a second backup is
rewriting. The first backup into it may be running.

## 3. Runs

| Run | Question | Result |
|---|---|---|
| `create_order_safety` | 3 calls, 2 principals, 1 key or none, 2 bodies, pool of 2, all failures | `OneOrderPerKey`, `KeyBoundToItsOrder`, `AcknowledgedIsCommitted`, `ConflictIsTruthful`, `OneWriterPerKey`, `ConnectionsReturned`, `KeyRowsImmutable` hold; `KeepsPromise`: the code implements `IdempotentOrders` |
| `create_order_liveness` | 3 calls on one key, 2 connections, all failures | every call ends and no transaction stays open |
| `create_order_replay` | is a repeated body replayed, nothing failing? | no, see section 5 |
| `create_order_conflict` | is another body refused with 409, nothing failing? | no, see section 5 |
| `rate_limiter` | 2 processes with skewed clocks, both backends, in production or not, Redis and process failures | `QuotaPerWindow`, `LimitedIsEarned`, `FailsClosed`, `ImmortalOnlyByFailure`, `MemoryQuota` hold; `KeepsQuota`: the code implements `RateQuota` |
| `access` | every combination of the settings that matter; keys, tokens and pairs of them; bodies | `OnlyEntitled`, `EntitledServed`, `ProductionPosture`, `TableAccepts`, `Accounted`, `AmountsExact`, `HashNamesTheRow` hold |
| `services` | the three kinds of program, outages at any moment, 2 crashes | `ConnectionsBounded` holds; `StartEnds`, `ComesBack`, `ReadyFollows` under fairness |
| `listing` | 3 orders of 2 users, a client that repeats any query, clocks apart | `AcknowledgedIsListed`, `LeavesForNewer`, `LateRowsBeganEarlier`, `IdsFollowTime` hold |
| `cluster_grow` | any sequence of bootstraps for any count, adds, rebalances and backups, up to 3 workers, 2 failed steps, `REBALANCE_AFTER_ADD=true` | `OnlyNarrowBootstrapLocksOut`, `CoveringBootstrapRestores`, `RegisteredBeforeMigration` hold, and a bootstrap that fails is completed when it is run again for the workers there are (`BootstrapSucceeds`) |
| `cluster_backup` | does the physical backup cover every worker? | no, see section 5 |
| `backup_absolute` | a directory with an absolute name, two backups into it, every script, 2 failures | `VerifiedDumpIsWhole`, `VerifiedIsOneBackup`, `CompleteVerifies`, `DataTradedForWhole`, `DrillCleansUp` hold |
| `backup_default` | a relative directory, nothing failing: does a complete backup verify? | no, see section 5 |

Bounds, and why they are enough:

* `CreateOrder`: conflicts are between two calls on one key; a third call can be
  the retry that arrives while the first two are still at it, or compete for the
  pool. One key suffices, for keys do not interact; two principals show that keys
  are per principal; a pool of two below three calls makes calls wait.
* `RateLimiter`: three requests exceed a limit of one, with one more to be refused or
  to create a key of the next window; three ticks bring every clock into a second window
  and every deque past the window's length, and a key that lived for the window alone
  would expire before the last INCR (`LifetimeWindowOnly` does). That none expires too
  early at any later time is proved (`NotExpired`). `MaxSkew` bounds how far clocks
  differ and `MaxDelay` how late an INCR may come after its window. `SlackAssumption` says that
  together they stay within the 5 seconds that the EXPIRE adds to the window: when
  they do not, a key expires too early and `QuotaPerWindow` fails.
* `AccessControl`: the sizes of lists do not matter, only combinations; all settings in
  which only the start differs are tried with one amount limit, and every credential
  alone and every key with a bad, a plain and an administrator's token. Amounts have up
  to one digit more than the table keeps, both signs, and one more whole digit than
  `max_digits` allows; `MAX_ORDER_AMOUNT` is at and over the table's CHECK. Only the
  requests with the writer's key carry an `Idempotency-Key`.
* `OrderListing`: a page of two below three orders is full, and the third may come
  before, after or between; `PendingLimit` is larger than `MAX_LIST_LIMIT`; two users
  are two shards; ids of one millisecond always collide (`RandB` = 1), which is the
  worst of all cases. Three ticks cover one clock ahead by a tick, which
  `IdsFollowTime` needs.
* `ServiceLifecycle`: two attempts show both branches of the loop, a pool of one to
  two connections grows and is exhausted; the bound on crashes is for liveness, as
  a program killed for ever never comes back.
* `ClusterScaling`: two base workers and a third, which an add brings or a bootstrap
  forgets; three shards divide unevenly over two workers; two failures let a repeated
  script fail again. More than one worker to add shows nothing new to one script, and the
  proofs are for any number. The add's rebalance is switched on, so that its step is
  reached both by an add and by `rebalance_citus.sh`; with it off the add skips the step.
* `LogicalBackup`: two runs are what it takes to mix files; two failures are what it
  takes to make a mixed directory verify (a `sha256sum` cut short, then a second run
  cut short), which `VerifiedIsOneBackup` states.

Symmetry is used for calls, principals, bodies, requests, subjects, processes and users, in
runs without liveness properties only (a refinement without fairness is a property of steps).

Fairness:

* `CreateOrder!Fairness`: weak fairness of each call's next step (the event loop
  runs every ready task, the pool serves waiters in order, a lock that is free is
  granted) and of the server's (a COMMIT that was sent ends, a dead connection is
  noticed). No client is obliged to call; no failure is obliged to happen.
* `ServiceLifecycle!Fairness`: weak fairness of what a program has begun (its start,
  sleep, reconnection, the queries of a probe in hand), of the loops of the producer
  and the monitor, and of Docker's restart. No request has to come, no crash has to
  happen, and the database owes nothing: `ComesBack` and `ReadyFollows` assume of it
  that it stays up, or down, from some moment on.
* `ClusterScaling!FairSpec`: a running script goes on (weak), the plan of a rebalance
  has finitely many moves (weak, of its end), and an operator whose bootstrap failed runs
  it again, in the end for all the workers there are (strong, of `StartCoveringInit`, as
  other scripts may come between). That the operator covers all workers is assumed here
  only, for liveness: every other property meets bootstraps for any count. Failures are
  bounded, as without a bound nothing ever succeeds.

Deadlock is checked everywhere; the ends of a behaviour are explicit
(`Quiescent`, `Over`, `Exited`), and an operator can always start another script.

## 4. Proofs

Eight modules hold proofs. Each, but for the pure `OrderBodyProofs`, has an inductive invariant `IInv`, a lemma per action
that keeps it, `THEOREM Invariance == Spec => []IInv`, and a theorem for each property
that follows. They assume what the modules declare of their constants. What only
says of the variables what they may be (`TypeOK`, `CallDiscipline`, `PageBounded`,
`OrderIsFound`, `NeverShrinks`) is proved for all instances and no run repeats it.

`CreateOrderProofs`, for every set of calls, principals, keys and bodies, every pool
size and every combination of failures: `TypeCorrect`, `NoConnectionLeaks`
(`ConnectionsReturned`), `RetriesAreSafe` (`OneOrderPerKey`), `KeysAndOrdersAgree`
(`KeyBoundToItsOrder`), `AnswersAreTrue` (`AcknowledgedIsCommitted`), `RefusalsAreTrue`
(`ConflictIsTruthful`), `WritersExcludeEachOther` (`OneWriterPerKey`),
`CallsAreDisciplined` (`CallDiscipline`), `KeyRowsNeverChange` (`KeyRowsImmutable`) and
`Refinement`: `Spec` implements `IdempotentOrders!Spec`.

`OneOrderPerKey` is not inductive: that a second order cannot be committed under a key
depends on who may write the key row. `IInv` therefore adds

* `CallDiscipline`: the statement a call is at determines the state of its
  transaction and its writes, and a transaction that was sent has all of them;
* `OneWriterPerKey`: at most one live transaction has written a key row, and none
  while a row is committed, which is what the primary key and its lock give;
* `KeyBoundToItsOrder`, from which `OneOrderPerKey` follows: the key row names one
  order, and every keyed order is named by its key row.

Steps that take no lock share `NoNewWriter`, steps that answer nobody `NoNewAnswer`. A
commit is the abstract `Commit`, answers are the abstract `Answer`, all else is a
stutter.

`RateLimiterProofs`, for all requests, subjects and processes, every limit and window,
and every skew and delay that the slack covers: `QuotaHolds` (`QuotaPerWindow`),
`LimitsAreDeserved` (`LimitedIsEarned`), `ProductionFailsClosed` (`FailsClosed`),
`ImmortalKeysAreOwed` (`ImmortalOnlyByFailure`). The argument: an INCR comes before its
key expires (`InTime` and `Lasting`, which is where `SlackAssumption` is needed), so the
requests of a window get different numbers (`Numbered`); those admitted have numbers in
`1 .. Limit` (`Decided`), so there are at most `Limit` of them; and a number is not
larger than the requests that have had their INCR (`Earned`), so who is limited follows
`Limit` others. `CounterStep` is the step that the INCR and the EXPIRE share, done,
failed or half done. What an EXPIRE from a request that created the key can meet is
settled by `CreatorFindsKey`: the key is still there.

For the memory, `MemoryQuotaHolds` (`MemoryQuota`) and `TypeCorrect` (`TypeOK`: no deque is
longer than `Limit`). A deque holds times, the quota counts requests, so the invariant
`MInv` relates them: `Remembers` says that a deque is in order and lists the times of
different requests admitted by memory (an injection, `Lists`), among them all that are
younger than the window unless the process crashed. `StaleIsPrefix` and `FreshIsRest` say
what the loop pops: in an ordered deque exactly what is too old. So a deque with room
(`Room`) means a span with room, and `MemoryQuota` itself is part of the invariant for the
spans that ended before. A crash empties the deque and puts the process in `crashed`.

`Refinement`: `Spec` implements `RateQuota!Spec` (`KeepsQuota`). An admission by Redis
has room by `QuotaKept` of the state after it (`AdmissionIsPromised`), a 429 is earned by
the number it got (`LimitIsPromised`), the memory counts what `RateQuota!Recent` counts
(`MemoryIsPromised`), and every other step keeps what a caller sees.

`OrderBodyProofs`, for every number of places, scale and limit: `StoredAsSent` (an
accepted amount needs no rounding), `HashNamesRow` (equal hashes exactly for equal rows
with as many digits), `AcceptedIsStorable` (what is accepted satisfies the types and
CHECKs of the table, but for three named gaps). They need that powers of ten multiply
(`TenToAdds`), which is an induction. The library's theorems on induction take a predicate
as a parameter, so `Induction` is stated for sets of numbers and derived from the
well-foundedness of finite sets under inclusion, and `TenToDefined` shows by it that the recursive
function exists.

`AccessControlProofs`, for all settings and requests of `AllSettings` and `AllRequests`:
`OnlyTheEntitled` (`OnlyEntitled`), `TheEntitledAreServed` (`EntitledServed`),
`ProductionIsGuarded` (`ProductionPosture`), `AnswersAreCounted` (`Accounted`). `IInv`
says at each stage what the earlier ones have established: the process was started with
valid settings, nothing of an earlier request is left (`Fresh`), the principal is that
of the credential in force (`Authenticated`), the tenant was compared
(`TenantChecked`), the limiter was asked (`Limited`). `TypeCorrect` follows from it: no
principal has a tenant that `int()` refused. Of bodies, `RepositoryGetsStorable` (`TableAccepts`),
`AmountsAreStored` (`AmountsExact`) and `HashesNameRows` (`HashNamesTheRow`) combine the
theorems of `OrderBodyProofs` with the invariant `BodyInv`: a request that is past
validation has a body it accepted, and a 200 is of the repository or of `/metrics` (`Judged`).

`OrderListingProofs`, for all calls, users, limits, clocks and sizes of the fields of an
id: `TypeCorrect`, `PagesAreBounded` (`PageBounded`), `AcknowledgedOrdersAreListed`
(`AcknowledgedIsListed`), `OrdersAreFound` (`OrderIsFound`), `PagesForgetNothing`
(`LeavesForNewer`), `LateRowsHadBegun` (`LateRowsBeganEarlier`), `IdsFollowCreation`
(`IdsFollowTime`). The last rests on `UuidsFollowTheClock`, a fact about `NewUuid`:
of two ids, the one of the earlier millisecond is the smaller, whatever the random
parts; it needs `ClockAssumption`, that the 48 bits do not wrap. That pages forget
nothing needs the invariant that a row read from a shard stays committed, and that what
was acknowledged before the query began is read with its shard.

`ServiceLifecycleProofs`: `TypeCorrect`, `ConnectionsDoNotPileUp`
(`ConnectionsBounded`), for every number of attempts, pool size and number of crashes.

`ClusterScalingProofs`, for any number of workers, shards and failures and either
setting of the flags: `OnlyNarrowLocksOut` (`OnlyNarrowBootstrapLocksOut`),
`CoveringRestores` (`CoveringBootstrapRestores`), `AllRegisteredFirst`
(`RegisteredBeforeMigration`), `NothingShrinks` (`NeverShrinks`) and `TypeCorrect`. Nothing
is assumed of the operator. `Places` says where in its list a script is when it is at a
step; `RegisteredSoFar` that the loop over registrations has registered the workers behind
it; `HoldersRun` that shards are on registered workers and those run, so that only a
password can be missing; `PasswordsOfBootstrap` that a bootstrap past its third step, and
one that reached its end, has left the passwords of just the workers it was given.

`LogicalBackupProofs`, for any number of backups and failed commands: `TypeCorrect`,
`AcceptedDumpsAreWhole` (`VerifiedDumpIsWhole`), `VerifiedAreOneBackup`
(`VerifiedIsOneBackup`), `WholeBeforeDrop` (`DataTradedForWhole`), `DrillsCleanUp`
(`DrillCleansUp`), and, with an absolute `BACKUP_DIR`, `CompleteIsAccepted`
(`CompleteVerifies`). `Written` says which files a backup has finished at each of its
steps, `SumsSound` that a list of sums is of whole files of one run, in order, and
complete unless its `sha256sum` runs or failed, `Verdicts` that a verdict is of the files
as they are.

Model-checked only: liveness, which rests on fairness and `ENABLED` and is outside what the
prover handles: `EveryCallEnds`, `TransactionsEnd`, `StartEnds`, `ComesBack`,
`ReadyFollows` and `BootstrapSucceeds`.

## 5. Where the code and its documents part

* `create_order_replay`: `README.md:370` promises the stored response for a repeated
  body. asyncpg returns `jsonb` as text, `dict(text)` raises, the answer is 500.
* `create_order_conflict`: `README.md:371` promises 409 for another body. A call that
  loses the race for the key queries its failed transaction and answers 500.
* `cluster_backup`: `docs/runbooks/backup-restore.md:29` says the backup covers
  every worker; the bootstrap does not write its count to `.env`.
* `backup_default`: `docs/runbooks/backup-restore.md:6-9` verifies and drills a new
  backup; `SHA256SUMS` names its files relative to the repository and
  `verify_backup.sh:11` looks them up inside the directory, so with the default
  `BACKUP_ROOT` every backup is refused, and with it its drill and its restore.

Other things met while modelling, which no document or test of the repository
contradicts:

* `AUTH_MODE=disabled` with `ENFORCE_TENANT_AUTH` (a development setting) answers every
  tenant's route 401, as there is no principal; `AccessControl` has it.
* A refused JWT is a 401 that `auth_failures_total` does not count, and
  `db_errors_total` is never incremented; `Accounted` says what is counted.
* `MAX_ORDER_AMOUNT` over 1000000, a `user_id` over `bigint`, NaN or `\u0000` in the
  payload are accepted by the writer and refused by the table, as a 500: the gaps that
  `TableAccepts` names. A redis limiter without `REDIS_URL`, which `validate()` asks for
  in production only, is a 500 for every authenticated request.
* A negative amount, an amount over `MAX_ORDER_AMOUNT` and a payload that is too large are
  500s and not the 422 that `api.py:48-58` is written for, as the report of the refusal
  (from `writer_service/main.py:26`, `33-34`, `40-41`) is no JSON. An `x-api-key` that is
  not ASCII is a 500 and not a 401 (`security.py:118`). Both leave by the except path of
  the middleware, which `Accounted` covers.
* `/ready` is 200 whatever it says. The session timeouts that `db.py` sets are lost to
  asyncpg's reset and to transaction pooling, so no property relies on them; nor does
  one rely on the monitor's read, which has no timeout.
* `idempotency_retention_days` is read by nothing, and `_RATE_WINDOWS` never shrinks.

Disagreements with a document that no run shows, because they are read off one line or
are between the documents themselves:

* An add rebalances only with `REBALANCE_AFTER_ADD=true` (`add_citus_worker.sh:82`, default
  false). `README.md:164-177` lists the rebalance as a step of the add,
  `docs/MIGRATE_TO_SHARD3.md:27-30` says it happens unless it is switched off, and
  `docs/PRODUCTION_CHECKLIST.md:11` calls the script "worker add + rebalance".
  `README.md:404` and `docs/PRODUCTION_CHECKLIST.md:78` say what the code does.
* `README.md:386-389`: "Production must use Redis or gateway-based rate limiting", with
  `RATE_LIMIT_ENABLED=true`. `settings.py:130-133` look at the backend only if the limiter
  is enabled, so a production process starts with `RATE_LIMIT_ENABLED=false` and admits
  everybody uncounted. `ProductionPosture` therefore promises a count only where the
  limiter is on and its backend is Redis.
* `docs/PRODUCTION_CHECKLIST.md:7` calls `init_citus_cluster.sh` the single bootstrap
  command; run without its argument, or with a smaller one, on a cluster that has grown, it
  locks the coordinator out of the other workers (section 2, `ClusterScaling`).

## 6. Not modelled, and the plan

Every safety property and every refinement that a passing run checks is proved. To prove
next: that `OrderListing` and `ServiceLifecycle` implement abstract specifications that
have yet to be stated, and which safety facts of the runbooks' liveness can be had
without fairness.

To model next: `verify_backup.sh` and `restore_pitr.sh` on the physical backup, as far as
their outcome is decided by the scripts and not by pgBackRest; the handler of a request
as one composition of `RateLimiter` and `CreateOrder`, which today meet only through what
`AccessControl` allows of them.

Left out for good: logs, latencies and gauges (never read by the program), nginx,
Prometheus, PgBouncer's own configuration, TLS and secrets (declarative or one-off
I/O), the SQL of roles and grants, CI.
