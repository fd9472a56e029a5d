# neon-rs: a TLA+ verification project

neon-rs is a workspace of Rust crates for services: logging to Aliyun SLS, configuration
from Nacos, a lock and cache helpers on Redis, SQL pools, cryptography and small helpers.
Six of its parts have state that several actors change at once, and they are the core of
this project: the **SLS sink**, its **credentials refresh**, the **SLS tracing layer** over
it, the **Nacos hot reload**, the **Redis lock** and the **cache helpers** on Redis. The
**SQL helpers**, and three parts without state of their own, reading a **remote ZIP**, the
**block ciphers** and the checks of a **Nacos source**, are modelled beside them. All paths
below are under `src/crates/`.

## The system

| Component | State it keeps | Operations | What is hard |
|---|---|---|---|
| SLS queue (`neon-log/src/sls/sink.rs`, `SinkQueue`, `ActiveEnqueue`, `SlsSink::enqueue`) | lock-free ring, `closed`, `active_enqueues`, tokio `Notify`, drop counters | `enqueue` on any thread, `recv` and `close` on the worker | two atomics in a Dekker pattern, lost wake-ups, counters read after `close` |
| SLS worker (`run_sink`, `run_pipeline`, `Pipeline`) | current batch and its bytes, a deferred record, semaphore, `JoinSet`, `pending_records` | receive, flush by count, bytes or timer, drain, tail flush, abort | back-pressure inside `select!`, a flush deferred by the shutdown, the deadline |
| SLS send task (`send_with_retry`, `await_put_logs`, `sleep_backoff`) | attempt, own deadline, permit | encode, PutLogs, backoff | a shutdown that reaches each task at another moment, abort against reply |
| SLS guard (`SlsGuard`) | handles of the sinks | broadcast shutdown, wait under one deadline, report | stuck workers, idempotence |
| SLS credentials (`refresh_delay_for`, `spawn_credentials_refresh_loop`) | client slot, delay | ask the provider, swap the client, sleep | urgent window against retry interval, a provider that hangs, two clocks |
| SLS layer (`layer.rs`) | routing table, span fields | `on_event`, `on_record`, `on_close` | routing, re-entrancy, unique field names |
| Nacos configuration (`neon-config/src/nacos/config.rs`) | `entries`, `pending_updates`, `Notify`, watch channels, listeners, worker handle | build, `notify` on SDK threads, reload worker, `shutdown`, `Drop` | batching, rollback, abort anywhere, partly registered listeners |
| Nacos source (`NacosSource::validate`, `build_remote`, `nacos/format.rs`) | none | validate, hand to the SDK, resolve a format | three places that read the same optional fields |
| Redis lock (`neon-redis/src/redlock.rs`) | token and `prevent` per object; the key in Redis | `acquire`, `try_acquire`, `release`, `prevent`, `Drop` | lost and late commands, expiry, cancellation |
| Cache helpers (`neon-redis/src/redkit.rs`) | none; a key or hash in Redis | `get_or_set`, `hget_or_set`, batch reads | concurrent misses, TTL of a hash, nils among many answers |
| Remote ZIP (`neon-helper/src/httpzip.rs`) | size and entries of an opened archive | `RemoteArchive::open`, `ArchiveEntry::open`: up to seven HTTP requests | servers that ignore ranges, fields that do not fit 32 bits, where the tail begins |
| SQL helpers (`neon-sql/src/mysql.rs`, `pgsql.rs`, `sqlite.rs`) | none; the tables | insert, update, delete, count, find, paginate | conflicts against lost connections, two statements in `paginate`, page arithmetic |
| Ciphers (`neon-crypto/src/lib.rs`, `aes.rs`, `des.rs`) | none | encrypt and decrypt in CBC, ECB and GCM, PKCS#7 | padding sizes, the branch-free check, sizes of nonce and tag |
| Redis clients, SQL pools, other crypto, other helpers, macros, core | none, or a pool of another crate | thin calls, pure functions, generated code | boundaries of pure functions |

The application's threads call `SlsSink::enqueue`; the ring and the `Notify` connect them to
the worker, one OS thread with a single-threaded tokio runtime; the worker spawns send tasks
on the same runtime, bounded by `max_inflight` permits; the guard sends a shutdown over a
watch channel, which the worker *and* every send task listen to. In the configuration the
SDK's threads call `notify`, the mutex of `pending_updates` and the `Notify` connect them to
one reload worker, and watch channels connect that to readers. Lock objects share nothing but
the key in Redis, callers of the cache helpers nothing but the keys and the source they load
from, clients of the SQL helpers nothing but the table.

What makes each part correct:

* queue: nothing enters after `close` has returned, no queued record sleeps, counts are exact
  when they are read;
* worker and tasks: every accepted record is delivered or counted under exactly one cause,
  in every order of flush, deferral, drain, deadline and abort; the shutdown ends;
* credentials: no request is signed with expired credentials while the provider does its part;
* lock: one holder while a lease lasts, no key left behind without a failed command;
* cache: what is stored with a TTL is gone, or what the source has, when that time has passed;
  an answer for many keys gives each key its own value;
* configuration: a source that is accepted can be used; readers see whole configurations
  that parse, never older ones; an update is applied or rolled back, never forgotten;
  nothing changes after `shutdown`;
* layer and guard: each record holds the fields of its own event under unique keys, every
  event reaches its sink, and dropping the guard stops every worker under one deadline with
  a report that misses nothing;
* remote ZIP: the entry that is read is the entry of the archive, or an error;
* SQL: an insert is told what became of its own row; counts and pages are those of the rows;
* ciphers: decryption accepts exactly what encryption makes.

## Modules

| Module | Models | Proofs |
|---|---|---|
| `ClosableQueue` | the contract of the queue: one atomic step per enqueue | |
| `SinkQueue` | the queue of atomics, one action per shared access; implements `ClosableQueue` | `SinkQueueProofs` |
| `SlsSink` | worker, send tasks, shutdown; EXTENDS `ClosableQueue` | `SlsSinkProofs` |
| `RedLock` | lock objects, Redis and the network | `RedisProofs` |
| `Redkit` | misses of the cache helpers, batch reads, a string key or hash in Redis | `RedisProofs` |
| `NacosReload` | a remote configuration from build to shutdown or drop | `NacosReloadProofs` |
| `NacosSource` | which sources are accepted, what the SDK gets, formats; as operators | `HelpersProofs` |
| `SlsCredentials` | the credentials of a sink and the task that renews them | `TracingProofs` |
| `SlsLayer` | build of several sinks, routing, workers that may fail, the guard | `TracingProofs` |
| `SlsEvent` | events and spans of several threads, turned into records | `SlsEventProofs` |
| `HttpZip` | the requests that read one entry of a remote archive | `HelpersProofs` |
| `Sql` | the statements and answers of the SQL helpers on one table | `HelpersProofs` |
| `Ciphers` | padding, block modes and GCM, as operators | `HelpersProofs` |
| `MCSinkQueue`, `MCSlsSink`, `MCNacosReload` | constants and symmetry of one module | |
| `MCTracing` | `SlsLayer`, `SlsEvent` and `SlsCredentials` in one run | `TracingProofs` |
| `MCRedis` | `RedLock` and `Redkit` in one run | |
| `MCHelpers` | `HttpZip`, `Ciphers`, `NacosSource` and `Sql` in one run | `HelpersProofs` |
| `InductionLemmas` | nothing of the code: induction, recursion and folds, for the proofs | |

Components that share no state are checked in one run: a variable `part` is chosen at the
start and only that component moves. That loses no behaviour of any of them, as none reads
another's variables, and it is why the variables and specifications of some modules have
names of their own (`EventInit`, `CredNext`, `cacheVars`).

An operator named as the "Mutant of" another, defined just before it, is that operator with
a plausible bug; the runs are known to fail when it takes the other's place, so that each
property says something of the code.

### SinkQueue and ClosableQueue

Each record is one call of `enqueue`, and `call[r]` is the point the call has reached:
`CheckClosed`, `Register` and `Recheck` are the load, the `fetch_add` and the second load of
`ActiveEnqueue::enter`; `PushFree`, `PushRejected` and `PushEvicting` are `push` and
`force_push` of the ring (atomic in crossbeam); then `CountFull`, `Wake` (`notify_one`) and
`Unregister` (`Drop`). The worker's `recv` is in `recv[...]`: `Pop`, `PopEmpty`,
`PollNotified`, `Resume`; `CancelRecv` is another branch of `select!` winning, which gives a
notification back. `CloseBegin` and `CloseReturn` are the store and the spin of `close`.
Memory accesses are sequentially consistent, which is what the code asks for at the two
places where the order matters (`SeqCst`). `recv` never finds `closed` set, because only the
worker closes, after its last `recv`; these branches are therefore absent.

The refinement maps `recv = "drain"` to *closed*, the flag to *closing*, and the history
variable `fate` to the fate of each record. A refusal is mapped to the step that reads the
flag, a drop to the push.

### SlsSink

The worker's runtime has one thread, so an action is what runs between two awaits.
`worker` is the await (or the section between awaits) at which `run_pipeline` stands:
"select" is the main loop; "flush" the wait for a permit in `spawn_flush`; "spin" is
`close`; "deferred", "drain", "tailflush" and "wait" are the parts of the shutdown. `hand`
is the record popped but not pushed yet: the argument of `push_or_drop`, and
`deferred_record`. `task[s]` is the send task that holds permit `s`. Time is abstracted:
`late` says that the worker's deadline has passed and is raised by a step of its own; a task
that heard the shutdown by itself has a deadline of its own ("own", then "past"). Durations
of backoffs and of the flush timer are not modelled: the timer may fire at any time. A
retry, a refusal listed in `no_retry_status`, an encoding panic and a hanging request are
nondeterministic. `SpawnFlush` may take a permit that is free although `late` has just been
raised, as `tokio::time::timeout` polls the permit first.

### SlsCredentials

`interval` is `credentials_refresh_interval` as normalized, `expiry` the time until the
credentials of the client in the slot expire. The loop is asleep ("sleep", for `wait`), in
`spawn_blocking` with the provider ("provide", for `running` so far), or has ended ("off").
`CallProvider`, `Renew` and `RenewFails` are one round of `spawn_credentials_refresh_loop`;
an error, a panic and a failure to build a client are one step, as the code treats them
alike. `RefreshDelay` is `refresh_delay_for`. `Pass` lets a unit of time pass for the sleep
and for the expiry; a provider may be late without bound, which `running` records up to one
more than `Latency`. `Jump` brings the expiry closer and leaves the sleep alone: the code
sleeps on the monotonic clock for a time it read off the wall clock. `healthy` is the time
since the provider last failed, hung or granted credentials too short to be renewed before
they expire, and `skewed` says that the clock has jumped since the last success: the
property excepts `Recovery`, the least interval and one call, and a skewed clock.

### RedLock

A client reads an answer in the step in which Redis gives it, as what it does with the answer
is local. A command may fail for the client before or after it is executed (`SetFails`,
`LateSet`, `LoseSet`, `LoseDel`), the future of `acquire` may be dropped (`GiveUp`), and the
key may expire at any time (`Expire`). `expired` and `abandoned` are history variables.
The sync `RedLock` and the `AsyncRedLock` share the module: the sync one releases in `Drop`
with a pooled connection, which may be missing, the async one by a task, which needs a
runtime; both can fail to send, and that is one disjunct of `Discard`.

### Redkit

A place is a string key or a field; all fields are in one hash, which has one TTL
(`Home`). Time goes in seconds, as Redis is given them. A call begins with `Miss`, as a
call that finds a value ends there; `Load` and `LoaderFails`, then `Store` and `StoreFails`
follow, in any order with the calls of others. A store that fails for the caller may still
be executed, late: it then is a `Store` at that time. `StoreField` is the Lua script of the
hash, one step of Redis, with its `TTL` and `EXPIRE`. Outside are a source that changes, an
application that deletes, another program that stores what it likes (`Spoil`, whose content
may not parse), and `Second`. `timed` is history: what a place holds was stored with a ttl.
`quiet` counts the seconds since the source last changed or an older value was stored.
`ReadMany` and `ReadHash` are MGET, HMGET and HGETALL with the pairing of keys and values,
and are looked at in the next step. A `ttl` of less than a second is 0 after `as_secs`, and a
miss of one in a hash deletes the hash.

### NacosReload

A content is a revision and how it parses. `Notify` and `NotifyOne` are the two halves of
`notify` on an SDK thread; `Wake`, `TakePending`, `Apply` and `PublishChannel` are
`run_reload_worker` and `apply_batch` split at what readers can see: the snapshot first, then
the channel of one data-id after the other, `todo` being those to come and `First` the one
that is next in merge order. `life` follows the
application: load, register, active, then "remove" and "join" in `shutdown` (or "cleanup" and
"join" when a registration fails), "dropped" for `Drop` without shutdown, "cancelled" for a
build whose future is dropped. The SDK and the server are external: the SDK calls a
listener with what is published at that moment, of one data-id once at a time, and after
`add_listener` it compares either with what was loaded or with what is published by then.
Whether a merge fails depends on whether each content parses.

### NacosSource

An optional string is "none", "blank" or "set", which is all that `validate` and
`build_remote` ask of it. `Validate` has the checks in the order of the code; `ClientProps`
and `Plugins` are what `build_remote` hands to the SDK, `ResolveFormat` and `NotifyFormat` the
two ways a format is found, at load and at a push. `Usable` states separately, without an
order, what a source must have; `SourceIsUsable` compares the two and asks that the SDK gets
credentials for the plugin it is given.

### SlsLayer

`build` and `guard` follow `SlsLayerBuilder::build` and `shutdown_inner`; `SpawnFails` is the
error path of `build`, which drops a guard over the sinks that already run. `Tell`,
`HearDone`, `Join`, `GiveUp` and `Report` are the three loops of `shutdown_inner`, one
iteration a step, `at` the sink a loop has reached. `expired` says that the common deadline
(the longest `shutdown_timeout` and 250 ms) has passed. A worker is abstract here: it is what
`SlsSink` shows of `run_sink`, so that `Settle` gives any accepted event its outcome, "lost"
stands for every drop cause but `queue_full` and `worker_closed`, and `Finish` needs all of
them settled. What `SlsSink` does not have is added: a worker may panic (`Panic`, in
`DoneOnDrop`), hang (no fairness), or never get a runtime (`RuntimeFails`). `Overflow` may
evict any accepted event, as the policy of a sink and what is still in its ring are not
told apart here.

### SlsEvent

A thread has a `stack` of calls into the layer, because formatting a value with `Debug` runs
code of the application that may log, or open and record spans, again; a field of kind
"loud" may do so. `VisitField` formats one field, `PushHeader`, `PushSpan` and `Enqueue` are
the parts of `dispatch_event`. `tls` is the buffer of `EVENT_BUFFERS`, which an event on the
same thread that finds it borrowed replaces by one of its own (`slot`). `writer` is the lock
on the extensions of a span, which `on_record` holds while it visits. A value is known by
the call that formatted it, so that a value in the wrong record shows. `Unique` is the rule of
`push_unique_field_prepared`; `KeyOf` gives the sanitized key of a name, the only thing the
properties tell of it. The level stands for the four keys every event has.

### HttpZip

One action for each HTTP request, `pc` naming the next one. The server may answer 206, 200
with the whole archive, or fail; `HEAD` may lack a length. The archive is laid out by
operators for the ZIP format (external): sizes and places of records are those of the format
(30, 46, 56, 20 and 22 bytes and the variable parts), and a record is found where it begins
rather than spelled in bytes. What is read is read from the bytes of the answer: `First` says
where in the archive these begin, and the tail, the ZIP64 record, the directory, the local
header and the data are looked for from there. So `EntryIsRead` fails if a 200 is taken for a
range in the middle (`FetchedAnyStart`). `Sentinel` (`ZIP64_SENTINEL`) and `TailLimit`
(`TAIL_SEARCH_LIMIT`) are scaled down. Archives are well-formed, do not change between
requests, and hold no signature of the end record in a comment.

### Sql

One table with one unique column, whose database executes a statement as a whole. An insert
may meet a conflict, and a connection may fail before the statement or after it. An answer is
`lost` also when the statement was executed but a row of it does not decode, which the helpers
answer with the same error.
`TraceInsertResult` is `trace_insert_result`; `backend` is the feature of the build: for
PostgreSQL `RETURNING` names the row, MySQL and SQLite answer the last id. `Paginate`
is the `COUNT` and `FetchPage` the page, and others write in between. A `SELECT` may come with
a `LIMIT` and an `OFFSET`, which `count` and `paginate` clear. `PageStart` saturates at
`MaxUint`, `u64::MAX` scaled down; but only MySQL takes it: sea-query-sqlx, which is not part of
the repository, binds a `LIMIT` or `OFFSET` for PostgreSQL and SQLite as a signed 64-bit value
and fails or panics above `MaxInt`, `i64::MAX` (`Binds`). Both are the answer "err" here.
`made` remembers which call made each row, `quiet` that nobody wrote since the call began. A
statement that tolerates conflicts is `Tolerated`.

### Ciphers

Under one key and IV a mode permutes the buffers of whole blocks; a ciphertext is therefore
named by the buffer it is the image of, and what is left are the checks, their errors and the
padding. `LibPad` and `LibUnpad` are the padding of the cipher crate (external), declared by
the buffers it makes. `Inverts` says that decryption accepts exactly what encryption makes.
In GCM a key or a nonce is its length and which one it is, and a sealed text names the key, the
nonce, the aad and the tag size it was sealed with (`Unseal` opens nothing else, which is what
the cipher crate promises); `ResolveGcmSizes` and `GcmSizesOK` are `resolve_gcm_sizes`, and
`GcmKeyType`, `GcmNonceType` and `GcmTagType` the three tables that choose a type by a length, row
by row. `GcmInverts` compares calls in pairs, with sizes that it states itself.

## Runs

| Run | Bounds | Shows |
|---|---|---|
| `queue_oldest` | 4 calls, room for 2, DropOldest | `NobodyInsideAfterClose`, `FullCountSettled`, the refinement |
| `queue_newest` | 3 calls, room for 1, DropNewest, fair | `NoLostWakeup`, `CloseTerminates`, `QueuedIsServed` |
| `sink` | 4 records of sizes 1 and 3, room for 1, DropOldest, two permits, batches of 2 records or 5 bytes, one retry | every safety property of the pipeline |
| `sink_live` | 3 records of sizes 1, 3, 5, one permit, DropNewest, fair | `ShutdownCompletes` with a server that may hang; `AcceptedIsSettled` with one that answers |
| `sink_overfull` | 5 records, batches of 2 | finding 1 |
| `tracing` | layer: 2 sinks that share a level, 2 events, room for 1, fair; events: 2 threads, 2 spans of one name, 3 calls, fair; credentials: Urgent 1, least interval 4, Ahead 3, latency 2, intervals 4 (1 normalized), 6 and none, lifetimes from -1 to 9 and none, jumps of 3 | `AbandonedOnlyLate`, `ReportIsComplete`, `ShutdownReturns`; `RecordIsOwn`, `EventsAreEnqueued`; `ClientIsFresh`; the types of all three |
| `credentials_pace` | Ahead 5, lifetimes of 3, least interval 4 | finding 3 |
| `redis` | lock: 2 objects, 3 tokens, 2 attempts; cache: 2 callers, one key, a hash of two fields, one value, TTLs up to 2 s | `HolderOwnsKey`, `MutualExclusion`, `NoKeyLeftBehind`; `StaleGoes`, `MapsAreOwn` |
| `redlock_reacquire` | 2 objects, 3 tokens | finding 2 |
| `nacos` | 2 data-ids, 2 revisions after the first, fair | every property of the configuration |
| `nacos_batch` | 2 data-ids, 3 revisions | finding 4 |
| `helpers` | archives of up to 2 files, 5 comment lengths, sentinel 100, tail of 66; buffers of up to 4 bytes, blocks of 2 and 3, GCM sizes from 11 to 17 and 0, keys of 16, 24, 32 and no bytes, two keys, nonces and aads; sources in all ways to authenticate and with one other fault; 2 clients of each of three backends, 3 names, 3 calls, pages 0, 2 and 9 of sizes 0, 1, 4 and 8, `MaxUint` 15 | `EntryIsRead`; `DecryptIsInverse`; `AcceptedIsUsable`; `InsertIsTold`, `ReadsAreExact` |

Why the bounds are enough. *Queue*: the interesting interleavings are of two calls with
`close`; four calls add a full ring with calls that evict and are refused meanwhile. *Sink*:
one record beyond the limits of a batch is in hand while a batch waits for the only permit
and another record is in the ring, which takes four, and two permits let a later group end
before an earlier one; sizes 1, 3 and 5 of 5 bytes (with 1 of overhead) give a record that
fits, one that does not fit with another, and (in `sink_live`) one that never fits. *Layer*:
one worker hangs or panics while another ends; two events meet one full or closed queue.
*Events*: three calls nest twice on one thread, or put an event between the calls of another
thread; the names collide after sanitizing, with a suffix, and with a key of the layer.
*Credentials*: lifetimes below zero, in the window, at its end and beyond it, against an
interval that is set or not; time is not bounded, as all counters saturate where nothing
tells larger values apart. *Lock*: two objects and three tokens let an object be overtaken,
come back, and meet its own late command. *Cache*: two callers are overtaken between load and
store; two fields of one hash have one TTL, and a TTL of 0, 1 or 2 seconds, or none, meets a
TTL that is there; one value and its absence are the source's two states. *Configuration*: two
data-ids give batches of one and of two contents, and two changes of each a bad content and
its correction. *Helpers*: sizes and places at, below and above the sentinel; the comment
lengths put the end record, and its locator, just inside and just outside the tail; buffers
hold every padding byte from 0 to beyond a block, and padding sizes reach a block, two
blocks, none and 256; sizes of GCM are zero, every row of the tables and just outside.
*SQL*: three calls are an insert, a conflicting one and a page whose `COUNT` came before; the
places of the pages are the first, others below `MaxInt`, above it, and past `MaxUint`, where
the product saturates (and wraps to 0 in the mutant).
`Capacity`, `MaxBatch`, `MaxRetries`, `MaxTtl`, `MaxTokens`, `MaxAttempts`, `MaxRevision` and
`MaxCalls` are the only bounds; the last four only bound how long a behaviour goes on.

Deadlock is checked in every run: `Finished` is the one step that may repeat, where all work
is done. Of the type invariants, which are proved, `PartsTypeOK` is also run.

### Fairness

* queue: a thread inside `enqueue` and the worker inside `recv` or `close` keep running.
  Nobody is obliged to log, and no timer or shutdown has to come.
* sink: tokio polls the worker and ready tasks, and time passes (`DeadlinePasses`,
  `TaskDeadlinePasses`). No reply of the server is assumed; `AcceptedIsSettled` states the
  fairness of replies as its hypothesis, which `request_timeout` justifies (normalized to at
  least 1 ms).
* layer: the thread that drops the guard runs, its deadline passes, and a thread that has
  nothing left but to return does. A worker may hang at any other point.
* events: a thread inside the layer goes on when it can, so that `Debug` of a value ends.
* configuration: the runtime polls the worker and the future of `shutdown`, `notify`
  returns, and the SDK answers `remove_listener`; the code puts no timeout on that call, and
  without the assumption `shutdown` may hang.
* credentials, lock, cache and helpers: none; their properties are about safety. That a
  `sleep` wakes when it is due is a guard of time's step `Pass`.

## Findings

1. `BatchSizeIsMaximum` (`sink.rs:94`, the maximum number of records of a batch) fails: a
   full batch whose flush was deferred by the shutdown gets one more record from
   `drain_into_buf`, which appends before it tests `ready`. The true bound, one more than
   `max_batch_size`, is part of `GroupsWithinLimits`.
2. `AcquireReturnsLiveLock` (`redlock.rs:5`) fails: `acquire` on an object that already has a
   token returns `Some` when the `SET` is refused, also if the lease has run out and another
   object holds the key. `MutualExclusion` is stated up to the lease and holds.
3. `RefreshIsPaced` (`sink.rs:308`, a window longer than the credentials live falls back to a
   refresh every 60 s) fails: within the window the credentials are asked for every second.
4. `GoodPushIsApplied` (`nacos/mod.rs:74`) fails: a valid update that shares a batch with an
   invalid one is rolled back with it.

Seen while reading and not the subject of a run: the byte half of `Batch::ready` never
decides (a record is only appended if the total with the overhead stays within the limit);
`hget_or_set` with a TTL below one second passes 0 to `EXPIRE`, which deletes the hash; an
insert that tolerates conflicts answers `Inserted` with the id of an earlier row, or 0, on
MySQL and SQLite, and an error on PostgreSQL; an `access_key` that is set and blank passes
`validate`, but makes `build_remote` enable the Aliyun plugin without credentials; the
comment on `DoneOnDrop` speaks of panics of the worker, after which the queue stays open;
`on_record` holds the extensions of a span while it runs `Debug` of the application, which
waits for its own thread if it logs inside that span (`EventsAreEnqueued` is stated for values
that do not); `paginate` computes the place of a page as a `u64` that saturates at `u64::MAX`,
which PostgreSQL and SQLite cannot be given, so that a page beyond `i64::MAX` is an error or a
panic there and an empty page only on MySQL; `TAIL_SEARCH_LIMIT` is 64 KiB, 22 bytes less than an end record with the longest
comment needs; `padding_size` is documented as any multiple of 16, and 256 and more are
refused.

## Proofs

The theorems hold for every value of the constants under the named assumptions of the
modules, and what they say is what the code ensures: a capacity and batch limits of at least
one (`SlsConfig::normalized`; `SinkQueueAssumption`, `QueueAssumption`, `SinkAssumption`,
`LayerAssumption`), at least one sink, a list of data-ids that is not empty and repeats none
(`MergeOrderAssumption`, from `validate`), natural numbers (`LockAssumption`), keys that are
not fields and values that are told from a nil (`CacheAssumption`), block sizes below 256
(`CipherAssumption`), archives that are lists of files with natural lengths (`ZipAssumption`),
field lists and names of any kind (`EventAssumption`), pages and sizes that fit `MaxUint`, as
does the number of rows (`SqlAssumption`: no table has more than `u64::MAX` of them).
`CredentialsAssumption` asks that the window `Ahead` is longer than a call of the provider;
without that no refresh can be in time. `Literals` says of four string literals that they are
strings, which the provers cannot see, and `BufferAssumption` that a run's buffers hold bytes.

Data of any length is proved about by induction over a *set*: the lemmas that take an operator
cannot be instantiated here, but the set of lengths for which a fact holds can
(`LeastNatural`, `NatSetInduction`). From it `InductionLemmas` has that a function defined by
recursion exists and is unique (`RecursionExists`, `SameSteps`), and the same of a fold
(`FoldExists`, `WeightOfAppend`). So batches, records, tables and archives have
any length in the theorems.

* `SinkQueueProofs`. The inductive invariant relates `active` to the number of calls at a
  registered point and the fate of a record to its call, and carries the Dekker argument:
  a call inside when `closed` is set is counted. `NobodyInsideAfterClose` follows as
  `CloseReturn` needs `active = 0`; `RingOnlyDrains` and `FullCountSettled` follow from it.
  `NoLostWakeup` has an invariant of its own over `permit`. `ImplementsContract` is proved
  step by step: each action is an action of `ClosableQueue` or a stutter.
* `SlsSinkProofs`. `NothingLost` is not inductive: that a record is in one place only, and in
  a place that fits the control point of the worker, is needed. The invariant has parts:
  `ControlInv` (what `worker` says of `phase`, batch and hand), `PlacesInv` (ring, batch,
  hand and the groups are disjoint and without repetition), `OutcomeInv` (a record with an
  outcome was taken) and `LossInv`. `DoneSettlesAll` and `SettledOnce` follow. `LineInv` puts
  the records in the order they were logged: the groups of the tasks, then the batch, the
  record in hand and the ring, whence `DispatchInOrder`; and as a rising sequence repeats
  nothing, its length is the cardinality of its set. So `DropsCount` and `PendingCount` can
  equate each counter with a finite set of records, which is `CountersExact`; records may be
  infinitely many. `NoDropBeforeDeadline` needs `PendingCount` too: the worker adds up
  `pending` when it stops waiting, which is zero when every task has ended by itself.
  `GroupsWithinLimits` has `LimitInv`: the bytes counted for the batch are those of its records
  (`WeightOfAppend`), it is above `MaxBatch`, by one, only when the shutdown has deferred it,
  and no record too large for a group is in hand.
* `TracingProofs`, the guard. `LayerInv` follows the three loops of `shutdown_inner`:
  `LoopsInv` says what the sinks before `at` have behind them (told; not held), `WorkersInv`
  and `EventsInv` that a worker that ended well has closed its queue and settled its events,
  and `ReportInv` that what the last loop has passed is in the report. The loops advance
  because the sinks that run are always the first ones of `Specs` (`BuildInv`), also in a
  build that failed.
* `TracingProofs`, the credentials. While the task sleeps it wakes with more than `Latency`
  left before the expiry (`Asleep`), and while it asks, what is left and what has passed add
  up to more than `Latency` (`Asking`); else the provider failed no longer ago than
  `Recovery`. `PartsTyped` puts the guard, the events and the credentials together.
* `SlsEventProofs`. `FramesInv` says of every call on every stack, suspended or not, what its
  buffer holds (`FrameOK`): the fields visited so far, of this call and no other, or the record
  as far as it is pushed. `OneTls` says that at most one call of a thread has the thread's
  buffer, which is why a nested event cannot write into it; `ExtInv` that the fields of spans
  come from calls about spans and have keys with a prefix. A pushed field takes a key that is
  free (`UniqueIsNew`): among one more suffix than there are keys one is (`SuffixIsFree`).
  `RecordsAreOwn` then compares the record with the fields of the event and of its spans,
  each once and in their order (`RecordIsWhole`).
* `RedisProofs`, the lock. Tokens are unique, and each is with one object, one command or
  spent; the key is a token whose `SET` has left the network. `HolderOwnsKey` is the
  inductive core, `MutualExclusion` follows, and `NoKeyLeftBehind` has its own
  strengthening.
* `RedisProofs`, the cache. What was stored with a ttl is in a key that has one (`Covered`),
  and if it differs from the source, the rest of its TTL and the quiet time are at most
  `MaxTtl` (`Leaving`). Any step of Redis that gives nothing stale more time keeps both
  (`Safe`). `MapsAreOwn` is about pairing keys and answers by position, for lists of any
  length.
* `NacosReloadProofs`. Contents get newer from the channels over the snapshot, the entries,
  the batch and what is pending to the server (`OrderInv`, whence `NeverBack`); the last
  update of a data-id is pending, in the batch, in force or rolled back (`PushInv`, whence
  `PushIsSettled`); listeners are those of the data-ids already gone through
  (`ListenersInv`). `ControlInv` ties the worker to where the application stands, so that
  nothing is published after the abort (`FrozenAfterShutdown`).
* `HelpersProofs`, the ciphers. `PaddingIsUndone` and `UnpaddingIsUndone` rest on the rest of a
  division being unique (`RestOf`) and on what a padded text holds at each place; together
  they make decryption the inverse of encryption in every block mode and size
  (`BlockModesInvert`), also where the cipher crate's own padding comes in. `GcmInvertsAll` goes
  through the sizes and the tables (`TypesOfSizes`); `CallsInvert` states both of the run.
* `HelpersProofs`, the source. `SourcesAreUsable` takes the checks of `validate` in their order
  and finds the order-free `Usable`, for any lists of addresses, data-ids and formats.
* `HelpersProofs`, SQL. `SqlInv` says of every answer, and of a page under way, that what it
  tells is in `made` and `rows` (`Told`, `Exact`, `Waits`); another call adds to `made` and ends
  `quiet`, so that it stays so. `PagesAreExact` needs the arithmetic of a page with and without
  saturation (`PageIs`, `PageBehindEnd`), and that what is not bound is above `MaxInt`.
* `HelpersProofs`, the ZIP. `LocalsDiffer` says that no two entries begin at one place and that
  data ends before the directory, `DirectoryIs` that the parser meets every header and
  no other, `EntryIs` that an entry has the true sizes whichever fields are in the extra
  field, also a size equal to the sentinel. `ZipInv` carries this through the requests,
  with a reason for every failure; a range that is taken begins where it was asked to
  (`FirstIs`); the size of one byte that `Probe` may take for the
  archive's finds no end record (`TailOfOneByte`).

`RingOnlyDrains` and the type invariants of `SinkQueue`, `SlsSink`, `RedLock`, `Redkit` and
`NacosReload` are proved only; no run checks them.

Every safety property that a passing run checks, and the refinement, is thus proved for all
values of the constants that the assumptions admit. Only model-checked are the eight liveness
properties (`CloseTerminates`, `QueuedIsServed`, `ShutdownCompletes`, `AcceptedIsSettled`,
`ShutdownReturns` of the layer and of the configuration, `EventsAreEnqueued`, `PendingIsTaken`):
the prover has neither fairness nor `ENABLED`. The four findings are TLC's counterexamples.

## Not modelled, and the plan

Next, in this order:

1. the arithmetic of `SlsConfig::normalized` with instants near the end of their range
   (`sink.rs:1396`), as operators beside `NacosSource`;
2. that `SlsLayer`'s abstract worker is what `SlsSink` shows of `run_sink`, as a refinement.

Hazards that no property covers, with their reasons in `PROJECT.json`: a batch stored twice
because its reply was lost (`sink.rs:1664`), instants that overflow (`sink.rs:1396`), a change
between the load and the registration of a listener (`config.rs:647`, which depends on the
SDK), a build whose future is dropped (`config.rs:643`, of which the code promises
nothing; `CancelBuild` models it), a value that logs from within `on_record` in its own span
(`layer.rs:184`, a deadlock that the model has and `EventsAreEnqueued` excepts), and a release
that fails and cannot be repeated (`redlock.rs:256`, after which the key stays for its TTL;
`NoKeyLeftBehind` excepts it).

Left out for good: the construction of clients and pools, on Redis and SQL (I/O of other
crates), the wire format of SLS, RSA, the ciphers themselves and the digests (other crates),
reading and parsing a local configuration file, the tree builder, the signature map, units
and time zones (a value made of a value, whose characters are layout), geodesy (floating
point), derive macros (generated code), core traits (declarations), and a crash of the
process, as no component persists anything.
