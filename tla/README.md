# TLA+ models of the short-link service

These modules model the link service of `src/internal`: its resolve path, create path, recycle-bin path, both link repositories and the visit-statistics pipeline.

- **Resolve path:** `GetOriginalUrl` over the Redis anti-penetration cache.
- **Create path:** `CreateLink` and `CreateLinkBatch` with the allocator and the repository.
- **Recycle-bin path:** `UpdateLink`, `SaveToRecycleBin`, `RecoverFromRecycleBin` and `RemoveFromRecycleBin`, against the non-sharded and the sharded repository.
- **Statistics path:** the visit event published by the resolver, delivered by the RocketMQ event bus, and counted by `SaveLinkStats`.

The models are checked with TLC. `PROJECT.json` lists the components, runs, mutants, findings and hazards, and maps every definition to the lines it translates.

## 1. The system

| Part | Source | State | Operations |
|------|--------|-------|------------|
| SafeCache | `base/cache/redis_cache.go`, `bloom_filter.go` | `goto:<k>` entries (JSON `CacheValue`, with or without TTL), `gotoIsNull:<k>` negative markers (no TTL), the Bloom filter `shortUriCreateBloomFilter` (add-only) | `SafeGetWithCacheGetIfAbsent`, `CheckBloomFilter`, `ExistsInBloomFilter`, `SafePut`, `SafeDelete`, `Get`, `Put` |
| Locker | not in the tree (only `base/lock/redis_lock_test.go`); spec 4.2 | lock keys with a holder token and a TTL | `Acquire` (SET NX, non-blocking), `Release` (compare-and-delete) |
| Resolver | `link/app/query/get_original_url.go`, `link/adapter/read/link_query.go` | none of its own | `Handle`: Publish the visit, SafeGet with the `fetchFn` loader, map errors, return `OriginalUrl` |
| Creator / Allocator | `link/app/command/create_link.go`, `link/domain/link/factory.go` | none of its own | optional lock on the URL, `CountLinksByGid`, `CheckGroupLinkCount`, `genUniqueShortUri`, `CreateLink` |
| LinkStore (non-sharded, the one `link/service/link_app.go` wires) | `link/adapter/link_repository.go` | `t_link` rows (soft delete through `gorm.DeletedAt`, `recycle_time`) | `CreateLink` (INSERT, then `SafePut`, then `HIncrBy`), `UpdateLink`, `SaveToRecycleBin`, `RemoveFromRecycleBin`, `RecoverFromRecycleBin`, `modifyCacheValueStatus` |
| LinkStore (sharded) | `link/adapter/link_sharding_repository.go` | `t_link` and `t_link_goto` | same, with two-table transactions and gid changes under `lockGidUpdate` |
| EventBus | `base/mq/event_bus.go` | RocketMQ topic, listener map | `Publish`, `Subscribe`, receive/ack loop |
| StatsSink | `link_stats/adapter/link_stats_repository.go`, `link_stats/app/listener/user_visit.go` | uv/uip Redis sets, seven counter tables, access log | `SaveLinkStats` per visit message |

**How the parts interact.** Resolvers, creators and admin commands run concurrently on separate goroutines or instances. They share only Redis (cache, markers, filter, locks) and the database. Each handler is a sequence of awaited Redis and SQL calls, and steps of different requests interleave between those calls. The TTLs of cache entries and locks elapse independently of every request.

**What the code is meant to guarantee** (spec sections 4 and 7):

- **One loader per cold key** (cache breakdown).
- **No database query for a key never created** (cache penetration).
- **Every persisted URI is in the filter.**
- **Removed links stay suppressed:** after a save to the recycle bin or a removal, resolves surface not-found, and after a removal they no longer reach the loader.
- **Group limit:** a group never exceeds `maxLinksPerGroup`.
- **Locks are released** on every path.
- **Every visit is counted and acknowledged** (spec 4.8): at-least-once delivery, a unique visitor counted once, and the link's totals equal to the access counters.

## 2. Modules

| Module | Models | State (VARIABLES) | Actions |
|--------|--------|-------------------|---------|
| `RedisLock` | the Locker (spec-modelled) | none; operators on the lock table | `CanAcquire`, `Acquire`, `Release`, `ReleaseSucceeds`, `Lapse` |
| `SafeCache` | the Redis data of the cache | `cache`, `negMarker`, `bloom` | the scripts as operators; `KeyExpires` |
| `ShortLink` | resolver, creator, admin commands over the non-sharded repository; EXTENDS `SafeCache`, INSTANCEs `RedisLock` | `db`, `locks`, per-process program counters and locals | listed below |
| `LinkShardingStore` | creators (single and batch) and admin commands over the sharded repository; EXTENDS `SafeCache` | `db`, per-process program counters and locals | listed in 2.2 |
| `LinkStats` | event bus, broker and `SaveLinkStats`; INSTANCEs `RedisLock` and (for the refinement) `VisitStats` | broker queue, listener registration, worker goroutines, Redis sets, counter rows, fault counters | listed in 2.3 |
| `VisitStats` | the abstract promise of the statistics sink (spec 4.8): publish, count, ack | `published`, `counted`, `acked`, `pv`, `uv`, `seenUv` | `Publish`, `Count`, `Ack` |
| `MCShortLink`, `MCLinkShardingStore`, `MCLinkStats` | constants for TLC | – | – |

### 2.1 ShortLink

How `ShortLink` corresponds to the code, one action per Redis or SQL call:

- **Resolver (`r`):**
  - `RStart`: Publish. A failure ends the request.
  - `RGet1`: step 1 `Get`. A hit returns `OriginalUrl`; the status is not read.
  - `RBloom`: step 2 `CheckBloomFilter`. A 0 becomes `RedisKeyNotExist`.
  - `RLock`: step 3 `Acquire`. A failure becomes `LockAcquireFailed`.
  - `RGet2`: the double check.
  - `RLoad`: `fetchFn` via `GetLink`. A missing row becomes `LinkNotExists`; `recycle_time` is not read.
  - `RPut`: `loadAndSet` with `safeFlag=false`, a plain `Put` with NeverExpire.
  - The deferred `Release` is part of the returning step (`ReaderReturn`). Its answer is `HandleResult`, the tail of `Handle`: `RedisKeyNotExist` is mapped to `LinkNotExists`, other errors are returned as they are, and a cache value is answered with its `OriginalUrl`.
- **Creator (`c`):**
  - `CStart`: `Acquire` of `linkCreateLock:<url>` when `WithLock`. The acquired flag is ignored, as in the code.
  - `CCount`: `CountLinksByGid` and `CheckGroupLinkCount`. The Redis counter is read under a key it is never written to, so the count always comes from the table.
  - `CAlloc`: one round of `genUniqueShortUri`. The hash is any short URI, and exists is `ExistsInBloomFilter`.
  - `CInsert`: INSERT. A duplicate key becomes `LinkAlreadyExists`.
  - `CPut`: `SafePut` of the in-memory entity. An error returns before the counter.
  - `CIncr`: `HIncrBy(linkGroupCount<user>, gid, 1)` (`HIncrBy`), held in `gcount`.
  - The deferred `Release` overwrites the result when it fails (`CreatorReturn`).
- **Batcher (`b`):** `CreateLinkBatch` against the repository `link_app.go` wires (`link_repository.go:118`).
  - `BStart`: a command of `n` URLs from `BatchSizes`. The URLs are one model value, because no property tells them apart.
  - `BAlloc`: one round of `genUniqueShortUri` for the next URL. `TooManyAttempts` ends the command.
  - `BInsert`: the transaction. A stored URI, or one URI drawn twice in the batch, rolls back every row (`BatchConflict`).
  - `BPut`: the `SafePut` loop, one link per step. The first error returns, and the links after it are not put.
  - There is no lock, no group count and no `HIncrBy`.
- **Group-link count:** `ListGroupLinkCount` is an operator, because the query changes no state. It serves the fields of `linkGroupCount<user>` whenever the hash has any field. It falls back to the SQL `COUNT(*) … GROUP BY gid` (`DbGroupCounts`) only when the hash is empty.
- **Admin (`a`):**
  - `AUpdate`: the `UpdateLink` transaction. `Link.Update` has a value receiver, so only `validType` and `endDate`, reached through the shared `*ValidDate`, reach the row. The row is written with `Updates(&linkPo)`, which skips zero-valued fields. `ValidTypePermanent` is 0, so an update to permanent leaves the row as it was (`LinkUpdate`). An update to temporary is taken to carry its end date. The cache is not touched.
  - `ASave`, `ARecover`, `ARemove`: the transactions.
  - `AModGet` and `AModPut`: the two calls of `modifyCacheValueStatus`. A missing entry ends the command.
  - `ADel` and `AMark`: the two calls of `SafeDelete`. DEL of a missing key returns before the marker is set.
- **Environment:**
  - `Expire`: a cache entry with a TTL disappears.
  - `LockLapses`: the 3 s lock TTL elapses. It is enabled only when `LockMayExpire` is TRUE.

**Abstractions:**

- **Short URIs, URLs, groups and requests** are model values.
- **A row** is its URL, gid, validity type and recycled flag. No modelled path writes a status other than active.
- **A cache value** is its URL, `neverExpire`, status, and whether it was written with a TTL. JSON encoding is left out, because no property tells two encodings apart.
- **Filter false positives** are the fixed set `FalsePositives`.
- **Times** are reduced to whether a key can expire.
- **Redis and SQL transport errors** are not modelled. Every call is taken to return, and only the errors the protocols themselves produce are kept.
- **Short URI uniqueness** comes from the schema contract in spec section 8 ("unique constraint on `shortUri`"). The gorm model does not declare it.
- **`PageLink` and `PageRecycleBin`** are the console listings of `LinkQuery` as sets of short URIs (all pages together): rows without `recycle_time` in the group asked for, and rows with one in the groups asked for. `KeyState` calls a URI `live` when `PageLink` lists it and `bin` when `PageRecycleBin` does, so the result properties speak of what the console shows.
- **`rsnap[r]` and `KeyState`** are history: `rsnap[r]` records where the requested URI stood when request `r` arrived (`live`, `bin`, `absent`, or `busy` while a create or admin command on it is between steps). The result properties compare it with where the URI stands when the request returns.


### 2.2 LinkShardingStore

The sharded repository keeps `t_link` (sharded by gid) and `t_link_goto` (sharded by short URI). The module holds them as one function `db`, because every reachable write changes both in one transaction. Nothing in the tree constructs this repository, and it has no `CountLinksByGid`. The module therefore drives it with the commands that would call it:

- **Creator (`c`):** a `CreateLink` (one link) or `CreateLinkBatch` (two links) command.
  - `CStart`: the command arrives, with its batch size and validity type.
  - `CAlloc`: one round of `genUniqueShortUri`. The batch handler runs one loop per link. `ShortUriExists` asks the filter about the key `LockGotoLinkKey+k`, which is never added. It answers "taken" only for the URIs in `PrefixedHits` (false positives of the prefixed key), unless a marker is set.
  - `CInsert`: the transaction of INSERTs. A stored URI, or one the batch drew twice, hits the unique key, and the whole transaction fails (`TxConflict`).
  - `CPut`: one `SafePut` per link, in order, from the entity in memory. The first error is returned and the remaining links are not put.
  - The handler's lock and group count are modelled in `ShortLink` and left out here.
- **Admin (`a`):**
  - `AUpdate`: `getLinkPo` and `updateFn`, with only the new validity type.
  - `ASave`: `db.Save` of the whole row read earlier.
  - `APut`: the cache `Put`.
  - `ARemove`: the transaction fails on the column `fullShortUrl`, and SafeDelete's DEL runs anyway.
  - `AMark`: SafeDelete sets the marker.

**Not actions, and why:**

- **The gid-change branch of `UpdateLink` is unreachable.** `Link.Update` has a value receiver, so the gid never changes.
- **`SaveToRecycleBin` and `RecoverFromRecycleBin` write nothing.** Each fails at its first query, which filters on columns that `t_link` does not have (`shortUri`, `fullShortUrl`). They are still actions, `ARecycle` and `ARecover`: the admin picks a link and the step changes nothing else, so the model shows the failed command leaves the store as it was.
- **`modifyCacheValueStatus` is never reached.** It is called only after those two queries succeed. It would also panic on its type assertion.

### 2.3 LinkStats and VisitStats

`LinkStats` models the statistics write path.

**The broker.** `queue[m]` is `unpublished`, `visible`, `invisible` or `acked`.

- `Receive` hides a message for the invisibility window. The receive loop starts one goroutine per listener (a worker `w`).
- `Reappear` makes a message visible again when nobody holds its receipt.
- `EarlyLapse` ends the window while a worker is still processing the message. That worker's receipt becomes stale, and its later Ack is refused.
- `Crash` ends every goroutine of the consumer process. Locks, sets and rows stay as written.

**SaveLinkStats.** One action per Redis or SQL call:

- `SLock`: Acquire. The flag is discarded. A nil locker panics, which acts as a restart.
- `SAddUv` and `SAddUip`: compute the uv and uip flags.
- `UpsertAccess`, `UpsertToday` and `UpsertDim` (five times): the counter upserts.
- `InsertLog`: the access-log insert.
- `FirstGoto`: `First(&linkGotoPo)`.
- `UpdateTotal`: the totals UPDATE, with the deferred Release.
- `AckMsg`: the Ack.
- `Fail`: any call returns an error. The handler returns without an ack.

**Wiring defects as constants.** Three constants stand for defects of the write path, so the model can be run with each one fixed or present:

- `SubscribeStores`: `Subscribe` never stores the listener.
- `LockerSet`: `NewLinkStatsRepository` never sets the locker.
- `GotoFirstRow`: what `First` on `t_link_goto` finds.

The runs use the fixed wiring (`TRUE`, `TRUE`, `"sameGroup"`), so that the counting protocol itself is checked. Section 4 describes what happens with the code as written.

**The data** is one short URI, one day and one hour. Every visit updates the same rows, which is where redeliveries and concurrent deliveries meet. Visits carry a uv token and an IP. `v1` and `v2` share a token, so uniqueness matters.

**Refinement.** `VisitStats` is the promise of spec 4.8:

- an event is published;
- it is counted (pv + 1, and uv + 1 if its token is new) at least once;
- it is acked only after it has been counted.

`LinkStats` implements it under a refinement mapping (`Abs == INSTANCE VisitStats WITH ...`, checked as the property `VisitStatsSpec`):

- **`published`, `acked`:** read off the queue.
- **`pv` and `uv`:** the access row. The mapping counts a worker that has done its uv `SADD` but not yet its access upsert as already counted.
- **The abstract `Count` step:** the `SADD` of the uv set.

## 3. Runs

`PROJECT.json` lists twelve runs: six that pass and six violations.

`MaxGroupCreates = 3` bounds the counter `gcount` through the number of creates a group can have started. It only binds in `remove`, where links are removed and created again.

| Run | Module | Bounds | Expect | Properties | What it shows |
|-----|--------|--------|--------|------------|---------------|
| `core` | MCShortLink | 2 readers, 1 creator, 1 admin (update/save/recover), temporary links, `u2` a false positive | pass (1.77 M states, about 50 s) | `TypeOK`, `LoaderExclusive`, `FilterCoversStore`, `NoFalseNotFound` | one loader per cold key; every finished create is in the filter; a live link is never reported not found, across expiry, recycling and recovery |
| `batch` | MCShortLink | 2 readers, 1 batcher (two links), 1 admin (update), both validity types, no false positive | pass (385 k states, about 12 s) | `LoaderExclusive` | one loader per cold key while a batch inserts and puts its links one by one, with permanent links |
| `remove` | MCShortLink | 1 of each, every admin command, lock TTLs may lapse | pass (308 k states, about 60 s) | `LocksEventuallyReleased` | every lock is eventually released, whatever the interleaving of removals and lapses |
| `recycled` | MCShortLink | save only | violation | `RecycledNeverRedirects` | a resolve after SaveToRecycleBin redirects |
| `reusedUri` | MCShortLink | all ops | violation | `MarkerOnlyForGoneLinks` | a re-allocated URI stays hidden behind the old marker |
| `permanent` | MCShortLink | 1 creator, permanent links | violation | `FilterCoversStore` | permanent links never reach the filter (EX 0) |
| `groupLimit` | MCShortLink | 2 creators, limit 1, no false positives | violation | `GroupLimit` | check-then-insert exceeds the group limit |
| `groupCount` | MCShortLink | 1 creator, 1 batcher, one group, 3 URIs | violation | `GroupCountListed` | the console's group-link counts go stale |
| `shardCreate` | MCLinkShardingStore | 2 creators (single or batch of two), 1 admin (update, remove), 3 URIs, `u3` a prefixed-key false positive, temporary links | pass (193 k states, about 5 s) | `TypeOK` | single and batch creates through the sharded repository, racing an update and a removal, keep its state well formed; its filter and marker properties fail (section 4) and have no passing run |
| `statsSink` | MCLinkStats | 3 visits (two share a uv token), 2 workers, 2 deliveries each, 1 early lapse | pass (392 k states, about 10 s) | `TypeOK`, `UvCountedOnce`, `CountsBetweenAckedAndDelivered`, `VisitStatsSpec` | each uv token counted once in every row; every counter row lies between the acknowledged visits and the deliveries; the pipeline implements `VisitStats` |
| `statsFaults` | MCLinkStats | 2 visits, 1 worker, 4 deliveries, 1 failed call, 1 crash, 1 early lapse | pass (261 k states, about 5 s) | `CountsBetweenAckedAndDelivered` | through an error, a crash and a lapsed window, no visit is acknowledged before every counter row has counted it, and no row counts more visits than were delivered |
| `statsPartial` | MCLinkStats | 2 visits, 1 worker, 2 deliveries, 1 failed call | violation | `UvCountedOnce` | a failure after the uv SADD loses the unique visitor |

**Why these bounds are enough.**

- **Two readers on two URIs** give a race on one key next to an independent key.
- **The false positive `u2`** exercises the retry loop of the allocator and the filter check of a never-created key. `MaxAttempts = 2` reaches both the retry and the `TooManyAttempts` exit.
- **A single admin** runs every command, including save, remove and re-create of the same URI.
- **In `shardCreate`:**
  - two creators allow a batch and a single create to draw the same URI;
  - three URIs give a batch two fresh URIs next to the one `ShortUriExists` rejects.
- **In `statsSink`:**
  - two workers and one early lapse make one message processed twice at once;
  - two deliveries per message reach redelivery after a lapse;
  - three visits with a shared token make uv uniqueness matter.
- **In `statsFaults`:** the fault counters let each call fail once and the consumer crash once, anywhere in the handler.
- **Violation runs** keep only the processes their counterexample needs, so TLC reports the shortest trace.

**Deadlock.** The `LinkStats` runs set `CHECK_DEADLOCK FALSE`. When every published event is acked, the consumer has nothing left to do and stops, which is a state the real consumer reaches too. The other runs check deadlock.

**Where each action is exercised.** Between them, the passing runs fire every action and every disjunct:

- `AUpdate` changes a row's validity type only in `batch`, and only towards temporary: an update to permanent leaves the row as it was.
- `BPut` fires only in `batch`. There, with no false positive, a batch can draw two distinct free URIs.
- In the batch run `BInsert`'s rollback fires through a URI drawn twice. In `groupCount` it fires through a URI a create has stored meanwhile.
- `ARemove`, `ADel`, `AMark` and `LockLapses` fire in `remove`.
- `Fail` and `Crash` fire in `statsFaults`.

**Mutants.** Each property of a passing run is also checked against a faulty variant of the code, defined next to the definition it replaces. TLC finds the property violated for each one:

- an off-by-one loop bound in `genUniqueShortUri`;
- a resolver that skips the lock check;
- `SafePut` without BF.ADD;
- an inverted TTL test;
- a double check that returns without releasing the lock;
- an off-by-one dimension loop in `SaveLinkStats`, one upsert too many, and one that stops before the last table;
- a uv flag that ignores the SADD result;
- an access upsert that drops the uv flag.

## 4. Findings

Each violation run's trace is a real sequence of the code (details in `PROJECT.json`):

1. **`GetOriginalUrl` redirects to a link in the recycle bin** (`recycled`).
   - `get_original_url.go:111` returns `OriginalUrl` without looking at the cached status.
   - `fetchFn` never reads `recycle_time`.
   - A create's `SafePut` can land after `SaveToRecycleBin` found no entry to mark.
2. **A re-allocated short URI resolves to not-found forever** (`reusedUri`).
   - The allocator treats a URI with a marker as free.
   - Nothing clears the marker, and it has no TTL.
3. **Permanent links never reach the Bloom filter** (`permanent`).
   - `SafePut` sends `EX 0`, which Redis rejects.
   - `CreateLink` then reports an error for a committed row.
4. **Concurrent creates exceed `MaxLinksPerGroup`** (`groupLimit`). The count check and the INSERT are separate steps under no group lock.
5. **The group-link counts the console lists go stale** (`groupCount`, `link_query.go:179`).
   - `ListGroupLinkCount` serves `linkGroupCount<user>` whenever the hash has a field.
   - Only a `CreateLink` whose `SafePut` succeeded increments the hash.
   - `CreateLinkBatch` never touches it, `RemoveFromRecycleBin` never decrements it, and it has no TTL.
   - TLC: a create stores `u1` and sets the field to 1; a batch stores `u2` and `u3`; the group holds 3 links and is listed with 1.
6. **The sharded `RemoveFromRecycleBin` hides live links** (`link_sharding_repository.go:419`). It has no run of its own: nothing constructs the sharded repository. `MarkerOnlyForGoneLinks` of `LinkShardingStore` fails under the `shardCreate` constants within a dozen steps.
   - Its transaction always fails: it filters on the column `fullShortUrl`.
   - The error is overwritten by the result of `SafeDelete`.
   - `SafeDelete` deletes the entry and sets a marker that never expires.
   - The command reports success, the row stays, and every resolve answers `LinkNotExists`.
7. **A unique visitor is lost on redelivery** (`statsPartial`, a gap in spec 4.8). The uv and uip flags come from SADD before any counter is written. When a later call fails, the redelivered event finds its token in the set and adds uv 0 everywhere.

TLC also showed these while the model was built. Each appears with a change to one constant or one process. All run slots hold the findings above, so these have no run of their own.

- **`Subscribe` never stores the listener** (`event_bus.go:168`). With `SubscribeStores = FALSE`, `EveryVisitAcked` (stated in `LinkStats`, true only on the repaired wiring) fails: every message is received, skipped without an ack, and redelivered for ever.
- **`NewLinkStatsRepository` leaves the locker nil** (`link_stats_repository.go:27`). With `LockerSet = FALSE`, `EveryVisitAcked` fails: every delivery panics the consumer.
- **`t_link_goto` is only written by the sharded repository** (`link_stats_repository.go:179`). With `GotoFirstRow = "none"`, `EveryVisitAcked` fails: `SaveLinkStats` errors after all counters were written, and each redelivery counts the visit again.
- **`First(&linkGotoPo)` has no WHERE condition** (`link_stats_repository.go:183`). With `GotoFirstRow = "otherGroup"`, `TotalsMatchAccess` (also stated, not checked by a passing run) fails: the totals UPDATE matches no row, and its error is not read.
- **`CreateLink` ignores the acquired flag** (`create_link.go:86`). With two creators of one URL, a create whose row and cache entry were written reports an error, because its deferred `Release` fails and overwrites `err`.
- **`SafeDelete` sets no marker when the entry had already expired** (`redis_cache.go:322`). After such a removal, resolves reach the loader.
- **A removed link can keep redirecting for good** (`link_repository.go:247`, `redis_cache.go:391`). A resolver that loaded the row before `RemoveFromRecycleBin` writes it after `SafeDelete` with a plain `Put` and no TTL. Under the `remove` constants, TLC reaches a state with no row and a never-expiring entry for its URI. A create's `SafePut` landing after the removal leaves an entry as well, but one with a TTL.
- **`modifyCacheValueStatus` is an unlocked GET then PUT** (`link_repository.go:296`). A concurrent save and recover can leave the cached status `deleted` for an active row. `Handle` never reads the status, so the race changes no redirect.
- **`CreateLinkBatch` skips the group limit** (`create_link_batch.go:104`). `GroupLimit` fails as soon as a batch enters a group with fewer free places than URLs.
- **In the sharded `CreateLinkBatch`** (`link_sharding_repository.go:260`), a `SafePut` reporting BF.ADD 0 for a false positive returns before the remaining links are put. With `FalsePositives = {u1}`, `FilterCoversStore` of `LinkShardingStore` fails under the `shardCreate` constants; with permanent links it fails through `EX 0`, as finding 3 shows for the other repository.

Also noted without a run:

- **Publish failure aborts the resolve.** `get_original_url.go:57` returns the Publish error; spec 4.6 says the resolver continues.
- **Code that does not compile:**
  - `event_bus.go:97` passes the body as a string where `base_event.Event` is expected;
  - `link_stats_repository.go` uses `redis` without importing it;
  - the `constant` package, `po.LinkGoto` and `internal/link_stats/domain` are missing from the tree.

- **Hourly statistics are off by one** (`link_stats_repository.go:38`, `link_stats_query.go:116` and `:341`). `SaveLinkStats` stores `Hour() + 1`, from 1 to 24, and the queries write `hours[item.Hour]` into a slice of 24. Every hour is reported one slot late, and a visit in the 23:00 hour makes the query index `hours[24]` and panic. This is read off the code; the read path is not modelled (section 6).
- **The locale statistics query names columns `t_link` does not have** (`link_locale_stats_dao.go:36`). `ListLocaleByLink` joins on `tl.full_short_url` and filters on `tl.del_flag` and `tl.enable_status`, while `po.Link` maps `t_link` to `short_uri`, `delete_time` and `status`. The query therefore fails for every link that has statistics. This is read off the code.
- **A failed call leaves the statistics rows disagreeing** (`link_stats_repository.go:66`). Every write of `SaveLinkStats` commits on its own. If a call after the access upsert fails, the redelivered visit is added to the access row a second time, but only once to the later rows. `CountsBetweenAckedAndDelivered` allows this, since each row stays between the acknowledged visits and the deliveries; equality across rows is not a property of the code.
- **`GetLinkStats` returns four visitor-type entries** (`link_stats_query.go:181`): the slice is made with length 2 and then appended to twice.

The models take each call to do what its name and the spec say.

## 5. Fairness

- **`ShortLink`: weak fairness on every in-progress step.** Each in-progress request (`ReaderStep`, `CreatorStep`, `BatcherStep`, `AdminStep`) is weakly fair. A handler on its goroutine keeps running until it returns, because every Redis and SQL call returns (transport errors are not modelled).
- **`ShortLink`: no fairness elsewhere.** New requests, TTL expiry and lock lapses are not forced. `LocksEventuallyReleased` therefore relies only on handlers finishing, never on a TTL.
- **`LinkStats`:** the following are weakly fair:
  - `Subscribe` (called at start-up);
  - `Receive` (the loop polls for ever);
  - `Reappear` (the broker's timer);
  - each worker's `WorkerStep`.

  Publishing, failures, crashes and early lapses are not forced; they are bounded by their counters. `VisitStatsSpec` is a safety property and needs no fairness. The fairness is what makes `EveryVisitAcked` fail only through the wiring defects: with the repaired wiring, a failed or crashed delivery reappears and is processed again within `MaxDeliveries`.
- **`LinkShardingStore`:** no liveness property, so no fairness.

## 6. Not modelled, and why

- **The statistics queries** (`link_stats_query.go` and its DAOs) only read the rows `SaveLinkStats` writes. With the code's wiring nothing writes them (the listener is dropped), most of their DAOs are missing from the tree, and the one that exists fails on the schema. Modelling the page's layout would check nothing about the protocols, so section 4 reports their defects read off the code. `ListGroupLinkCount`, `PageLink` and `PageRecycleBin` are operators of `ShortLink`.
- **Request handling and service plumbing** are out of scope: HTTP framing, users and groups, configuration, title and favicon scraping, and the user-agent parsing in `toolkit/link.go`.
- **Hashing** (`HashToBase62`) is abstracted to "any short URI".
- **The event bus's `mode` and `Close`** change no modelled state.
- **`RecordLinkVisitListener.Process`** is taken to pass the event on, because its call site does not compile.
- **Redis and SQL transport errors** are not modelled, except in `LinkStats`, where every call may fail.
- **Lock implementation.** `RedisLock` is modelled from spec 4.2, because the implementation is not in the tree.
