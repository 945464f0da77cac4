----------------------------- MODULE ShortLink -----------------------------
(***************************************************************************)
(* The link service of the non-sharded deployment (link/service/           *)
(* link_app.go wires LinkRepository, LinkQuery and RedisDistributedCache): *)
(*   - Readers run GetOriginalUrl (app/query/get_original_url.go), whose   *)
(*     data access is SafeGetWithCacheGetIfAbsent (base/cache/redis_cache) *)
(*   - Creators run CreateLink (app/command/create_link.go) with the       *)
(*     factory's allocator and LinkRepository.CreateLink                   *)
(*   - Batchers run CreateLinkBatch (app/command/create_link_batch.go)     *)
(*     with the same allocator and LinkRepository.CreateLinkBatch          *)
(*   - Admins run UpdateLink and the recycle-bin commands of               *)
(*     LinkRepository (adapter/link_repository.go)                         *)
(* Every process takes one step per Redis or database call, so steps of   *)
(* different requests interleave exactly where the code awaits I/O.       *)
(***************************************************************************)
EXTENDS Integers, Sequences, FiniteSets, SafeCache

CONSTANTS
    Readers, Creators, Batchers, Admins,  \* concurrent requests of each kind
    BatchSizes,                 \* number of original URLs of a CreateLinkBatch command
    Gids,                       \* link groups
    ValidTypes,                 \* subset of {"permanent", "temporary"} requested by creators
    AdminOps,                   \* subset of {"update", "save", "recover", "remove"}
    MaxAttempts,                \* FactoryConfig.MaxAttempts of genUniqueShortUri
    MaxLinksPerGroup,           \* FactoryConfig.MaxLinksPerGroup
    MaxGroupCreates,            \* bound on the counter a group reaches in linkGroupCount<user>
    LockMayExpire,              \* whether a lock TTL (3 s) may elapse while it is held
    Free                        \* an unheld lock

ASSUME MaxAttempts \in Nat \ {0} /\ MaxLinksPerGroup \in Nat \ {0}
ASSUME ValidTypes \subseteq {"permanent", "temporary"} /\ ValidTypes # {}
ASSUME AdminOps \subseteq {"update", "save", "recover", "remove"}

LK == INSTANCE RedisLock

VARIABLES
    db,           \* db[k]: the live t_link row with short_uri k, or None
    locks,        \* lock table: lock key -> holder or Free
    rpc, rkey, rval, rres, rsnap,            \* readers
    cpc, curl, cgid, cvt, cwithLock, ctries, ckey, cres,  \* creators
    bpc, bn, burl, bgid, bvt, bkeys, btries, bidx, bres,  \* batchers
    apc, akey, atarget, aval,                \* admins
    gcount        \* gcount[g]: field g of the hash linkGroupCount<user>, or None

kvVars == <<cache, negMarker, bloom>>
readerVars == <<rpc, rkey, rval, rres, rsnap>>
creatorVars == <<cpc, curl, cgid, cvt, cwithLock, ctries, ckey, cres>>
batcherVars == <<bpc, bn, burl, bgid, bvt, bkeys, btries, bidx, bres>>
adminVars == <<apc, akey, atarget, aval>>
vars == <<db, locks, kvVars, readerVars, creatorVars, batcherVars, adminVars, gcount>>

(***************************************************************************)
(* Data                                                                    *)
(***************************************************************************)
\* A t_link row as the modelled paths read it.  No path of the source
\* writes a status other than "active" (Link.Update has a value receiver,
\* the recycle bin only sets recycle_time), so the status is left out.
Row == [url: Urls, gid: Gids, vt: ValidTypes, recycled: BOOLEAN]

\* link.NewCacheValue of a row, and the key options the writer uses.
CacheValueOf(row, expires) ==
    [url |-> row.url, neverExpire |-> row.vt = "permanent",
     status |-> "active", expires |-> expires]

\* The lock keys: lock:<app>:goto:<k> of SafeGet and
\* linkCreateLock:<originalUrl> of CreateLink.
GotoLock(k) == <<"goto", k>>
CreateLock(u) == <<"create", u>>
LockKeys == {GotoLock(k) : k \in ShortUris} \cup {CreateLock(u) : u \in Urls}
Holders == Readers \cup Creators

\* Outcomes a request reports.
ReaderErrors == {"PublishFailed", "NotFound", "LockFailed"}
CreatorOutcomes == {"Ok", "GroupFull", "TooManyAttempts", "AlreadyExists",
                    "Error", "ReleaseFailed"}

ReaderPcs == {"idle", "get1", "bloom", "lock", "get2", "load", "put"}
CreatorPcs == {"idle", "count", "alloc", "insert", "put", "incr"}
BatcherPcs == {"idle", "alloc", "insert", "put"}
BatcherOutcomes == {"Ok", "TooManyAttempts", "TxFailed", "Error"}
AdminPcs == {"idle", "modGet", "modPut", "del", "mark"}

(***************************************************************************)
(* Where a short URI stands, for properties that speak of a request made   *)
(* "after" an operation: "busy" while a create or an admin command on it   *)
(* is between its steps.                                                   *)
(***************************************************************************)
Quiet(k) ==
    /\ \A c \in Creators : ~(cpc[c] = "put" /\ ckey[c] = k)
    /\ \A b \in Batchers : ~(bpc[b] = "put" /\ \E i \in 1..Len(bkeys[b]) : bkeys[b][i] = k)
    /\ \A a \in Admins : ~(apc[a] # "idle" /\ akey[a] = k)

\* The console's listings (LinkQuery.PageLink and PageRecycleBin) as sets of
\* short URIs, all pages together: PageLink keeps rows with no recycle_time
\* and no delete_time in the group asked for, PageRecycleBin rows with a
\* recycle_time and no delete_time in any of the groups asked for.
PageLink(g) == {k \in ShortUris : db[k] # None /\ ~db[k].recycled /\ db[k].gid = g}
PageRecycleBin(gs) == {k \in ShortUris : db[k] # None /\ db[k].recycled /\ db[k].gid \in gs}

\* "live" when the console lists the link, "bin" when its recycle bin does.
KeyState(k) ==
    IF ~Quiet(k) THEN "busy"
    ELSE IF \E g \in Gids : k \in PageLink(g) THEN "live"
    ELSE IF k \in PageRecycleBin(Gids) THEN "bin"
    ELSE "absent"

TypeOK ==
    /\ SafeCacheTypeOK
    /\ db \in [ShortUris -> Row \cup {None}]
    /\ locks \in [LockKeys -> Holders \cup {Free}]
    /\ rpc \in [Readers -> ReaderPcs]
    /\ rkey \in [Readers -> ShortUris]
    /\ rval \in [Readers -> CacheEntry \cup {None}]
    /\ rres \in [Readers -> Urls \cup ReaderErrors \cup {None}]
    /\ rsnap \in [Readers -> {"busy", "absent", "bin", "live"}]
    /\ cpc \in [Creators -> CreatorPcs]
    /\ curl \in [Creators -> Urls]
    /\ cgid \in [Creators -> Gids]
    /\ cvt \in [Creators -> ValidTypes]
    /\ cwithLock \in [Creators -> BOOLEAN]
    /\ ctries \in [Creators -> 0..(MaxAttempts - 1)]
    /\ ckey \in [Creators -> ShortUris \cup {None}]
    /\ cres \in [Creators -> CreatorOutcomes \cup {None}]
    /\ bpc \in [Batchers -> BatcherPcs]
    /\ bn \in [Batchers -> BatchSizes]
    /\ burl \in [Batchers -> Urls]
    /\ bgid \in [Batchers -> Gids]
    /\ bvt \in [Batchers -> ValidTypes]
    /\ \A b \in Batchers : /\ bkeys[b] \in Seq(ShortUris) /\ Len(bkeys[b]) <= bn[b]
                           /\ bidx[b] \in 1..bn[b]
    /\ btries \in [Batchers -> 0..(MaxAttempts - 1)]
    /\ bres \in [Batchers -> BatcherOutcomes \cup {None}]
    /\ gcount \in [Gids -> 1..MaxGroupCreates \cup {None}]
    /\ apc \in [Admins -> AdminPcs]
    /\ akey \in [Admins -> ShortUris]
    /\ atarget \in [Admins -> {"active", "deleted"}]
    /\ aval \in [Admins -> CacheEntry \cup {None}]

Init ==
    /\ db = [k \in ShortUris |-> None]
    /\ cache = [k \in ShortUris |-> None]
    /\ negMarker = {}
    /\ bloom = {}
    /\ locks = [l \in LockKeys |-> Free]
    /\ rpc = [r \in Readers |-> "idle"]
    /\ rkey = [r \in Readers |-> CHOOSE k \in ShortUris : TRUE]
    /\ rval = [r \in Readers |-> None]
    /\ rres = [r \in Readers |-> None]
    /\ rsnap = [r \in Readers |-> "absent"]
    /\ cpc = [c \in Creators |-> "idle"]
    /\ curl = [c \in Creators |-> CHOOSE u \in Urls : TRUE]
    /\ cgid = [c \in Creators |-> CHOOSE g \in Gids : TRUE]
    /\ cvt = [c \in Creators |-> CHOOSE t \in ValidTypes : TRUE]
    /\ cwithLock = [c \in Creators |-> FALSE]
    /\ ctries = [c \in Creators |-> 0]
    /\ ckey = [c \in Creators |-> None]
    /\ cres = [c \in Creators |-> None]
    /\ bpc = [b \in Batchers |-> "idle"]
    /\ bn = [b \in Batchers |-> CHOOSE n \in BatchSizes : TRUE]
    /\ burl = [b \in Batchers |-> CHOOSE u \in Urls : TRUE]
    /\ bgid = [b \in Batchers |-> CHOOSE g \in Gids : TRUE]
    /\ bvt = [b \in Batchers |-> CHOOSE t \in ValidTypes : TRUE]
    /\ bkeys = [b \in Batchers |-> <<>>]
    /\ btries = [b \in Batchers |-> 0]
    /\ bidx = [b \in Batchers |-> 1]
    /\ bres = [b \in Batchers |-> None]
    /\ gcount = [g \in Gids |-> None]
    /\ apc = [a \in Admins |-> "idle"]
    /\ akey = [a \in Admins |-> CHOOSE k \in ShortUris : TRUE]
    /\ atarget = [a \in Admins |-> "deleted"]
    /\ aval = [a \in Admins |-> None]

(***************************************************************************)
(* Resolver: GetOriginalUrl.Handle and SafeGetWithCacheGetIfAbsent with    *)
(* the arguments the handler passes: the cache value type, the fetchFn     *)
(* loader, NeverExpire, the filter, bloomKey k, exceptKey gotoIsNull:k and *)
(* no GetIfAbsent callback.                                                *)
(***************************************************************************)
\* The tail of Handle: an error of SafeGetWithCacheCheckFilter is returned,
\* RedisKeyNotExist as LinkNotExists; a CacheValue result is answered with
\* its OriginalUrl.
HandleResult(err, v) ==
    IF err = None THEN v.url
    ELSE IF err = "RedisKeyNotExist" THEN "NotFound"
    ELSE err

\* Return from Handle with result res; the deferred Release runs when the
\* lock was taken (its error is lost: SafeGet's results are unnamed).
ReaderReturn(r, res, holdsLock) ==
    /\ rpc' = [rpc EXCEPT ![r] = "idle"]
    /\ rres' = [rres EXCEPT ![r] = res]
    /\ locks' = IF holdsLock THEN LK!Release(locks, GotoLock(rkey[r]), r) ELSE locks

\* A request arrives and publishes its UserVisitEvent; a failed Publish
\* ends the request with the error before any data access.
RStart(r) ==
    /\ rpc[r] = "idle"
    /\ \E k \in ShortUris :
        /\ rkey' = [rkey EXCEPT ![r] = k]
        /\ rsnap' = [rsnap EXCEPT ![r] = KeyState(k)]
    /\ rval' = [rval EXCEPT ![r] = None]
    /\ \/ /\ rpc' = [rpc EXCEPT ![r] = "get1"]
          /\ rres' = [rres EXCEPT ![r] = None]
       \/ /\ rres' = [rres EXCEPT ![r] = "PublishFailed"]
          /\ UNCHANGED rpc
    /\ UNCHANGED <<gcount, batcherVars, db, locks, kvVars, creatorVars, adminVars>>

\* Step 1: GET goto:k.  A hit is returned as is; Handle then answers the
\* value's OriginalUrl without looking at its status.
RGet1(r) ==
    /\ rpc[r] = "get1"
    /\ \/ /\ ~IsNilOrEmpty(Get(rkey[r]))
          /\ ReaderReturn(r, HandleResult(None, Get(rkey[r])), FALSE)
       \/ /\ IsNilOrEmpty(Get(rkey[r]))
          /\ rpc' = [rpc EXCEPT ![r] = "bloom"]
          /\ UNCHANGED <<gcount, batcherVars, rres, locks>>
    /\ UNCHANGED <<gcount, batcherVars, db, kvVars, rkey, rval, rsnap, creatorVars, adminVars>>

\* Step 2: the CheckBloomFilter script; 0 becomes RedisKeyNotExist.
RBloom(r) ==
    /\ rpc[r] = "bloom"
    /\ \/ /\ CheckBloomFilter(rkey[r]) = 0
          /\ ReaderReturn(r, HandleResult("RedisKeyNotExist", None), FALSE)
       \/ /\ CheckBloomFilter(rkey[r]) = 1
          /\ rpc' = [rpc EXCEPT ![r] = "lock"]
          /\ UNCHANGED <<gcount, batcherVars, rres, locks>>
    /\ UNCHANGED <<gcount, batcherVars, db, kvVars, rkey, rval, rsnap, creatorVars, adminVars>>

\* A faulty step 3 that proceeds to the fill whether or not the lock is
\* free (the acquired flag ignored, as CreateLink does).
RLockUnguarded(r) ==
    /\ rpc[r] = "lock"
    /\ locks' = LK!Acquire(locks, GotoLock(rkey[r]), r)
    /\ rpc' = [rpc EXCEPT ![r] = "get2"]
    /\ UNCHANGED <<gcount, batcherVars, rres, db, kvVars, rkey, rval, rsnap, creatorVars, adminVars>>

\* Step 3: one non-blocking Acquire of the per-key lock.
RLock(r) ==
    /\ rpc[r] = "lock"
    /\ \/ /\ LK!CanAcquire(locks, GotoLock(rkey[r]))
          /\ locks' = LK!Acquire(locks, GotoLock(rkey[r]), r)
          /\ rpc' = [rpc EXCEPT ![r] = "get2"]
          /\ UNCHANGED rres
       \/ /\ ~LK!CanAcquire(locks, GotoLock(rkey[r]))
          /\ ReaderReturn(r, HandleResult("LockFailed", None), FALSE)
    /\ UNCHANGED <<gcount, batcherVars, db, kvVars, rkey, rval, rsnap, creatorVars, adminVars>>

\* A faulty step 4 that returns a hit without releasing the lock.
RGet2KeepsLock(r) ==
    /\ rpc[r] = "get2"
    /\ \/ /\ ~IsNilOrEmpty(Get(rkey[r]))
          /\ ReaderReturn(r, HandleResult(None, Get(rkey[r])), FALSE)
       \/ /\ IsNilOrEmpty(Get(rkey[r]))
          /\ rpc' = [rpc EXCEPT ![r] = "load"]
          /\ UNCHANGED <<gcount, batcherVars, rres, locks>>
    /\ UNCHANGED <<gcount, batcherVars, db, kvVars, rkey, rval, rsnap, creatorVars, adminVars>>

\* Step 4: the double check under the lock.
RGet2(r) ==
    /\ rpc[r] = "get2"
    /\ \/ /\ ~IsNilOrEmpty(Get(rkey[r]))
          /\ ReaderReturn(r, HandleResult(None, Get(rkey[r])), TRUE)
       \/ /\ IsNilOrEmpty(Get(rkey[r]))
          /\ rpc' = [rpc EXCEPT ![r] = "load"]
          /\ UNCHANGED <<gcount, batcherVars, rres, locks>>
    /\ UNCHANGED <<gcount, batcherVars, db, kvVars, rkey, rval, rsnap, creatorVars, adminVars>>

\* LinkQuery.GetLink: First on short_uri, which skips soft-deleted rows;
\* no row is LinkNotExists.  NewValidDate and NewLinkFromDB rebuild the
\* entity from the row's columns.
GetLink(k) == db[k]

\* Step 5: loadAndSet calls fetchFn, which reads the row by short_uri
\* (LinkQuery.GetLink; soft-deleted rows are not found).  A missing row is
\* LinkNotExists; an active row becomes its CacheValue.  recycle_time is
\* not consulted.
RLoad(r) ==
    /\ rpc[r] = "load"
    /\ \/ /\ GetLink(rkey[r]) = None
          /\ ReaderReturn(r, HandleResult("NotFound", None), TRUE)
          /\ UNCHANGED rval
       \/ /\ GetLink(rkey[r]) # None
          /\ rval' = [rval EXCEPT ![r] = CacheValueOf(GetLink(rkey[r]), FALSE)]
          /\ rpc' = [rpc EXCEPT ![r] = "put"]
          /\ UNCHANGED <<gcount, batcherVars, rres, locks>>
    /\ UNCHANGED <<gcount, batcherVars, db, kvVars, rkey, rsnap, creatorVars, adminVars>>

\* Step 6: loadAndSet with safeFlag = false does a plain Put with the
\* handler's NeverExpire (no TTL); then the lock is released and the URL
\* returned.
RPut(r) ==
    /\ rpc[r] = "put"
    /\ cache' = PutCache(rkey[r], rval[r])
    /\ ReaderReturn(r, HandleResult(None, rval[r]), TRUE)
    /\ UNCHANGED <<gcount, batcherVars, db, negMarker, bloom, rkey, rval, rsnap,
                   creatorVars, adminVars>>

(***************************************************************************)
(* Creator: createLinkHandler.Handle.  With WithLock the handler calls     *)
(* Acquire on linkCreateLock:<url> but discards the acquired flag, and its *)
(* deferred Release overwrites the named result with the release error.   *)
(***************************************************************************)
CreatorReturn(c, res) ==
    /\ cpc' = [cpc EXCEPT ![c] = "idle"]
    /\ cres' = [cres EXCEPT ![c] =
                  IF cwithLock[c] /\ ~LK!ReleaseSucceeds(locks, CreateLock(curl[c]), c)
                  THEN "ReleaseFailed" ELSE res]
    /\ locks' = IF cwithLock[c] THEN LK!Release(locks, CreateLock(curl[c]), c) ELSE locks

\* The creates of group g counted by its hash field or still running; a
\* create starts only below MaxGroupCreates, which bounds the counter.
CreatesOf(g) ==
    (IF gcount[g] = None THEN 0 ELSE gcount[g])
    + Cardinality({c \in Creators : cpc[c] # "idle" /\ cgid[c] = g})

CStart(c) ==
    /\ cpc[c] = "idle"
    /\ \E u \in Urls, g \in Gids, t \in ValidTypes, wl \in BOOLEAN :
        /\ CreatesOf(g) < MaxGroupCreates
        /\ curl' = [curl EXCEPT ![c] = u]
        /\ cgid' = [cgid EXCEPT ![c] = g]
        /\ cvt' = [cvt EXCEPT ![c] = t]
        /\ cwithLock' = [cwithLock EXCEPT ![c] = wl]
        /\ locks' = IF wl /\ LK!CanAcquire(locks, CreateLock(u))
                    THEN LK!Acquire(locks, CreateLock(u), c) ELSE locks
    /\ cpc' = [cpc EXCEPT ![c] = "count"]
    /\ ctries' = [ctries EXCEPT ![c] = 0]
    /\ ckey' = [ckey EXCEPT ![c] = None]
    /\ cres' = [cres EXCEPT ![c] = None]
    /\ UNCHANGED <<gcount, batcherVars, db, kvVars, readerVars, adminVars>>

\* CountLinksByGid reads HGet(linkGroupCount, gid); the counter is kept
\* under linkGroupCount<username>, so the read always misses and the count
\* comes from the table.  CheckGroupLinkCount rejects count >= max.
GroupCount(g) == Cardinality({k \in ShortUris : db[k] # None /\ db[k].gid = g})

\* Factory.CheckGroupLinkCount: LinkGroupLinkCountExceed when TRUE.
CheckGroupLinkCount(count) == count >= MaxLinksPerGroup

CCount(c) ==
    /\ cpc[c] = "count"
    /\ \/ /\ CheckGroupLinkCount(GroupCount(cgid[c]))
          /\ CreatorReturn(c, "GroupFull")
       \/ /\ ~CheckGroupLinkCount(GroupCount(cgid[c]))
          /\ cpc' = [cpc EXCEPT ![c] = "alloc"]
          /\ UNCHANGED <<gcount, batcherVars, cres, locks>>
    /\ UNCHANGED <<gcount, batcherVars, db, kvVars, readerVars, curl, cgid, cvt, cwithLock,
                   ctries, ckey, adminVars>>

\* The loop bound of genUniqueShortUri: after n failed rounds another one
\* runs while n + 1 < maxAttempts (i < maxAttempts with i = n + 1); and a
\* faulty bound i <= maxAttempts.
\* ValidDate.Expiration() > 0: 0 for a permanent link, endDate - now for
\* a temporary one, whose end date is taken to lie ahead when it is put.
ValidDateExpires(vt) == vt # "permanent"

\* CacheValue.Expiration() > 0 of a cached value: 0 when NeverExpire.
CacheValueExpires(e) == ~e.neverExpire

\* Link.Update(gid, url, status, validType, endDate, desc) as UpdateLink
\* calls it: the receiver is a copy, so gid, URL, status and desc are lost,
\* while validType and endDate reach the shared *ValidDate.  The row is then
\* written with Updates(&linkPo), which skips zero-valued fields, and
\* ValidTypePermanent is 0: a change to permanent never reaches the row.
\* (A change to temporary is taken to carry its end date.)
LinkUpdate(row, t) == IF t = "permanent" THEN row ELSE [row EXCEPT !.vt = t]

\* LinkRepository.ShortUriExists: ExistsInBloomFilter with the gotoIsNull
\* marker as the escape hatch.
ShortUriExists(k) == ExistsInBloomFilter(k)

MoreAttemptsOffByOne(n) == n <= MaxAttempts - 1
MoreAttempts(n) == n + 1 < MaxAttempts

\* One round of genUniqueShortUri: a fresh HashToBase62(url + uuid) is any
\* short URI, and exists is ShortUriExists.
CAlloc(c) ==
    /\ cpc[c] = "alloc"
    /\ \E k \in ShortUris :
        \/ /\ ~ShortUriExists(k)
           /\ ckey' = [ckey EXCEPT ![c] = k]
           /\ cpc' = [cpc EXCEPT ![c] = "insert"]
           /\ UNCHANGED <<gcount, batcherVars, ctries, cres, locks>>
        \/ /\ ShortUriExists(k)
           /\ MoreAttempts(ctries[c])
           /\ ctries' = [ctries EXCEPT ![c] = @ + 1]
           /\ UNCHANGED <<gcount, batcherVars, cpc, ckey, cres, locks>>
        \/ /\ ShortUriExists(k)
           /\ ~MoreAttempts(ctries[c])
           /\ CreatorReturn(c, "TooManyAttempts")
           /\ UNCHANGED <<gcount, batcherVars, ctries, ckey>>
    /\ UNCHANGED <<gcount, batcherVars, db, kvVars, readerVars, curl, cgid, cvt, cwithLock,
                   adminVars>>

\* The entity NewAvailableLink composes for creator c.
NewRow(c) == [url |-> curl[c], gid |-> cgid[c], vt |-> cvt[c], recycled |-> FALSE]

\* LinkRepository.CreateLink, first call: INSERT; a duplicate-key error
\* becomes LinkAlreadyExists.  The unique constraint on short_uri is part
\* of the schema contract (spec, persistence), not of the gorm model.
CInsert(c) ==
    /\ cpc[c] = "insert"
    /\ \/ /\ db[ckey[c]] # None
          /\ CreatorReturn(c, "AlreadyExists")
          /\ UNCHANGED db
       \/ /\ db[ckey[c]] = None
          /\ db' = [db EXCEPT ![ckey[c]] = NewRow(c)]
          /\ cpc' = [cpc EXCEPT ![c] = "put"]
          /\ UNCHANGED <<gcount, batcherVars, cres, locks>>
    /\ UNCHANGED <<gcount, batcherVars, kvVars, readerVars, curl, cgid, cvt, cwithLock, ctries, ckey, adminVars>>

\* Second call: SafePut of the in-memory entity's CacheValue, with TTL
\* cacheValue.Expiration(): 0 for a permanent link (EX 0 is rejected),
\* positive for a temporary one.  An error returns at once; on success the
\* HIncrBy of the per-user group counter follows.
CPut(c) ==
    /\ cpc[c] = "put"
    /\ LET e == CacheValueOf(NewRow(c), ValidDateExpires(cvt[c]))
       IN /\ cache' = SafePutCache(ckey[c], e)
          /\ bloom' = SafePutBloom(ckey[c], e)
          /\ IF SafePutReportsOk(ckey[c], e)
               THEN /\ cpc' = [cpc EXCEPT ![c] = "incr"]
                    /\ UNCHANGED <<cres, locks>>
               ELSE CreatorReturn(c, "Error")
    /\ UNCHANGED <<gcount, batcherVars, db, negMarker, readerVars, curl, cgid, cvt, cwithLock,
                   ctries, ckey, adminVars>>

\* HIncrBy(linkGroupCount<username>, gid, 1): creates the field at 1.
HIncrBy(h, g) == [h EXCEPT ![g] = IF @ = None THEN 1 ELSE @ + 1]

\* Third call: the increment; then CreateLink returns nil.
CIncr(c) ==
    /\ cpc[c] = "incr"
    /\ gcount' = HIncrBy(gcount, cgid[c])
    /\ CreatorReturn(c, "Ok")
    /\ UNCHANGED <<batcherVars, db, kvVars, readerVars, curl, cgid, cvt, cwithLock,
                   ctries, ckey, adminVars>>

(***************************************************************************)
(* Batchers: CreateLinkBatch.Handle allocates one short URI per original   *)
(* URL with NewAvailableLink and returns on the first error, then calls    *)
(* LinkRepository.CreateLinkBatch.  Neither takes a lock, counts the group *)
(* or increments the group counter.  The URLs of one command are one URL   *)
(* here: no property tells them apart.                                     *)
(***************************************************************************)
BatcherReturn(b, res) ==
    /\ bpc' = [bpc EXCEPT ![b] = "idle"]
    /\ bres' = [bres EXCEPT ![b] = res]

BStart(b) ==
    /\ bpc[b] = "idle"
    /\ \E n \in BatchSizes, u \in Urls, g \in Gids, t \in ValidTypes :
        /\ bn' = [bn EXCEPT ![b] = n]
        /\ burl' = [burl EXCEPT ![b] = u]
        /\ bgid' = [bgid EXCEPT ![b] = g]
        /\ bvt' = [bvt EXCEPT ![b] = t]
    /\ bkeys' = [bkeys EXCEPT ![b] = <<>>]
    /\ btries' = [btries EXCEPT ![b] = 0]
    /\ bidx' = [bidx EXCEPT ![b] = 1]
    /\ bres' = [bres EXCEPT ![b] = None]
    /\ bpc' = [bpc EXCEPT ![b] = "alloc"]
    /\ UNCHANGED <<gcount, db, locks, kvVars, readerVars, creatorVars, adminVars>>

\* One round of genUniqueShortUri for the next URL of the command.
BAlloc(b) ==
    /\ bpc[b] = "alloc"
    /\ \E k \in ShortUris :
        \/ /\ ~ShortUriExists(k)
           /\ bkeys' = [bkeys EXCEPT ![b] = Append(@, k)]
           /\ btries' = [btries EXCEPT ![b] = 0]
           /\ bpc' = [bpc EXCEPT ![b] = IF Len(bkeys[b]) + 1 = bn[b] THEN "insert" ELSE "alloc"]
           /\ UNCHANGED bres
        \/ /\ ShortUriExists(k)
           /\ MoreAttempts(btries[b])
           /\ btries' = [btries EXCEPT ![b] = @ + 1]
           /\ UNCHANGED <<bpc, bkeys, bres>>
        \/ /\ ShortUriExists(k)
           /\ ~MoreAttempts(btries[b])
           /\ BatcherReturn(b, "TooManyAttempts")
           /\ UNCHANGED <<bkeys, btries>>
    /\ UNCHANGED <<gcount, db, locks, kvVars, readerVars, creatorVars, adminVars,
                   bn, burl, bgid, bvt, bidx>>

BatchKeys(b) == {bkeys[b][i] : i \in 1..Len(bkeys[b])}
BatchRow(b) == [url |-> burl[b], gid |-> bgid[b], vt |-> bvt[b], recycled |-> FALSE]

\* The transaction INSERTs one row per link and rolls back on the first
\* error: a short URI already stored, or allocated twice by the command.
BatchConflict(b) ==
    \/ \E k \in BatchKeys(b) : db[k] # None
    \/ Len(bkeys[b]) # Cardinality(BatchKeys(b))

BInsert(b) ==
    /\ bpc[b] = "insert"
    /\ \/ /\ BatchConflict(b)
          /\ BatcherReturn(b, "TxFailed")
          /\ UNCHANGED db
       \/ /\ ~BatchConflict(b)
          /\ db' = [k \in ShortUris |-> IF k \in BatchKeys(b) THEN BatchRow(b) ELSE db[k]]
          /\ bpc' = [bpc EXCEPT ![b] = "put"]
          /\ UNCHANGED bres
    /\ UNCHANGED <<gcount, locks, kvVars, readerVars, creatorVars, adminVars,
                   bn, burl, bgid, bvt, bkeys, btries, bidx>>

\* The SafePut loop, one link per step, with TTL lk.ValidDate().Expiration();
\* the first error is returned and the remaining links are not put.
BPut(b) ==
    /\ bpc[b] = "put"
    /\ LET k == bkeys[b][bidx[b]]
           e == CacheValueOf(BatchRow(b), ValidDateExpires(bvt[b]))
       IN /\ cache' = SafePutCache(k, e)
          /\ bloom' = SafePutBloom(k, e)
          /\ IF ~SafePutReportsOk(k, e)
               THEN /\ BatcherReturn(b, "Error")
                    /\ UNCHANGED bidx
             ELSE IF bidx[b] < bn[b]
               THEN /\ bidx' = [bidx EXCEPT ![b] = @ + 1]
                    /\ UNCHANGED <<bpc, bres>>
             ELSE /\ BatcherReturn(b, "Ok")
                  /\ UNCHANGED bidx
    /\ UNCHANGED <<gcount, db, locks, negMarker, readerVars, creatorVars, adminVars,
                   bn, burl, bgid, bvt, bkeys, btries>>

(***************************************************************************)
(* Admins: UpdateLink and the recycle-bin commands of LinkRepository.  The *)
(* command handlers only forward to the repository.  Each database         *)
(* transaction is one step; each following Redis call is a step of its    *)
(* own.  A command that fails in its transaction changes nothing.          *)
(***************************************************************************)
AdminIdle(a) == apc' = [apc EXCEPT ![a] = "idle"]

\* UpdateLink: read the row, apply lk.Update, write the row back.
\* Link.Update has a value receiver, so only the fields reached through
\* the shared *ValidDate (validType, endDate) survive; the new originalUrl,
\* gid, status and desc are lost.  The cache is not touched.
AUpdate(a) ==
    /\ apc[a] = "idle"
    /\ "update" \in AdminOps
    /\ \E k \in ShortUris, t \in ValidTypes :
        /\ db[k] # None
        /\ db' = [db EXCEPT ![k] = LinkUpdate(@, t)]
        /\ akey' = [akey EXCEPT ![a] = k]
    /\ UNCHANGED <<gcount, batcherVars, locks, kvVars, readerVars, creatorVars, apc, atarget, aval>>

\* SaveToRecycleBin: the transaction sets recycle_time (LinkNotExists when
\* the row is missing); then modifyCacheValueStatus(k, StatusDeleted).
ASave(a) ==
    /\ apc[a] = "idle"
    /\ "save" \in AdminOps
    /\ \E k \in ShortUris :
        /\ db[k] # None
        /\ db' = [db EXCEPT ![k].recycled = TRUE]
        /\ akey' = [akey EXCEPT ![a] = k]
    /\ apc' = [apc EXCEPT ![a] = "modGet"]
    /\ atarget' = [atarget EXCEPT ![a] = "deleted"]
    /\ UNCHANGED <<gcount, batcherVars, locks, kvVars, readerVars, creatorVars, aval>>

\* RecoverFromRecycleBin: LinkInvalidStatus unless recycle_time is set;
\* clears it, then modifyCacheValueStatus(k, row status), which is active.
ARecover(a) ==
    /\ apc[a] = "idle"
    /\ "recover" \in AdminOps
    /\ \E k \in ShortUris :
        /\ db[k] # None
        /\ db[k].recycled
        /\ db' = [db EXCEPT ![k].recycled = FALSE]
        /\ akey' = [akey EXCEPT ![a] = k]
    /\ apc' = [apc EXCEPT ![a] = "modGet"]
    /\ atarget' = [atarget EXCEPT ![a] = "active"]
    /\ UNCHANGED <<gcount, batcherVars, locks, kvVars, readerVars, creatorVars, aval>>

\* RemoveFromRecycleBin: LinkInvalidStatus unless recycle_time is set;
\* deletes the row (a soft delete: later queries no longer see it), then
\* SafeDelete(goto:k, gotoIsNull:k).
ARemove(a) ==
    /\ apc[a] = "idle"
    /\ "remove" \in AdminOps
    /\ \E k \in ShortUris :
        /\ db[k] # None
        /\ db[k].recycled
        /\ db' = [db EXCEPT ![k] = None]
        /\ akey' = [akey EXCEPT ![a] = k]
    /\ apc' = [apc EXCEPT ![a] = "del"]
    /\ UNCHANGED <<gcount, batcherVars, locks, kvVars, readerVars, creatorVars, atarget, aval>>

\* modifyCacheValueStatus, first call: GET; a missing key is returned as
\* RedisKeyNotExist and the command fails after its transaction committed.
AModGet(a) ==
    /\ apc[a] = "modGet"
    /\ \/ /\ IsNilOrEmpty(Get(akey[a]))
          /\ AdminIdle(a)
          /\ UNCHANGED aval
       \/ /\ ~IsNilOrEmpty(Get(akey[a]))
          /\ aval' = [aval EXCEPT ![a] = Get(akey[a])]
          /\ apc' = [apc EXCEPT ![a] = "modPut"]
    /\ UNCHANGED <<gcount, batcherVars, db, locks, kvVars, readerVars, creatorVars, akey, atarget>>

\* Second call: PUT the value read, with the new status and the value's
\* own Expiration() (no TTL for a never-expiring value).
AModPut(a) ==
    /\ apc[a] = "modPut"
    /\ cache' = PutCache(akey[a], [aval[a] EXCEPT !.status = atarget[a],
                                                  !.expires = CacheValueExpires(aval[a])])
    /\ AdminIdle(a)
    /\ UNCHANGED <<gcount, batcherVars, db, locks, negMarker, bloom, readerVars, creatorVars,
                   akey, atarget, aval>>

\* SafeDelete, first call: DEL goto:k.  When nothing was deleted SafeDelete
\* returns at once, without setting the marker.
ADel(a) ==
    /\ apc[a] = "del"
    /\ \/ /\ ~Delete(akey[a])
          /\ AdminIdle(a)
          /\ UNCHANGED cache
       \/ /\ Delete(akey[a])
          /\ cache' = [cache EXCEPT ![akey[a]] = None]
          /\ apc' = [apc EXCEPT ![a] = "mark"]
    /\ UNCHANGED <<gcount, batcherVars, db, locks, negMarker, bloom, readerVars, creatorVars,
                   akey, atarget, aval>>

\* Second call: PUT gotoIsNull:k "-" with NeverExpire.
AMark(a) ==
    /\ apc[a] = "mark"
    /\ negMarker' = negMarker \cup {akey[a]}
    /\ AdminIdle(a)
    /\ UNCHANGED <<gcount, batcherVars, db, locks, cache, bloom, readerVars, creatorVars,
                   akey, atarget, aval>>

(***************************************************************************)
(* Environment                                                             *)
(***************************************************************************)
\* The TTL of a temporary link's cache entry elapses.
Expire(k) ==
    /\ KeyExpires(k)
    /\ UNCHANGED <<gcount, batcherVars, db, locks, readerVars, creatorVars, adminVars>>

\* The 3 s TTL of a held lock elapses before its holder releases it.
LockLapses(l) ==
    /\ LockMayExpire
    /\ locks[l] # Free
    /\ locks' = LK!Lapse(locks, l)
    /\ UNCHANGED <<gcount, batcherVars, db, kvVars, readerVars, creatorVars, adminVars>>

ReaderStep(r) == RGet1(r) \/ RBloom(r) \/ RLock(r) \/ RGet2(r) \/ RLoad(r) \/ RPut(r)
CreatorStep(c) == CCount(c) \/ CAlloc(c) \/ CInsert(c) \/ CPut(c) \/ CIncr(c)
BatcherStep(b) == BAlloc(b) \/ BInsert(b) \/ BPut(b)
AdminStep(a) == AModGet(a) \/ AModPut(a) \/ ADel(a) \/ AMark(a)

Next ==
    \/ \E r \in Readers : RStart(r) \/ ReaderStep(r)
    \/ \E c \in Creators : CStart(c) \/ CreatorStep(c)
    \/ \E b \in Batchers : BStart(b) \/ BatcherStep(b)
    \/ \E a \in Admins : AUpdate(a) \/ ASave(a) \/ ARecover(a) \/ ARemove(a) \/ AdminStep(a)
    \/ \E k \in ShortUris : Expire(k)
    \/ \E l \in LockKeys : LockLapses(l)

\* A request in progress runs on its own goroutine until it returns; new
\* requests, TTL expiry and lock lapses are not forced to happen.
Fairness ==
    /\ \A r \in Readers : WF_vars(ReaderStep(r))
    /\ \A c \in Creators : WF_vars(CreatorStep(c))
    /\ \A b \in Batchers : WF_vars(BatcherStep(b))
    /\ \A a \in Admins : WF_vars(AdminStep(a))

Spec == Init /\ [][Next]_vars /\ Fairness

(***************************************************************************)
(* Properties                                                              *)
(***************************************************************************)
\* Cache-breakdown protection (SafeGet steps 3-6): while the per-key lock
\* cannot lapse, at most one resolver of a short URI is between its double
\* check and its fill, so the database is queried once per cold key.
LoaderExclusive ==
    \A r1, r2 \in Readers :
        (r1 # r2 /\ rkey[r1] = rkey[r2]) =>
            ~(rpc[r1] \in {"load", "put"} /\ rpc[r2] \in {"load", "put"})

\* The write-side invariant of SafePut: every stored link whose create has
\* finished is in the Bloom filter, so the resolver's filter check cannot
\* turn a stored link into "not found".
FilterCoversStore ==
    \A k \in ShortUris : (db[k] # None /\ Quiet(k)) => k \in bloom

\* The negative marker "shadow-removes" a short URI whose row is gone: it
\* never hides a stored link once the create that stored it has finished
\* (a marker has no TTL, so a hidden link would resolve to LinkNotExists
\* for good).
MarkerOnlyForGoneLinks ==
    \A k \in negMarker : Quiet(k) => db[k] = None

\* The group limit of CreateLink (CountLinksByGid, CheckGroupLinkCount):
\* no group ever holds more than MaxLinksPerGroup links.
GroupLimit ==
    \A g \in Gids : GroupCount(g) <= MaxLinksPerGroup

\* LinkQuery.ListGroupLinkCount(gids): the fields of linkGroupCount<user>
\* for the requested groups, LinkGroupEmpty when none of them has one, and
\* the SQL "SELECT gid, COUNT(*) ... GROUP BY gid" only when the hash is
\* empty (an HGetAll error is not modelled).
DbGroupCounts(gs) == [g \in {g \in gs : GroupCount(g) > 0} |-> GroupCount(g)]
ListGroupLinkCount(gs) ==
    IF HashEmpty(gcount)
      THEN DbGroupCounts(gs)
    ELSE IF \A g \in gs : gcount[g] = None
      THEN "LinkGroupEmpty"
    ELSE [g \in {g \in gs : gcount[g] # None} |-> gcount[g]]

\* The group-link counts the console lists are the number of links the
\* groups hold, once no CreateLink is between its INSERT and its HIncrBy.
GroupCountListed ==
    (\A c \in Creators : cpc[c] \notin {"put", "incr"})
        => ListGroupLinkCount(Gids) = DbGroupCounts(Gids)

(***************************************************************************)
(* Properties of the results requests return.  Returns(r) is a step in     *)
(* which reader r's GetOriginalUrl returns; rsnap[r] is where its short    *)
(* URI stood when the request arrived, KeyState where it stands now.       *)
(***************************************************************************)
Returns(r) == rpc[r] # "idle" /\ rpc'[r] = "idle"
Redirects(r) == Returns(r) /\ rres'[r] \in Urls
ReportsNotFound(r) == Returns(r) /\ rres'[r] = "NotFound"

\* A link whose create has finished and that is not in the recycle bin is
\* never reported LinkNotExists to a request made after the create, by the
\* filter check, a negative marker or the loader.
NoFalseNotFound ==
    [][\A r \in Readers :
         ReportsNotFound(r) => ~(rsnap[r] = "live" /\ KeyState(rkey[r]) = "live")]_vars

\* Spec 7: after SaveToRecycleBin a resolve surfaces a non-Active outcome.
\* GetOriginalUrl must not answer the original URL for a link that was in
\* the recycle bin when the request arrived and still is.
RecycledNeverRedirects ==
    [][\A r \in Readers :
         Redirects(r) => ~(rsnap[r] = "bin" /\ KeyState(rkey[r]) = "bin")]_vars

\* Every lock the resolver or CreateLink takes is eventually released (the
\* deferred Release runs on every return path), so no short URI or URL is
\* left locked.
LocksEventuallyReleased ==
    \A l \in LockKeys : locks[l] # Free ~> locks[l] = Free
=============================================================================
