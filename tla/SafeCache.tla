----------------------------- MODULE SafeCache -----------------------------
(***************************************************************************)
(* The Redis side of the anti-penetration cache (RedisDistributedCache in  *)
(* internal/base/cache/redis_cache.go): the goto:<shortUri> string keys,   *)
(* the gotoIsNull:<shortUri> negative markers and the Bloom filter         *)
(* shortUriCreateBloomFilter.  Keys are indexed by the short URI they      *)
(* belong to.  The cache values are the link.CacheValue projection of a    *)
(* link; the JSON encoding is left out because no property tells two      *)
(* encodings of one value apart.                                           *)
(*                                                                         *)
(* The multi-call protocols built from these operators (SafeGet, the       *)
(* create and recycle-bin paths) are actions of ShortLink, one action per  *)
(* Redis or database call.                                                 *)
(***************************************************************************)
EXTENDS FiniteSets

CONSTANTS
    ShortUris,       \* the short URIs the model allocates
    Urls,            \* original URLs
    FalsePositives,  \* short URIs the Bloom filter reports present although never added
    None             \* an absent key / absent row

VARIABLES
    cache,      \* cache[k]: the value under goto:k, or None
    negMarker,  \* the set of k with a gotoIsNull:k marker (set with NeverExpire)
    bloom       \* the set of k added to the Bloom filter (add-only)

\* A cache entry: the CacheValue fields the code reads, and whether the key
\* was written with a positive TTL (and so may expire) or without one.
CacheEntry ==
    [url: Urls, neverExpire: BOOLEAN, status: {"active", "deleted"}, expires: BOOLEAN]

SafeCacheTypeOK ==
    /\ cache \in [ShortUris -> CacheEntry \cup {None}]
    /\ negMarker \subseteq ShortUris
    /\ bloom \subseteq ShortUris

\* Get(key): GET and decode; a missing key is RedisKeyNotExist, which the
\* callers treat as no value.
Get(k) == cache[k]

\* isNilOrEmpty: a nil result, or a *CacheValue whose fields are all zero.
\* Every value the code writes carries its OriginalUrl, so only a missing
\* key is empty.
IsNilOrEmpty(v) == v = None

\* Delete(key): DEL, true when a key was removed.
Delete(k) == cache[k] # None

\* HGetAll(key) returned an empty map: the hash h has no field.
HashEmpty(h) == \A g \in DOMAIN h : h[g] = None

\* BF.EXISTS: true for added keys and for the filter's false positives.
MayContain(k) == k \in bloom \cup FalsePositives

\* CheckBloomFilter with a non-empty exceptKey.  The filter key always
\* exists: ConnectToRedis reserves it at start-up and panics otherwise, so
\* the -1 branch of the script is not taken.
\*   0: the marker is set, or BF.EXISTS is false;  1: BF.EXISTS is true.
CheckBloomFilter(k) == IF k \notin negMarker /\ MayContain(k) THEN 1 ELSE 0

\* ExistsInBloomFilter, the allocator's "already taken" test: a set marker
\* overrides a filter hit.
ExistsInBloomFilter(k) == k \notin negMarker /\ MayContain(k)

\* The SafePut script: SET k v EX secs, then BF.ADD.  SET rejects a
\* non-positive EX, which aborts the script before BF.ADD; BF.ADD returns 1
\* only when the key was not already reported present, and SafePut turns a
\* 0 into an error although SET has been applied.
\* A faulty TTL: the permanent/temporary test of Expiration() inverted.
SafePutSetAppliesInverted(e) == e.neverExpire
SafePutSetApplies(e) == e.expires
SafePutReportsOk(k, e) == SafePutSetApplies(e) /\ ~MayContain(k)

SafePutCache(k, e) == IF SafePutSetApplies(e) THEN [cache EXCEPT ![k] = e] ELSE cache
\* A faulty SafePut whose script omits BF.ADD.
SafePutBloomNoAdd(k, e) == bloom
SafePutBloom(k, e) == IF SafePutSetApplies(e) THEN bloom \cup {k} ELSE bloom

\* Put(key, value, expiration): a plain SET; expiration 0 means no TTL.
PutCache(k, e) == [cache EXCEPT ![k] = e]

\* A key written with a TTL disappears when the TTL elapses.
KeyExpires(k) ==
    /\ cache[k] # None
    /\ cache[k].expires
    /\ cache' = [cache EXCEPT ![k] = None]
    /\ UNCHANGED <<negMarker, bloom>>
=============================================================================
