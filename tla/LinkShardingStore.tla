-------------------------- MODULE LinkShardingStore --------------------------
(***************************************************************************)
(* The sharded link repository (LinkShardingRepository in                  *)
(* internal/link/adapter/link_sharding_repository.go) under the create,    *)
(* batch create, update and recycle-bin commands that call it.             *)
(*                                                                         *)
(* t_link (sharded by gid) and t_link_goto (sharded by short URI) are one  *)
(* function db: every path that writes them writes both in one             *)
(* transaction, and the gid-change branch of UpdateLink is unreachable,    *)
(* because Link.Update has a value receiver and leaves the gid of the     *)
(* entity it was given unchanged.  SaveToRecycleBin and                    *)
(* RecoverFromRecycleBin always fail at their first query (a WHERE on the  *)
(* columns "shortUri" and "fullShortUrl", which t_link does not have)      *)
(* before any write, so they change no state and are no actions here.     *)
(*                                                                         *)
(* A creator runs the allocation loop of Factory.genUniqueShortUri once    *)
(* per link of its command (one link: CreateLink; two: CreateLinkBatch),   *)
(* then the repository call.  The handler's lock and group count are in    *)
(* ShortLink and are left out here.                                        *)
(***************************************************************************)
EXTENDS Naturals, Sequences, SafeCache

CONSTANTS
    Creators,       \* goroutines running CreateLink / CreateLinkBatch
    Admins,         \* goroutines running UpdateLink / RemoveFromRecycleBin
    ValidTypes,     \* validType values a command may carry
    BatchSizes,     \* number of links per create command (1 = CreateLink)
    MaxAttempts,    \* maxAttempts of genUniqueShortUri
    PrefixedHits    \* k whose key LockGotoLinkKey+k the filter falsely reports

VARIABLES
    db,                                         \* db[k]: the row of k, or None
    cpc, cn, curl, cvt, ckeys, ctries, cidx, cres,  \* creators
    apc, akey, aval                             \* admins

kvVars == <<cache, negMarker, bloom>>
creatorVars == <<cpc, cn, curl, cvt, ckeys, ctries, cidx, cres>>
adminVars == <<apc, akey, aval>>
vars == <<db, kvVars, creatorVars, adminVars>>

\* The po.Link columns a property tells apart.
Row == [url: Urls, vt: ValidTypes]

\* link.NewCacheValue: a temporary link's value is written with its residual
\* lifetime as TTL, a permanent one without.
CacheValueOf(row) ==
    [url |-> row.url, neverExpire |-> row.vt = "permanent",
     status |-> "active", expires |-> row.vt = "temporary"]

CreatorOutcomes == {"Ok", "TooManyAttempts", "TxFailed", "PutFailed"}

\* No command on k is between its database write and its last cache write.
Quiet(k) ==
    /\ \A c \in Creators : ~(cpc[c] = "put" /\ \E i \in 1..Len(ckeys[c]) : ckeys[c][i] = k)
    /\ \A a \in Admins : ~(apc[a] # "idle" /\ akey[a] = k)

TypeOK ==
    /\ db \in [ShortUris -> Row \cup {None}]
    /\ SafeCacheTypeOK
    /\ cpc \in [Creators -> {"idle", "alloc", "insert", "put"}]
    /\ cn \in [Creators -> BatchSizes]
    /\ curl \in [Creators -> Urls]
    /\ cvt \in [Creators -> ValidTypes]
    /\ \A c \in Creators : ckeys[c] \in Seq(ShortUris) /\ Len(ckeys[c]) <= cn[c]
    /\ ctries \in [Creators -> 0..MaxAttempts - 1]
    /\ cidx \in [Creators -> 1..2]
    /\ cres \in [Creators -> CreatorOutcomes \cup {None}]
    /\ apc \in [Admins -> {"idle", "save", "put", "mark"}]
    /\ akey \in [Admins -> ShortUris]
    /\ aval \in [Admins -> Row \cup {None}]

Init ==
    /\ db = [k \in ShortUris |-> None]
    /\ cache = [k \in ShortUris |-> None]
    /\ negMarker = {}
    /\ bloom = {}
    /\ cpc = [c \in Creators |-> "idle"]
    /\ cn = [c \in Creators |-> CHOOSE n \in BatchSizes : TRUE]
    /\ curl = [c \in Creators |-> CHOOSE u \in Urls : TRUE]
    /\ cvt = [c \in Creators |-> CHOOSE t \in ValidTypes : TRUE]
    /\ ckeys = [c \in Creators |-> <<>>]
    /\ ctries = [c \in Creators |-> 0]
    /\ cidx = [c \in Creators |-> 1]
    /\ cres = [c \in Creators |-> None]
    /\ apc = [a \in Admins |-> "idle"]
    /\ akey = [a \in Admins |-> CHOOSE k \in ShortUris : TRUE]
    /\ aval = [a \in Admins |-> None]
(***************************************************************************)
(* Allocation: Factory.genUniqueShortUri with the sharded ShortUriExists.  *)
(***************************************************************************)

\* ShortUriExists asks ExistsInBloomFilter about the key LockGotoLinkKey+k,
\* while SafePut adds the bare short URI: the filter reports the prefixed
\* key only as a false positive.  A gotoIsNull:k marker still overrides.
ShortUriExists(k) == k \notin negMarker /\ k \in PrefixedHits

MoreAttemptsOffByOne(n) == n <= MaxAttempts - 1
MoreAttempts(n) == n + 1 < MaxAttempts

KeysOf(c) == {ckeys[c][i] : i \in 1..Len(ckeys[c])}

CreatorReturn(c, res) ==
    /\ cpc' = [cpc EXCEPT ![c] = "idle"]
    /\ cres' = [cres EXCEPT ![c] = res]

\* A CreateLink (n = 1) or CreateLinkBatch (n = 2) command arrives.
CStart(c) ==
    /\ cpc[c] = "idle"
    /\ \E n \in BatchSizes, u \in Urls, t \in ValidTypes :
          /\ cn' = [cn EXCEPT ![c] = n]
          /\ curl' = [curl EXCEPT ![c] = u]
          /\ cvt' = [cvt EXCEPT ![c] = t]
    /\ ckeys' = [ckeys EXCEPT ![c] = <<>>]
    /\ ctries' = [ctries EXCEPT ![c] = 0]
    /\ cidx' = [cidx EXCEPT ![c] = 1]
    /\ cres' = [cres EXCEPT ![c] = None]
    /\ cpc' = [cpc EXCEPT ![c] = "alloc"]
    /\ UNCHANGED <<db, kvVars, adminVars>>

\* One round of the loop: HashToBase62(url + uuid) is any short URI.  The
\* batch handler allocates its links one after the other, each with a loop
\* of its own, and returns on the first error.
CAlloc(c) ==
    /\ cpc[c] = "alloc"
    /\ \E k \in ShortUris :
          \/ /\ ShortUriExists(k)
             /\ MoreAttempts(ctries[c])
             /\ ctries' = [ctries EXCEPT ![c] = @ + 1]
             /\ UNCHANGED <<cpc, ckeys, cres>>
          \/ /\ ShortUriExists(k)
             /\ ~MoreAttempts(ctries[c])
             /\ CreatorReturn(c, "TooManyAttempts")
             /\ UNCHANGED <<ckeys, ctries>>
          \/ /\ ~ShortUriExists(k)
             /\ ckeys' = [ckeys EXCEPT ![c] = Append(@, k)]
             /\ ctries' = [ctries EXCEPT ![c] = 0]
             /\ cpc' = [cpc EXCEPT ![c] =
                          IF Len(ckeys[c]) + 1 = cn[c] THEN "insert" ELSE "alloc"]
             /\ UNCHANGED cres
    /\ UNCHANGED <<db, kvVars, cn, curl, cvt, cidx, adminVars>>

(***************************************************************************)
(* CreateLink / CreateLinkBatch of the sharded repository.                 *)
(***************************************************************************)

\* The INSERTs of the transaction hit the unique key on short_uri: a URI
\* already stored, or one the batch allocated twice.
TxConflict(c) ==
    \/ \E k \in KeysOf(c) : db[k] # None
    \/ Len(ckeys[c]) # Cardinality(KeysOf(c))

\* One transaction inserts a t_link and a t_link_goto row per link; any
\* error rolls all of them back and is returned.
CInsert(c) ==
    /\ cpc[c] = "insert"
    /\ \/ /\ TxConflict(c)
          /\ CreatorReturn(c, "TxFailed")
          /\ UNCHANGED db
       \/ /\ ~TxConflict(c)
          /\ db' = [k \in ShortUris |->
                      IF k \in KeysOf(c) THEN [url |-> curl[c], vt |-> cvt[c]] ELSE db[k]]
          /\ cpc' = [cpc EXCEPT ![c] = "put"]
          /\ UNCHANGED cres
    /\ UNCHANGED <<kvVars, cn, curl, cvt, ckeys, ctries, cidx, adminVars>>

\* After the commit, SafePut(goto:k, NewCacheValue(lk), ..., k) for each link
\* in order, from the entity in memory; the first error is returned and the
\* remaining links are not put.
CPut(c) ==
    LET k  == ckeys[c][cidx[c]]
        e  == CacheValueOf([url |-> curl[c], vt |-> cvt[c]])
        ok == SafePutReportsOk(k, e)
        more == ok /\ cidx[c] < cn[c]
    IN  /\ cpc[c] = "put"
        /\ cache' = SafePutCache(k, e)
        /\ bloom' = SafePutBloom(k, e)
        /\ cidx' = [cidx EXCEPT ![c] = IF more THEN @ + 1 ELSE @]
        /\ cpc' = [cpc EXCEPT ![c] = IF more THEN "put" ELSE "idle"]
        /\ cres' = [cres EXCEPT ![c] =
                      IF ~ok THEN "PutFailed" ELSE IF more THEN None ELSE "Ok"]
        /\ UNCHANGED <<db, negMarker, cn, curl, cvt, ckeys, ctries, adminVars>>
(***************************************************************************)
(* UpdateLink and RemoveFromRecycleBin of the sharded repository.          *)
(***************************************************************************)

AdminIdle(a) == apc' = [apc EXCEPT ![a] = "idle"]

\* getLinkPo reads the t_link_goto row and then the t_link row (an error,
\* and no write, when there is none); updateFn applies Link.Update, which
\* changes the shared ValidDate only: the new validType.
\* getLinkPo: the t_link_goto row of k, then the t_link row in its gid;
\* CreateLink writes both in one transaction.
GetLinkPo(k) == db[k]

\* updateFn's Link.Update: a copy receiver, so only the validity type
\* (through the shared *ValidDate) reaches the entity written back.
LinkUpdate(row, t) == [row EXCEPT !.vt = t]

AUpdate(a) ==
    /\ apc[a] = "idle"
    /\ \E k \in ShortUris, t \in ValidTypes :
          /\ GetLinkPo(k) # None
          /\ akey' = [akey EXCEPT ![a] = k]
          /\ aval' = [aval EXCEPT ![a] = LinkUpdate(GetLinkPo(k), t)]
    /\ apc' = [apc EXCEPT ![a] = "save"]
    /\ UNCHANGED <<db, kvVars, creatorVars>>

\* The gid is unchanged, so db.Save(&updatedLinkPo) writes back the whole
\* row read before updateFn.
ASave(a) ==
    /\ apc[a] = "save"
    /\ db' = [db EXCEPT ![akey[a]] = aval[a]]
    /\ apc' = [apc EXCEPT ![a] = "put"]
    /\ UNCHANGED <<kvVars, creatorVars, akey, aval>>

\* Put(goto:k, NewCacheValue(lk), lk.ValidDate().Expiration()): a plain SET.
APut(a) ==
    /\ apc[a] = "put"
    /\ cache' = PutCache(akey[a], CacheValueOf(aval[a]))
    /\ AdminIdle(a)
    /\ aval' = [aval EXCEPT ![a] = None]
    /\ UNCHANGED <<db, negMarker, bloom, creatorVars, akey>>

\* RemoveFromRecycleBin(k): the transaction's query filters on the column
\* fullShortUrl and fails before the recycle-time check and the DELETE; its
\* error is then overwritten by that of SafeDelete(goto:k, gotoIsNull:k),
\* which runs anyway.  SafeDelete's DEL, and its early return when DEL
\* removed nothing.
ARemove(a) ==
    /\ apc[a] = "idle"
    /\ \E k \in ShortUris :
          /\ akey' = [akey EXCEPT ![a] = k]
          /\ \/ /\ cache[k] # None
                /\ cache' = [cache EXCEPT ![k] = None]
                /\ apc' = [apc EXCEPT ![a] = "mark"]
             \/ /\ cache[k] = None
                /\ UNCHANGED <<cache, apc>>
    /\ UNCHANGED <<db, negMarker, bloom, creatorVars, aval>>

\* SafeDelete's second call: SET gotoIsNull:k with no TTL.
AMark(a) ==
    /\ apc[a] = "mark"
    /\ negMarker' = negMarker \cup {akey[a]}
    /\ AdminIdle(a)
    /\ UNCHANGED <<db, cache, bloom, creatorVars, akey, aval>>

\* SaveToRecycleBin(k): the transaction's First filters on the column
\* shortUri, which t_link does not have (it is short_uri), so it fails at
\* its first statement; the error is returned with nothing written and
\* modifyCacheValueStatus is never reached.
ARecycle(a) ==
    /\ apc[a] = "idle"
    /\ \E k \in ShortUris : akey' = [akey EXCEPT ![a] = k]
    /\ UNCHANGED <<db, kvVars, creatorVars, apc, aval>>

\* RecoverFromRecycleBin(k): the transaction's Find filters on the column
\* fullShortUrl, which t_link does not have; the error ends the command
\* before the recycle-time check, the Save and the cache update.
ARecover(a) ==
    /\ apc[a] = "idle"
    /\ \E k \in ShortUris : akey' = [akey EXCEPT ![a] = k]
    /\ UNCHANGED <<db, kvVars, creatorVars, apc, aval>>

Expire(k) == KeyExpires(k) /\ UNCHANGED <<db, creatorVars, adminVars>>

Next ==
    \/ \E c \in Creators : CStart(c) \/ CAlloc(c) \/ CInsert(c) \/ CPut(c)
    \/ \E a \in Admins : AUpdate(a) \/ ASave(a) \/ APut(a) \/ ARemove(a) \/ AMark(a)
                          \/ ARecycle(a) \/ ARecover(a)
    \/ \E k \in ShortUris : Expire(k)

Spec == Init /\ [][Next]_vars

(***************************************************************************)
(* Properties                                                              *)
(***************************************************************************)

\* The write-side invariant of SafePut for the sharded CreateLink and
\* CreateLinkBatch: every stored link whose create has finished is in the
\* Bloom filter, so the resolver's filter check cannot hide it.
FilterCoversStore ==
    \A k \in ShortUris : (db[k] # None /\ Quiet(k)) => k \in bloom

\* A gotoIsNull marker (set by SafeDelete in RemoveFromRecycleBin, never
\* expiring) is only ever set for a short URI whose row is gone: the
\* resolver treats a marked URI as not existing.
MarkerOnlyForGoneLinks ==
    \A k \in negMarker : Quiet(k) => db[k] = None

=============================================================================
