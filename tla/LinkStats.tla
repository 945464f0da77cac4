----------------------------- MODULE LinkStats -----------------------------
(***************************************************************************)
(* The statistics write path: visit events published by GetOriginalUrl,   *)
(* delivered by the RocketMQ event bus (base/mq/event_bus.go) to the      *)
(* RecordLinkVisitListener, which calls LinkStatsRepository.SaveLinkStats  *)
(* (link_stats/adapter/link_stats_repository.go).                         *)
(*                                                                         *)
(* The broker is a SimpleConsumer queue: Receive hides a message for the  *)
(* invisible duration (20 s); a message not acknowledged within it        *)
(* becomes visible again and is delivered anew; an Ack that arrives after *)
(* that carries an expired receipt and is refused.  The receive loop      *)
(* starts one goroutine per message and listener; here a worker is such a *)
(* goroutine, and every Redis or SQL call of SaveLinkStats is one step,   *)
(* any of which may return an error.  The consumer process may crash and  *)
(* restart, losing its goroutines; what they wrote stays written.         *)
(*                                                                         *)
(* One short URI, one day and one hour: every event updates the same      *)
(* counter rows, which is where redeliveries and concurrent deliveries    *)
(* meet.                                                                   *)
(***************************************************************************)
EXTENDS Naturals, FiniteSets, Sequences
LOCAL INSTANCE Functions

CONSTANTS
    Visits,           \* visit events (model values)
    UvOf,             \* UvOf[m]: the uv cookie token of event m
    IpOf,             \* IpOf[m]: the remote address of event m
    Workers,          \* goroutines that can be processing at once
    SubscribeStores,  \* whether Subscribe leaves the listener in listenerMap
    LockerSet,        \* whether the repository was given a DistributedLock
    GotoFirstRow,     \* what First(&linkGotoPo) finds: "none", "sameGroup", "otherGroup"
    MaxDeliveries,    \* bound on deliveries of one event to a listener
    MaxFailures,      \* bound on Redis/SQL calls that return an error
    MaxCrashes,       \* bound on consumer crashes other than panics
    MaxEarlyLapses,   \* bound on invisibility timeouts during processing
    Free              \* an unheld lock

ASSUME GotoFirstRow \in {"none", "sameGroup", "otherGroup"}

LK == INSTANCE RedisLock

VARIABLES
    queue,         \* queue[m]: "unpublished", "visible", "invisible" or "acked"
    deliveries,    \* deliveries[m]: how often m was handed to a listener
    subscribed,    \* listenerMap has an entry for the visit topic
    listenerCount, \* the length of that entry
    wpc, wmsg,     \* worker program counter and the event it processes
    wstale,        \* the worker's receipt expired (the event was redelivered)
    wuv, wuip,     \* the uv and uip flags SaveLinkStats computed
    wdim,          \* index of the next per-dimension upsert
    locks,         \* the lock table (one key: LockGidUpdateKey+shortUri)
    uvSet, uipSet, \* the Redis sets LinkStatsUvKey/LinkStatsUipKey+shortUri
    access,        \* t_link_access_stats row: [pv, uv, uip]
    today,         \* t_link_stats_today row: [pv, uv, uip]
    dimCnt,        \* cnt of the locale, os, browser, device and network rows
    logs,          \* number of t_link_access_logs rows
    total,         \* total_pv, total_uv, total_uip of the t_link row
    countedMsgs,   \* history: events whose access-row upsert has committed
    failures, crashes, earlyLapses

brokerVars == <<queue, deliveries, subscribed, listenerCount>>
workerVars == <<wpc, wmsg, wstale, wuv, wuip, wdim>>
storeVars == <<locks, uvSet, uipSet, access, today, dimCnt, logs, total, countedMsgs>>
faultVars == <<failures, crashes, earlyLapses>>
vars == <<brokerVars, workerVars, storeVars, faultVars>>

\* The five per-dimension tables SaveLinkStats upserts in order.
Dims == <<"locale", "os", "browser", "device", "network">>
NumDims == Len(Dims)
Tokens == {UvOf[m] : m \in Visits}
Addrs == {IpOf[m] : m \in Visits}
StatsLock == "lockGidUpdate"
Counters == [pv: Nat, uv: Nat, uip: Nat]
Zero == [pv |-> 0, uv |-> 0, uip |-> 0]

\* The calls of SaveLinkStats that can return an error, by program counter.
Fallible == {"lock", "sadduv", "sadduip", "access", "today", "dims", "log", "goto"}
WorkerPcs == Fallible \cup {"idle", "total", "ack"}

TypeOK ==
    /\ queue \in [Visits -> {"unpublished", "visible", "invisible", "acked"}]
    /\ deliveries \in [Visits -> 0..MaxDeliveries]
    /\ subscribed \in BOOLEAN /\ listenerCount \in {0, 1}
    /\ wpc \in [Workers -> WorkerPcs] /\ wmsg \in [Workers -> Visits]
    /\ wstale \in [Workers -> BOOLEAN]
    /\ wuv \in [Workers -> {0, 1}] /\ wuip \in [Workers -> {0, 1}]
    /\ wdim \in [Workers -> 1..NumDims]
    /\ locks \in [{StatsLock} -> Workers \cup {Free}]
    /\ uvSet \subseteq Tokens /\ uipSet \subseteq Addrs
    /\ access \in Counters /\ today \in Counters /\ total \in Counters
    /\ dimCnt \in [1..NumDims -> Nat] /\ logs \in Nat
    /\ countedMsgs \subseteq Visits
    /\ failures \in 0..MaxFailures /\ crashes \in 0..MaxCrashes
    /\ earlyLapses \in 0..MaxEarlyLapses

Init ==
    /\ queue = [m \in Visits |-> "unpublished"]
    /\ deliveries = [m \in Visits |-> 0]
    /\ subscribed = FALSE /\ listenerCount = 0
    /\ wpc = [w \in Workers |-> "idle"]
    /\ wmsg = [w \in Workers |-> CHOOSE m \in Visits : TRUE]
    /\ wstale = [w \in Workers |-> FALSE]
    /\ wuv = [w \in Workers |-> 0] /\ wuip = [w \in Workers |-> 0]
    /\ wdim = [w \in Workers |-> 1]
    /\ locks = [k \in {StatsLock} |-> Free]
    /\ uvSet = {} /\ uipSet = {}
    /\ access = Zero /\ today = Zero /\ total = Zero
    /\ dimCnt = [i \in 1..NumDims |-> 0] /\ logs = 0
    /\ countedMsgs = {}
    /\ failures = 0 /\ crashes = 0 /\ earlyLapses = 0

(***************************************************************************)
(* The event bus                                                           *)
(***************************************************************************)
\* Publish: the producer's Send of a marshalled UserVisitEvent succeeded
\* (a failed Send makes GetOriginalUrl fail, and nothing is enqueued).
Publish(m) ==
    /\ queue[m] = "unpublished"
    /\ queue' = [queue EXCEPT ![m] = "visible"]
    /\ UNCHANGED <<deliveries, subscribed, listenerCount, workerVars, storeVars, faultVars>>

\* Subscribe(topic, tag, listener): creates the map entry when missing,
\* then appends the listener to a local copy of the slice; whether the
\* appended slice reaches listenerMap is SubscribeStores.
Subscribe ==
    /\ ~subscribed
    /\ subscribed' = TRUE
    /\ listenerCount' = IF SubscribeStores THEN 1 ELSE 0
    /\ UNCHANGED <<queue, deliveries, workerVars, storeVars, faultVars>>

\* One message of consumer.Receive, hidden for the invisible duration.
\* Without an entry in listenerMap the loop skips it (no ack); otherwise it
\* starts a goroutine per listener, which calls Process and then
\* SaveLinkStats.
Receive(m) ==
    /\ queue[m] = "visible"
    /\ queue' = [queue EXCEPT ![m] = "invisible"]
    /\ IF subscribed /\ listenerCount = 1
         THEN /\ deliveries[m] < MaxDeliveries
              /\ deliveries' = [deliveries EXCEPT ![m] = @ + 1]
              /\ \E w \in Workers :
                /\ wpc[w] = "idle"
                /\ wpc' = [wpc EXCEPT ![w] = "lock"]
                /\ wmsg' = [wmsg EXCEPT ![w] = m]
                /\ wstale' = [wstale EXCEPT ![w] = FALSE]
                /\ wdim' = [wdim EXCEPT ![w] = 1]
                /\ UNCHANGED <<wuv, wuip>>
         ELSE UNCHANGED <<deliveries, workerVars>>
    /\ UNCHANGED <<subscribed, listenerCount, storeVars, faultVars>>

\* Whether some goroutine still holds m's current receipt.
Processing(m) == \E w \in Workers : wpc[w] # "idle" /\ wmsg[w] = m /\ ~wstale[w]

\* The invisible duration of m elapses with nobody working on it (the
\* handler returned an error, or the consumer restarted): m is visible again.
Reappear(m) ==
    /\ queue[m] = "invisible"
    /\ ~Processing(m)
    /\ queue' = [queue EXCEPT ![m] = "visible"]
    /\ UNCHANGED <<deliveries, subscribed, listenerCount, workerVars, storeVars, faultVars>>

\* The invisible duration elapses while a goroutine is still processing m:
\* m is visible again and that goroutine's receipt has expired.
EarlyLapse(m) ==
    /\ queue[m] = "invisible"
    /\ Processing(m)
    /\ earlyLapses < MaxEarlyLapses
    /\ earlyLapses' = earlyLapses + 1
    /\ queue' = [queue EXCEPT ![m] = "visible"]
    /\ wstale' = [w \in Workers |-> wstale[w] \/ wmsg[w] = m]
    /\ UNCHANGED <<deliveries, subscribed, listenerCount, wpc, wmsg, wuv, wuip, wdim,
                   storeVars, failures, crashes>>

\* The consumer process dies: every goroutine is gone, what they wrote to
\* Redis and the database stays, and so does any lock they held.
Restart == /\ wpc' = [w \in Workers |-> "idle"]
           /\ UNCHANGED <<wmsg, wstale, wuv, wuip, wdim>>

Crash ==
    /\ crashes < MaxCrashes
    /\ \E w \in Workers : wpc[w] # "idle"
    /\ crashes' = crashes + 1
    /\ Restart
    /\ UNCHANGED <<brokerVars, storeVars, failures, earlyLapses>>

(***************************************************************************)
(* SaveLinkStats, one step per Redis or SQL call                           *)
(***************************************************************************)
\* The deferred Release: logged when it fails, the result is unaffected.
ReleaseStatsLock(w) == locks' = LK!Release(locks, StatsLock, w)

\* r.locker.Acquire(ctx, lockKey, -1): the returned "acquired" flag is
\* discarded, so the handler goes on whether or not it got the lock.  A
\* repository built by NewLinkStatsRepository has a nil locker, and the
\* call panics, which ends the consumer process.  (A TTL of -1 never
\* expires, so the lock has no Lapse here.)
SLock(w) ==
    /\ wpc[w] = "lock"
    /\ IF LockerSet
         THEN /\ locks' = IF LK!CanAcquire(locks, StatsLock)
                            THEN LK!Acquire(locks, StatsLock, w) ELSE locks
              /\ wpc' = [wpc EXCEPT ![w] = "sadduv"]
              /\ UNCHANGED <<wmsg, wstale, wuv, wuip, wdim>>
         ELSE /\ Restart
              /\ UNCHANGED locks
    /\ UNCHANGED <<brokerVars, uvSet, uipSet, access, today, dimCnt, logs, total,
                   countedMsgs, faultVars>>

\* Mutant: the SADD result is not read and every visit counts as new.
UvFlagIgnoresSAdd(w) == 1

\* uv = 1 exactly when SADD added the token (uvAdded > 0).
UvFlag(w) == IF UvOf[wmsg[w]] \in uvSet THEN 0 ELSE 1

\* SADD LinkStatsUvKey+shortUri UV.
SAddUv(w) ==
    /\ wpc[w] = "sadduv"
    /\ uvSet' = uvSet \cup {UvOf[wmsg[w]]}
    /\ wuv' = [wuv EXCEPT ![w] = UvFlag(w)]
    /\ wpc' = [wpc EXCEPT ![w] = "sadduip"]
    /\ UNCHANGED <<brokerVars, wmsg, wstale, wuip, wdim, locks, uipSet, access, today,
                   dimCnt, logs, total, countedMsgs, faultVars>>

\* SADD LinkStatsUipKey+shortUri RemoteAddr: uip likewise.
SAddUip(w) ==
    /\ wpc[w] = "sadduip"
    /\ uipSet' = uipSet \cup {IpOf[wmsg[w]]}
    /\ wuip' = [wuip EXCEPT ![w] = IF IpOf[wmsg[w]] \in uipSet THEN 0 ELSE 1]
    /\ wpc' = [wpc EXCEPT ![w] = "access"]
    /\ UNCHANGED <<brokerVars, wmsg, wstale, wuv, wdim, locks, uvSet, access, today,
                   dimCnt, logs, total, countedMsgs, faultVars>>

\* Mutant: the upsert adds the uv flag to the wrong column.
BumpUvLost(c, w) == [pv |-> c.pv + 1, uv |-> c.uv, uip |-> c.uip + wuip[w]]

\* The counters of a visit with the worker's flags added.
Bump(c, w) == [pv |-> c.pv + 1, uv |-> c.uv + wuv[w], uip |-> c.uip + wuip[w]]

\* INSERT ... ON CONFLICT (short_uri, date, hour) DO UPDATE pv+1, uv+uv, uip+uip
UpsertAccess(w) ==
    /\ wpc[w] = "access"
    /\ access' = Bump(access, w)
    /\ countedMsgs' = countedMsgs \cup {wmsg[w]}
    /\ wpc' = [wpc EXCEPT ![w] = "today"]
    /\ UNCHANGED <<brokerVars, wmsg, wstale, wuv, wuip, wdim, locks, uvSet, uipSet,
                   today, dimCnt, logs, total, faultVars>>

\* The same upsert on t_link_stats_today (short_uri, date).
UpsertToday(w) ==
    /\ wpc[w] = "today"
    /\ today' = Bump(today, w)
    /\ wpc' = [wpc EXCEPT ![w] = "dims"]
    /\ wdim' = [wdim EXCEPT ![w] = 1]
    /\ UNCHANGED <<brokerVars, wmsg, wstale, wuv, wuip, locks, uvSet, uipSet, access,
                   dimCnt, logs, total, countedMsgs, faultVars>>

\* Mutant: the loop stops before the network upsert.
MoreDimsStopsShort(w) == wdim[w] < NumDims - 1

\* Mutant: one upsert too many after the last dimension.
MoreDimsOffByOne(w) == wdim[w] <= NumDims

\* Whether another per-dimension upsert follows the current one.
MoreDims(w) == wdim[w] < NumDims

\* The locale (after GetLocationByIP), os, browser, device and network
\* upserts, each cnt + 1, in that order.
UpsertDim(w) ==
    /\ wpc[w] = "dims"
    /\ dimCnt' = [dimCnt EXCEPT ![wdim[w]] = @ + 1]
    /\ IF MoreDims(w)
         THEN /\ wdim' = [wdim EXCEPT ![w] = @ + 1]
              /\ UNCHANGED wpc
         ELSE /\ wpc' = [wpc EXCEPT ![w] = "log"]
              /\ UNCHANGED wdim
    /\ UNCHANGED <<brokerVars, wmsg, wstale, wuv, wuip, locks, uvSet, uipSet, access,
                   today, logs, total, countedMsgs, faultVars>>

\* INSERT INTO t_link_access_logs.
InsertLog(w) ==
    /\ wpc[w] = "log"
    /\ logs' = logs + 1
    /\ wpc' = [wpc EXCEPT ![w] = "goto"]
    /\ UNCHANGED <<brokerVars, wmsg, wstale, wuv, wuip, wdim, locks, uvSet, uipSet,
                   access, today, dimCnt, total, countedMsgs, faultVars>>

\* r.db.First(&linkGotoPo): gorm adds no condition for the non-primary-key
\* field ShortUri, so this reads the first t_link_goto row of any link.
\* No row (t_link_goto is written only by the sharded repository) is
\* ErrRecordNotFound, which SaveLinkStats returns.
FirstGoto(w) ==
    /\ wpc[w] = "goto"
    /\ IF GotoFirstRow = "none"
         THEN /\ ReleaseStatsLock(w)
              /\ wpc' = [wpc EXCEPT ![w] = "idle"]
         ELSE /\ wpc' = [wpc EXCEPT ![w] = "total"]
              /\ UNCHANGED locks
    /\ UNCHANGED <<brokerVars, wmsg, wstale, wuv, wuip, wdim, uvSet, uipSet, access,
                   today, dimCnt, logs, total, countedMsgs, faultVars>>

\* The totals after the update: it matches the link's row only when the
\* t_link_goto row read is in the link's own group.
NewTotal(w) == IF GotoFirstRow = "sameGroup" THEN Bump(total, w) ELSE total

\* UPDATE t_link SET total_pv+1, total_uv+uv, total_uip+uip WHERE gid = the
\* row's gid AND short_uri = shortUri; its error is not read.  Then the
\* deferred Release runs and SaveLinkStats returns nil.
UpdateTotal(w) ==
    /\ wpc[w] = "total"
    /\ total' = NewTotal(w)
    /\ ReleaseStatsLock(w)
    /\ wpc' = [wpc EXCEPT ![w] = "ack"]
    /\ UNCHANGED <<brokerVars, wmsg, wstale, wuv, wuip, wdim, uvSet, uipSet, access,
                   today, dimCnt, logs, countedMsgs, faultVars>>

\* The queue after consumer.Ack(ctx, mv): refused when the receipt has expired.
AckedQueue(w) == IF wstale[w] THEN queue ELSE [queue EXCEPT ![wmsg[w]] = "acked"]

\* consumer.Ack after Process returned nil.
AckMsg(w) ==
    /\ wpc[w] = "ack"
    /\ queue' = AckedQueue(w)
    /\ wpc' = [wpc EXCEPT ![w] = "idle"]
    /\ UNCHANGED <<deliveries, subscribed, listenerCount, wmsg, wstale, wuv, wuip, wdim,
                   storeVars, faultVars>>

\* A call of SaveLinkStats returns an error: the handler returns it (after
\* the deferred Release once the lock step is past), the goroutine logs it
\* and does not ack.
Fail(w) ==
    /\ wpc[w] \in Fallible
    /\ wpc[w] = "lock" => LockerSet
    /\ failures < MaxFailures
    /\ failures' = failures + 1
    /\ IF wpc[w] = "lock" THEN UNCHANGED locks ELSE ReleaseStatsLock(w)
    /\ wpc' = [wpc EXCEPT ![w] = "idle"]
    /\ UNCHANGED <<brokerVars, wmsg, wstale, wuv, wuip, wdim, uvSet, uipSet, access,
                   today, dimCnt, logs, total, countedMsgs, crashes, earlyLapses>>

WorkerStep(w) ==
    \/ SLock(w) \/ SAddUv(w) \/ SAddUip(w) \/ UpsertAccess(w) \/ UpsertToday(w)
    \/ UpsertDim(w) \/ InsertLog(w) \/ FirstGoto(w) \/ UpdateTotal(w) \/ AckMsg(w)

Next ==
    \/ \E m \in Visits : Publish(m) \/ Receive(m) \/ Reappear(m) \/ EarlyLapse(m)
    \/ Subscribe
    \/ \E w \in Workers : WorkerStep(w) \/ Fail(w)
    \/ Crash

\* The receive loop polls for ever, the broker's invisibility timer always
\* fires, and a goroutine that has started runs on; publishing, failures,
\* crashes and early timeouts are not forced.
Fairness ==
    /\ WF_vars(Subscribe)
    /\ \A m \in Visits : WF_vars(Receive(m)) /\ WF_vars(Reappear(m))
    /\ \A w \in Workers : WF_vars(WorkerStep(w))

Spec == Init /\ [][Next]_vars /\ Fairness

(***************************************************************************)
(* Properties                                                              *)
(***************************************************************************)
\* No goroutine is inside SaveLinkStats or waiting to ack, and every
\* published event has been acknowledged: the pipeline has settled.
Settled == /\ \A w \in Workers : wpc[w] = "idle"
           /\ \A m \in Visits : queue[m] \in {"unpublished", "acked"}

\* Spec 4.8 and scenario 6 of section 8: the SADD flags make the unique
\* visitor counts idempotent under redelivery, so once the pipeline has
\* settled, the uv of the hourly access row and of the today row equals the
\* number of tokens in the Redis uv set: each token counted exactly once,
\* however often its events were delivered.
UvCountedOnce ==
    Settled => /\ access.uv = Cardinality(uvSet)
               /\ today.uv = Cardinality(uvSet)

\* Step 5 of spec 4.8: every handler that counts a visit in the access row
\* also adds it to the link's totals, so once the pipeline has settled the
\* t_link totals equal the access row.  No passing run checks it: it fails
\* under any failed call, and with the code's t_link_goto (README, 4).
TotalsMatchAccess == Settled => total = access

\* At-least-once delivery (spec 3, 4.9): every published visit event is
\* eventually counted and acknowledged.  It holds only with the listener
\* stored, a locker given and a t_link_goto row present; no passing run
\* checks it, and the README (4) gives the behaviour the code as written has.
EveryVisitAcked == \A m \in Visits : queue[m] # "unpublished" ~> queue[m] = "acked"

\* At-least-once processing (spec 3, 4.9) and event_bus.go's rule that a
\* message is acknowledged only after Process returned nil: through errors,
\* consumer restarts and invisibility timeouts, every counter row that
\* SaveLinkStats writes (the access and today rows, the five dimension rows
\* and the access log) has counted every acknowledged visit, and none has
\* counted more visits than the broker made deliveries.
CountsBetweenAckedAndDelivered ==
    LET acked == Cardinality({m \in Visits : queue[m] = "acked"})
        counts == {access.pv, today.pv, logs} \cup {dimCnt[i] : i \in 1..NumDims}
    IN  \A n \in counts : acked <= n /\ n <= SumFunction(deliveries)

(***************************************************************************)
(* Refinement: the write path implements VisitStats.  A goroutine that has *)
(* done the uv SADD but not yet the access upsert counts as having counted *)
(* its visit: the SADD is the step at which a visit is counted, and the    *)
(* upsert only makes the count visible in the row.                         *)
(***************************************************************************)
Counting == {w \in Workers : wpc[w] \in {"sadduip", "access"}}

Abs == INSTANCE VisitStats WITH
           published <- {m \in Visits : queue[m] # "unpublished"},
           counted <- countedMsgs \cup {wmsg[w] : w \in Counting},
           acked <- {m \in Visits : queue[m] = "acked"},
           pv <- access.pv + Cardinality(Counting),
           uv <- access.uv + Cardinality({w \in Counting : wuv[w] = 1}),
           seenUv <- uvSet

\* The write path, observed through the mapping, only takes VisitStats
\* steps: a visit is acknowledged only after it was counted, and no count
\* is lost or doubled in uv.
VisitStatsSpec == Abs!Spec
=============================================================================
