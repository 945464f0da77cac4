----------------------------- MODULE RedisLock -----------------------------
(***************************************************************************)
(* The distributed lock the cache and the link commands use                *)
(* (lock.DistributedLock, constructed by lock.NewRedisLock).  Its          *)
(* implementation is not part of the source tree; it is modelled from the *)
(* spec (section 4.2): Acquire is a single non-blocking attempt, Release   *)
(* is a compare-and-delete on a per-acquisition fencing token, and a held  *)
(* lock lapses when its TTL elapses.                                       *)
(*                                                                         *)
(* The lock table is a function from lock keys to the holder or Free.      *)
(* The operators below compute the new table; the actions that use them   *)
(* belong to the caller, which is how a Redis call inside a handler step   *)
(* is modelled.                                                            *)
(***************************************************************************)
CONSTANT Free

\* Acquire(key, ttl): SET NX succeeds only when nobody holds the key.
CanAcquire(locks, k) == locks[k] = Free

\* The table after a successful Acquire by owner o.
Acquire(locks, k, o) == [locks EXCEPT ![k] = o]

\* Release(key): the script deletes the key only when the stored fencing
\* token is the caller's; otherwise the call fails and the table is left
\* as it is.
Release(locks, k, o) ==
    IF locks[k] = o THEN [locks EXCEPT ![k] = Free] ELSE locks

\* Whether Release by o succeeds (the script found o's token).
ReleaseSucceeds(locks, k, o) == locks[k] = o

\* The TTL of a held lock elapses: the key disappears whoever holds it.
Lapse(locks, k) == [locks EXCEPT ![k] = Free]
=============================================================================
