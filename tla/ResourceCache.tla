--------------------------- MODULE ResourceCache ---------------------------
(***************************************************************************)
(* The server's in-memory status cache: the last known list of instances   *)
(* of each host (server/pkg/lxdclient/resource_cache.go) and everything    *)
(* that fills it:                                                          *)
(*  - the ticker (server/pkg/resourcecache) and the metrics scrape         *)
(*    (server/pkg/metric/scrape_lxd.go), the Writers, which list and store *)
(*    while they hold the APICallMutex of the host;                        *)
(*  - GetResource (server/pkg/lxdclient/resource.go), which lists under    *)
(*    the mutex when the cache has no entry, and stores after the unlock.  *)
(*                                                                         *)
(* A mutex belongs to an LXDHost object, and ConnectLXDWithTimeout can     *)
(* make two of them for one host: LockOf says which object a user got.     *)
(***************************************************************************)
EXTENDS LXDHost, Naturals, FiniteSets

CONSTANTS
  Requests,   \* the goroutines of AddInstance calls
  Writers,    \* the ticker and the metrics scrape
  Locks,      \* the LXDHost objects, by their APICallMutex
  LockOf,     \* [Users -> [Hosts -> Locks]]: the object a user works with
  Free,       \* an unlocked mutex
  MaxLeaked,  \* bound: abandoned GetResource goroutines at one time
  NoView      \* ErrCacheNotFound, or a listing that is not under way

Users == Requests \cup Writers

ASSUME LockOfType == LockOf \in [Users -> [Hosts -> Locks]]
(* An LXDHost object is made for one host. *)
ASSUME MutexOfOneHost ==
  \A u, v \in Users, g, h \in Hosts : LockOf[u][g] = LockOf[v][h] => g = h
ASSUME UsersDisjoint == Requests \cap Writers = {}
ASSUME FreeFresh == Free \notin Users
ASSUME MaxLeakedType == MaxLeaked \in Nat
ASSUME NoViewFresh == NoView \notin Views

VARIABLES
  lock,       \* holder of each mutex
  cache,      \* inmemoryCache, per host
  held,       \* what a writer has listed and not stored yet
  missed,     \* hosts whose GetResource found no list and has not listed yet
  demand,     \* what a GetResource of a request has listed and not stored yet
  orphans,    \* goroutines that have not listed, and whose caller has timed out
  leaked      \* <<host, list>> of those that have listed since, or before

cacheVars == <<lock, cache, held, missed, demand, orphans, leaked>>

CacheTypeOK ==
  /\ lock \in [Locks -> Users \cup {Free}]
  /\ cache \in [Hosts -> Views \cup {NoView}]
  /\ held \in [Writers -> [Hosts -> Views \cup {NoView}]]
  /\ missed \in [Requests -> SUBSET Hosts]
  /\ demand \in [Requests -> [Hosts -> Views \cup {NoView}]]
  /\ orphans \in SUBSET (Requests \X Hosts)
  /\ leaked \in SUBSET (Hosts \X Views)

CacheInit ==
  /\ lock = [l \in Locks |-> Free]
  /\ cache = [h \in Hosts |-> NoView]
  /\ held = [w \in Writers |-> [h \in Hosts |-> NoView]]
  /\ missed = [p \in Requests |-> {}]
  /\ demand = [p \in Requests |-> [h \in Hosts |-> NoView]]
  /\ orphans = {}
  /\ leaked = {}

(* Mutant of MutexFree: the APICallMutex is not there. *)
NoMutex(u, h) == TRUE

MutexFree(u, h) == lock[LockOf[u][h]] = Free
Acquire(u, h) == lock' = [lock EXCEPT ![LockOf[u][h]] = u]
Release(u, h) == lock' = [lock EXCEPT ![LockOf[u][h]] = Free]
----------------------------------------------------------------------------
(* Lock (the ticker) or TryLock (the scrape), then GetInstances.  The scrape *)
(* has a goroutine per host, the ticker visits the hosts one after another;  *)
(* both are left free to work on several hosts.                              *)
RefreshFetch(w, h) ==
  /\ held[w][h] = NoView
  /\ MutexFree(w, h)
  /\ Acquire(w, h)
  /\ held' = [held EXCEPT ![w][h] = ViewOf(h)]
  /\ UNCHANGED <<cache, missed, demand, orphans, leaked>>

(* SetStatusCache, then the deferred Unlock. *)
RefreshStore(w, h) ==
  /\ held[w][h] # NoView
  /\ cache' = [cache EXCEPT ![h] = held[w][h]]
  /\ held' = [held EXCEPT ![w][h] = NoView]
  /\ Release(w, h)
  /\ UNCHANGED <<missed, demand, orphans, leaked>>

(* The listing, or any call before it, fails: unlocked, nothing stored. *)
RefreshFail(w, h) ==
  /\ held[w][h] # NoView
  /\ held' = [held EXCEPT ![w][h] = NoView]
  /\ Release(w, h)
  /\ UNCHANGED <<cache, missed, demand, orphans, leaked>>

(* GetResource asks the cache. *)
Unasked(p, h) == h \notin missed[p] /\ demand[p][h] = NoView

DemandMiss(p, h) ==
  /\ Unasked(p, h)
  /\ cache[h] = NoView
  /\ missed' = [missed EXCEPT ![p] = @ \cup {h}]
  /\ UNCHANGED <<lock, cache, held, demand, orphans, leaked>>

(* GetResourceFromLXD, whatever the cache has by now: lock, list and unlock *)
(* in one step, because in between only unlocked calls can act, before or   *)
(* after the list call.                                                     *)
DemandFetch(p, h) ==
  /\ h \in missed[p]
  /\ MutexFree(p, h)
  /\ missed' = [missed EXCEPT ![p] = @ \ {h}]
  /\ demand' = [demand EXCEPT ![p][h] = ViewOf(h)]
  /\ UNCHANGED <<lock, cache, held, orphans, leaked>>

(* SetStatusCache of GetResource: the mutex is no longer held. *)
DemandStore(p, h) ==
  /\ demand[p][h] # NoView
  /\ cache' = [cache EXCEPT ![h] = demand[p][h]]
  /\ demand' = [demand EXCEPT ![p][h] = NoView]
  /\ UNCHANGED <<lock, held, missed, orphans, leaked>>

(* It fails, or there is nothing to fail. *)
DemandFail(p, h) ==
  /\ demand[p][h] = NoView
  /\ missed' = [missed EXCEPT ![p] = @ \ {h}]
  /\ UNCHANGED <<lock, cache, held, demand, orphans, leaked>>

(* The timeout of getInstancesWithTimeout: the caller leaves, the goroutine *)
(* of GetResource goes on (and stays for ever in its send, after the store).*)
MayLeak == Cardinality(leaked) + Cardinality(orphans) < MaxLeaked

DemandOrphan(p, h) ==
  /\ h \in missed[p]
  /\ <<p, h>> \notin orphans
  /\ MayLeak
  /\ missed' = [missed EXCEPT ![p] = @ \ {h}]
  /\ orphans' = orphans \cup {<<p, h>>}
  /\ UNCHANGED <<lock, cache, held, demand, leaked>>

DemandLeak(p, h) ==
  /\ demand[p][h] # NoView
  /\ MayLeak
  /\ leaked' = leaked \cup {<<h, demand[p][h]>>}
  /\ demand' = [demand EXCEPT ![p][h] = NoView]
  /\ UNCHANGED <<lock, cache, held, missed, orphans>>

(* A goroutine that was left lists, or fails; and it stores. *)
LateFetch(p, h) ==
  /\ <<p, h>> \in orphans
  /\ MutexFree(p, h)
  /\ orphans' = orphans \ {<<p, h>>}
  /\ leaked' = leaked \cup {<<h, ViewOf(h)>>}
  /\ UNCHANGED <<lock, cache, held, missed, demand>>

LateFail(p, h) ==
  /\ <<p, h>> \in orphans
  /\ orphans' = orphans \ {<<p, h>>}
  /\ UNCHANGED <<lock, cache, held, missed, demand, leaked>>

LateStore(h, view) ==
  /\ <<h, view>> \in leaked
  /\ cache' = [cache EXCEPT ![h] = view]
  /\ leaked' = leaked \ {<<h, view>>}
  /\ UNCHANGED <<lock, held, missed, demand, orphans>>

(* An entry is older than ten minutes. *)
Expire(h) ==
  /\ cache[h] # NoView
  /\ cache' = [cache EXCEPT ![h] = NoView]
  /\ UNCHANGED <<lock, held, missed, demand, orphans, leaked>>

Refresh(w, h) == RefreshFetch(w, h) \/ RefreshStore(w, h) \/ RefreshFail(w, h)

Late ==
  \/ \E o \in orphans : LateFetch(o[1], o[2]) \/ LateFail(o[1], o[2])
  \/ \E late \in leaked : LateStore(late[1], late[2])
============================================================================
