--------------------------- MODULE ProgressProofs ---------------------------
(* What can be proved of the progress of AddInstance without fairness: every  *)
(* mutex has a holder that is at work, and no step sends a call back.  Both   *)
(* hold for split mutexes and lost operations too.                            *)
EXTENDS AddInstanceProofs

(* Steps that leave mutexes, the holders' places and their lists alone. *)
LEMMA HoldersStay ==
  ASSUME HolderIsAtWork, UNCHANGED <<lock, held>>,
         \A p \in Requests : pc[p] \in Locked => pc'[p] \in Locked /\ cur'[p] = cur[p]
  PROVE  HolderIsAtWork'
BY DEF HolderIsAtWork, AtWork

LEMMA HolderStep ==
  ASSUME Typed, HolderIsAtWork, [Next]_vars
  PROVE  HolderIsAtWork'
<1> USE HostOfType, LockOfType, MutexOfOneHost, UsersDisjoint, FreeFresh
<1> USE DEF Typed, Located, TypeOK, HostTypeOK, CacheTypeOK, Users, Locked, Claimed, PCs,
            cacheVars, handlerVars, Goto
<1>1. ASSUME NEW p \in Requests, NEW i \in Instances, BeginAllocate(p, i)
      PROVE HolderIsAtWork'
  <2>1. lock' = [lock EXCEPT ![LockOf[p][HostOf[i]]] = p] /\ UNCHANGED held
    BY <1>1 DEF BeginAllocate, Acquire
  <2>2. pc' = [pc EXCEPT ![p] = "update"] /\ cur' = [cur EXCEPT ![p] = i] /\ pc[p] = "try"
    BY <1>1 DEF BeginAllocate
  <2>3. QED
    BY <2>1, <2>2 DEF HolderIsAtWork, AtWork
<1>2. ASSUME NEW p \in Requests, pc[p] \in Locked,
             lock' = [lock EXCEPT ![LockOf[p][HostOf[cur[p]]]] = Free],
             \A q \in Requests : q # p => pc'[q] = pc[q] /\ cur'[q] = cur[q],
             UNCHANGED held
      PROVE HolderIsAtWork'
  <2>1. cur[p] \in Instances /\ LockOf[p][HostOf[cur[p]]] \in Locks
    BY <1>2
  <2>2. \A l \in Locks : lock'[l] = IF l = LockOf[p][HostOf[cur[p]]] THEN Free ELSE lock[l]
    BY <1>2, <2>1
  <2>3. \A l \in Locks : lock[l] = p => l = LockOf[p][HostOf[cur[p]]]
    BY DEF HolderIsAtWork, AtWork
  <2>4. \A l \in Locks, u \in Users : lock'[l] = u => lock[l] = u /\ u # p
    BY <2>2, <2>3
  <2>5. ASSUME NEW l \in Locks, NEW u \in Users, u # p, AtWork(u, l)
        PROVE AtWork(u, l)'
    <3>1. CASE u \in Requests
      <4>1. pc'[u] = pc[u] /\ cur'[u] = cur[u]
        BY <1>2, <2>5, <3>1
      <4>2. QED
        BY <2>5, <3>1, <4>1 DEF AtWork
    <3>2. CASE u \in Writers
      BY ONLY <1>2, <2>5, <3>2, UsersDisjoint DEF AtWork
    <3>3. QED
      BY <3>1, <3>2
  <2>6. QED
    BY ONLY <2>4, <2>5, HolderIsAtWork DEF HolderIsAtWork
<1>3. ASSUME NEW p \in Requests, Allocate(p)
      PROVE HolderIsAtWork'
  <2>1. ASSUME NEW i \in Instances, SkipCandidate(p, i)
        PROVE HolderIsAtWork'
    BY <2>1, HoldersStay DEF SkipCandidate
  <2>2. CASE UpdateAccepted(p)
    BY <2>2, HoldersStay DEF UpdateAccepted
  <2>3. CASE UpdateRefused(p) \/ OperationFails(p) \/ WaitLost(p) \/ NotVerified(p)
    BY <1>2, <2>3 DEF UpdateRefused, OperationFails, WaitLost, NotVerified, GiveUp, Release
  <2>4. CASE Verified(p)
    BY <1>2, <2>4 DEF Verified, Release
  <2>5. QED
    BY <1>1, <1>3, <2>1, <2>2, <2>3, <2>4 DEF Allocate
<1>4. ASSUME NEW p \in Requests, Search(p)
      PROVE HolderIsAtWork'
  <2>1. /\ UNCHANGED <<lock, held>>
        /\ pc[p] \notin Locked
        /\ \A q \in Requests : q # p => pc'[q] = pc[q] /\ cur'[q] = cur[q]
    BY <1>4 DEF Search, Searching, ScanCached, ScanFetch, ScanFetched, ScanSkip, Answered,
                DemandMiss, DemandFetch, DemandStore, DemandFail, DemandOrphan,
                DemandLeak, FoundByJob, NotFoundByJob,
                PoolSearched, Retry, GiveUpPool
  <2>2. QED
    BY <2>1, HoldersStay
<1>5. ASSUME NEW p \in Requests, Setup(p)
      PROVE HolderIsAtWork'
  <2>1. /\ UNCHANGED <<lock, held, cur>>
        /\ pc[p] \notin Locked
        /\ \A q \in Requests : q # p => pc'[q] = pc[q]
    BY <1>5 DEF Setup, ReadState, Thaw, ThawFails, Recover, CopyScript, ExecScript, Confirm,
                CallFails, Step
  <2>2. QED
    BY <2>1, HoldersStay
<1>6. ASSUME NEW p \in Requests, NEW i \in Instances, Apply(p, i) \/ LateFailure(p, i)
      PROVE HolderIsAtWork'
  BY <1>6, HoldersStay DEF Apply, LateFailure
<1>7. ASSUME NEW p \in Requests, Reject(p) \/ \E hosts \in SUBSET Hosts : Invoke(p, hosts)
      PROVE HolderIsAtWork'
  BY <1>7, HoldersStay DEF Reject, Invoke
<1>8. CASE CacheStep
  <2>1. UNCHANGED <<pc, cur>>
    BY <1>8 DEF CacheStep
  <2>2. ASSUME NEW w \in Writers, NEW h \in Hosts, RefreshFetch(w, h)
        PROVE HolderIsAtWork'
    <3>1. /\ lock' = [lock EXCEPT ![LockOf[w][h]] = w]
          /\ held' = [held EXCEPT ![w][h] = ViewOf(h)]
      BY <2>2 DEF RefreshFetch, Acquire
    <3>2. ViewOf(h) # NoView
      BY NoViewFresh DEF ViewOf, Views
    <3>3. held'[w][h] # NoView /\
          \A v \in Writers, g \in Hosts : held[v][g] # NoView => held'[v][g] # NoView
      BY <3>1, <3>2
    <3>4. \A l \in Locks, u \in Users :
            lock'[l] = u => lock[l] = u \/ (u = w /\ l = LockOf[w][h])
      BY <3>1
    <3>5. \A l \in Locks, u \in Users : lock[l] = u => AtWork(u, l)'
      <4>1. ASSUME NEW l \in Locks, NEW u \in Users, AtWork(u, l)
            PROVE AtWork(u, l)'
        BY ONLY <2>1, <3>3, <4>1 DEF AtWork
      <4>2. QED
        BY ONLY <4>1, HolderIsAtWork DEF HolderIsAtWork
    <3>6. AtWork(w, LockOf[w][h])'
      BY <3>3 DEF AtWork
    <3>7. QED
      BY ONLY <3>4, <3>5, <3>6 DEF HolderIsAtWork
  <2>3. ASSUME NEW w \in Writers, NEW h \in Hosts, RefreshStore(w, h) \/ RefreshFail(w, h)
        PROVE HolderIsAtWork'
    <3>1. /\ lock' = [lock EXCEPT ![LockOf[w][h]] = Free]
          /\ held' = [held EXCEPT ![w][h] = NoView]
      BY <2>3 DEF RefreshStore, RefreshFail, Release
    <3>2. \A l \in Locks, u \in Users :
            lock'[l] = u => lock[l] = u /\ l # LockOf[w][h]
      BY <3>1
    <3>3. \A v \in Writers, g \in Hosts :
            held'[v][g] = held[v][g] \/ (v = w /\ g = h)
      BY <3>1
    <3>4. ASSUME NEW l \in Locks, NEW u \in Users, lock'[l] = u
          PROVE AtWork(u, l)'
      <4>1. AtWork(u, l) /\ l # LockOf[w][h]
        BY <3>2, <3>4 DEF HolderIsAtWork, AtWork
      <4>2. QED
        BY ONLY <2>1, <3>3, <4>1 DEF AtWork
    <3>5. QED
      BY <3>4 DEF HolderIsAtWork, AtWork
  <2>4. ASSUME UNCHANGED <<lock, held>>
        PROVE HolderIsAtWork'
    BY <2>1, <2>4, HoldersStay
  <2>5. QED
    BY <1>8, <2>2, <2>3, <2>4 DEF CacheStep, Refresh, Expire, Late, LateFetch,
                                       LateFail, LateStore
<1>9. CASE HostStep \/ UNCHANGED vars
  BY <1>9, HoldersStay DEF HostStep, vars
<1>10. QED
  BY <1>3, <1>4, <1>5, <1>6, <1>7, <1>8, <1>9 DEF Next, RequestStep, LXDOperation

(* No mutex is ever forgotten, for any number of calls, writers, hosts and    *)
(* mutexes: who holds one is between Lock and Unlock of its host.             *)
THEOREM MutexesAreNotForgotten == Spec => []HolderIsAtWork
<1>1. Init => HolderIsAtWork
  BY FreeFresh DEF Init, CacheInit, HolderIsAtWork
<1>2. QED
  BY <1>1, HolderStep, AlwaysTyped, PTL DEF Spec
----------------------------------------------------------------------------
Place(p) == <<pc[p], toScan[p], cands[p], retried[p], missed[p], demand[p]>>

OthersStay(p) == \A q \in Requests : q # p => UNCHANGED Place(q)

(* A call that enters a later stage is nearer to its end. *)
LEMMA LaterStage ==
  ASSUME NEW p \in Requests, retried'[p] = retried[p],
         StagesLeft[pc'[p]] < StagesLeft[pc[p]]
  PROVE  Nearer(p)
BY DEF Nearer

LEMMA InStage ==
  ASSUME NEW p \in Requests, retried'[p] = retried[p],
         StagesLeft[pc'[p]] = StagesLeft[pc[p]], NearerInStage(p)
  PROVE  Nearer(p)
BY DEF Nearer

(* A host has answered the search. *)
LEMMA AnsweredIsNearer ==
  ASSUME Typed, NEW p \in Requests, NEW h \in toScan[p], NEW found, Answered(p, h, found),
         \A q \in Requests : q # p => UNCHANGED <<missed[q], demand[q]>>
  PROVE  Nearer(p) /\ OthersStay(p)
<1> USE DEF Typed, TypeOK
<1>1. /\ UNCHANGED <<pc, retried>>
      /\ toScan' = [toScan EXCEPT ![p] = @ \ {h}]
      /\ cands' = [cands EXCEPT ![p] = @ \cup found]
  BY DEF Answered
<1>2. Fewer(toScan'[p], toScan[p])
  BY <1>1 DEF Fewer
<1>3. Nearer(p)
  BY <1>1, <1>2, InStage DEF NearerInStage
<1>4. OthersStay(p)
  BY <1>1 DEF OthersStay, Place
<1>5. QED
  BY <1>3, <1>4

LEMMA SearchIsNearer ==
  ASSUME Typed, NEW p \in Requests, Search(p)
  PROVE  Nearer(p) /\ OthersStay(p)
<1> USE DEF Typed, TypeOK, CacheTypeOK, Goto
<1>1. ASSUME NEW h \in Hosts, ScanCached(p, h) \/ ScanFetched(p, h) \/ ScanSkip(p, h)
      PROVE Nearer(p) /\ OthersStay(p)
  <2>1. h \in toScan[p] /\ \E found : Answered(p, h, found)
    BY <1>1 DEF ScanCached, ScanFetched, ScanSkip
  <2>2. \A q \in Requests : q # p => UNCHANGED <<missed[q], demand[q]>>
    BY <1>1 DEF ScanCached, ScanFetched, ScanSkip, DemandStore, DemandFail, DemandOrphan,
                DemandLeak, cacheVars
  <2>3. QED
    BY <2>1, <2>2, AnsweredIsNearer
<1>2. ASSUME NEW h \in Hosts, ScanFetch(p, h)
      PROVE Nearer(p) /\ OthersStay(p)
  <2>1. UNCHANGED <<pc, retried, toScan, cands>>
    BY <1>2 DEF ScanFetch, handlerVars
  <2>2. CASE DemandMiss(p, h)
    <3>1. /\ h \notin missed[p]
          /\ missed' = [missed EXCEPT ![p] = @ \cup {h}]
          /\ UNCHANGED demand
      BY <2>2 DEF DemandMiss, Unasked
    <3>2. Unlisted(p)' = Unlisted(p) /\ Fewer(missed[p], missed'[p])
      BY <3>1 DEF Fewer, Unlisted
    <3>3. Nearer(p)
      BY <2>1, <3>2, InStage DEF NearerInStage
    <3>4. QED
      BY <2>1, <3>1, <3>3 DEF OthersStay, Place
  <2>3. CASE DemandFetch(p, h)
    <3>1. /\ demand[p][h] = NoView
          /\ missed' = [missed EXCEPT ![p] = @ \ {h}]
          /\ demand' = [demand EXCEPT ![p][h] = ViewOf(h)]
      BY <2>3 DEF DemandFetch, MissedIsUnlisted
    <3>2. ViewOf(h) # NoView
      BY NoViewFresh, NotFrozenFresh DEF ViewOf, Views, HostTypeOK
    <3>3. \A g \in Hosts : demand'[p][g] = IF g = h THEN ViewOf(h) ELSE demand[p][g]
      BY <3>1
    <3>4. Fewer(Unlisted(p)', Unlisted(p))
      BY <3>1, <3>2, <3>3 DEF Fewer, Unlisted
    <3>5. Nearer(p)
      BY <2>1, <3>4, InStage DEF NearerInStage
    <3>6. QED
      BY <2>1, <3>1, <3>5 DEF OthersStay, Place
  <2>4. QED
    BY <1>2, <2>2, <2>3 DEF ScanFetch
<1>3. ASSUME NEW i \in Instances, FoundByJob(p, i)
      PROVE Nearer(p) /\ OthersStay(p)
  BY <1>3, LaterStage DEF FoundByJob, StagesLeft, OthersStay, Place, cacheVars
<1>4. CASE NotFoundByJob(p) \/ PoolSearched(p) \/ GiveUpPool(p)
  BY <1>4, LaterStage
     DEF NotFoundByJob, PoolSearched, GiveUpPool, StagesLeft, OthersStay, Place, cacheVars
<1>5. CASE Retry(p)
  BY <1>5 DEF Retry, Nearer, OthersStay, Place, cacheVars
<1>6. QED
  BY <1>1, <1>2, <1>3, <1>4, <1>5 DEF Search

LEMMA AllocateIsNearer ==
  ASSUME Typed, NEW p \in Requests, Allocate(p)
  PROVE  Nearer(p) /\ OthersStay(p)
<1> USE DEF Typed, TypeOK, Goto
<1>1. ASSUME NEW i \in Instances, BeginAllocate(p, i) \/ SkipCandidate(p, i)
      PROVE Nearer(p) /\ OthersStay(p)
  <2>1. /\ UNCHANGED <<retried, toScan, missed, demand>> /\ pc[p] = "try"
        /\ pc' = pc \/ pc' = [pc EXCEPT ![p] = "update"]
        /\ cands' = [cands EXCEPT ![p] = @ \ {i}] /\ i \in cands[p]
    BY <1>1 DEF BeginAllocate, SkipCandidate, cacheVars
  <2>2. NearerInStage(p)
    BY <2>1 DEF NearerInStage, Fewer
  <2>3. QED
    BY <2>1, <2>2, InStage DEF StagesLeft, OthersStay, Place
<1>2. ASSUME NEW from \in Locked, NEW to \in {"wait", "try"}, from # to,
             from = "update" \/ to = "try",
             pc[p] = from, pc' = [pc EXCEPT ![p] = to],
             UNCHANGED <<retried, toScan, cands, missed, demand>>
      PROVE Nearer(p) /\ OthersStay(p)
  <2>1. NearerInStage(p)
    BY <1>2 DEF NearerInStage, StepsLeft, Locked
  <2>2. QED
    BY <1>2, <2>1, InStage DEF StagesLeft, OthersStay, Place, Locked
<1>3. CASE UpdateAccepted(p)
  BY <1>2, <1>3 DEF UpdateAccepted, Locked, cacheVars
<1>4. CASE UpdateRefused(p) \/ OperationFails(p) \/ WaitLost(p) \/ NotVerified(p)
  BY <1>2, <1>4 DEF UpdateRefused, OperationFails, WaitLost, NotVerified, GiveUp, Locked
<1>5. CASE Verified(p)
  BY <1>5, LaterStage DEF Verified, StagesLeft, OthersStay, Place
<1>6. QED
  BY <1>1, <1>3, <1>4, <1>5 DEF Allocate

LEMMA SetupIsNearer ==
  ASSUME Typed, NEW p \in Requests, Setup(p)
  PROVE  Nearer(p) /\ OthersStay(p)
<1> USE DEF Typed, TypeOK
<1>1. ASSUME NEW from, NEW to, Step(p, from, to), StagesLeft[to] < StagesLeft[from]
      PROVE Nearer(p) /\ OthersStay(p)
  BY <1>1, LaterStage DEF Step, Goto, OthersStay, Place, cacheVars
<1>2. QED
  BY <1>1 DEF Setup, ReadState, Thaw, ThawFails, Recover, CopyScript, ExecScript,
              Confirm, CallFails, StagesLeft

(* Whatever a call does and whatever others do to it, when it moves at all it *)
(* gets nearer to its end; so the count of rounds, the hosts and the          *)
(* candidates bound its steps (addInstancePoolMode, findInstances).           *)
THEOREM CallsComeNearer == Spec => CallsGetNearer
<1>1. ASSUME Typed, [Next]_vars, NEW p \in Requests
      PROVE UNCHANGED Place(p) \/ Nearer(p)
  <2> USE DEF Typed, TypeOK, Goto
  <2>1. ASSUME NEW q \in Requests, Search(q) \/ Allocate(q) \/ Setup(q)
        PROVE UNCHANGED Place(p) \/ Nearer(p)
    BY <1>1, <2>1, SearchIsNearer, AllocateIsNearer, SetupIsNearer DEF OthersStay
  <2>2. ASSUME NEW q \in Requests, NEW i \in Instances, Apply(q, i)
        PROVE UNCHANGED Place(p) \/ Nearer(p)
    <3>1. UNCHANGED <<toScan, cands, retried, missed, demand>>
      BY <2>2 DEF Apply, cacheVars
    <3>2. CASE p # q \/ pc' = pc
      BY <1>1, <2>2, <3>1, <3>2 DEF Apply, Place
    <3>3. CASE p = q /\ pc' # pc
      <4>1. pc[p] = "wait" /\ pc'[p] = "verify"
        BY <1>1, <2>2, <3>3 DEF Apply
      <4>2. NearerInStage(p)
        BY <3>1, <4>1 DEF NearerInStage, Locked, StepsLeft
      <4>3. QED
        BY <3>1, <4>1, <4>2, InStage DEF StagesLeft
    <3>4. QED
      BY <3>2, <3>3
  <2>3. ASSUME NEW q \in Requests, NEW i \in Instances, LateFailure(q, i)
        PROVE UNCHANGED Place(p)
    BY <2>3 DEF LateFailure, Place, cacheVars, handlerVars
  <2>4. ASSUME NEW q \in Requests, Reject(q) \/ \E hosts \in SUBSET Hosts : Invoke(q, hosts)
        PROVE UNCHANGED Place(p) \/ Nearer(p)
    <3>1. /\ UNCHANGED <<cands, retried, missed, demand>> /\ pc[q] = "idle"
          /\ \E l \in {"byjob", "failed"} : pc' = [pc EXCEPT ![q] = l]
          /\ p # q => toScan'[p] = toScan[p]
      BY <1>1, <2>4 DEF Reject, Invoke, cacheVars
    <3>2. CASE p = q
      BY <1>1, <3>1, <3>2, LaterStage DEF StagesLeft
    <3>3. CASE p # q
      BY <1>1, <3>1, <3>3 DEF Place
    <3>4. QED
      BY <3>2, <3>3
  <2>5. CASE CacheStep
    BY <2>5 DEF CacheStep, Refresh, RefreshFetch, RefreshStore, RefreshFail, Expire,
                Late, LateFetch, LateFail, LateStore, handlerVars, Place
  <2>6. CASE HostStep \/ UNCHANGED vars
    BY <2>6 DEF HostStep, vars, cacheVars, handlerVars, Place
  <2>7. QED
    BY <1>1, <2>1, <2>2, <2>3, <2>4, <2>5, <2>6 DEF Next, RequestStep, LXDOperation
<1>2. Typed /\ [Next]_vars =>
        [\A p \in Requests :
           \/ UNCHANGED <<pc[p], toScan[p], cands[p], retried[p], missed[p], demand[p]>>
           \/ Nearer(p)]_vars
  BY <1>1 DEF Place
<1>3. QED
  BY <1>2, AlwaysTyped, PTL DEF Spec, CallsGetNearer
=============================================================================
