------------------------- MODULE AddInstanceProofs -------------------------
(* Proofs about AddInstance for any number of hosts, instances, requests,  *)
(* writers of the cache and retries.                                       *)
EXTENDS AddInstance, TLAPS

(* Types are kept by every step, also with split mutexes and lost           *)
(* operations; that a handler past its allocation has an instance goes with  *)
(* them, because the status it changes is that of cur[p], and so does that a *)
(* goroutine which waits to list a host has not listed it.                   *)
Typed == TypeOK /\ Located /\ MissedIsUnlisted

LEMMA TypeStep == Typed /\ [Next]_vars => Typed'
<1> SUFFICES ASSUME Typed, [Next]_vars PROVE Typed'
  OBVIOUS
<1> USE HostOfType, LockOfType, RunnerOfType, MaxRetryType
<1> USE DEF Typed, Located, MissedIsUnlisted, TypeOK, HostTypeOK, CacheTypeOK, PCs,
            Searching, Locked, Claimed, Users, hostVars, cacheVars, handlerVars, Goto
<1>1. ASSUME NEW p \in Requests, NEW hosts \in SUBSET Hosts, Invoke(p, hosts)
      PROVE Typed'
  BY <1>1 DEF Invoke
<1>2. ASSUME NEW p \in Requests, Reject(p)
      PROVE Typed'
  BY <1>2 DEF Reject
<1>3. ASSUME NEW p \in Requests, Search(p)
      PROVE Typed'
  <2>1. ASSUME NEW h \in Hosts, ScanCached(p, h)
        PROVE Typed'
    BY <2>1 DEF ScanCached, Answered, Matches
  <2>2. ASSUME NEW h \in Hosts, ScanFetch(p, h)
        PROVE Typed'
    <3>1. ViewOf(h) \in Views
      BY DEF ViewOf, Views
    <3>2. CASE DemandMiss(p, h)
      BY <2>2, <3>2 DEF ScanFetch, DemandMiss, Unasked
    <3>3. CASE DemandFetch(p, h)
      BY <2>2, <3>1, <3>3 DEF ScanFetch, DemandFetch
    <3>4. QED
      BY <2>2, <3>2, <3>3 DEF ScanFetch
  <2>3. ASSUME NEW h \in Hosts, ScanFetched(p, h)
        PROVE Typed'
    BY <2>3 DEF ScanFetched, DemandStore, Answered, Matches
  <2>4. ASSUME NEW h \in Hosts, ScanSkip(p, h)
        PROVE Typed'
    <3>1. CASE DemandFail(p, h)
      BY <2>4, <3>1 DEF ScanSkip, DemandFail, Answered
    <3>2. CASE DemandOrphan(p, h)
      BY <2>4, <3>2 DEF ScanSkip, DemandOrphan, Answered
    <3>3. CASE DemandLeak(p, h)
      <4>1. <<h, demand[p][h]>> \in Hosts \X Views
        BY <3>3 DEF DemandLeak
      <4>2. leaked' \in SUBSET (Hosts \X Views)
        BY <3>3, <4>1 DEF DemandLeak
      <4>3. demand' \in [Requests -> [Hosts -> Views \cup {NoView}]]
        <5>1. demand' = [demand EXCEPT ![p][h] = NoView]
          BY <3>3 DEF DemandLeak
        <5>2. demand \in [Requests -> [Hosts -> Views \cup {NoView}]]
          OBVIOUS
        <5>3. QED
          BY ONLY <5>1, <5>2
      <4>4. UNCHANGED <<lock, cache, held, missed, orphans>>
        BY <3>3 DEF DemandLeak
      <4>5. CacheTypeOK' /\ MissedIsUnlisted'
        <5>1. CacheTypeOK'
          BY <4>2, <4>3, <4>4
        <5>2. MissedIsUnlisted'
          BY <3>3, <4>4 DEF DemandLeak
        <5>3. QED
          BY <5>1, <5>2
      <4>6. QED
        BY <2>4, <4>5 DEF ScanSkip, Answered
    <3>4. QED
      BY <2>4, <3>1, <3>2, <3>3 DEF ScanSkip
  <2>5. ASSUME NEW i \in Instances, FoundByJob(p, i)
        PROVE Typed'
    BY <2>5 DEF FoundByJob
  <2>6. CASE NotFoundByJob(p)
    BY <2>6 DEF NotFoundByJob
  <2>7. CASE PoolSearched(p)
    BY <2>7 DEF PoolSearched
  <2>8. CASE Retry(p)
    BY <2>8 DEF Retry
  <2>9. CASE GiveUpPool(p)
    BY <2>9 DEF GiveUpPool
  <2> QED
    BY <1>3, <2>1, <2>2, <2>3, <2>4, <2>5, <2>6, <2>7, <2>8, <2>9 DEF Search
<1>4. ASSUME NEW p \in Requests, Allocate(p)
      PROVE Typed'
  <2>1. ASSUME NEW i \in Instances, BeginAllocate(p, i)
        PROVE Typed'
    BY <2>1 DEF BeginAllocate, Acquire
  <2>2. ASSUME NEW i \in Instances, SkipCandidate(p, i)
        PROVE Typed'
    BY <2>2 DEF SkipCandidate
  <2>3. CASE UpdateAccepted(p)
    <3>1. cur[p] \in Instances
      BY <2>3 DEF UpdateAccepted
    <3>2. <<p, cur[p]>> \in Requests \X Instances
      BY <3>1
    <3>3. QED
      BY <2>3, <3>2 DEF UpdateAccepted
  <2>4. ASSUME GiveUp(p), ops' \in SUBSET ops
        PROVE Typed'
    BY <2>4 DEF GiveUp, Release
  <2>5. CASE Verified(p)
    BY <2>5 DEF Verified, Release
  <2> QED
    BY <1>4, <2>1, <2>2, <2>3, <2>4, <2>5
       DEF Allocate, UpdateRefused, OperationFails, WaitLost, NotVerified
<1>5. ASSUME NEW p \in Requests, Setup(p)
      PROVE Typed'
  <2> USE DEF Step
  <2>1. CASE ReadState(p)
    BY <2>1 DEF ReadState
  <2>2. CASE Thaw(p)
    BY <2>2 DEF Thaw, Unfreeze, Statuses
  <2>3. CASE ThawFails(p)
    BY <2>3 DEF ThawFails
  <2>4. CASE Recover(p)
    BY <2>4 DEF Recover, Delete, Statuses
  <2>5. CASE CopyScript(p)
    BY <2>5 DEF CopyScript
  <2>6. CASE ExecScript(p)
    <3>1. <<p, cur[p]>> \in Requests \X Instances
      BY <2>6 DEF ExecScript
    <3>2. QED
      BY <2>6, <3>1 DEF ExecScript
  <2>7. CASE Confirm(p)
    BY <2>7 DEF Confirm
  <2>8. CASE CallFails(p)
    BY <2>8 DEF CallFails
  <2> QED
    BY <1>5, <2>1, <2>2, <2>3, <2>4, <2>5, <2>6, <2>7, <2>8 DEF Setup
<1>6. ASSUME NEW p \in Requests, LXDOperation(p)
      PROVE Typed'
  <2>1. ASSUME NEW i \in Instances, Apply(p, i)
        PROVE Typed'
    BY <2>1 DEF Apply, WriteRunner
  <2>2. ASSUME NEW i \in Instances, LateFailure(p, i)
        PROVE Typed'
    BY <2>2 DEF LateFailure
  <2> QED
    BY <1>6, <2>1, <2>2 DEF LXDOperation
<1>7. CASE CacheStep
  <2>1. ASSUME NEW w \in Writers, NEW h \in Hosts, Refresh(w, h)
        PROVE Typed'
    <3>1. ViewOf(h) \in Views
      BY DEF ViewOf, Views
    <3>2. UNCHANGED <<hostVars, handlerVars, ops, ran>>
      BY <1>7 DEF CacheStep
    <3>3. CASE RefreshFetch(w, h)
      BY <3>1, <3>2, <3>3 DEF RefreshFetch, Acquire
    <3>4. CASE RefreshStore(w, h)
      BY <3>2, <3>4 DEF RefreshStore, Release
    <3>5. CASE RefreshFail(w, h)
      BY <3>2, <3>5 DEF RefreshFail, Release
    <3>6. QED
      BY <2>1, <3>3, <3>4, <3>5 DEF Refresh
  <2>2. ASSUME NEW h \in Hosts, Expire(h)
        PROVE Typed'
    BY <1>7, <2>2 DEF CacheStep, Expire
  <2>3. ASSUME NEW late \in leaked, LateStore(late[1], late[2])
        PROVE Typed'
    <3>1. late[1] \in Hosts /\ late[2] \in Views
      OBVIOUS
    <3>2. QED
      BY <1>7, <2>3, <3>1 DEF CacheStep, LateStore
  <2>4. ASSUME NEW o \in orphans, LateFetch(o[1], o[2])
        PROVE Typed'
    <3>1. o[1] \in Requests /\ o[2] \in Hosts
      OBVIOUS
    <3>2. ViewOf(o[2]) \in Views
      BY DEF ViewOf, Views
    <3>3. <<o[2], ViewOf(o[2])>> \in Hosts \X Views
      BY <3>1, <3>2
    <3>4. QED
      BY <1>7, <2>4, <3>3 DEF CacheStep, LateFetch
  <2>5. ASSUME NEW o \in orphans, LateFail(o[1], o[2])
        PROVE Typed'
    BY <1>7, <2>5 DEF CacheStep, LateFail
  <2> QED
    BY <1>7, <2>1, <2>2, <2>3, <2>4, <2>5 DEF CacheStep, Late
<1>8. CASE HostStep
  BY <1>8 DEF HostStep, Environment, Boot, Freeze, Stop, Delete, Statuses
<1>9. CASE UNCHANGED vars
  BY <1>9 DEF vars
<1> QED
  BY <1>1, <1>2, <1>3, <1>4, <1>5, <1>6, <1>7, <1>8, <1>9 DEF Next, RequestStep

LEMMA TypeInit == Init => Typed
  BY RunnerOfType, MaxRetryType
     DEF Typed, Located, MissedIsUnlisted, Init, HostInit, CacheInit, TypeOK, HostTypeOK, CacheTypeOK,
         PCs, Statuses, Users, Locked, Claimed

LEMMA AlwaysTyped == Spec => []Typed
  BY TypeInit, TypeStep, PTL DEF Spec

(* Every variable of the server and of LXD keeps its type. *)
THEOREM TypeCorrect == Spec => []TypeOK
<1>1. Typed => TypeOK
  BY DEF Typed
<1>2. QED
  BY <1>1, AlwaysTyped, PTL
----------------------------------------------------------------------------
(* The other half of IInv: it needs one LXDHost object for each host, and    *)
(* op.Wait to tell when the operation has ended.                             *)
Safe ==
  /\ MutexHeld
  /\ UpdatesAwaited
  /\ ClaimedIsOwned
  /\ ListsAreTrue
  /\ ScriptsRunForOwner

LEMMA SafeStep ==
  ASSUME OneMutexPerHost, LateOps = FALSE, Typed, Safe, Typed', [Next]_vars
  PROVE  Safe'
<1> USE HostOfType, LockOfType, RunnerOfType, NoRunnerFresh, NotFrozenFresh,
        MutexOfOneHost, UsersDisjoint, FreeFresh, NoViewFresh
<1> USE DEF Typed, Located, TypeOK, HostTypeOK, CacheTypeOK, Users, Views,
            Searching, Locked, Claimed, PCs,
            Safe, OneMutexPerHost, MutexHeld, UpdatesAwaited, ClaimedIsOwned,
            ListsAreTrue, TrueOf, ScriptsRunForOwner,
            hostVars, cacheVars, handlerVars, Goto
<1>1. ASSUME NEW p \in Requests, NEW hosts \in SUBSET Hosts, Invoke(p, hosts)
      PROVE Safe'
  BY <1>1 DEF Invoke
<1>2. ASSUME NEW p \in Requests, Reject(p)
      PROVE Safe'
  BY <1>2 DEF Reject
<1>3. ASSUME NEW p \in Requests, Search(p)
      PROVE Safe'
  <2>1. ASSUME NEW h \in Hosts, ScanCached(p, h)
        PROVE Safe'
    BY <2>1 DEF ScanCached, Answered, Matches
  <2>2. ASSUME NEW h \in Hosts, ScanFetch(p, h)
        PROVE Safe'
    BY <2>2 DEF ScanFetch, DemandMiss, DemandFetch, ViewOf
  <2>3. ASSUME NEW h \in Hosts, ScanFetched(p, h)
        PROVE Safe'
    BY <2>3 DEF ScanFetched, DemandStore, Answered, Matches
  <2>4. ASSUME NEW h \in Hosts, ScanSkip(p, h)
        PROVE Safe'
    <3>1. CASE DemandFail(p, h) \/ DemandOrphan(p, h)
      BY <2>4, <3>1 DEF ScanSkip, DemandFail, DemandOrphan, Answered
    <3>2. CASE DemandLeak(p, h)
      <4>1. /\ leaked' = leaked \cup {<<h, demand[p][h]>>}
            /\ demand' = [demand EXCEPT ![p][h] = NoView]
            /\ UNCHANGED <<lock, cache, held, runner>>
        BY <2>4, <3>2 DEF ScanSkip, DemandLeak, Answered
      <4>2. TrueOf(demand[p][h])
        BY <3>2 DEF DemandLeak
      <4>3. \A e \in leaked' : TrueOf(e[2])'
        BY <4>1, <4>2
      <4>4. \A q \in Requests, g \in Hosts :
              demand'[q][g] # NoView => demand'[q][g] = demand[q][g]
        <5>1. demand \in [Requests -> [Hosts -> Views \cup {NoView}]]
          OBVIOUS
        <5>2. QED
          BY ONLY <4>1, <5>1
      <4>5. QED
        BY <2>4, <4>1, <4>3, <4>4 DEF ScanSkip, Answered
    <3>3. QED
      BY <2>4, <3>1, <3>2 DEF ScanSkip
  <2>5. ASSUME NEW i \in Instances, FoundByJob(p, i)
        PROVE Safe'
    BY <2>5 DEF FoundByJob
  <2>6. CASE NotFoundByJob(p)
    BY <2>6 DEF NotFoundByJob
  <2>7. CASE PoolSearched(p)
    BY <2>7 DEF PoolSearched
  <2>8. CASE Retry(p)
    BY <2>8 DEF Retry
  <2>9. CASE GiveUpPool(p)
    BY <2>9 DEF GiveUpPool
  <2> QED
    BY <1>3, <2>1, <2>2, <2>3, <2>4, <2>5, <2>6, <2>7, <2>8, <2>9 DEF Search
<1>4. ASSUME NEW p \in Requests, Allocate(p)
      PROVE Safe'
  <2>1. ASSUME NEW i \in Instances, BeginAllocate(p, i)
        PROVE Safe'
    BY <2>1 DEF BeginAllocate, MutexFree, Acquire
  <2>2. ASSUME NEW i \in Instances, SkipCandidate(p, i)
        PROVE Safe'
    BY <2>2 DEF SkipCandidate
  <2>3. CASE UpdateAccepted(p)
    BY <2>3 DEF UpdateAccepted
  <2>4. CASE UpdateRefused(p)
    BY <2>4 DEF UpdateRefused, GiveUp, Release
  <2>5. CASE OperationFails(p)
    BY <2>5 DEF OperationFails, GiveUp, Release
  <2>6. CASE WaitLost(p)
    BY <2>6 DEF WaitLost
  <2>7. CASE Verified(p)
    BY <2>7 DEF Verified, Release
  <2>8. CASE NotVerified(p)
    BY <2>8 DEF NotVerified, GiveUp, Release
  <2> QED
    BY <1>4, <2>1, <2>2, <2>3, <2>4, <2>5, <2>6, <2>7, <2>8 DEF Allocate
<1>5. ASSUME NEW p \in Requests, Setup(p)
      PROVE Safe'
  <2>1. ASSUME NEW from \in Claimed, NEW to \in Claimed \cup {"failed"},
               Step(p, from, to), UNCHANGED runner
        PROVE (MutexHeld /\ UpdatesAwaited /\ ClaimedIsOwned /\ ListsAreTrue)'
    <3>1. /\ pc[p] = from
          /\ pc' = [pc EXCEPT ![p] = to]
          /\ UNCHANGED <<cacheVars, cands, cur, ops, runner>>
      BY <2>1 DEF Step
    <3>2. pc'[p] = to /\ \A q \in Requests : q # p => pc'[q] = pc[q]
      BY <3>1
    <3>3. MutexHeld'
      BY <3>1, <3>2
    <3>4. UpdatesAwaited'
      BY <3>1, <3>2
    <3>5. ClaimedIsOwned'
      BY <3>1, <3>2
    <3>6. ListsAreTrue'
      BY <3>1, <3>2
    <3>7. QED
      BY <3>3, <3>4, <3>5, <3>6
  <2>2. CASE ReadState(p)
    BY <2>1, <2>2 DEF ReadState
  <2>3. CASE Thaw(p)
    BY <2>1, <2>3 DEF Thaw, Unfreeze
  <2>4. CASE ThawFails(p)
    BY <2>1, <2>4 DEF ThawFails
  <2>5. CASE Recover(p)
    <3>1. UNCHANGED <<runner, ran>> /\ Step(p, "recover", "failed")
      BY <2>5 DEF Recover, Delete
    <3>2. ScriptsRunForOwner'
      BY <3>1
    <3>3. QED
      BY <2>1, <3>1, <3>2
  <2>6. CASE CopyScript(p)
    BY <2>1, <2>6 DEF CopyScript
  <2>7. CASE ExecScript(p)
    <3>1. runner[cur[p]] = RunnerOf[p]
      BY <2>7 DEF ExecScript, Step
    <3>2. UNCHANGED runner /\ ran' = ran \cup {<<p, cur[p]>>}
      BY <2>7 DEF ExecScript
    <3>3. ScriptsRunForOwner'
      BY ONLY <3>1, <3>2, ScriptsRunForOwner DEF ScriptsRunForOwner
    <3>4. (MutexHeld /\ UpdatesAwaited /\ ClaimedIsOwned /\ ListsAreTrue)'
      BY <2>1, <2>7 DEF ExecScript
    <3>5. QED
      BY <3>3, <3>4
  <2>8. CASE Confirm(p)
    BY <2>1, <2>8 DEF Confirm
  <2>9. CASE CallFails(p)
    <3>1. \/ Step(p, "copy", "failed")
          \/ Step(p, "exec", "failed")
          \/ Step(p, "confirm", "failed")
      BY <2>9 DEF CallFails
    <3>2. UNCHANGED <<runner, ran>>
      BY <2>9 DEF CallFails
    <3>3. ScriptsRunForOwner'
      BY <3>2
    <3>4. (MutexHeld /\ UpdatesAwaited /\ ClaimedIsOwned /\ ListsAreTrue)'
      BY <2>1, <3>1, <3>2
    <3>5. QED
      BY <3>3, <3>4
  <2> QED
    BY <1>5, <2>2, <2>3, <2>4, <2>5, <2>6, <2>7, <2>8, <2>9 DEF Setup
<1>6. ASSUME NEW p \in Requests, NEW i \in Instances, Apply(p, i)
      PROVE Safe'
  <2>1. pc[p] = "wait" /\ cur[p] = i /\ runner[i] = NoRunner
    BY <1>6 DEF Apply
  <2>2. runner' = [runner EXCEPT ![i] = RunnerOf[p]]
    BY <1>6 DEF Apply, WriteRunner
  <2>3. pc' = [pc EXCEPT ![p] = "verify"] /\ ops' = ops \ {<<p, i>>}
    BY <1>6, <2>1 DEF Apply
  <2>4. UNCHANGED <<cacheVars, cands, cur, ran>>
    BY <1>6 DEF Apply
  <2>5. \A j \in Instances : runner[j] # NoRunner => runner'[j] = runner[j]
    BY <2>1, <2>2
  <2>6. MutexHeld'
    BY <2>1, <2>3, <2>4
  <2>7. UpdatesAwaited'
    <3>1. ASSUME NEW q \in Requests, q # p, pc[q] \in Locked
          PROVE cur[q] # i
      BY <2>1, <3>1
    <3>2. \A e \in ops' : pc'[e[1]] = "wait" /\ cur'[e[1]] = e[2]
      BY <2>1, <2>3, <2>4
    <3>3. \A q \in Requests : pc'[q] \in {"update", "wait"} => runner'[cur'[q]] = NoRunner
      BY <2>2, <2>3, <2>4, <3>1
    <3>4. QED
      BY <3>2, <3>3
  <2>8. ClaimedIsOwned'
    BY <2>3, <2>4, <2>5
  <2>9. ListsAreTrue'
    BY <2>3, <2>4, <2>5
  <2>10. ScriptsRunForOwner'
    BY <2>4, <2>5
  <2>11. QED
    BY <2>6, <2>7, <2>8, <2>9, <2>10
<1>7. ASSUME NEW p \in Requests, NEW i \in Instances, LateFailure(p, i)
      PROVE Safe'
  BY <1>7 DEF LateFailure
<1>8. CASE CacheStep
  <2>1. UNCHANGED <<hostVars, handlerVars, ops, ran>>
    BY <1>8 DEF CacheStep
  <2>2. ASSUME NEW w \in Writers, NEW h \in Hosts, RefreshFetch(w, h)
        PROVE Safe'
    BY <2>1, <2>2 DEF RefreshFetch, MutexFree, Acquire, ViewOf
  <2>3. ASSUME NEW w \in Writers, NEW h \in Hosts, RefreshStore(w, h)
        PROVE Safe'
    BY <2>1, <2>3 DEF RefreshStore, Release
  <2>4. ASSUME NEW w \in Writers, NEW h \in Hosts, RefreshFail(w, h)
        PROVE Safe'
    BY <2>1, <2>4 DEF RefreshFail, Release
  <2>5. ASSUME NEW h \in Hosts, Expire(h)
        PROVE Safe'
    BY <2>1, <2>5 DEF Expire
  <2>6. ASSUME NEW late \in leaked, LateStore(late[1], late[2])
        PROVE Safe'
    BY <2>1, <2>6 DEF LateStore
  <2>7. ASSUME NEW o \in orphans, LateFetch(o[1], o[2])
        PROVE Safe'
    BY <2>1, <2>7 DEF LateFetch, ViewOf
  <2>8. ASSUME NEW o \in orphans, LateFail(o[1], o[2])
        PROVE Safe'
    BY <2>1, <2>8 DEF LateFail
  <2>9. QED
    BY <1>8, <2>2, <2>3, <2>4, <2>5, <2>6, <2>7, <2>8 DEF CacheStep, Refresh, Late
<1>9. CASE HostStep
  BY <1>9 DEF HostStep, Environment, Boot, Freeze, Stop, Delete
<1>10. CASE UNCHANGED vars
  BY <1>10 DEF vars
<1>11. QED
  BY <1>1, <1>2, <1>3, <1>4, <1>5, <1>6, <1>7, <1>8, <1>9, <1>10
     DEF Next, RequestStep, LXDOperation

LEMMA SafeInit == Init => Safe
  BY DEF Init, HostInit, CacheInit, Safe, MutexHeld, UpdatesAwaited, ClaimedIsOwned,
         ListsAreTrue, ScriptsRunForOwner, Locked, Claimed

(* The inductive invariant, which says why the handlers are safe: mutexes,  *)
(* accepted updates and owners go together, and no list of any age carries  *)
(* a wrong runner name.                                                     *)
THEOREM Inductive ==
  ASSUME OneMutexPerHost, LateOps = FALSE
  PROVE  Spec => []IInv
<1>1. IInv <=> Typed /\ Safe
  BY DEF IInv, Typed, Safe
<1>2. Init => IInv
  BY <1>1, TypeInit, SafeInit
<1>3. IInv /\ [Next]_vars => IInv'
  <2>1. ASSUME Typed, Safe, [Next]_vars
        PROVE  Typed' /\ Safe'
    BY <2>1, TypeStep, SafeStep
  <2>2. IInv' <=> Typed' /\ Safe'
    BY DEF IInv, Typed, Safe
  <2>3. QED
    BY <1>1, <2>1, <2>2
<1>4. QED
  BY <1>2, <1>3, PTL DEF Spec

(* Two runners never work on one instance: the candidates come from lists   *)
(* of any age and LXD checks the etag only when it accepts an update, but   *)
(* the APICallMutex of the host is held until the update is executed.       *)
THEOREM InstancesAreExclusive ==
  ASSUME OneMutexPerHost, LateOps = FALSE
  PROVE  Spec => []ExclusiveUse
<1>1. IInv => ExclusiveUse
  BY DEF IInv, ClaimedIsOwned, ExclusiveUse
<1>2. QED
  BY <1>1, Inductive, PTL

(* The script of a call is started in an instance of its runner, which then *)
(* stays the runner's: the instance is never handed on.                     *)
THEOREM ScriptsStayWithOwner ==
  ASSUME OneMutexPerHost, LateOps = FALSE
  PROVE  Spec => []ScriptsRunForOwner
<1>1. IInv => ScriptsRunForOwner
  BY DEF IInv
<1>2. QED
  BY <1>1, Inductive, PTL
----------------------------------------------------------------------------
(* Most steps touch neither the owner of an instance nor what it runs. *)
LEMMA OwnershipStep ==
  ASSUME Next
  PROVE  \/ UNCHANGED <<runner, ran>>
         \/ \E p \in Requests, i \in Instances : Apply(p, i)
         \/ \E p \in Requests : ExecScript(p)
<1> USE DEF hostVars
<1>1. ASSUME NEW p \in Requests, Search(p)
      PROVE UNCHANGED <<runner, ran>>
  BY <1>1 DEF Search, ScanCached, ScanFetch, ScanFetched, ScanSkip, Answered, FoundByJob,
              NotFoundByJob, PoolSearched, Retry, GiveUpPool
<1>2. ASSUME NEW p \in Requests, Allocate(p)
      PROVE UNCHANGED <<runner, ran>>
  BY <1>2 DEF Allocate, BeginAllocate, SkipCandidate, UpdateAccepted, UpdateRefused,
              OperationFails, WaitLost, Verified, NotVerified, GiveUp
<1>3. ASSUME NEW p \in Requests, Setup(p), ~ExecScript(p)
      PROVE UNCHANGED <<runner, ran>>
  BY <1>3 DEF Setup, ReadState, Thaw, Unfreeze, ThawFails, Recover, Delete, CopyScript,
              Confirm, CallFails
<1>4. ASSUME NEW p \in Requests, NEW hosts \in SUBSET Hosts, Invoke(p, hosts)
      PROVE UNCHANGED <<runner, ran>>
  BY <1>4 DEF Invoke
<1>5. ASSUME NEW p \in Requests, Reject(p)
      PROVE UNCHANGED <<runner, ran>>
  BY <1>5 DEF Reject
<1>6. ASSUME NEW p \in Requests, NEW i \in Instances, LateFailure(p, i)
      PROVE UNCHANGED <<runner, ran>>
  BY <1>6 DEF LateFailure
<1>7. CASE CacheStep
  BY <1>7 DEF CacheStep
<1>8. CASE HostStep
  BY <1>8 DEF HostStep, Environment, Boot, Freeze, Stop, Delete
<1>9. QED
  BY <1>1, <1>2, <1>3, <1>4, <1>5, <1>6, <1>7, <1>8 DEF Next, RequestStep, LXDOperation

(* The handlers, with all their searches, lists, mutexes and LXD operations, *)
(* give an instance one owner, once and for ever, and start only its owner's *)
(* scripts in it: they implement Ownership.                                  *)
THEOREM HandlersKeepOwnership ==
  ASSUME OneMutexPerHost, LateOps = FALSE
  PROVE  Spec => ImplementsOwnership
<1>1. Init => Abstract!Init
  BY DEF Init, HostInit, Abstract!Init
<1>2. ASSUME IInv, [Next]_vars
      PROVE  [Abstract!Next]_(Abstract!vars)
  <2> USE DEF Abstract!vars, Abstract!Next, IInv, TypeOK, HostTypeOK
  <2>1. CASE UNCHANGED <<runner, ran>>
    BY <2>1
  <2>2. ASSUME NEW p \in Requests, NEW i \in Instances, Apply(p, i)
        PROVE Abstract!Next
    <3>1. runner[i] = NoRunner
      BY <1>2, <2>2 DEF Apply, UpdatesAwaited
    <3>2. runner' = [runner EXCEPT ![i] = RunnerOf[p]] /\ UNCHANGED ran
      BY <2>2 DEF Apply, WriteRunner
    <3>3. Abstract!Claim(i, RunnerOf[p])
      BY <3>1, <3>2 DEF Abstract!Claim
    <3>4. QED
      BY <3>3, RunnerOfType
  <2>3. ASSUME NEW p \in Requests, ExecScript(p)
        PROVE Abstract!Next
    <3> DEFINE Serving(j) == {RunnerOf[q] : q \in {r \in Requests : <<r, j>> \in ran}}
    <3>1. PICK i \in Instances :
            i = cur[p] /\ runner[i] = RunnerOf[p] /\ runner[i] # NoRunner
      BY <1>2, <2>3, RunnerOfType, NoRunnerFresh
         DEF ExecScript, Step, ClaimedIsOwned, Located, Locked, Claimed
    <3>2. UNCHANGED runner /\ ran' = ran \cup {<<p, i>>}
      BY <2>3, <3>1 DEF ExecScript, hostVars
    <3>3. Serving(i)' = Serving(i) \cup {runner[i]}
      BY <3>1, <3>2
    <3>4. \A j \in Instances : j # i => Serving(j)' = Serving(j)
      BY <3>2
    <3>5. Abstract!Serve(i)
      BY <3>1, <3>2, <3>3, <3>4 DEF Abstract!Serve
    <3>6. QED
      BY <3>1, <3>5
  <2>4. CASE UNCHANGED vars
    BY <2>4 DEF vars, hostVars
  <2>5. QED
    BY <1>2, <2>1, <2>2, <2>3, <2>4, OwnershipStep
<1>3. QED
  BY <1>1, <1>2, Inductive, PTL DEF Spec, Abstract!Spec, ImplementsOwnership
----------------------------------------------------------------------------
(* Why instances live as InstanceLife says.  Whatever a list of any age shows *)
(* frozen has been frozen; without an owner it is not thawed, so it is frozen *)
(* still, or stopped, or gone.  What boots has never been frozen, hence is in *)
(* no list, and is not among the candidates of any call.                      *)
WasFrozen(i) == runner[i] = NoRunner => status[i] \in {"Frozen", "Stopped", "Gone"}

ShowsFrozen(view) == \A i \in Instances : view[i] # NotFrozen => WasFrozen(i)

UnbornIsFree == \A i \in Instances : status[i] = "Unborn" => runner[i] = NoRunner

ListsShowFrozen ==
  /\ \A h \in Hosts : cache[h] # NoView => ShowsFrozen(cache[h])
  /\ \A w \in Writers, h \in Hosts : held[w][h] # NoView => ShowsFrozen(held[w][h])
  /\ \A p \in Requests, h \in Hosts :
       demand[p][h] # NoView => ShowsFrozen(demand[p][h])
  /\ \A e \in leaked : ShowsFrozen(e[2])

CandidatesWereFrozen ==
  \A p \in Requests :
    /\ \A i \in cands[p] : WasFrozen(i)
    /\ pc[p] \in Locked => WasFrozen(cur[p])

LInv == UnbornIsFree /\ ListsShowFrozen /\ CandidatesWereFrozen

(* Which steps change the status or the owner of an instance. *)
LEMMA HostSteps ==
  ASSUME [Next]_vars
  PROVE  \/ UNCHANGED hostVars
         \/ \E p \in Requests, i \in Instances : Apply(p, i)
         \/ \E p \in Requests : pc[p] = "unfreeze" /\ Unfreeze(cur[p])
         \/ \E p \in Requests : pc[p] = "recover" /\ Delete(cur[p])
         \/ HostStep
<1>1. ASSUME NEW p \in Requests, Search(p)
      PROVE UNCHANGED hostVars
  BY <1>1 DEF Search, ScanCached, ScanFetch, ScanFetched, ScanSkip, Answered, FoundByJob,
              NotFoundByJob, PoolSearched, Retry, GiveUpPool
<1>2. ASSUME NEW p \in Requests, Allocate(p)
      PROVE UNCHANGED hostVars
  BY <1>2 DEF Allocate, BeginAllocate, SkipCandidate, UpdateAccepted, UpdateRefused,
              OperationFails, WaitLost, Verified, NotVerified, GiveUp
<1>3. ASSUME NEW p \in Requests, Setup(p)
      PROVE \/ UNCHANGED hostVars
            \/ pc[p] = "unfreeze" /\ Unfreeze(cur[p])
            \/ pc[p] = "recover" /\ Delete(cur[p])
  BY <1>3 DEF Setup, ReadState, Thaw, ThawFails, Recover, CopyScript, ExecScript,
              Confirm, CallFails, Step
<1>4. ASSUME NEW p \in Requests, NEW hosts \in SUBSET Hosts, Invoke(p, hosts)
      PROVE UNCHANGED hostVars
  BY <1>4 DEF Invoke
<1>5. ASSUME NEW p \in Requests, Reject(p)
      PROVE UNCHANGED hostVars
  BY <1>5 DEF Reject
<1>6. ASSUME NEW p \in Requests, NEW i \in Instances, LateFailure(p, i)
      PROVE UNCHANGED hostVars
  BY <1>6 DEF LateFailure
<1>7. CASE CacheStep \/ UNCHANGED vars
  BY <1>7 DEF CacheStep, vars
<1>8. QED
  BY <1>1, <1>2, <1>3, <1>4, <1>5, <1>6, <1>7 DEF Next, RequestStep, LXDOperation

(* An instance that was frozen is not seen booting, whoever acts. *)
LEMMA WasFrozenStays ==
  ASSUME IInv, UnbornIsFree, [Next]_vars
  PROVE  UnbornIsFree' /\ \A i \in Instances : WasFrozen(i) => WasFrozen(i)'
<1> USE RunnerOfType, NoRunnerFresh
<1> USE DEF IInv, TypeOK, HostTypeOK, UnbornIsFree, WasFrozen
<1>1. CASE UNCHANGED hostVars
  BY <1>1 DEF hostVars
<1>2. ASSUME NEW p \in Requests, NEW i \in Instances, Apply(p, i)
      PROVE UnbornIsFree' /\ \A j \in Instances : WasFrozen(j) => WasFrozen(j)'
  BY <1>2 DEF Apply, WriteRunner, Exists
<1>3. ASSUME NEW p \in Requests, pc[p] \in Claimed, Unfreeze(cur[p]) \/ Delete(cur[p])
      PROVE UnbornIsFree' /\ \A j \in Instances : WasFrozen(j) => WasFrozen(j)'
  <2>1. runner[cur[p]] # NoRunner /\ cur[p] \in Instances
    BY <1>3 DEF ClaimedIsOwned, Located
  <2>2. QED
    BY <1>3, <2>1 DEF Unfreeze, Delete
<1>4. ASSUME NEW i \in Instances, Boot(i) \/ Freeze(i) \/ Stop(i) \/ Delete(i)
      PROVE UnbornIsFree' /\ \A j \in Instances : WasFrozen(j) => WasFrozen(j)'
  BY <1>4 DEF Boot, Freeze, Stop, Delete
<1>5. QED
  BY <1>1, <1>2, <1>3, <1>4, HostSteps DEF Claimed, HostStep, Environment

(* A list stays true in this sense, and a new one is. *)
LEMMA ShowsFrozenStays ==
  ASSUME IInv, UnbornIsFree, [Next]_vars, NEW view, ShowsFrozen(view)
  PROVE  ShowsFrozen(view)'
BY WasFrozenStays DEF ShowsFrozen

LEMMA ViewShowsFrozen ==
  ASSUME NEW h \in Hosts, HostTypeOK
  PROVE  ShowsFrozen(ViewOf(h))
BY DEF ShowsFrozen, ViewOf, WasFrozen

(* A search takes over what lists show. *)
LEMMA MatchesWereFrozen ==
  ASSUME NEW p \in Requests, NEW view, ShowsFrozen(view)
  PROVE  \A i \in Matches(p, view) : WasFrozen(i)
BY RunnerOfType, NotFrozenFresh, NoRunnerFresh DEF Matches, ShowsFrozen

LEMMA ListsStep ==
  ASSUME IInv, LInv, [Next]_vars
  PROVE  ListsShowFrozen'
<1> USE DEF LInv, ListsShowFrozen, cacheVars
<1>1. \A view : ShowsFrozen(view) => ShowsFrozen(view)'
  BY ShowsFrozenStays
<1>2. CASE UNCHANGED cacheVars
  BY <1>1, <1>2
<1>3. ASSUME NEW h \in Hosts, UNCHANGED hostVars
      PROVE ShowsFrozen(ViewOf(h))'
  <2>1. ShowsFrozen(ViewOf(h)) /\ ViewOf(h)' = ViewOf(h)
    BY <1>3, ViewShowsFrozen DEF IInv, TypeOK, hostVars, ViewOf
  <2>2. QED
    BY <1>1, <2>1
<1> USE DEF IInv, TypeOK, CacheTypeOK
<1>4. ASSUME NEW p \in Requests, NEW h \in Hosts, ScanFetch(p, h)
      PROVE ListsShowFrozen'
  <2>1. CASE DemandMiss(p, h)
    BY <1>1, <2>1 DEF DemandMiss
  <2>2. CASE DemandFetch(p, h)
    <3>1. ShowsFrozen(ViewOf(h))' /\ ViewOf(h)' = ViewOf(h)
      BY <1>3, <1>4 DEF ScanFetch, hostVars, ViewOf
    <3>2. demand' = [demand EXCEPT ![p][h] = ViewOf(h)] /\ UNCHANGED <<cache, held, leaked>>
      BY <2>2 DEF DemandFetch
    <3>3. \A q \in Requests, g \in Hosts :
            demand'[q][g] = demand[q][g] \/ demand'[q][g] = ViewOf(h)
      BY <3>2
    <3>4. QED
      BY <1>1, <3>1, <3>2, <3>3
  <2>3. QED
    BY <1>4, <2>1, <2>2 DEF ScanFetch
<1>5. ASSUME NEW p \in Requests, NEW h \in Hosts, ScanFetched(p, h)
      PROVE ListsShowFrozen'
  <2>1. /\ demand[p][h] # NoView
        /\ cache' = [cache EXCEPT ![h] = demand[p][h]]
        /\ demand' = [demand EXCEPT ![p][h] = NoView]
        /\ UNCHANGED <<held, leaked>>
    BY <1>5 DEF ScanFetched, DemandStore
  <2>2. \A q \in Requests, g \in Hosts :
          demand'[q][g] = demand[q][g] \/ demand'[q][g] = NoView
    BY <2>1
  <2>3. \A g \in Hosts : cache'[g] = cache[g] \/ cache'[g] = demand[p][h]
    BY <2>1
  <2>4. QED
    BY <1>1, <2>1, <2>2, <2>3
<1>6. ASSUME NEW p \in Requests, NEW h \in Hosts, ScanSkip(p, h)
      PROVE ListsShowFrozen'
  <2>1. CASE DemandFail(p, h) \/ DemandOrphan(p, h)
    BY <1>1, <2>1 DEF DemandFail, DemandOrphan
  <2>2. CASE DemandLeak(p, h)
    <3>1. /\ leaked' = leaked \cup {<<h, demand[p][h]>>}
          /\ demand' = [demand EXCEPT ![p][h] = NoView]
          /\ UNCHANGED <<cache, held>>
      BY <2>2 DEF DemandLeak
    <3>2. \A q \in Requests, g \in Hosts :
            demand'[q][g] = demand[q][g] \/ demand'[q][g] = NoView
      BY <3>1
    <3>3. ShowsFrozen(demand[p][h])
      BY <2>2 DEF DemandLeak
    <3>4. \A e \in leaked' : ShowsFrozen(e[2])
      BY <3>1, <3>3
    <3>5. QED
      BY <1>1, <3>1, <3>2, <3>4
  <2>3. QED
    BY <1>6, <2>1, <2>2 DEF ScanSkip
<1>7. CASE CacheStep
  <2>1. ASSUME NEW w \in Writers, NEW h \in Hosts, RefreshFetch(w, h)
        PROVE ListsShowFrozen'
    <3>1. ShowsFrozen(ViewOf(h))' /\ ViewOf(h)' = ViewOf(h)
      BY <1>3, <1>7 DEF CacheStep, hostVars, ViewOf
    <3>2. /\ held' = [held EXCEPT ![w][h] = ViewOf(h)]
          /\ UNCHANGED <<cache, demand, leaked>>
      BY <2>1 DEF RefreshFetch
    <3>3. \A v \in Writers, g \in Hosts :
            held'[v][g] = held[v][g] \/ held'[v][g] = ViewOf(h)
      BY <3>2
    <3>4. QED
      BY <1>1, <3>1, <3>2, <3>3
  <2>2. ASSUME NEW w \in Writers, NEW h \in Hosts, RefreshStore(w, h) \/ RefreshFail(w, h)
        PROVE ListsShowFrozen'
    <3>1. /\ held' = [held EXCEPT ![w][h] = NoView] /\ held[w][h] # NoView
          /\ UNCHANGED <<demand, leaked>>
          /\ cache' = cache \/ cache' = [cache EXCEPT ![h] = held[w][h]]
      BY <2>2 DEF RefreshStore, RefreshFail
    <3>2. \A v \in Writers, g \in Hosts :
            held'[v][g] = held[v][g] \/ held'[v][g] = NoView
      BY <3>1
    <3>3. \A g \in Hosts : cache'[g] = cache[g] \/ cache'[g] = held[w][h]
      BY <3>1
    <3>4. QED
      BY <1>1, <3>1, <3>2, <3>3
  <2>3. ASSUME NEW h \in Hosts, Expire(h)
        PROVE ListsShowFrozen'
    BY <1>1, <2>3 DEF Expire
  <2>4. ASSUME NEW late \in leaked, LateStore(late[1], late[2])
        PROVE ListsShowFrozen'
    <3>1. late[1] \in Hosts /\ ShowsFrozen(late[2])
      OBVIOUS
    <3>2. /\ cache' = [cache EXCEPT ![late[1]] = late[2]]
          /\ leaked' \subseteq leaked
          /\ UNCHANGED <<held, demand>>
      BY <2>4 DEF LateStore
    <3>3. \A g \in Hosts : cache'[g] = cache[g] \/ cache'[g] = late[2]
      BY <3>1, <3>2
    <3>4. QED
      BY <1>1, <3>1, <3>2, <3>3
  <2>5. ASSUME NEW o \in orphans, LateFetch(o[1], o[2]) \/ LateFail(o[1], o[2])
        PROVE ListsShowFrozen'
    <3>1. o[2] \in Hosts
      OBVIOUS
    <3>2. ShowsFrozen(ViewOf(o[2]))' /\ ViewOf(o[2])' = ViewOf(o[2])
      BY <1>3, <1>7, <3>1 DEF CacheStep, hostVars, ViewOf
    <3>3. /\ leaked' \subseteq leaked \cup {<<o[2], ViewOf(o[2])>>}
          /\ UNCHANGED <<cache, held, demand>>
      BY <2>5 DEF LateFetch, LateFail
    <3>4. QED
      BY <1>1, <3>2, <3>3
  <2>6. QED
    BY <1>7, <2>1, <2>2, <2>3, <2>4, <2>5 DEF CacheStep, Refresh, Late
<1>8. ASSUME NEW p \in Requests, Allocate(p)
      PROVE UNCHANGED <<cache, held, demand, leaked>>
  BY <1>8 DEF Allocate, BeginAllocate, SkipCandidate, UpdateAccepted, UpdateRefused,
              OperationFails, WaitLost, Verified, NotVerified, GiveUp
<1>9. ASSUME NEW p \in Requests, Setup(p)
      PROVE UNCHANGED <<cache, held, demand, leaked>>
  BY <1>9 DEF Setup, ReadState, Thaw, ThawFails, Recover, CopyScript, ExecScript,
              Confirm, CallFails, Step
<1>10. ASSUME NEW p \in Requests, NEW h \in Hosts, ScanCached(p, h)
       PROVE UNCHANGED <<cache, held, demand, leaked>>
  BY <1>10 DEF ScanCached
<1>11. ASSUME NEW p \in Requests,
              \/ NotFoundByJob(p) \/ PoolSearched(p) \/ Retry(p) \/ GiveUpPool(p)
              \/ \E i \in Instances : FoundByJob(p, i)
       PROVE UNCHANGED <<cache, held, demand, leaked>>
  BY <1>11 DEF NotFoundByJob, PoolSearched, Retry, GiveUpPool, FoundByJob
<1>12. ASSUME NEW p \in Requests,
              \/ Reject(p) \/ LXDOperation(p)
              \/ \E hosts \in SUBSET Hosts : Invoke(p, hosts)
       PROVE UNCHANGED <<cache, held, demand, leaked>>
  BY <1>12 DEF Reject, LXDOperation, Apply, LateFailure, Invoke
<1>13. CASE HostStep \/ UNCHANGED vars
  BY <1>13, <1>2 DEF HostStep, vars
<1>14. CASE UNCHANGED <<cache, held, demand, leaked>>
  BY <1>1, <1>14
<1>15. QED
  BY <1>4, <1>5, <1>6, <1>7, <1>8, <1>9, <1>10, <1>11, <1>12, <1>13, <1>14
     DEF Next, RequestStep, Search

LEMMA CandidatesStep ==
  ASSUME IInv, LInv, [Next]_vars
  PROVE  CandidatesWereFrozen'
<1> USE DEF LInv, CandidatesWereFrozen, IInv, TypeOK, CacheTypeOK, Located, PCs,
            Locked, Claimed, Searching, handlerVars, Goto
<1>1. \A i \in Instances : WasFrozen(i) => WasFrozen(i)'
  BY WasFrozenStays
<1>2. CASE UNCHANGED <<pc, cands, cur>>
  BY <1>1, <1>2
<1>3. ASSUME NEW p \in Requests, NEW h \in Hosts, NEW found,
             found = {} \/ \E view : ShowsFrozen(view) /\ found = Matches(p, view),
             Answered(p, h, found)
      PROVE CandidatesWereFrozen'
  <2>1. \A i \in found : i \in Instances /\ WasFrozen(i)
    BY <1>3, MatchesWereFrozen DEF Matches
  <2>2. cands' = [cands EXCEPT ![p] = @ \cup found] /\ UNCHANGED <<pc, cur>>
    BY <1>3 DEF Answered
  <2>3. QED
    BY <1>1, <2>1, <2>2
<1>4. ASSUME NEW p \in Requests, NEW h \in Hosts,
             ScanCached(p, h) \/ ScanFetched(p, h) \/ ScanSkip(p, h)
      PROVE CandidatesWereFrozen'
  <2>1. cache[h] # NoView => ShowsFrozen(cache[h])
    BY DEF ListsShowFrozen
  <2>2. demand[p][h] # NoView => ShowsFrozen(demand[p][h])
    BY DEF ListsShowFrozen
  <2>3. CASE ScanCached(p, h)
    BY <1>3, <2>1, <2>3 DEF ScanCached
  <2>4. CASE ScanFetched(p, h)
    BY <1>3, <2>2, <2>4 DEF ScanFetched, DemandStore
  <2>5. CASE ScanSkip(p, h)
    BY <1>3, <2>5 DEF ScanSkip
  <2>6. QED
    BY <1>4, <2>3, <2>4, <2>5
<1>5. ASSUME NEW p \in Requests, Setup(p)
      PROVE CandidatesWereFrozen'
  <2>1. /\ UNCHANGED <<cands, cur>>
        /\ \E to \in Claimed \cup {"failed"} : pc' = [pc EXCEPT ![p] = to]
    BY <1>5 DEF Setup, ReadState, Thaw, ThawFails, Recover, CopyScript, ExecScript,
                Confirm, CallFails, Step
  <2>2. QED
    BY <1>1, <2>1
<1>6. ASSUME NEW p \in Requests, Allocate(p)
      PROVE CandidatesWereFrozen'
  <2>1. ASSUME NEW i \in Instances, BeginAllocate(p, i)
        PROVE CandidatesWereFrozen'
    BY <1>1, <2>1 DEF BeginAllocate
  <2>2. ASSUME NEW i \in Instances, SkipCandidate(p, i)
        PROVE CandidatesWereFrozen'
    BY <1>1, <2>2 DEF SkipCandidate
  <2>3. CASE UpdateAccepted(p)
    BY <1>1, <2>3 DEF UpdateAccepted
  <2>4. CASE UpdateRefused(p) \/ OperationFails(p) \/ WaitLost(p) \/ NotVerified(p)
    BY <1>1, <2>4 DEF UpdateRefused, OperationFails, WaitLost, NotVerified, GiveUp
  <2>5. CASE Verified(p)
    BY <1>1, <2>5 DEF Verified
  <2>6. QED
    BY <1>6, <2>1, <2>2, <2>3, <2>4, <2>5 DEF Allocate
<1>7. ASSUME NEW p \in Requests, NEW i \in Instances, Apply(p, i)
      PROVE CandidatesWereFrozen'
  <2>1. UNCHANGED <<cands, cur>> /\ (pc' = pc \/ pc' = [pc EXCEPT ![p] = "verify"])
    BY <1>7 DEF Apply
  <2>2. pc' # pc => pc[p] = "wait"
    BY <1>7 DEF Apply
  <2>3. QED
    BY <1>1, <2>1, <2>2
<1>8. ASSUME NEW p \in Requests,
             \/ NotFoundByJob(p) \/ PoolSearched(p) \/ Retry(p) \/ GiveUpPool(p)
             \/ Reject(p)
             \/ \E hosts \in SUBSET Hosts : Invoke(p, hosts)
             \/ \E i \in Instances : FoundByJob(p, i)
      PROVE CandidatesWereFrozen'
  BY <1>1, <1>8
     DEF NotFoundByJob, PoolSearched, Retry, GiveUpPool, Reject, Invoke, FoundByJob
<1>9. ASSUME NEW p \in Requests,
             \/ \E h \in Hosts : ScanFetch(p, h)
             \/ \E i \in Instances : LateFailure(p, i)
      PROVE UNCHANGED <<pc, cands, cur>>
  BY <1>9 DEF ScanFetch, LateFailure
<1>10. CASE CacheStep \/ HostStep \/ UNCHANGED vars
  BY <1>2, <1>10 DEF CacheStep, HostStep, vars
<1>11. QED
  BY <1>2, <1>4, <1>5, <1>6, <1>7, <1>8, <1>9, <1>10
     DEF Next, RequestStep, Search, LXDOperation

LEMMA LInvInit == Init => LInv
BY DEF Init, HostInit, CacheInit, LInv, UnbornIsFree, ListsShowFrozen,
       CandidatesWereFrozen, WasFrozen, Locked

(* One instance goes on in its life, or none does. *)
LEMMA LifeAdvances ==
  ASSUME UNCHANGED runner, NEW i \in Instances,
         \A j \in Instances : j # i => PhaseOf(j)' = PhaseOf(j),
         NEW from, PhaseOf(i) \in from
  PROVE  Life!Advance(i, from, PhaseOf(i)')
BY DEF Life!Advance

(* What each step does to the life of instances, and that only the others'   *)
(* steps, which leave the calls alone, go beyond ServerPart.                 *)
LEMMA StepOfLife ==
  ASSUME IInv, LInv, [Next]_vars
  PROVE  \/ UNCHANGED Life!vars
         \/ \E i \in Instances : Life!ServerPart(i)
         \/ UNCHANGED <<handlerVars, ops>> /\ \E i \in Instances : Life!OthersPart(i)
<1> USE DEF IInv, TypeOK, HostTypeOK, Statuses
<1>1. CASE UNCHANGED hostVars
  BY <1>1 DEF hostVars, PhaseOf, Life!vars
<1>2. ASSUME NEW p \in Requests, NEW i \in Instances, Apply(p, i)
      PROVE Life!ServerPart(i)
  <2>1. /\ runner[i] = NoRunner /\ runner' = [runner EXCEPT ![i] = RunnerOf[p]]
        /\ UNCHANGED status /\ Exists(i) /\ WasFrozen(i)
    BY <1>2 DEF Apply, WriteRunner, UpdatesAwaited, LInv, CandidatesWereFrozen, Locked
  <2>2. /\ PhaseOf(i) \in {"pooled", "down"}
        /\ PhaseOf(i)' = IF PhaseOf(i) = "pooled" THEN "claimed" ELSE PhaseOf(i)
        /\ \A j \in Instances : j # i => PhaseOf(j)' = PhaseOf(j)
    BY <2>1, RunnerOfType, NoRunnerFresh DEF WasFrozen, Exists, PhaseOf
  <2>3. Life!Claim(i, RunnerOf[p])
    BY <2>1, <2>2 DEF Life!Claim
  <2>4. QED
    BY <2>3, RunnerOfType DEF Life!ServerPart
<1>3. ASSUME NEW p \in Requests, pc[p] \in {"unfreeze", "recover"},
             Unfreeze(cur[p]) \/ Delete(cur[p])
      PROVE \E i \in Instances : Life!ServerPart(i)
  <2>1. PICK i \in Instances : i = cur[p] /\ runner[i] # NoRunner
    BY <1>3, RunnerOfType, NoRunnerFresh DEF Located, ClaimedIsOwned, Claimed
  <2>2. UNCHANGED runner /\ \A j \in Instances : j # i => PhaseOf(j)' = PhaseOf(j)
    BY <1>3, <2>1 DEF Unfreeze, Delete, PhaseOf
  <2>3. CASE Unfreeze(cur[p])
    <3>1. PhaseOf(i) = "claimed" /\ PhaseOf(i)' = "serving"
      BY <2>1, <2>3 DEF Unfreeze, PhaseOf
    <3>2. Life!Thaw(i)
      BY <2>2, <3>1, LifeAdvances DEF Life!Thaw
    <3>3. QED
      BY <3>2 DEF Life!ServerPart
  <2>4. CASE Delete(cur[p])
    <3>1. PhaseOf(i) \in {"making", "down"} /\ PhaseOf(i)' = "gone"
      BY <2>1, <2>4 DEF Delete, PhaseOf
    <3>2. Life!Delete(i)
      BY <2>2, <3>1, LifeAdvances DEF Life!Delete
    <3>3. QED
      BY <2>1, <3>2 DEF Life!ServerPart
  <2>5. QED
    BY <1>3, <2>3, <2>4
<1>4. ASSUME NEW i \in Instances, Boot(i) \/ Freeze(i) \/ Stop(i) \/ Delete(i)
      PROVE Life!OthersPart(i)
  <2>1. UNCHANGED runner /\ \A j \in Instances : j # i => PhaseOf(j)' = PhaseOf(j)
    BY <1>4 DEF Boot, Freeze, Stop, Delete, PhaseOf
  <2>2. CASE Boot(i)
    <3>1. PhaseOf(i) = "unborn" /\ PhaseOf(i)' = "making"
      BY <2>2 DEF Boot, PhaseOf, LInv, UnbornIsFree
    <3>2. Life!Create(i)
      BY <2>1, <3>1, LifeAdvances DEF Life!Create
    <3>3. QED
      BY <3>2 DEF Life!OthersPart
  <2>3. CASE Freeze(i)
    <3>1. PhaseOf(i) = "making" /\ PhaseOf(i)' = "pooled"
      BY <2>3 DEF Freeze, PhaseOf
    <3>2. Life!Offer(i)
      BY <2>1, <3>1, LifeAdvances DEF Life!Offer
    <3>3. QED
      BY <3>2 DEF Life!OthersPart
  <2>4. CASE Stop(i)
    <3>1. PhaseOf(i) \in {"making", "pooled", "claimed", "serving"} /\ PhaseOf(i)' = "down"
      BY <2>4 DEF Stop, PhaseOf
    <3>2. Life!Stop(i)
      BY <2>1, <3>1, LifeAdvances DEF Life!Stop
    <3>3. QED
      BY <3>2 DEF Life!OthersPart
  <2>5. CASE Delete(i)
    <3>1. PhaseOf(i) \in {"making", "down"} /\ PhaseOf(i)' = "gone"
      BY <2>5 DEF Delete, PhaseOf
    <3>2. Life!Delete(i)
      BY <2>1, <3>1, LifeAdvances DEF Life!Delete
    <3>3. QED
      BY <3>2 DEF Life!OthersPart
  <2>6. QED
    BY <1>4, <2>2, <2>3, <2>4, <2>5
<1>5. CASE HostStep
  BY <1>4, <1>5 DEF HostStep, Environment
<1>6. QED
  BY <1>1, <1>2, <1>3, <1>5, HostSteps

LEMMA AlwaysLInv ==
  ASSUME OneMutexPerHost, LateOps = FALSE
  PROVE  Spec => [](IInv /\ LInv)
<1>1. IInv /\ LInv /\ [Next]_vars => LInv'
  BY WasFrozenStays, ListsStep, CandidatesStep DEF LInv
<1>2. QED
  BY <1>1, LInvInit, Inductive, PTL DEF Spec

(* Whatever lists the calls go by, an instance is claimed once and only after *)
(* it was in the pool, is thawed for its owner only, and does not come back:  *)
(* the handlers implement InstanceLife too.                                   *)
THEOREM HandlersKeepLife ==
  ASSUME OneMutexPerHost, LateOps = FALSE
  PROVE  Spec => ImplementsLife
<1>1. Init => Life!Init
  BY DEF Init, HostInit, Life!Init, PhaseOf
<1>2. IInv /\ LInv /\ [Next]_vars => [Life!Next]_(Life!vars)
  BY StepOfLife DEF Life!Next
<1>3. QED
  BY <1>1, <1>2, AlwaysLInv, PTL DEF Spec, Life!Spec, ImplementsLife

(* What the calls themselves do to instances is what the agent reckons with:  *)
(* claims of what was in the pool and has no owner, thaws and deletions of    *)
(* what has one.                                                              *)
THEOREM ServersPart ==
  ASSUME OneMutexPerHost, LateOps = FALSE
  PROVE  Spec => ServerKeepsItsPart
<1>1. IInv /\ LInv /\ [Next]_vars =>
        [\/ UNCHANGED <<handlerVars, ops>>
         \/ UNCHANGED Life!vars
         \/ \E i \in Instances : Life!ServerPart(i)]_vars
  BY StepOfLife
<1>2. QED
  BY <1>1, AlwaysLInv, PTL DEF Spec, ServerKeepsItsPart
=============================================================================
