------------------------ MODULE LateOperationsProofs ------------------------
(* Proofs about AddInstance when op.Wait may give up on an operation that   *)
(* LXD executes later (LateOps).  An owner can be overwritten then, and the *)
(* invariant of AddInstanceProofs is lost; but as long as the calls are of  *)
(* different runners, none of them is a retry of another, and instances are *)
(* still exclusive.                                                         *)
EXTENDS AddInstanceProofs

RunnersDiffer == \A p, q \in Requests : RunnerOf[p] = RunnerOf[q] => p = q

(* A runner name is written by a call that is past its search by job, so    *)
(* that search finds nothing.                                               *)
Begun(p) == pc[p] \notin {"idle", "byjob"}

NamesOfBegun(view) ==
  \A i \in Instances, p \in Requests : view[i] = RunnerOf[p] => Begun(p)

NamesAreBegun ==
  /\ \A e \in ops : Begun(e[1])
  /\ NamesOfBegun(runner)
  /\ \A h \in Hosts : cache[h] # NoView => NamesOfBegun(cache[h])
  /\ \A w \in Writers, h \in Hosts : held[w][h] # NoView => NamesOfBegun(held[w][h])
  /\ \A p \in Requests, h \in Hosts : demand[p][h] # NoView => NamesOfBegun(demand[p][h])
  /\ \A e \in leaked : NamesOfBegun(e[2])
  /\ \A p \in Requests : ~Begun(p) => cands[p] = {}

(* What has been claimed has an owner, whoever that is by now, and so nobody *)
(* else begins to allocate it.                                               *)
ClaimedIsNamed == \A p \in Requests : pc[p] \in Claimed => runner[cur[p]] # NoRunner

Alone ==
  \A p, q \in Requests :
    p # q /\ pc[p] \in Locked \cup Claimed /\ pc[q] \in Claimed => cur[p] # cur[q]

LateSafe == MutexHeld /\ NamesAreBegun /\ ClaimedIsNamed /\ Alone

LEMMA LateInit == Init => LateSafe
BY RunnerOfType, NoRunnerFresh
DEF Init, HostInit, CacheInit, LateSafe, MutexHeld, NamesAreBegun, NamesOfBegun, Begun,
    ClaimedIsNamed, Alone, Locked, Claimed

LEMMA LateStep ==
  ASSUME OneMutexPerHost, RunnersDiffer, Typed, LateSafe, Typed', [Next]_vars
  PROVE  LateSafe'
<1> USE HostOfType, LockOfType, RunnerOfType, NoRunnerFresh, NotFrozenFresh,
        MutexOfOneHost, UsersDisjoint, FreeFresh, NoViewFresh
<1> USE DEF Typed, Located, TypeOK, HostTypeOK, CacheTypeOK, Users, Views,
            Searching, Locked, Claimed, PCs,
            LateSafe, OneMutexPerHost, RunnersDiffer, MutexHeld, NamesAreBegun,
            NamesOfBegun, Begun, ClaimedIsNamed, Alone,
            hostVars, cacheVars, handlerVars, Goto
<1>1. ASSUME NEW p \in Requests, NEW hosts \in SUBSET Hosts, Invoke(p, hosts)
      PROVE LateSafe'
  BY <1>1 DEF Invoke
<1>2. ASSUME NEW p \in Requests, Reject(p)
      PROVE LateSafe'
  BY <1>2 DEF Reject
<1>3. ASSUME NEW p \in Requests, Search(p)
      PROVE LateSafe'
  <2>1. ASSUME NEW h \in Hosts, ScanCached(p, h)
        PROVE LateSafe'
    BY <2>1 DEF ScanCached, Answered, Matches
  <2>2. ASSUME NEW h \in Hosts, ScanFetch(p, h)
        PROVE LateSafe'
    <3>1. CASE DemandMiss(p, h)
      BY <2>2, <3>1 DEF ScanFetch, DemandMiss
    <3>2. CASE DemandFetch(p, h)
      BY <2>2, <3>2 DEF ScanFetch, DemandFetch, ViewOf
    <3>3. QED
      BY <2>2, <3>1, <3>2 DEF ScanFetch
  <2>3. ASSUME NEW h \in Hosts, ScanFetched(p, h)
        PROVE LateSafe'
    BY <2>3 DEF ScanFetched, DemandStore, Answered, Matches
  <2>4. ASSUME NEW h \in Hosts, ScanSkip(p, h)
        PROVE LateSafe'
    <3>1. CASE DemandFail(p, h) \/ DemandOrphan(p, h)
      BY <2>4, <3>1 DEF ScanSkip, DemandFail, DemandOrphan, Answered
    <3>2. CASE DemandLeak(p, h)
      <4>1. /\ leaked' = leaked \cup {<<h, demand[p][h]>>}
            /\ demand' = [demand EXCEPT ![p][h] = NoView]
            /\ cands' = [cands EXCEPT ![p] = @ \cup {}]
            /\ UNCHANGED <<lock, cache, held, runner, pc, cur, ops>>
        BY <2>4, <3>2 DEF ScanSkip, DemandLeak, Answered
      <4>2. \A view : NamesOfBegun(view)' <=> NamesOfBegun(view)
        BY <4>1
      <4>3. NamesOfBegun(demand[p][h])
        BY <3>2 DEF DemandLeak
      <4>4. \A e \in leaked' : NamesOfBegun(e[2])'
        BY ONLY <4>1, <4>2, <4>3, NamesAreBegun DEF NamesAreBegun
      <4>5. \A q \in Requests, g \in Hosts :
              demand'[q][g] # NoView => demand'[q][g] = demand[q][g]
        <5>1. demand \in [Requests -> [Hosts -> Views \cup {NoView}]]
          OBVIOUS
        <5>2. QED
          BY ONLY <4>1, <5>1
      <4>6. cands' = cands
        BY <4>1
      <4>7. NamesAreBegun'
        BY <4>1, <4>4, <4>5, <4>6
      <4>8. QED
        BY <4>1, <4>7
    <3>3. QED
      BY <2>4, <3>1, <3>2 DEF ScanSkip
  <2>5. ASSUME NEW i \in Instances, FoundByJob(p, i)
        PROVE LateSafe'
    BY <2>5 DEF FoundByJob
  <2>6. CASE NotFoundByJob(p)
    BY <2>6 DEF NotFoundByJob
  <2>7. CASE PoolSearched(p)
    BY <2>7 DEF PoolSearched
  <2>8. CASE Retry(p)
    BY <2>8 DEF Retry
  <2>9. CASE GiveUpPool(p)
    BY <2>9 DEF GiveUpPool
  <2> QED
    BY <1>3, <2>1, <2>2, <2>3, <2>4, <2>5, <2>6, <2>7, <2>8, <2>9 DEF Search
<1>4. ASSUME NEW p \in Requests, Allocate(p)
      PROVE LateSafe'
  <2>1. ASSUME NEW i \in Instances, BeginAllocate(p, i)
        PROVE LateSafe'
    BY <2>1 DEF BeginAllocate, MutexFree, Acquire
  <2>2. ASSUME NEW i \in Instances, SkipCandidate(p, i)
        PROVE LateSafe'
    BY <2>2 DEF SkipCandidate
  <2>3. CASE UpdateAccepted(p)
    BY <2>3 DEF UpdateAccepted
  <2>4. ASSUME pc[p] \in Locked, GiveUp(p), ops' \subseteq ops
        PROVE LateSafe'
    BY <2>4 DEF GiveUp, Release
  <2>5. CASE Verified(p)
    BY <2>5 DEF Verified, Release
  <2>6. CASE UpdateRefused(p) \/ OperationFails(p) \/ WaitLost(p) \/ NotVerified(p)
    BY <2>4, <2>6 DEF UpdateRefused, OperationFails, WaitLost, NotVerified
  <2> QED
    BY <1>4, <2>1, <2>2, <2>3, <2>5, <2>6 DEF Allocate
<1>5. ASSUME NEW p \in Requests, Setup(p)
      PROVE LateSafe'
  <2>1. ASSUME NEW from \in Claimed, NEW to \in Claimed \cup {"failed"},
               Step(p, from, to), UNCHANGED runner
        PROVE LateSafe'
    BY <2>1 DEF Step
  <2>2. CASE ReadState(p)
    BY <2>1, <2>2 DEF ReadState
  <2>3. CASE Thaw(p)
    BY <2>1, <2>3 DEF Thaw, Unfreeze
  <2>4. CASE ThawFails(p)
    BY <2>1, <2>4 DEF ThawFails
  <2>5. CASE Recover(p)
    <3>1. UNCHANGED runner /\ Step(p, "recover", "failed")
      BY <2>5 DEF Recover, Delete
    <3>2. QED
      BY <2>1, <3>1
  <2>6. CASE CopyScript(p)
    BY <2>1, <2>6 DEF CopyScript
  <2>7. CASE ExecScript(p)
    BY <2>1, <2>7 DEF ExecScript
  <2>8. CASE Confirm(p)
    BY <2>1, <2>8 DEF Confirm
  <2>9. CASE CallFails(p)
    <3>1. \/ Step(p, "copy", "failed")
          \/ Step(p, "exec", "failed")
          \/ Step(p, "confirm", "failed")
      BY <2>9 DEF CallFails
    <3>2. UNCHANGED runner
      BY <2>9 DEF CallFails
    <3>3. QED
      BY <2>1, <3>1, <3>2
  <2> QED
    BY <1>5, <2>2, <2>3, <2>4, <2>5, <2>6, <2>7, <2>8, <2>9 DEF Setup
<1>6. ASSUME NEW p \in Requests, NEW i \in Instances, Apply(p, i)
      PROVE LateSafe'
  <2>1. <<p, i>> \in ops /\ Begun(p)
    <3>1. <<p, i>> \in ops
      BY <1>6 DEF Apply
    <3>2. QED
      BY <3>1
  <2>2. runner' = [runner EXCEPT ![i] = RunnerOf[p]]
    BY <1>6 DEF Apply, WriteRunner
  <2>3. ops' = ops \ {<<p, i>>} /\ UNCHANGED <<cacheVars, cands, cur>>
    BY <1>6 DEF Apply
  <2>4. \/ pc' = pc
        \/ pc[p] = "wait" /\ pc' = [pc EXCEPT ![p] = "verify"]
    BY <1>6 DEF Apply
  <2>5. \A q \in Requests :
          /\ pc'[q] \in Locked <=> pc[q] \in Locked
          /\ pc'[q] \in Claimed <=> pc[q] \in Claimed
          /\ Begun(q)' <=> Begun(q)
    BY <2>4
  <2>6. MutexHeld'
    BY ONLY MutexHeld, <2>3, <2>5 DEF MutexHeld, cacheVars
  <2>7. NamesAreBegun'
    <3>1. \A view : NamesOfBegun(view)' <=> NamesOfBegun(view)
      BY ONLY <2>5 DEF NamesOfBegun
    <3>2. NamesOfBegun(runner)'
      BY <2>1, <2>2, <2>5
    <3>3. \A e \in ops' : Begun(e[1])'
      BY <2>3, <2>5
    <3>4. QED
      BY ONLY NamesAreBegun, <2>3, <2>5, <3>1, <3>2, <3>3 DEF NamesAreBegun, cacheVars
  <2>8. ClaimedIsNamed'
    BY <2>2, <2>3, <2>5
  <2>9. Alone'
    BY ONLY Alone, <2>3, <2>5 DEF Alone
  <2>10. QED
    BY <2>6, <2>7, <2>8, <2>9
<1>7. ASSUME NEW p \in Requests, NEW i \in Instances, LateFailure(p, i)
      PROVE LateSafe'
  BY <1>7 DEF LateFailure
<1>8. CASE CacheStep
  <2>1. UNCHANGED <<hostVars, handlerVars, ops, ran>>
    BY <1>8 DEF CacheStep
  <2>2. ASSUME NEW w \in Writers, NEW h \in Hosts, RefreshFetch(w, h)
        PROVE LateSafe'
    BY <2>1, <2>2 DEF RefreshFetch, MutexFree, Acquire, ViewOf
  <2>3. ASSUME NEW w \in Writers, NEW h \in Hosts, RefreshStore(w, h)
        PROVE LateSafe'
    BY <2>1, <2>3 DEF RefreshStore, Release
  <2>4. ASSUME NEW w \in Writers, NEW h \in Hosts, RefreshFail(w, h)
        PROVE LateSafe'
    BY <2>1, <2>4 DEF RefreshFail, Release
  <2>5. ASSUME NEW h \in Hosts, Expire(h)
        PROVE LateSafe'
    BY <2>1, <2>5 DEF Expire
  <2>6. ASSUME NEW late \in leaked, LateStore(late[1], late[2])
        PROVE LateSafe'
    BY <2>1, <2>6 DEF LateStore
  <2>7. ASSUME NEW o \in orphans, LateFetch(o[1], o[2])
        PROVE LateSafe'
    BY <2>1, <2>7 DEF LateFetch, ViewOf
  <2>8. ASSUME NEW o \in orphans, LateFail(o[1], o[2])
        PROVE LateSafe'
    BY <2>1, <2>8 DEF LateFail
  <2>9. QED
    BY <1>8, <2>2, <2>3, <2>4, <2>5, <2>6, <2>7, <2>8 DEF CacheStep, Refresh, Late
<1>9. CASE HostStep
  BY <1>9 DEF HostStep, Environment, Boot, Freeze, Stop, Delete
<1>10. CASE UNCHANGED vars
  BY <1>10 DEF vars
<1>11. QED
  BY <1>1, <1>2, <1>3, <1>4, <1>5, <1>6, <1>7, <1>8, <1>9, <1>10
     DEF Next, RequestStep, LXDOperation

(* Calls of different runners never work on one instance, also when LXD     *)
(* executes updates that op.Wait has given up on: the second GetInstance    *)
(* under the mutex decides (allocateInstance).                              *)
THEOREM ExclusiveInSpiteOfLateOps ==
  ASSUME OneMutexPerHost, RunnersDiffer
  PROVE  Spec => []ExclusiveUse
<1>1. Typed /\ LateSafe /\ [Next]_vars => LateSafe'
  <2>1. ASSUME Typed, LateSafe, [Next]_vars PROVE LateSafe'
    BY <2>1, TypeStep, LateStep
  <2>2. QED
    BY <2>1
<1>2. Spec => []LateSafe
  BY <1>1, LateInit, AlwaysTyped, PTL DEF Spec
<1>3. LateSafe => ExclusiveUse
  BY DEF LateSafe, Alone, ExclusiveUse
<1>4. QED
  BY <1>2, <1>3, PTL
=============================================================================
