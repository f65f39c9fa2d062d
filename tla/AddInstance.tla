---------------------------- MODULE AddInstance ----------------------------
(***************************************************************************)
(* The AddInstance RPC of the server (server/pkg/api/server_add_instance.go *)
(* and pool.go): any number of calls run at the same time, each in its own *)
(* goroutine, over the LXD hosts and the shared status cache.              *)
(*                                                                         *)
(* A call looks for a frozen instance that already carries its runner name *)
(* (a retry of myshoes), else picks a frozen unowned one from the cached   *)
(* lists, claims it under the APICallMutex of its host, and then, without  *)
(* the mutex, thaws it, copies the setup script into it and executes it.   *)
(***************************************************************************)
EXTENDS ResourceCache

CONSTANTS
  RunnerOf,   \* [Requests -> Runners]: RunnerName of the request
  WantOf,     \* [Requests -> Kinds]: its resource type and mapped image alias
  MaxRetry,   \* how often the pool is searched again (10 in the code)
  LateOps,    \* op.Wait may give up on an operation that LXD still executes
  NoInst      \* no instance yet

ASSUME RunnerOfType == RunnerOf \in [Requests -> Runners]
ASSUME WantOfType == WantOf \in [Requests -> Kinds]
ASSUME MaxRetryType == MaxRetry \in Nat
ASSUME LateOpsType == LateOps \in BOOLEAN
ASSUME NoInstFresh == NoInst \notin Instances

VARIABLES
  pc,         \* where the handler is
  targets,    \* targetLXDHosts of the request
  toScan,     \* hosts whose goroutine of findInstances has not answered
  cands,      \* what findInstances has matched, minus the candidates tried
  cur,        \* the instance the handler works on
  retried,    \* as in addInstancePoolMode
  ops,        \* config updates LXD has accepted and not executed: <<p, i>>
  ran         \* history: the script of p was started in i

handlerVars == <<pc, targets, toScan, cands, cur, retried>>
vars == <<hostVars, cacheVars, handlerVars, ops, ran>>

Searching == {"byjob", "pool"}
Locked == {"update", "wait", "verify"}
Claimed == {"thaw", "unfreeze", "recover", "copy", "exec", "confirm", "ok"}
Ended == {"ok", "failed"}
PCs == {"idle", "try", "failed"} \cup Searching \cup Locked \cup Claimed

TypeOK ==
  /\ HostTypeOK
  /\ CacheTypeOK
  /\ pc \in [Requests -> PCs]
  /\ targets \in [Requests -> SUBSET Hosts]
  /\ toScan \in [Requests -> SUBSET Hosts]
  /\ cands \in [Requests -> SUBSET Instances]
  /\ cur \in [Requests -> Instances \cup {NoInst}]
  /\ retried \in [Requests -> 0..MaxRetry]
  /\ ops \in SUBSET (Requests \X Instances)
  /\ ran \in SUBSET (Requests \X Instances)

Init ==
  /\ HostInit
  /\ CacheInit
  /\ pc = [p \in Requests |-> "idle"]
  /\ targets = [p \in Requests |-> {}]
  /\ toScan = [p \in Requests |-> {}]
  /\ cands = [p \in Requests |-> {}]
  /\ cur = [p \in Requests |-> NoInst]
  /\ retried = [p \in Requests |-> 0]
  /\ ops = {}
  /\ ran = {}

Goto(p, l) == pc' = [pc EXCEPT ![p] = l]
----------------------------------------------------------------------------
(* Mutant of Matches: the runner name is not compared. *)
MatchesAnyRunner(p, view) ==
  {i \in Instances :
     view[i] # NotFrozen /\ (pc[p] = "byjob" \/ KindOf[i] = WantOf[p])}

(* The match functions of findInstanceByJob and allocatePooledInstance. *)
Matches(p, view) ==
  IF pc[p] = "byjob"
  THEN {i \in Instances : view[i] = RunnerOf[p]}
  ELSE {i \in Instances : view[i] = NoRunner /\ KindOf[i] = WantOf[p]}

(* validateTargetHosts leaves the known hosts of the request to which a     *)
(* connection could be made, at least one of them.                          *)
Invoke(p, hosts) ==
  /\ pc[p] = "idle"
  /\ hosts # {}
  /\ Goto(p, "byjob")
  /\ targets' = [targets EXCEPT ![p] = hosts]
  /\ toScan' = [toScan EXCEPT ![p] = hosts]
  /\ UNCHANGED <<hostVars, cacheVars, cands, cur, retried, ops, ran>>

(* No UUID in the runner name, no known host, or none that connects. *)
Reject(p) ==
  /\ pc[p] = "idle"
  /\ Goto(p, "failed")
  /\ UNCHANGED <<hostVars, cacheVars, targets, toScan, cands, cur, retried, ops, ran>>

Answered(p, h, found) ==
  /\ toScan' = [toScan EXCEPT ![p] = @ \ {h}]
  /\ cands' = [cands EXCEPT ![p] = @ \cup found]
  /\ UNCHANGED <<hostVars, pc, targets, cur, retried, ops, ran>>

(* The goroutine of findInstances for h finds the list in the cache. *)
ScanCached(p, h) ==
  /\ pc[p] \in Searching
  /\ h \in toScan[p]
  /\ Unasked(p, h)
  /\ cache[h] # NoView
  /\ Answered(p, h, Matches(p, cache[h]))
  /\ UNCHANGED cacheVars

(* It does not, and lists the host itself. *)
ScanFetch(p, h) ==
  /\ pc[p] \in Searching
  /\ h \in toScan[p]
  /\ DemandMiss(p, h) \/ DemandFetch(p, h)
  /\ UNCHANGED <<hostVars, handlerVars, ops, ran>>

(* GetResource stores what it listed, and then returns it to the search, for *)
(* which the host can be over the limit.                                     *)
ScanFetched(p, h) ==
  /\ pc[p] \in Searching
  /\ h \in toScan[p]
  /\ DemandStore(p, h)
  /\ \E found \in {Matches(p, demand[p][h]), {}} : Answered(p, h, found)

(* The host fails, does not answer in ten seconds, or is over the limit. *)
ScanSkip(p, h) ==
  /\ pc[p] \in Searching
  /\ h \in toScan[p]
  /\ DemandFail(p, h) \/ DemandOrphan(p, h) \/ DemandLeak(p, h)
  /\ Answered(p, h, {})

(* findInstanceByJob takes the first match; the order is not modelled. *)
FoundByJob(p, i) ==
  /\ pc[p] = "byjob"
  /\ toScan[p] = {}
  /\ i \in cands[p]
  /\ Goto(p, "thaw")
  /\ cur' = [cur EXCEPT ![p] = i]
  /\ cands' = [cands EXCEPT ![p] = {}]
  /\ UNCHANGED <<hostVars, cacheVars, targets, toScan, retried, ops, ran>>

NotFoundByJob(p) ==
  /\ pc[p] = "byjob"
  /\ toScan[p] = {}
  /\ cands[p] = {}
  /\ Goto(p, "pool")
  /\ toScan' = [toScan EXCEPT ![p] = targets[p]]
  /\ UNCHANGED <<hostVars, cacheVars, targets, cands, cur, retried, ops, ran>>

PoolSearched(p) ==
  /\ pc[p] = "pool"
  /\ toScan[p] = {}
  /\ Goto(p, "try")
  /\ UNCHANGED <<hostVars, cacheVars, targets, toScan, cands, cur, retried, ops, ran>>
----------------------------------------------------------------------------
(* allocateInstance, from Lock to the deferred Unlock. *)

(* Lock, then GetInstance: the instance is there and has no owner. *)
BeginAllocate(p, i) ==
  /\ pc[p] = "try"
  /\ i \in cands[p]
  /\ MutexFree(p, HostOf[i])
  /\ Exists(i) /\ runner[i] = NoRunner
  /\ Acquire(p, HostOf[i])
  /\ Goto(p, "update")
  /\ cands' = [cands EXCEPT ![p] = @ \ {i}]
  /\ cur' = [cur EXCEPT ![p] = i]
  /\ UNCHANGED <<hostVars, cache, held, missed, demand, orphans, leaked,
                 targets, toScan, retried, ops, ran>>

(* GetInstance fails, or another runner has the instance by now. *)
SkipCandidate(p, i) ==
  /\ pc[p] = "try"
  /\ i \in cands[p]
  /\ MutexFree(p, HostOf[i])
  /\ cands' = [cands EXCEPT ![p] = @ \ {i}]
  /\ UNCHANGED <<hostVars, cacheVars, pc, targets, toScan, cur, retried, ops, ran>>

(* Mutant of UpdateAccepted: unlocks when LXD has accepted the update. *)
UpdateThenUnlock(p) ==
  /\ pc[p] = "update"
  /\ Exists(cur[p]) /\ runner[cur[p]] = NoRunner
  /\ ops' = ops \cup {<<p, cur[p]>>}
  /\ Release(p, HostOf[cur[p]])
  /\ Goto(p, "wait")
  /\ UNCHANGED <<hostVars, cache, held, missed, demand, orphans, leaked,
                 targets, toScan, cands, cur, retried, ran>>

(* UpdateInstance: the etag of the GetInstance still fits, so LXD accepts.  *)
(* Only the config is in the etag: the status is not looked at again.       *)
UpdateAccepted(p) ==
  /\ pc[p] = "update"
  /\ Exists(cur[p]) /\ runner[cur[p]] = NoRunner
  /\ ops' = ops \cup {<<p, cur[p]>>}
  /\ Goto(p, "wait")
  /\ UNCHANGED <<hostVars, cacheVars, targets, toScan, cands, cur, retried, ran>>

(* LXD executes the operation; if its handler still waits, op.Wait returns. *)
Apply(p, i) ==
  /\ <<p, i>> \in ops
  /\ WriteRunner(i, RunnerOf[p])
  /\ ops' = ops \ {<<p, i>>}
  /\ IF pc[p] = "wait" /\ cur[p] = i THEN Goto(p, "verify") ELSE UNCHANGED pc
  /\ UNCHANGED <<cacheVars, targets, toScan, cands, cur, retried, ran>>

(* Second GetInstance: the instance carries the name that was written. *)
Verified(p) ==
  /\ pc[p] = "verify"
  /\ Exists(cur[p]) /\ runner[cur[p]] = RunnerOf[p]
  /\ Release(p, HostOf[cur[p]])
  /\ Goto(p, "thaw")
  /\ cands' = [cands EXCEPT ![p] = {}]
  /\ UNCHANGED <<hostVars, cache, held, missed, demand, orphans, leaked,
                 targets, toScan, cur, retried, ops, ran>>

(* Mutant of GiveUp: an early return that forgets the unlock. *)
GiveUpLocked(p) ==
  /\ Goto(p, "try")
  /\ cur' = [cur EXCEPT ![p] = NoInst]
  /\ UNCHANGED <<hostVars, cacheVars, targets, toScan, cands, retried, ran>>

(* An error return of allocateInstance: unlocked, on to the next candidate. *)
GiveUp(p) ==
  /\ Release(p, HostOf[cur[p]])
  /\ Goto(p, "try")
  /\ cur' = [cur EXCEPT ![p] = NoInst]
  /\ UNCHANGED <<hostVars, cache, held, missed, demand, orphans, leaked,
                 targets, toScan, cands, retried, ran>>

(* UpdateInstance is refused, or the call fails. *)
UpdateRefused(p) == pc[p] = "update" /\ GiveUp(p) /\ UNCHANGED ops

(* LXD fails the operation, and op.Wait says so. *)
OperationFails(p) ==
  /\ pc[p] = "wait"
  /\ GiveUp(p)
  /\ ops' = ops \ {<<p, cur[p]>>}

(* op.Wait loses the operation, which LXD has not executed yet. *)
WaitLost(p) == LateOps /\ pc[p] = "wait" /\ GiveUp(p) /\ UNCHANGED ops

(* op.Wait or the second GetInstance fails after the update was executed,   *)
(* or the name read is not the one written: the instance stays marked.      *)
NotVerified(p) == pc[p] = "verify" /\ GiveUp(p) /\ UNCHANGED ops

(* An operation nobody waits for any more fails in LXD. *)
LateFailure(p, i) ==
  /\ <<p, i>> \in ops
  /\ ~(pc[p] = "wait" /\ cur[p] = i)
  /\ ops' = ops \ {<<p, i>>}
  /\ UNCHANGED <<hostVars, cacheVars, handlerVars, ran>>

(* Mutants of Retry: the bound is off by one, or the tries are not counted. *)
RetryOnceMore(p) ==
  /\ pc[p] = "try"
  /\ cands[p] = {}
  /\ retried[p] <= MaxRetry
  /\ retried' = [retried EXCEPT ![p] = @ + 1]
  /\ toScan' = [toScan EXCEPT ![p] = targets[p]]
  /\ Goto(p, "pool")
  /\ UNCHANGED <<hostVars, cacheVars, targets, cands, cur, ops, ran>>

RetryUncounted(p) ==
  /\ pc[p] = "try"
  /\ cands[p] = {}
  /\ retried[p] <= MaxRetry
  /\ toScan' = [toScan EXCEPT ![p] = targets[p]]
  /\ Goto(p, "pool")
  /\ UNCHANGED <<hostVars, cacheVars, targets, cands, cur, retried, ops, ran>>

(* No candidate is left: search again after a second. *)
Retry(p) ==
  /\ pc[p] = "try"
  /\ cands[p] = {}
  /\ retried[p] < MaxRetry
  /\ retried' = [retried EXCEPT ![p] = @ + 1]
  /\ toScan' = [toScan EXCEPT ![p] = targets[p]]
  /\ Goto(p, "pool")
  /\ UNCHANGED <<hostVars, cacheVars, targets, cands, cur, ops, ran>>

GiveUpPool(p) ==
  /\ pc[p] = "try"
  /\ cands[p] = {}
  /\ retried[p] >= MaxRetry
  /\ Goto(p, "failed")
  /\ UNCHANGED <<hostVars, cacheVars, targets, toScan, cands, cur, retried, ops, ran>>
----------------------------------------------------------------------------
(* The rest of the handler works on cur[p] without the mutex. *)

Step(p, from, to) ==
  /\ pc[p] = from
  /\ Goto(p, to)
  /\ UNCHANGED <<cacheVars, targets, toScan, cands, cur, retried, ops>>

(* unfreezeInstance reads the state ... *)
ReadState(p) ==
  /\ pc[p] = "thaw"
  /\ \/ status[cur[p]] = "Running" /\ Step(p, "thaw", "copy")
     \/ status[cur[p]] = "Frozen" /\ Step(p, "thaw", "unfreeze")
     \/ Step(p, "thaw", "recover")
  /\ UNCHANGED <<hostVars, ran>>

(* ... and thaws the instance, which may be frozen no more.  As op.Wait can *)
(* fail after the fact, an error does not mean that it is still frozen.     *)
Thaw(p) ==
  /\ \/ Step(p, "unfreeze", "copy") \/ Step(p, "unfreeze", "recover")
  /\ Unfreeze(cur[p])
  /\ UNCHANGED ran

ThawFails(p) == Step(p, "unfreeze", "recover") /\ UNCHANGED <<hostVars, ran>>

(* recoverInvalidInstance: LXD refuses to delete what is not stopped, and   *)
(* the handler only logs that.                                              *)
Recover(p) ==
  /\ Step(p, "recover", "failed")
  /\ Delete(cur[p]) \/ UNCHANGED hostVars
  /\ UNCHANGED ran

(* CreateInstanceFile *)
CopyScript(p) ==
  /\ Step(p, "copy", "exec")
  /\ Exists(cur[p])
  /\ UNCHANGED <<hostVars, ran>>

(* ExecInstance starts the script; the wait or the exit code may fail. *)
ExecScript(p) ==
  /\ Step(p, "exec", "confirm") \/ Step(p, "exec", "failed")
  /\ status[cur[p]] = "Running"
  /\ ran' = ran \cup {<<p, cur[p]>>}
  /\ UNCHANGED hostVars

(* The GetInstance that AddInstance ends with. *)
Confirm(p) ==
  /\ Step(p, "confirm", "ok")
  /\ Exists(cur[p])
  /\ UNCHANGED <<hostVars, ran>>

(* The call to LXD fails: an error is returned and nothing is undone. *)
CallFails(p) ==
  /\ \E l \in {"copy", "exec", "confirm"} : Step(p, l, "failed")
  /\ UNCHANGED <<hostVars, ran>>
----------------------------------------------------------------------------
Search(p) ==
  \/ \E h \in Hosts :
       ScanCached(p, h) \/ ScanFetch(p, h) \/ ScanFetched(p, h) \/ ScanSkip(p, h)
  \/ \E i \in Instances : FoundByJob(p, i)
  \/ NotFoundByJob(p) \/ PoolSearched(p) \/ Retry(p) \/ GiveUpPool(p)

Allocate(p) ==
  \/ \E i \in Instances : BeginAllocate(p, i) \/ SkipCandidate(p, i)
  \/ UpdateAccepted(p) \/ UpdateRefused(p)
  \/ OperationFails(p) \/ WaitLost(p)
  \/ Verified(p) \/ NotVerified(p)

Setup(p) ==
  \/ ReadState(p) \/ Thaw(p) \/ ThawFails(p) \/ Recover(p)
  \/ CopyScript(p) \/ ExecScript(p) \/ Confirm(p) \/ CallFails(p)

LXDOperation(p) == \E i \in Instances : Apply(p, i) \/ LateFailure(p, i)

RequestStep(p) ==
  \/ \E hosts \in SUBSET Hosts : Invoke(p, hosts)
  \/ Reject(p)
  \/ Search(p) \/ Allocate(p) \/ Setup(p) \/ LXDOperation(p)

CacheStep ==
  /\ \/ \E w \in Writers, h \in Hosts : Refresh(w, h)
     \/ \E h \in Hosts : Expire(h)
     \/ Late
  /\ UNCHANGED <<hostVars, handlerVars, ops, ran>>

HostStep == Environment /\ UNCHANGED <<cacheVars, handlerVars, ops, ran>>

Next ==
  \/ \E p \in Requests : RequestStep(p)
  \/ CacheStep
  \/ HostStep

Spec == Init /\ [][Next]_vars

(* The scheduler runs every goroutine; a goroutine that waits for a         *)
(* sync.Mutex gets it in the end, though others lock it again and again;    *)
(* calls to LXD return and LXD ends the operations it has accepted.         *)
(* Nothing is assumed of new calls, of the cache's age, or of the instances.*)
Fairness ==
  /\ \A p \in Requests :
       /\ WF_vars(Search(p))
       /\ SF_vars(Allocate(p))
       /\ WF_vars(Setup(p))
       /\ WF_vars(LXDOperation(p))
  /\ \A w \in Writers, h \in Hosts :
       WF_vars((RefreshStore(w, h) \/ RefreshFail(w, h))
               /\ UNCHANGED <<hostVars, handlerVars, ops, ran>>)

FairSpec == Spec /\ Fairness
----------------------------------------------------------------------------
(* All goroutines got the same LXDHost object for a host, as they do once   *)
(* it is in connectedInstances.                                             *)
OneMutexPerHost ==
  \A u, v \in Users, h \in Hosts : LockOf[u][h] = LockOf[v][h]

(* Two calls that are past the allocation and work on the same instance     *)
(* work for the same runner: no instance is handed to two jobs, although    *)
(* candidates come from stale lists and LXD checks the etag only when it    *)
(* accepts an update (allocateInstance).                                    *)
ExclusiveUse ==
  \A p, q \in Requests :
    pc[p] \in Claimed /\ pc[q] \in Claimed /\ cur[p] = cur[q]
      => RunnerOf[p] = RunnerOf[q]

(* A script is started only in an instance that carries, then and ever      *)
(* after, the runner name of the request it came with.                      *)
ScriptsRunForOwner == \A e \in ran : runner[e[2]] = RunnerOf[e[1]]

(* Searches, lists, mutexes and LXD operations taken together keep the      *)
(* promise of Ownership: an instance gets one owner, once and for ever, and *)
(* runs only scripts of its owner.                                          *)
Abstract == INSTANCE Ownership WITH
  owner <- runner,
  serving <- [i \in Instances |->
                {RunnerOf[p] : p \in {q \in Requests : <<q, i>> \in ran}}]

ImplementsOwnership == Abstract!Spec

(* How far an instance is in its life, as InstanceLife has it. *)
PhaseOf(i) ==
  CASE status[i] = "Unborn"  -> "unborn"
    [] status[i] = "Running" -> IF runner[i] = NoRunner THEN "making" ELSE "serving"
    [] status[i] = "Frozen"  -> IF runner[i] = NoRunner THEN "pooled" ELSE "claimed"
    [] status[i] = "Stopped" -> "down"
    [] status[i] = "Gone"    -> "gone"

Life == INSTANCE InstanceLife WITH
  owner <- runner,
  phase <- [i \in Instances |-> PhaseOf(i)]

(* Seen from the calls, instances live as InstanceLife says: whatever a list *)
(* of any age shows, none is claimed while it boots or a second time, none   *)
(* is thawed for nobody, and none comes back into the pool.                  *)
ImplementsLife == Life!Spec

(* The calls do to instances only what agents reckon with: they claim what   *)
(* has waited in the pool and has no owner, and thaw and delete only what    *)
(* has one.                                                                  *)
ServerKeepsItsPart ==
  [][\/ UNCHANGED <<handlerVars, ops>>
     \/ UNCHANGED Life!vars
     \/ \E i \in Instances : Life!ServerPart(i)]_vars

(* Between Lock and Unlock of l: allocateInstance, or a writer that lists. *)
AtWork(u, l) ==
  \/ u \in Requests /\ pc[u] \in Locked /\ LockOf[u][HostOf[cur[u]]] = l
  \/ u \in Writers /\ \E h \in Hosts : held[u][h] # NoView /\ LockOf[u][h] = l

(* Who has a mutex is at work on the host that it belongs to: on no path     *)
(* does allocateInstance, the ticker or the scrape go on, fail or end        *)
(* without the unlock, so that whoever waits, waits for somebody who works.  *)
HolderIsAtWork == \A l \in Locks, u \in Users : lock[l] = u => AtWork(u, l)

(* What a call has before it: the stages of the handler, of which the        *)
(* allocation is one, and the steps of allocateInstance.                     *)
StagesLeft ==
  [idle |-> 10, byjob |-> 9, pool |-> 8,
   try |-> 7, update |-> 7, wait |-> 7, verify |-> 7,
   thaw |-> 6, unfreeze |-> 5, copy |-> 4, exec |-> 3, confirm |-> 2, recover |-> 1,
   ok |-> 0, failed |-> 0]

StepsLeft == [update |-> 3, wait |-> 2, verify |-> 1, try |-> 0]

Fewer(S, T) == S \subseteq T /\ S # T

Unlisted(p) == {h \in Hosts : demand[p][h] = NoView}

NearerInStage(p) ==
  \/ Fewer(toScan'[p], toScan[p])
  \/ /\ toScan'[p] = toScan[p]
     /\ \/ Fewer(cands'[p], cands[p])
        \/ /\ cands'[p] = cands[p]
           /\ \/ pc'[p] = pc[p] /\ Fewer(Unlisted(p)', Unlisted(p))
              \/ pc'[p] = pc[p] /\ Unlisted(p)' = Unlisted(p) /\ Fewer(missed[p], missed'[p])
              \/ pc[p] \in Locked /\ StepsLeft[pc'[p]] < StepsLeft[pc[p]]

(* A call is nearer to its end: in the round, else in the stage, else within *)
(* the stage in hosts to ask, in candidates to try, or in steps to take.     *)
Nearer(p) ==
  \/ retried'[p] > retried[p]
  \/ /\ retried'[p] = retried[p]
     /\ \/ StagesLeft[pc'[p]] < StagesLeft[pc[p]]
        \/ StagesLeft[pc'[p]] = StagesLeft[pc[p]] /\ NearerInStage(p)

(* Nothing sends a call back: whatever it does and whatever others do to it, *)
(* when it moves at all it gets nearer to its end, of which it is away no    *)
(* more than MaxRetry rounds of finitely many hosts and candidates.          *)
CallsGetNearer ==
  [][\A p \in Requests :
       \/ UNCHANGED <<pc[p], toScan[p], cands[p], retried[p], missed[p], demand[p]>>
       \/ Nearer(p)]_vars

(* Every call that was accepted is answered, whatever fails. *)
EveryRequestAnswered ==
  \A p \in Requests : pc[p] # "idle" ~> pc[p] \in Ended

(* No error path keeps a mutex: each is free again and again. *)
MutexesAreReleased == \A l \in Locks : []<>(lock[l] = Free)
----------------------------------------------------------------------------
(* Why it holds: the inductive invariant, for one LXDHost object per host   *)
(* and for operations that are never lost (~LateOps).                       *)

(* A handler from its allocation on has an instance. *)
Located == \A p \in Requests : pc[p] \in Locked \cup Claimed => cur[p] \in Instances

(* A goroutine that waits to list a host has not listed it. *)
MissedIsUnlisted ==
  \A p \in Requests : \A h \in missed[p] : demand[p][h] = NoView

(* A handler between Lock and Unlock has the mutex of its instance's host. *)
MutexHeld ==
  /\ \A p \in Requests : pc[p] \in Locked => lock[LockOf[p][HostOf[cur[p]]]] = p
  /\ \A w \in Writers, h \in Hosts :
       held[w][h] # NoView => lock[LockOf[w][h]] = w

(* An accepted update has a handler that waits for it, and until then the   *)
(* instance has no owner.                                                   *)
UpdatesAwaited ==
  /\ \A e \in ops : pc[e[1]] = "wait" /\ cur[e[1]] = e[2]
  /\ \A p \in Requests : pc[p] \in {"update", "wait"} => runner[cur[p]] = NoRunner

(* Who is past the allocation owns its instance. *)
ClaimedIsOwned ==
  \A p \in Requests : pc[p] \in Claimed => runner[cur[p]] = RunnerOf[p]

(* A runner name in a list of any age is the owner's; the candidates of the *)
(* search by job are owned by the runner of the call.                       *)
TrueOf(view) == \A i \in Instances : view[i] \in Runners => runner[i] = view[i]

ListsAreTrue ==
  /\ \A h \in Hosts : cache[h] # NoView => TrueOf(cache[h])
  /\ \A w \in Writers, h \in Hosts : held[w][h] # NoView => TrueOf(held[w][h])
  /\ \A p \in Requests, h \in Hosts : demand[p][h] # NoView => TrueOf(demand[p][h])
  /\ \A e \in leaked : TrueOf(e[2])
  /\ \A p \in Requests :
       pc[p] \in {"idle", "byjob"} => \A i \in cands[p] : runner[i] = RunnerOf[p]

IInv ==
  /\ TypeOK
  /\ Located
  /\ MissedIsUnlisted
  /\ MutexHeld
  /\ UpdatesAwaited
  /\ ClaimedIsOwned
  /\ ListsAreTrue
  /\ ScriptsRunForOwner
============================================================================
