# shoes-lxd-multi in TLA+

Specifications of [shoes-lxd-multi](https://github.com/whywaita/shoes-lxd-multi),
the LXD provider of myshoes, for model checking with TLC and for proof with
TLAPS. Paths are those of the repository (`server/...` is `src/server/...` here).

## 1. The system

myshoes asks for a runner and gives it back; a pool of frozen LXD instances makes
that fast.

```
 myshoes -- plugin (shoes-lxd-multi) --gRPC--> server --LXD API--> LXD host <--unix socket-- pool agent
```

| component | state it keeps | operations | interacts with |
|---|---|---|---|
| Server start (`server/main.go`, `server/pkg/config`) | the configuration: hosts, alias mapping, period, over-commit limit | load the environment, listen, start the ticker | everything below |
| AddInstance (`server/pkg/api/server_add_instance.go`, `pool.go`) | per call: targets, alias, candidates with the CPU shares of their hosts, retries, the instance at work | resolve the image alias, search by job, search and order the pool, claim, thaw, recover, copy and execute the script | status cache (reads, may fill), `APICallMutex` of a host during the claim, LXD |
| DeleteInstance (`server_delete_instance.go`, `server_host.go`) | per call: the host found | search in the cache and on the hosts, stop, delete | status cache, mutex and client context during the search, LXD |
| Status cache (`lxdclient/resource_cache.go`, `resource.go`) | the last list of each host, for ten minutes | get, set, list on demand | filled by AddInstance, by the ticker (`resourcecache`) and by the metrics scrape (`metric/scrape_lxd.go`) |
| Connections (`lxdclient/connect.go`) | `connectedInstances`: host to `LXDHost` (client and mutex); `errLXDHosts` of a call | look up, dial, store, append to the failed hosts, delete their entries | everything that talks to LXD |
| Client context (`WithContext` of the LXD client) | one context per client, set in place | set and reset under the mutex | calls with and without the mutex |
| Pool agent (`pool-agent/cmd`), one per LXD host | known images with their current image, what it creates and deletes | tick (list, delete, create), SIGHUP, start | LXD; through LXD the server |
| LXD (external) | instances: status, config | create, start, freeze, unfreeze, stop, delete, update config | - |

Two programs change the same instances and share nothing else: the agent creates,
freezes and deletes, the server claims (it writes `user.myshoes_runner_name`), thaws and
deletes. The runner name is the only sign of ownership, and every decision is taken
from a list that may be old.

What makes it hard, and what must hold nevertheless:

- *Concurrent claims.* Every call is a goroutine of its own and picks its candidates
  from a list of any age. LXD checks the etag when it accepts an update and not when
  it executes it (canonical/lxd issue 12189), so the mutex of the host and a second
  read decide. An instance must get one owner, once and for ever.
- *Connections.* Goroutines that miss a host in the table together dial together and make
  an `LXDHost` each; the hosts of failed dials are collected without a lock, and their
  entries deleted even when somebody else has stored them. The mutex is only worth
  something once everybody has the same object.
- *The choice of an instance.* CPU shares come from lists of any age, in floating point,
  of hosts that may report no CPU; candidates go while they are tried; the alias of an
  image is looked up again and again and may lead into a cycle.
- *Lists out of order.* The cache is written by the ticker, the scrape and by
  AddInstance itself, the last one after the unlock and possibly long after its
  caller has given up.
- *Shared client.* A deadline is set on the client, hence on everybody's calls.
- *Retries.* myshoes repeats calls; op.Wait can give up on an operation that LXD
  executes later.
- *Old lists in the agent.* It deletes and creates for minutes from one list, while
  the server claims and thaws.
- *Crashes.* The agent can end between two steps of a creation.

`PROJECT.json` lists these hazards line by line, with the properties that cover them.

## 2. Modules

| module | models | extends |
|---|---|---|
| `LXDHost` | instances as the LXD API shows them (external) | - |
| `ResourceCache` | mutexes, cache and all that fills it | `LXDHost` |
| `AddInstance` | the AddInstance RPC over the cache | `ResourceCache` |
| `Ownership` | abstract specification: one owner per instance, its scripts only | - |
| `InstanceLife` | abstract specification: the life of an instance between server and agent | - |
| `AddInstanceProofs` | theorems about `AddInstance` | `AddInstance` |
| `LateOperationsProofs` | the theorem for updates that outlive their wait | `AddInstanceProofs` |
| `ProgressProofs` | theorems about the progress of `AddInstance` | `AddInstanceProofs` |
| `ServerConfig` | the environments the server loads, alias mapping | - |
| `PoolSearch` | start of the server, and the data of one AddInstance: alias, shares, limit, order | `LXDHost`, `ServerConfig` |
| `PoolSearchProofs` | theorems about `PoolSearch`: types, aliases, stack | `PoolSearch` |
| `SelectionProofs` | theorems about the instances it tries | `PoolSearchProofs` |
| `Connections` | the connection table and the mutexes of its objects | - |
| `ConnectionsProofs` | theorems about `Connections` | `Connections` |
| `ClientContext` | mutex, context and deadlines of a client | `LXDHost` |
| `DeleteInstance` | the DeleteInstance RPC over the contexts | `ClientContext` |
| `DeleteInstanceProofs` | theorems about `DeleteInstance` | `DeleteInstance` |
| `PoolAgent` | the agent of one host, next to the server's claims | `LXDHost` |
| `PoolAgentProofs` | theorems about `PoolAgent` | `PoolAgent` |
| `MCAddInstance`, `MCPoolSearch`, `MCConnections`, `MCDeleteInstance`, `MCPoolAgent` | constants for TLC | |

`AddInstance` and `PoolSearch` are two views of one handler. The first has any number of
calls and takes the data as it comes: any candidate, in any order, of any host that is not
skipped. The second has one call and all of its data, with everybody else changing the
instances in between. `Connections` is how the constant `LockOf` of the first comes about.

### Conventions

An action is a stretch of code between two points where somebody else can act: a
call to LXD, a lock, a channel, an `op.Wait`. Local computation belongs to the call
before it. An operation that changes LXD has an action in which it is done and one in
which it fails; a call that can fail after LXD has done its work has both effects.
Definitions directly before another one and commented "Mutant of" are faulty variants
of it; nothing refers to them, and they only show that a property can fail.

### LXDHost

A name is unborn, stopped, running, frozen or gone, and is never used twice (names
are random). Of the config only the runner name is kept, and the kind: the pair of
resource type and image alias. `ViewOf(h)` is what a list of instances tells the
server's searches apart: which instances were frozen, and their runner names.

### ResourceCache

`cache[h]` is a list or `NoView`. The ticker and the scrape are the `Writers`; they
list and store in two steps under the mutex. `GetResource` finds nothing in the cache
(`DemandMiss`, `missed`), lists the host under the mutex, whatever the cache has by then
(`DemandFetch`, `demand`), and stores the list without the mutex (`DemandStore`). The timeout of
`getInstancesWithTimeout` leaves its goroutine behind, before the listing (`DemandOrphan`,
`orphans`) or after it (`DemandLeak`, `leaked`); what it does later is `LateFetch`, `LateFail` and
`LateStore`. Lock, list and unlock of `DemandFetch` and `LateFetch` are one step: whatever another
goroutine does in between it does without the mutex, hence just as well before the list is made or
after it. `lock` therefore never shows this hold. `LockOf[u][h]` is the `LXDHost` object that goroutine `u` got for host
`h`, because `ConnectLXDWithTimeout` can make two of them.

### AddInstance

`pc[p]` goes idle, byjob, (pool, try, update, wait, verify)*, thaw, unfreeze, copy,
exec, confirm, ok; or to recover and failed.

| code | actions |
|---|---|
| `validateTargetHosts` | `Invoke`, `Reject` |
| `findInstances`, `getInstancesWithTimeout` | `ScanCached`, `ScanFetch`, `ScanFetched`, `ScanSkip`, one host at a time in any order |
| `findInstanceByJob` | `FoundByJob`, `NotFoundByJob` |
| `allocatePooledInstance` | `PoolSearched`, and the order in which "try" takes candidates |
| `allocateInstance` | `BeginAllocate`, `SkipCandidate`, `UpdateAccepted`, `UpdateRefused`, `OperationFails`, `WaitLost`, `Verified`, `NotVerified` |
| LXD, executing the update | `Apply`, `LateFailure` |
| the loop of `addInstancePoolMode` | `Retry`, `GiveUpPool` |
| `unfreezeInstance`, `recoverInvalidInstance` | `ReadState`, `Thaw`, `ThawFails`, `Recover` |
| script and answer | `CopyScript`, `ExecScript`, `Confirm`, `CallFails` |

`ops` holds the updates that LXD has accepted and not executed. `WaitLost` leaves one
behind; it exists with `LateOps` only. The order of candidates and the hosts over the
limit are arbitrary here; `PoolSearch` has them. `ran` is history.

`Ownership` is what the server promises: `Claim` gives an instance without owner one,
`Serve` starts its owner's script. `AddInstance` implements it with the runner names as
owners and `ran` as scripts served (`ImplementsOwnership`).

`InstanceLife` is what server and agents together make of an instance: unborn, making,
pooled, claimed, serving, down, gone, and its owner. Its steps have two authors: the server
claims, thaws, and deletes what has an owner (`ServerPart`); agents, jobs and operators create,
offer, stop and delete (`OthersPart`). `AddInstance` and `PoolAgent` both implement it, each
with the other as its environment (`ImplementsLife`), and each keeps to its own part
(`ServerKeepsItsPart`, `AgentKeepsItsPart`): at this level, what one of them assumes of the
other is what the other one does. The level is coarser than the actions: `InstanceLife` lets a
claim hit any instance that is down, `PoolAgent` those that have been frozen before, which is
all that a list ever shows the server. The phase of an instance is read off its status and runner name
(`PhaseOf`); the agent also knows which ones it has ever offered.

`HolderIsAtWork` says that whoever has a mutex, for an allocation or to refresh the cache, is
between Lock and Unlock of it (the listing of `DemandFetch` is one step and no case of it).
`CallsGetNearer` is the variant of a call, most significant first: repetitions, stage,
hosts to scan, candidates to try, hosts to list or steps of `allocateInstance`.

### ServerConfig and PoolSearch

An environment is a record of what the variables stand for, or `Unset` or `Malformed`.

| code | definitions |
|---|---|
| `loadHostConfigs`, `newHostConfig` | `HostsLoad` |
| `config.Load` | `Loads`, `Load` |
| `run` of `server/main.go` | `StartServer`; the ticker of a period that is not positive is `TickerPanics` |
| `parseImageAliasMap` | `CallAgain` with `CallsAgain` and `NextWord`, one call at a time; `Resolved` with `Answer`; `StackOverflow` |
| `ScrapeLXDHostResources`, `ScrapeLXDHostAllocatedResources`, `GetAnyInstances` | `Totals`, `Listable`, `Listing`, `On` |
| `getInstancesWithTimeout`, `GetResource` | `HearCached`, `HearFetched`, `HearNothing`, `Percents` |
| `findInstances` | `OverLimit`, `Matching`, `InOrder`, `Found` |
| `allocatePooledInstance`, `allocateInstance` | `IsMatch`, `Claim`, `ClaimFails` |
| the loop of `addInstancePoolMode` | `Again`, `GiveUp`, `Thawed` |
| ticker and scrape, the age of an entry | `Refresh`, `Expire` |

A share is the percentage that the code computes in floating point and converts to an
unsigned integer: rounded down, one lower where the quotient was rounded down itself
(29 of 100 is 28), and for a host without CPUs whatever the processor converts infinity
or NaN to (`Huge` or 0). The first CPU total of a host is kept for ever. `Others` is
everybody else, `tried` is history. `LeadsTo`, `Closed` and `HasCycle` are a reference for
the mapping that does not recurse.

### Connections

| code | actions |
|---|---|
| `ConnectLXDs`, `ConnectLXDWithTimeout` | `Connect` ("ask" is the latter alone), `Joined`, `Connected` |
| the goroutine of a host | `Hit`, `Miss`, `Dialed`, `DialFails`, `Append` |
| the loop over `errLXDHosts` | `DeleteEntry` |
| `APICallMutex` of the object a user got | `Enter`, `Leave` |
| return of the user, end of the server | `Done`, `Return`, `Crash` |

The append is two steps, a read (`seen`) and a write, because it has no lock; a torn slice
is a `Crash`. An object has a number, which is used again when nothing refers to it.
`Settled(h)` says that the table has an object of `h`, that nobody may still replace or
delete it, and that nobody works with another: from then on `OneMutexPerHost` holds
for `h`.

### ClientContext and DeleteInstance

| code | actions |
|---|---|
| `context.WithTimeout` | `StartUse`; the deadline passes in `Expire`, in a wait for a mutex that another one holds or for LXD |
| `APICallMutex.Lock`, `TryLock` | `Lock`, `GiveUpUse` |
| `WithContext(cctx)` and the call | `SetContext` (`Query` of a deletion) |
| the deferred calls, last first | `ResetContext`, `Unlock`, `Cancel` |
| `allocateInstance`, which sets no context | `AllocLock`, `StartCall`, `EndCall`, `AllocUnlock` |
| calls without the mutex | `StartCall`, `EndCall` |
| `findInstanceHostFromCache`, `isExistInstance` | `AskCached` (any host of the call or none, for a cache of any age), `AskAll` |
| `isExistInstanceWithTimeout`, `isExistInstanceInHosts` | `LockHost`, `Query`, then `AnswerFound`, `AnswerAbsent`, `AnswerLate` or `AnswerFails`; `Release` |
| `DeleteInstance` | `Reject`, `Found`, `NotFound`, `Request`, `StopDone`, `DeleteDone`, `RequestFails` |

A call carries the context that the client has when it starts; when that one expires or is
cancelled the call is `Cut`, and a call that starts with an expired one is so at once. `queried` is
history: the hosts to which the last search sent its request.

### PoolAgent

| code | actions |
|---|---|
| `newAgent` | `Init`, `Restart` |
| `adjustInstancePool` | `Tick`, `Examined`, `Deleted`, `Created` |
| `CalculateToDeleteInstances` with `isZombieInstance` and `isOldImageInstance` | `Examine`, one entry at a time in any order |
| `deleteInstances` | `StopToDelete`, `StopFails`, `Remove` |
| `createInstances` | `CreateOne`, `CreateFails`, `StartOne`, `FreezeOne`, `MakingFails` |
| `reloadConfig` | `Reload`, `ReloadNewImage` |
| end of the process | `Crash` |

A config file has an image, which is an alias, under a key (`KeyOf`), and another file can have
another image under that key: SIGHUP then replaces the image. An alias that does not parse ends the
reload early, so `Reload` renews any part of the known keys. It is assumed that no alias is
under two keys.

Time is the number of creations so far: `born` is a creation time, and `horizon` is the
time that lies `ZombieAllowTime` ago, which advances as it likes. A version of an image
stands for its fingerprint. `CreatingInstances` and `deletingInstances` are empty
whenever the single loop reads them, and are left out. `Claim`, `ThawClaimed` and
`EndJob` are the server as the agent sees it: it claims whatever it once listed as
frozen, without a look at the status, which is what `AddInstance` does.

## 3. Runs

| run | what it asks | bounds |
|---|---|---|
| `claim` | `ExclusiveUse`, `ImplementsOwnership`, `ImplementsLife`, `ServerKeepsItsPart`, types: two runners compete | 1 host, 2 instances, 2 calls, one search each |
| `refresh` | `ScriptsRunForOwner`, `HolderIsAtWork`, `CallsGetNearer`, and the inductive invariant `IInv`: a call and its retry, a writer, late stores | 1 host, 1 instance, 2 calls of one runner, 1 writer, 1 repeated search, 1 leaked listing |
| `answered` | `EveryRequestAnswered`, `MutexesAreReleased`, and `ExclusiveUse` with late operations, under fairness | 1 host, 1 instance, 2 calls, 1 writer |
| `split_mutex` | violated: `ExclusiveUse` with two `LXDHost` objects | as `claim` |
| `pool` | `NeverOvershoots`, `OldIsOutdated`, `ZombiesServeNobody`, types | 3 names, 1 image in 2 versions, pool of 2, a file with another image under its key, 1 crash |
| `pool_refill` | `LeftoversGo`, `PoolIsRefilled`, under fairness; `ImplementsLife`, `AgentKeepsItsPart` | 2 names, 1 version, pool of 1, or of 0 with a second image, 1 crash, `CountWithoutRunning` |
| `stale_list` | violated: `RunningIsNotOld` | 3 names, 2 versions |
| `reload_new_image` | violated: `ReloadKeepsRunning` | 2 images |
| `delete` | `ContextIsTheHolders`, `DeletedOnce`, `EveryDeleteAnswered`, types, under fairness | 1 host, 1 instance, 2 deletions, 1 scrape, 1 setup |
| `delete_notfound` | violated: `NotFoundIsAbsent`, by a deadline that passes while an allocation has the mutex | 2 hosts |
| `connect` | `SettledExcludes`, `SettledForGood`, `EveryConnectReturns`, `TableSettles`, types, under fairness | 2 hosts, 2 users, 6 objects, 1 crash |
| `search` | `AliasResolved`, `DiesOnlyOfConfig`, `LeastLoadedFirst`, `FailsOnlyInVain`, `EveryCallEnds`, types, under fairness | 2 hosts, 3 instances, 7 environments, 1 call, 1 change by others, 1 repeated search, a stack of 7 frames |

Why the bounds are enough. An allocation touches one instance and one mutex, and two
calls are needed to disturb each other; a third would repeat the second. One instance
suffices for stale lists, because a list of one instance can already be true, old in its
status or old in its owner; a second is needed for a call that goes on to another
candidate. One repeated search shows the effect of the ten of the code: `retried` is only
compared. In the agent three names are a pool of two with one to spare, so that one can
be claimed, deleted or left behind while another is made; two versions of an image are
an old and a new one. Two users and two hosts are a connect that fails on one host while
it succeeds on the other, next to one that does the opposite; six objects are enough for
the two entries of the table and the two that each user may have got, so that the bound never
stops a dial. One host and one instance suffice for two deletions: they have the mutex, the
context and the instance in common, and a scrape and an AddInstance call are one of each other kind
of user; `delete_notfound` has a second host only to show that asking that one instead is no
excuse. In `search` two hosts are a less and a more loaded one, and the second may
report no CPU or hold an instance whose limit cannot be read; 29 of 100 CPUs is the least share that the floating point gets wrong: a limit of 29 admits the host
or not, one of 28 must keep it out; the environments are
one with a period of zero and the limit of 28, one whose aliases lead over two steps, one whose aliases have a
cycle and a default that is empty, one mapping without default, and three that are refused
for what they lack or set; seven frames are more than the longest way through those
mappings that has no cycle. The mutants in `PROJECT.json` confirm that each property fails
when the code it depends on is changed.

`CHECK_DEADLOCK FALSE` is set in `claim`, `search` and `split_mutex`, where the calls come to an
end and nothing else is left to happen.

Fairness. Goroutines are scheduled (weak fairness of a call's steps). Waiting for a
`sync.Mutex` is strongly fair: its starvation mode hands it to a waiter. Calls to LXD
return and accepted operations end. For the agent: the loop runs on, the service is
started again, time passes, jobs end, and LXD does not refuse for ever a step that it
grants again and again (strong fairness of the steps that change a status). New calls,
signals, crashes, expiry and new images are never assumed to happen. In `connect` the
goroutines run, each dial ends within its deadline, and sections and work end; that dials
work is not assumed but a premise of `TableSettles`, together with somebody who connects
again and again (the ticker does). In `search` only the steps of the call are fair.

What the four violations show is in `PROJECT.json` ("findings"): two mutexes for a host
after simultaneous connects; an instance that runs is stopped for its old image; SIGHUP
with a new image ends the agent; NotFound for an instance on a host that was never asked, because
the two seconds were over before the mutex was free.

## 4. Proofs

All theorems hold for all constants that satisfy the named assumptions of the modules: any
number of hosts, instances, calls, users, images and so on. Every invariant, action property
and refinement that a passing run checks is also a theorem, under the assumptions of the
tables below; `answered` checks `ExclusiveUse` with
late operations for calls of different runners, which is the theorem of `LateOperationsProofs`. With late operations and several calls of one
runner it does not hold (section 5).

Only model-checked are the liveness properties `EveryRequestAnswered`,
`MutexesAreReleased`, `EveryCallEnds`, `EveryDeleteAnswered`, `EveryConnectReturns`,
`TableSettles`, `LeftoversGo` and `PoolIsRefilled`: they need fairness, hence `ENABLED`,
which the provers do not reason about. For `AddInstance` what they rest on is proved as a
safety property (`ProgressProofs`).

### AddInstance

| theorem (`AddInstanceProofs`) | states | further assumptions |
|---|---|---|
| `TypeCorrect` | `[]TypeOK` | none |
| `Inductive` | `[]IInv` | `OneMutexPerHost`, `LateOps = FALSE` |
| `InstancesAreExclusive` | `[]ExclusiveUse` | the same |
| `ScriptsStayWithOwner` | `[]ScriptsRunForOwner` | the same |
| `HandlersKeepOwnership` | `ImplementsOwnership` | the same |
| `HandlersKeepLife` | `ImplementsLife` | the same |
| `ServersPart` | `ServerKeepsItsPart` | the same |

| theorem (`LateOperationsProofs`) | states | further assumptions |
|---|---|---|
| `ExclusiveInSpiteOfLateOps` | `[]ExclusiveUse` | `OneMutexPerHost`, `RunnersDiffer` |

`OneMutexPerHost` is what `connectedInstances` is there for; run `split_mutex` shows that
it is needed, and `SettledStaysSettled` below when it holds. `LateOps = FALSE` says that
op.Wait returns only when the operation has ended.

The argument. `TypeOK` is inductive only together with `Located` (a handler past the
claim has an instance), because the status that LXD changes is that of `cur[p]`.
`ExclusiveUse` is not inductive: nothing in it stops a third party from changing an owner.
The runner name of an instance changes in `Apply` only. `UpdatesAwaited` says that an
update not yet executed has a handler waiting for it and that its instance has no owner
until then; it survives another handler's `Apply` because of `MutexHeld`: between Lock
and Unlock a handler holds the mutex of its instance's host, and so is alone on it. Thus
an owner is never overwritten, which makes every runner name in every list, however old,
true for ever (`ListsAreTrue`); therefore the search by job finds instances of its runner
only, and whoever is past the claim owns its instance (`ClaimedIsOwned`). `IInv` is the
conjunction, with `MissedIsUnlisted` (who waits to list a host has not listed it),
which `CallsGetNearer` needs; run `refresh` checks it.

Refinement: `Apply` is `Claim` by `UpdatesAwaited`, `ExecScript` is `Serve` by
`ClaimedIsOwned`, and `OwnershipStep` says that all other steps stutter.

The life of instances. A claim must not hit an instance that boots, and nothing in the claim
itself looks at the status: the list that named the instance did, however long ago. What an
old list shows as frozen has been frozen, and without an owner nobody thaws it, so it is
frozen still, or stopped, or gone (`WasFrozen`). `LInv` says this of every list there is, be it
in the cache, in a writer's or a call's hands or abandoned (`ListsShowFrozen`), and of the
candidates and the instance under claim (`CandidatesWereFrozen`). It holds next to `IInv`, which
gives owners to what calls thaw and delete; `HostSteps` lists the few steps that touch an
instance at all.

| theorem (`ProgressProofs`) | states | further assumptions |
|---|---|---|
| `MutexesAreNotForgotten` | `[]HolderIsAtWork` | none |
| `CallsComeNearer` | `CallsGetNearer` | none |

Both hold for split mutexes and lost operations too. With them, that a call ends needs only
that some step of it is taken as long as it has not ended: whoever waits for a mutex waits for
somebody at work, who waits for LXD only, and with finitely many hosts and instances the
order has no infinite way down. The types give `HolderIsAtWork` its induction; `CallsGetNearer` goes through
the actions of a call, and all others leave its place alone.

Late operations. When op.Wait may lose an update that LXD executes later, an owner can be
overwritten and `IInv` is lost. If no two calls are of one runner, instances are exclusive
nevertheless: a runner's name is anywhere only after its call has ended the search by job
(`NamesAreBegun`), which therefore finds nothing, so every call gets its instance from an
allocation; what has been claimed has some owner for ever (`ClaimedIsNamed`), so that the
GetInstance under the mutex refuses it to everybody else (`Alone`).

### PoolSearch

| theorem | states | further assumptions |
|---|---|---|
| `AliasesAreResolved` (`PoolSearchProofs`) | `[]AliasResolved` | none |
| `TypeCorrect` (`PoolSearchProofs`) | `[]TypeOK` | none |
| `ConfigIsTheCause` (`PoolSearchProofs`) | `[]DiesOnlyOfConfig` | none |
| `GivesUpInVain` (`SelectionProofs`) | `[]FailsOnlyInVain` | none |
| `LeastLoadedIsFirst` (`SelectionProofs`) | `[]LeastLoadedFirst` | none |

The assumptions of `PoolSearch` on its constants matter here: CPU totals and limits are
natural numbers (`CpusType`, `LimitsAreUnsigned`: the code parses unsigned ones), the CPUs of
an instance are a natural number or unreadable (`CoresType`), and the stack has room for more
frames than a mapping has keys (`DeepStack`: an environment variable has at most 128 kB, a
stack of Go 1 GB).

Aliases. The word that a call resolves is one its version leads to, and a key of the mapping unless
it is the version (`Resolving`); an empty version is answered because `Load` insists on a
default (`HasDefault`). Types need that whatever a call has heard of a host are instances
(`Heard`, `Lists`).

Stack. Each word looked up leads to the one looked up now; if one came twice the mapping would
have a cycle (`SecondTimeIsCycle`). Without a cycle they are as many as the frames
below the current one (`NoWordTwice`), and all are keys, so that the stack suffices (`OverflowIsCycle`).

Selection. The used CPUs of a host are a sum over a finite set, which the community modules
compute by recursion. That the sum is a number is shown without induction over data: for a
set for which it was none, take a least one (`CoresAreCounted`). Hence shares are comparable
(`Sound`): a share is the quotient rounded down or one less where that is exact
(`ShareBounds`), so a host that is less loaded by more than one percent is never queued
behind the other (`LowerShare`), one below the limit is never left out, and one more than a
percent above it is never taken (`ShareAndLimit`). While candidates are tried, each
match is queued or has been tried, the queue holds matches only, and it is sorted (`Thorough`); a
search that ends has therefore tried them all, and the one repeated last did so too
(`AllTried`).

### Connections

| theorem (`ConnectionsProofs`) | states | further assumptions |
|---|---|---|
| `TypeCorrect` | `[]TypeOK` | none |
| `SettledHostsExclude` | `[]SettledExcludes` | none |
| `SettledStaysSettled` | `SettledForGood` | none |

`IInv` says that an object belongs to one host wherever it is referred to
(`ObjectsOfOneHost`), that goroutines and sections belong to their phases (`Phases`), and
that who is in a section holds the mutex of its object (`SectionsLocked`). Only `Dialed`
hands out an object, and one that nothing refers to. On a settled host all have the object of the
table, hence one mutex. `SettledForGood` needs no invariant but the types: each
action is checked against the parts of `Settled`.

### DeleteInstance

| theorem (`DeleteInstanceProofs`) | states | further assumptions |
|---|---|---|
| `TypeCorrect` | `[]TypeOK` | none |
| `ContextStaysWithHolder` | `[]ContextIsTheHolders` | none |
| `OneDeletionSucceeds` | `[]DeletedOnce` | none |

`MutexPattern` says how far a use of a client is: it has the mutex exactly between Lock and
Unlock, and its context is on the client exactly between set and reset. `AllocationsUncut` says the same of a call under the mutex that sets no
context: it started with the background context, as nobody else can have set one. With `TypeOK`,
`Located` (a call past its search has found a host) and `DeletedOnce` they are the inductive
invariant `IInv`, and `ContextIsTheHolders` follows (`PatternGivesContext`). What a use does is
stated once, for deletions and scrapes alike (`UseInv`), and so are allocations and calls
(`AllocInv`, `CallInv`).

### PoolAgent

| theorem (`PoolAgentProofs`) | states | further assumptions |
|---|---|---|
| `TypeCorrect` | `[]TypeOK` | none |
| `ZombiesAreFree` | `[]ZombiesServeNobody` | none |
| `OldInstancesAreOutdated` | `[]OldIsOutdated` | none |
| `PoolIsNotOverfilled` | `NeverOvershoots` | none |
| `AgentKeepsLife` | `ImplementsLife` | none |
| `AgentsPart` | `AgentKeepsItsPart` | none |

Zombies. The server claims what has been frozen once (`OwnedWasOffered`), and an instance
without owner that has been frozen is never seen running again (`FrozenFirst`,
`StartedIsNew`). So what a list shows neither frozen nor owned is out of the server's reach
or stopped, and stays so (`ListInv`, `DeleteInv`).

Old images. Instances are made of what is published (`MadeOfPublished`, `MadeInTime`), so
the later of two is of the newer version (`LaterIsNewer`); what the agent takes for current is
that of some instance (`CurrentIsReal`), and what it takes for old was made before that one
from another version, hence an older one.

Counts. What is counted of a kind, together with the instance in the making, and what is
still to be made of it fit into the configured count (`RoomLeft`). Claims, thaws, ends of
jobs and deletions only make the first smaller, a creation moves one from the second
to the first, and a config changes between two rounds only (`RoundOver`).

The life of instances. What is frozen has been offered (`FrozenIsOffered`), and what the agent has
in hand between start and freeze has not (`InHandIsNew`): the server cannot have claimed it, so the
freeze offers something new and never sends an instance back into the pool. After a crash in
between, nobody freezes the instance any more; it is a zombie.

## 5. What the code leaves open

Seen while modelling, and not the subject of a run:

- The over-commit limit is checked against the lists that a call has read, and not again at the
  claim: calls with the same lists pass it together (`pool.go:105`).
- A retry of myshoes may get the instance of another runner if LXD executes an update that
  op.Wait has given up on: the update of the first call overwrites the name of the runner
  that has claimed the instance meanwhile, and the retry finds it by job. TLC shows it with the
  constants of `answered`, no writer, and a third call of the first one's runner.
- A call without the mutex, as all of AddInstance from the thaw on and a deletion's stop, may start under the
  context of the mutex holder and is cut when that one ends (`CutCalls`).
- The agent deletes an instance of a type that was disabled whatever its status and owner
  (`agent.go:275`).
- `LXD_MULTI_IMAGE_ALIAS` is documented with a default (`server/README.md:52`), but `Load`
  refuses an environment that sets neither it nor the mapping (`config.go:71`), and so does
  `Loads`.
- A claim whose second GetInstance fails leaves an instance with an owner whose call goes on
  to another one (`pool.go:221`), and so does a recovery whose deletion LXD refuses
  (`server_add_instance.go:98`); only a deletion by myshoes removes it. An instance
  is deleted for its old image also when it has an owner and is not thawed yet (`agent.go:478`).
- The first CPU total of a host is used as long as the server runs (`resource.go:138`).
- `LXD_MULTI_LOG_LEVEL` is documented with its levels (`server/README.md:36`), but `Load`
  refuses every environment that sets it.
- The period of the cache may be set to zero or less; the ticker then panics.
- A cycle in the alias mapping is accepted, and the first request that leads into it ends
  the server.
- The check interval of the agent is 2 s in `pool-agent/README.md:75` and 5 s in
  `config.go:117`.

## 6. Not modelled

- Job status from console logs, which reads and changes nothing; metrics, wording and
  logs; the gRPC layer; the myshoes plugin, whose repeated calls are further requests.
- The agent's TOML files with their old format, durations and certificates: what they say is
  a constant (`Configs`), how they are parsed has no state. Command line and signal wiring of the
  agent.
- `LeftoversGo` is about instances whose image the restarted agent still has in its config: one of an
  image that no file names any more is nobody's (the agent looks at the instances of its images only).
- A request that names a host twice, whose goroutines would share `LXDHost`.
- Contents of instances. The script is the event that it was started.

## 7. Plan

Done: the inventory; `AddInstance` with its cache and abstract specifications;
`DeleteInstance`; `PoolAgent`; the connection table; alias mapping, server configuration and
the selection of instances; the life of an instance, implemented by server and agent; proofs of
all safety properties.

Left:

1. `Stadium`: server and agent over one `LXDHost`, in the place of `Environment` and
   `ServerStep`. That each keeps to its part of `InstanceLife` is proved; the composition would
   replace the environments by the programs.
2. `Connections` in the place of `LockOf`, so that `split_mutex` becomes a behaviour.
3. Variants like `CallsGetNearer` for `DeleteInstance`, `Connections` and `PoolSearch`.
4. Job status of an instance as a function of its console log.
