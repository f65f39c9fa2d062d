----------------------------- MODULE PoolSearch -----------------------------
(***************************************************************************)
(* How AddInstance chooses an instance of the pool, from the start of the  *)
(* server (server/main.go) on: the image alias of the requested version,   *)
(* the hosts' lists and CPU shares, the over-commit limit, the order in    *)
(* which candidates are tried, and the repeated search (pool.go,           *)
(* server_add_instance.go, resource.go).                                   *)
(*                                                                         *)
(* One call at a time: how calls get into each other's way is the subject  *)
(* of AddInstance.  Here other calls, agents and jobs change the instances *)
(* between any two steps, and a claim is one step, which may fail.         *)
(***************************************************************************)
EXTENDS LXDHost, ServerConfig, FiniteSets, SequencesExt

CONSTANTS
  Environments, \* what the server may be started with
  Versions,     \* os_version of requests
  Cores,        \* limits.cpu of an instance, 0 if absent
  CpusOf,       \* [Hosts -> SUBSET Nat]: CPU totals a host may report
  Huge,         \* what a float that is no uint64 may be converted to
  MaxRetry,     \* how often the pool is searched again (10 in the code)
  MaxDepth,     \* frames of parseImageAliasMap the stack has room for
  MaxChanges,   \* bound: changes of instances by others
  MaxCalls,     \* bound: calls of AddInstance
  NoList,       \* no entry in the cache, or no answer of the host
  NoConf,       \* the server never had a configuration
  NoInst        \* no instance claimed

ASSUME InstancesFinite == IsFiniteSet(Instances)
ASSUME CpusType == CpusOf \in [Hosts -> SUBSET Nat]
(* LXD accepts a number of CPUs, which is not negative, or a range. *)
ASSUME CoresType == \A i \in Instances : Cores[i] = Malformed \/ Cores[i] \in Nat
(* The limit is parsed by strconv.ParseUint. *)
ASSUME LimitsAreUnsigned ==
  \A env \in Environments :
    env.overCommit = Unset \/ env.overCommit = Malformed \/ env.overCommit \in Nat
ASSUME MaxRetryType == MaxRetry \in Nat
ASSUME MaxDepthType == MaxDepth \in Nat \ {0}
(* The stack holds more frames than a mapping has keys: a mapping is the    *)
(* text of one environment variable (128 kB on Linux), a stack of Go may    *)
(* grow to 1 GB.                                                            *)
ASSUME DeepStack ==
  \A env \in Environments :
    Loads(env) => LET keys == DOMAIN Load(env).aliases \cup {""}
                  IN IsFiniteSet(keys) /\ Cardinality(keys) < MaxDepth
ASSUME MaxChangesType == MaxChanges \in Nat
ASSUME MaxCallsType == MaxCalls \in Nat

VARIABLES
  server,     \* the process: "down", "up", "exited" or "died"
  conf,       \* its configuration
  totals,     \* LXDHostResourceCache: the first answer, kept for ever
  cache,      \* inmemoryCache
  pc,         \* where the call is
  request,    \* what it asks for
  word,       \* argument, then result, of parseImageAliasMap
  depth,      \* its frames on the stack
  toScan,     \* hosts whose goroutine of findInstances has not answered
  heard,      \* what those goroutines have read of the others
  queue,      \* candidates, in the order in which they will be tried
  tried,      \* history: those that allocateInstance failed on
  cur,        \* the instance that was claimed
  retried,    \* as in addInstancePoolMode
  changes,    \* counts what MaxChanges bounds
  calls       \* counts what MaxCalls bounds

serverVars == <<server, conf>>
listVars == <<totals, cache>>
callVars == <<pc, request, word, depth, toScan, heard, queue, tried, cur, retried>>
bounds == <<changes, calls>>
vars == <<hostVars, serverVars, listVars, callVars, bounds>>

Active == {"resolve", "list", "try", "thaw"}

TypeOK ==
  /\ HostTypeOK
  /\ server \in {"down", "up", "exited", "died"}
  /\ \A h \in Hosts : totals[h] \in CpusOf[h] \cup {NoList}
  /\ pc \in Active \cup {"idle", "served", "failed"}
  /\ depth \in 0..MaxDepth
  /\ toScan \subseteq Hosts
  /\ queue \in Seq(Instances)
  /\ tried \subseteq Instances
  /\ cur \in Instances \cup {NoInst}
  /\ retried \in 0..MaxRetry
  /\ changes \in 0..MaxChanges /\ calls \in 0..MaxCalls

NothingHeard == [h \in Hosts |-> NoList]

NoRequest == [type |-> "", version |-> "", hosts |-> {}]

Init ==
  /\ HostInit
  /\ server = "down" /\ conf = NoConf
  /\ totals = NothingHeard /\ cache = NothingHeard
  /\ pc = "idle" /\ request = NoRequest
  /\ word = "" /\ depth = 0
  /\ toScan = {} /\ heard = NothingHeard
  /\ queue = <<>> /\ tried = {}
  /\ cur = NoInst /\ retried = 0
  /\ changes = 0 /\ calls = 0

(* run of server/main.go: an environment that Load refuses, or a port that  *)
(* is taken, ends the process.  What it kept in memory is gone.             *)
StartServer(env) ==
  /\ server # "up"
  /\ IF Loads(env)
     THEN conf' = Load(env) /\ server' \in {"up", "exited"}
     ELSE server' = "exited" /\ UNCHANGED conf
  /\ totals' = NothingHeard /\ cache' = NothingHeard
  /\ pc' = "idle" /\ request' = NoRequest
  /\ word' = "" /\ depth' = 0
  /\ toScan' = {} /\ heard' = NothingHeard
  /\ queue' = <<>> /\ tried' = {}
  /\ cur' = NoInst /\ retried' = 0
  /\ UNCHANGED <<hostVars, bounds>>

Dies ==
  /\ server' = "died"
  /\ UNCHANGED <<hostVars, conf, listVars, callVars, bounds>>

(* time.NewTicker panics in the goroutine of the cache's ticker. *)
TickerPanics ==
  /\ server = "up"
  /\ conf.period <= 0
  /\ Dies
----------------------------------------------------------------------------
(* A call of AddInstance that findInstanceByJob finds nothing for, with the *)
(* hosts that validateTargetHosts leaves.                                   *)
Ask(type, version, hosts) ==
  /\ server = "up"
  /\ pc \notin Active
  /\ calls < MaxCalls
  /\ calls' = calls + 1
  /\ hosts # {} /\ hosts \subseteq conf.hosts
  /\ pc' = "resolve"
  /\ request' = [type |-> type, version |-> version, hosts |-> hosts]
  /\ word' = version
  /\ depth' = 1
  /\ heard' = NothingHeard /\ tried' = {}
  /\ cur' = NoInst /\ retried' = 0
  /\ UNCHANGED <<hostVars, serverVars, listVars, toScan, queue, changes>>

CallAgain ==
  /\ pc = "resolve"
  /\ CallsAgain(conf.aliases, word)
  /\ depth < MaxDepth
  /\ word' = NextWord(conf.aliases, word)
  /\ depth' = depth + 1
  /\ UNCHANGED <<hostVars, serverVars, listVars, pc, request, toScan, heard, queue,
                 tried, cur, retried, bounds>>

(* Go ends a process whose stack has no room for another frame. *)
StackOverflow ==
  /\ pc = "resolve"
  /\ CallsAgain(conf.aliases, word)
  /\ depth = MaxDepth
  /\ Dies

(* The alias is known: findInstances starts a goroutine per host. *)
Resolved ==
  /\ pc = "resolve"
  /\ ~CallsAgain(conf.aliases, word)
  /\ pc' = "list"
  /\ word' = Answer(conf.aliases, word)
  /\ depth' = 0
  /\ toScan' = request.hosts
  /\ heard' = NothingHeard
  /\ tried' = {}
  /\ UNCHANGED <<hostVars, serverVars, listVars, request, queue, cur, retried, bounds>>
----------------------------------------------------------------------------
On(h, states) == {i \in Instances : HostOf[i] = h /\ status[i] \in states}

(* ScrapeLXDHostResources: the first answer of a host, whatever it is, is   *)
(* kept as long as the server runs.                                         *)
Totals(h) == IF totals[h] = NoList THEN CpusOf[h] ELSE {totals[h]}

(* ScrapeLXDHostAllocatedResources: one instance that is not frozen and has *)
(* a limits.cpu such as "0-3" makes the whole listing of its host fail.     *)
Listable(h) == \A i \in On(h, {"Stopped", "Running"}) : Cores[i] # Malformed

(* A list: the frozen instances without an owner, and the CPUs that the     *)
(* running ones use.                                                        *)
Listing(h, total) ==
  [free  |-> {i \in On(h, {"Frozen"}) : runner[i] = NoRunner},
   used  |-> MapThenSumSet(LAMBDA i : Cores[i], On(h, {"Running"})),
   total |-> total]

(* uint64(float64(used) / float64(total) * 100): rounded down, one lower    *)
(* where the quotient was rounded down itself (29 of 100 is 28); what NaN   *)
(* and +Inf are converted to depends on the processor.                      *)
Percents(used, total) ==
  IF total = 0
  THEN IF used = 0 THEN {0, Huge} ELSE {Huge}
  ELSE LET share == (used * 100) \div total
       IN IF (used * 100) % total = 0 /\ used % total # 0
          THEN {share - 1, share} ELSE {share}

Hear(h, list) ==
  /\ toScan' = toScan \ {h}
  /\ \E percent \in Percents(list.used, list.total) :
       heard' = [heard EXCEPT ![h] = [list |-> list, percent |-> percent]]
  /\ UNCHANGED <<hostVars, serverVars, pc, request, word, depth, queue,
                 tried, cur, retried, bounds>>

(* GetResource finds the list in the cache. *)
HearCached(h) ==
  /\ pc = "list"
  /\ h \in toScan
  /\ cache[h] # NoList
  /\ Hear(h, cache[h])
  /\ UNCHANGED <<cache, totals>>

(* It does not, lists the host and stores the list. *)
HearFetched(h) ==
  /\ pc = "list"
  /\ h \in toScan
  /\ cache[h] = NoList
  /\ Listable(h)
  /\ \E total \in Totals(h) :
       /\ Hear(h, Listing(h, total))
       /\ cache' = [cache EXCEPT ![h] = Listing(h, total)]
       /\ totals' = [totals EXCEPT ![h] = total]

(* The host does not answer, in time or properly: it takes no part.  Its    *)
(* CPU total may have been read by then.                                    *)
HearNothing(h) ==
  /\ pc = "list"
  /\ h \in toScan
  /\ toScan' = toScan \ {h}
  /\ \/ UNCHANGED totals
     \/ \E total \in Totals(h) : totals' = [totals EXCEPT ![h] = total]
  /\ UNCHANGED <<hostVars, serverVars, cache, pc, request, word, depth, heard,
                 queue, tried, cur, retried, bounds>>

(* Mutant of OverLimit: a host at the limit is not over it. *)
OverLimitByOne(percent) == conf.limit > 0 /\ percent > conf.limit

OverLimit(percent) == conf.limit > 0 /\ percent >= conf.limit

(* The match function of allocatePooledInstance. *)
IsMatch(i) == KindOf[i] = [type |-> request.type, alias |-> word]

Matching(h) ==
  IF heard[h] = NoList \/ OverLimit(heard[h].percent) THEN {}
  ELSE {i \in heard[h].list.free : IsMatch(i)}

Percent(i) == heard[HostOf[i]].percent

(* Mutant of InOrder: the share of a host is not looked at. *)
AnyOrder(q) ==
  \A j, l \in DOMAIN q : j < l => Percent(q[j]) >= 0

(* sort.Slice by share, hosts of the same share in any order; the           *)
(* instances of a host are shuffled, and stay together.                     *)
InOrder(q) ==
  /\ \A j, l \in DOMAIN q : j < l => Percent(q[j]) <= Percent(q[l])
  /\ \A j, k, l \in DOMAIN q :
       j < k /\ k < l /\ HostOf[q[j]] = HostOf[q[l]] => HostOf[q[k]] = HostOf[q[j]]

(* findInstances returns. *)
Found ==
  /\ pc = "list"
  /\ toScan = {}
  /\ \E q \in SetToSeqs(UNION {Matching(h) : h \in Hosts}) :
       InOrder(q) /\ queue' = q
  /\ pc' = "try"
  /\ UNCHANGED <<hostVars, serverVars, listVars, request, word, depth, toScan, heard,
                 tried, cur, retried, bounds>>
----------------------------------------------------------------------------
(* allocateInstance: the instance is there and has no runner name by now. *)
Claim(r) ==
  /\ pc = "try"
  /\ queue # <<>>
  /\ Exists(Head(queue)) /\ runner[Head(queue)] = NoRunner
  /\ WriteRunner(Head(queue), r)
  /\ pc' = "thaw"
  /\ cur' = Head(queue)
  /\ queue' = <<>>
  /\ UNCHANGED <<serverVars, listVars, request, word, depth, toScan, heard, tried,
                 retried, bounds>>

(* Mutant of ClaimFails: the first failure ends the round. *)
ClaimFailsForAll ==
  /\ pc = "try"
  /\ queue # <<>>
  /\ tried' = tried \cup {Head(queue)}
  /\ queue' = <<>>
  /\ UNCHANGED <<hostVars, serverVars, listVars, pc, request, word, depth, toScan, heard,
                 cur, retried, bounds>>

(* It is not, or a call to LXD fails: the next candidate. *)
ClaimFails ==
  /\ pc = "try"
  /\ queue # <<>>
  /\ tried' = tried \cup {Head(queue)}
  /\ queue' = Tail(queue)
  /\ UNCHANGED <<hostVars, serverVars, listVars, pc, request, word, depth, toScan, heard,
                 cur, retried, bounds>>

(* Mutants of Again: the bound is off by one, or the tries are not counted. *)
AgainOnceMore ==
  /\ pc = "try"
  /\ queue = <<>>
  /\ retried <= MaxRetry
  /\ retried' = retried + 1
  /\ pc' = "resolve"
  /\ word' = request.version
  /\ depth' = 1
  /\ UNCHANGED <<hostVars, serverVars, listVars, request, toScan, heard, queue, tried,
                 cur, bounds>>

AgainUncounted ==
  /\ pc = "try"
  /\ queue = <<>>
  /\ retried < MaxRetry
  /\ pc' = "resolve"
  /\ word' = request.version
  /\ depth' = 1
  /\ UNCHANGED <<hostVars, serverVars, listVars, request, toScan, heard, queue, tried,
                 cur, retried, bounds>>

(* No candidate is left: search again after a second. *)
Again ==
  /\ pc = "try"
  /\ queue = <<>>
  /\ retried < MaxRetry
  /\ retried' = retried + 1
  /\ pc' = "resolve"
  /\ word' = request.version
  /\ depth' = 1
  /\ UNCHANGED <<hostVars, serverVars, listVars, request, toScan, heard, queue, tried,
                 cur, bounds>>

GiveUp ==
  /\ pc = "try"
  /\ queue = <<>>
  /\ retried >= MaxRetry
  /\ pc' = "failed"
  /\ UNCHANGED <<hostVars, serverVars, listVars, request, word, depth, toScan, heard, queue,
                 tried, cur, retried, bounds>>

(* The rest of the handler, in short: the instance is thawed, or is not. *)
Thawed ==
  /\ pc = "thaw"
  /\ Unfreeze(cur) \/ UNCHANGED hostVars
  /\ pc' = "served"
  /\ UNCHANGED <<serverVars, listVars, request, word, depth, toScan, heard, queue, tried,
                 cur, retried, bounds>>
----------------------------------------------------------------------------
(* The ticker and the metrics scrape list a host, or an entry is too old. *)
Refresh(h) ==
  /\ server = "up"
  /\ \E total \in Totals(h) :
       /\ totals' = [totals EXCEPT ![h] = total]
       /\ cache' = IF Listable(h) THEN [cache EXCEPT ![h] = Listing(h, total)] ELSE cache
  /\ UNCHANGED <<hostVars, serverVars, callVars, bounds>>

Expire(h) ==
  /\ server = "up"
  /\ cache[h] # NoList
  /\ cache' = [cache EXCEPT ![h] = NoList]
  /\ UNCHANGED <<hostVars, serverVars, totals, callVars, bounds>>

(* Agents, jobs and other calls change an instance. *)
Others ==
  /\ changes < MaxChanges
  /\ changes' = changes + 1
  /\ \/ Environment
     \/ \E i \in Instances :
          \/ runner[i] = NoRunner /\ \E r \in Runners : WriteRunner(i, r)
          \/ runner[i] # NoRunner /\ Unfreeze(i)
  /\ UNCHANGED <<serverVars, listVars, callVars, calls>>

CallStep ==
  /\ server = "up"
  /\ \/ CallAgain \/ StackOverflow \/ Resolved
     \/ \E h \in Hosts : HearCached(h) \/ HearFetched(h) \/ HearNothing(h)
     \/ Found \/ ClaimFails \/ Again \/ GiveUp \/ Thawed
     \/ \E r \in Runners : Claim(r)

Next ==
  \/ \E env \in Environments : StartServer(env)
  \/ TickerPanics
  \/ \E k \in Kinds, version \in Versions, hosts \in SUBSET Hosts :
       Ask(k.type, version, hosts)
  \/ CallStep
  \/ \E h \in Hosts : Refresh(h) \/ Expire(h)
  \/ Others

Spec == Init /\ [][Next]_vars

(* The goroutine of the call runs, and calls to LXD return or time out. *)
FairSpec == Spec /\ WF_vars(CallStep)
----------------------------------------------------------------------------
(* What is searched for is a word that the requested version leads to and   *)
(* that leads nowhere itself; it is empty only for a version the mapping    *)
(* does not know, or where the mapping says so (parseImageAliasMap, on any  *)
(* mapping that Load accepts).                                              *)
AliasResolved ==
  pc \in {"list", "try", "thaw", "served", "failed"} =>
    LET leads == LeadsTo(conf.aliases, request.version)
    IN IF word = ""
       THEN \/ request.version \notin DOMAIN conf.aliases \cup {""}
            \/ \E k \in leads \cap DOMAIN conf.aliases : conf.aliases[k] = ""
       ELSE word \in leads /\ word \notin DOMAIN conf.aliases \cup {request.version}

(* The server dies of nothing but its configuration: a period that is not   *)
(* positive, or a version that leads into a cycle of aliases.               *)
DiesOnlyOfConfig ==
  server = "died" =>
    conf.period <= 0 \/ HasCycle(conf.aliases, request.version)

(* One host is by more than one percent less loaded than another, in exact  *)
(* arithmetic on the lists that the call has read.                          *)
LessLoaded(g, h) ==
  LET a == heard[g].list
      b == heard[h].list
  IN /\ a.total > 0 /\ b.total > 0
     /\ 100 * a.used * b.total + a.total * b.total < 100 * b.used * a.total

(* A call takes an instance of a host only after it has tried in vain every *)
(* match on the hosts that its lists show less loaded; and never one of a   *)
(* host that its list shows loaded by more than one percent over the limit  *)
(* (findInstances: the shares, the limit, the sort and the shuffle).        *)
LeastLoadedFirst ==
  cur # NoInst =>
    LET h == HostOf[cur]
    IN /\ \A g \in request.hosts :
            heard[g] # NoList /\ LessLoaded(g, h) =>
              \A i \in heard[g].list.free : IsMatch(i) => i \in tried
       /\ heard[h].list.total > 0 /\ conf.limit > 0 =>
            100 * heard[h].list.used < (conf.limit + 1) * heard[h].list.total

(* A call gives up only after its last search has tried every match that it *)
(* had read of a host under the limit (allocatePooledInstance).             *)
FailsOnlyInVain ==
  pc = "failed" =>
    /\ retried = MaxRetry
    /\ \A h \in request.hosts :
         heard[h] # NoList =>
           LET list == heard[h].list
           IN list.total > 0 /\ (conf.limit = 0 \/ 100 * list.used < conf.limit * list.total)
                => \A i \in list.free : IsMatch(i) => i \in tried

(* Every call is answered, unless the server dies. *)
EveryCallEnds == pc \in Active ~> (pc \notin Active \/ server # "up")
============================================================================
