-------------------------- MODULE PoolSearchProofs --------------------------
(* Proofs about PoolSearch for any environments, versions and mappings.    *)
EXTENDS PoolSearch, FiniteSetTheorems, TLAPS

(* A version leads to itself, and with a word to what the word leads to. *)
LEMMA LeadsToItself ==
  ASSUME NEW aliases, NEW version
  PROVE version \in LeadsTo(aliases, version)
  BY DEF LeadsTo

LEMMA LeadsOn ==
  ASSUME NEW aliases, NEW version, NEW k \in LeadsTo(aliases, version)
  PROVE /\ k = "" => "default" \in LeadsTo(aliases, version)
        /\ k \in DOMAIN aliases => aliases[k] \in LeadsTo(aliases, version)
<1>1. ASSUME k = "" PROVE "default" \in LeadsTo(aliases, version)
  <2>1. "default" \in Words(aliases)
    BY DEF Words
  <2>2. QED
    BY <1>1, <2>1 DEF LeadsTo, Closed
<1>2. ASSUME k \in DOMAIN aliases PROVE aliases[k] \in LeadsTo(aliases, version)
  <2>1. aliases[k] \in Words(aliases)
    BY <1>2 DEF Words
  <2>2. QED
    BY <1>2, <2>1 DEF LeadsTo, Closed
<1>3. QED
  BY <1>1, <1>2

(* A version that the mapping does not know leads nowhere. *)
LEMMA UnknownLeadsNowhere ==
  ASSUME NEW aliases, NEW version, version \notin DOMAIN aliases, version # "",
         NEW k \in LeadsTo(aliases, version)
  PROVE k = version
<1>1. {version} \in SUBSET (Words(aliases) \cup {version})
  OBVIOUS
<1>2. Closed(aliases, {version})
  BY DEF Closed
<1>3. QED
  BY <1>1, <1>2 DEF LeadsTo

(* Why aliases are resolved: while a call resolves, its word is one that    *)
(* the version leads to, and a key unless it is the version itself.  An     *)
(* empty version is answered because Load insists on a default.             *)
HasDefault ==
  server = "up" \/ pc # "idle" => "default" \in DOMAIN conf.aliases

Resolving ==
  pc = "resolve" =>
    /\ word \in LeadsTo(conf.aliases, request.version)
    /\ word = request.version \/ word \in DOMAIN conf.aliases

IInv == HasDefault /\ Resolving /\ AliasResolved

LEMMA InitIInv == Init => IInv
  BY DEF Init, IInv, HasDefault, Resolving, AliasResolved

LEMMA ResolvedStep == IInv /\ Resolved => IInv'
<1> SUFFICES ASSUME IInv, Resolved PROVE IInv'
  OBVIOUS
<1> DEFINE m == conf.aliases  v == request.version  leads == LeadsTo(m, v)
<1>1. /\ pc = "resolve" /\ pc' = "list"
      /\ UNCHANGED <<conf, server, request>>
      /\ ~CallsAgain(m, word)
      /\ word' = Answer(m, word)
  BY DEF Resolved, serverVars
<1>2. word \in leads /\ (word = v \/ word \in DOMAIN m) /\ "default" \in DOMAIN m
  BY <1>1 DEF IInv, Resolving, HasDefault
<1>3. IF word' = ""
      THEN v \notin DOMAIN m \cup {""} \/ \E k \in leads \cap DOMAIN m : m[k] = ""
      ELSE word' \in leads /\ word' \notin DOMAIN m \cup {v}
  <2>1. CASE word \in DOMAIN m
    <3>1. word' = m[word] /\ m[word] \notin DOMAIN m /\ word # ""
      BY <1>1, <2>1 DEF Answer, CallsAgain
    <3>2. CASE word' = ""
      BY <1>2, <2>1, <3>1, <3>2
    <3>3. CASE word' # ""
      <4>1. word' \in leads
        BY <1>2, <2>1, <3>1, LeadsOn
      <4>2. word' # v
        <5> SUFFICES ASSUME word' = v PROVE FALSE
          OBVIOUS
        <5>1. v \notin DOMAIN m /\ v # ""
          BY <3>1, <3>3
        <5>2. word = v
          BY <1>2, <5>1, UnknownLeadsNowhere
        <5>3. QED
          BY <2>1, <5>1, <5>2
      <4>3. QED
        BY <3>1, <3>3, <4>1, <4>2
    <3>4. QED
      BY <3>2, <3>3
  <2>2. CASE word \notin DOMAIN m
    BY <1>1, <1>2, <2>2 DEF Answer, CallsAgain
  <2>3. QED
    BY <2>1, <2>2
<1>4. AliasResolved'
  BY <1>1, <1>3 DEF AliasResolved
<1>5. QED
  BY <1>1, <1>2, <1>4 DEF IInv, HasDefault, Resolving

LEMMA CallAgainStep == IInv /\ CallAgain => IInv'
<1> SUFFICES ASSUME IInv, CallAgain PROVE IInv'
  OBVIOUS
<1> DEFINE m == conf.aliases  v == request.version
<1>1. /\ pc = "resolve" /\ UNCHANGED <<pc, conf, server, request>>
      /\ CallsAgain(m, word)
      /\ word' = NextWord(m, word)
  BY DEF CallAgain, serverVars
<1>2. word \in LeadsTo(m, v) /\ "default" \in DOMAIN m
  BY <1>1 DEF IInv, Resolving, HasDefault
<1>3. word' \in LeadsTo(m, v) /\ word' \in DOMAIN m
  BY <1>1, <1>2, LeadsOn DEF CallsAgain, NextWord
<1>4. QED
  BY <1>1, <1>2, <1>3 DEF IInv, HasDefault, Resolving, AliasResolved

LEMMA InvStep == IInv /\ [Next]_vars => IInv'
<1> SUFFICES ASSUME IInv, [Next]_vars PROVE IInv'
  OBVIOUS
<1> USE DEF IInv, HasDefault, Resolving, AliasResolved
<1>1. ASSUME UNCHANGED <<server, conf, pc, request, word>>
      PROVE IInv'
  BY <1>1
<1>2. ASSUME NEW env \in Environments, StartServer(env)
      PROVE IInv'
  <2>1. pc' = "idle"
    BY <1>2 DEF StartServer
  <2>2. CASE ~Loads(env)
    BY <1>2, <2>1, <2>2 DEF StartServer
  <2>3. CASE Loads(env)
    <3>1. "default" \in DOMAIN Load(env).aliases
      BY <2>3 DEF Loads, Load
    <3>2. QED
      BY <1>2, <2>1, <2>3, <3>1 DEF StartServer
  <2>4. QED
    BY <2>2, <2>3
<1>3. ASSUME Dies
      PROVE IInv'
  BY <1>3 DEF Dies, callVars
<1>4. ASSUME NEW type, NEW version, NEW hosts, Ask(type, version, hosts)
      PROVE IInv'
  <2>1. /\ pc' = "resolve" /\ server = "up"
        /\ request'.version = version /\ word' = version
        /\ UNCHANGED <<server, conf>>
    BY <1>4 DEF Ask, serverVars
  <2>2. word' \in LeadsTo(conf.aliases, request'.version)
    BY <2>1, LeadsToItself
  <2>3. QED
    BY <2>1, <2>2
<1>5. ASSUME NEW h \in Hosts, HearCached(h) \/ HearFetched(h) \/ HearNothing(h)
      PROVE IInv'
  <2>1. UNCHANGED <<server, conf, pc, request, word>>
    BY <1>5 DEF HearCached, HearFetched, HearNothing, Hear, serverVars
  <2>2. QED
    BY <1>1, <2>1
<1>6. ASSUME Found
      PROVE IInv'
  <2>1. pc = "list" /\ pc' = "try" /\ UNCHANGED <<server, conf, request, word>>
    BY <1>6 DEF Found, serverVars
  <2>2. QED
    BY <2>1
<1>7. ASSUME NEW r \in Runners, Claim(r)
      PROVE IInv'
  BY <1>7 DEF Claim, serverVars
<1>8. ASSUME ClaimFails
      PROVE IInv'
  BY <1>8 DEF ClaimFails, serverVars
<1>9. ASSUME Again
      PROVE IInv'
  <2>1. /\ pc = "try" /\ pc' = "resolve" /\ word' = request.version
        /\ UNCHANGED <<server, conf, request>>
    BY <1>9 DEF Again, serverVars
  <2>2. word' \in LeadsTo(conf.aliases, request.version)
    BY <2>1, LeadsToItself
  <2>3. QED
    BY <2>1, <2>2
<1>10. ASSUME GiveUp
       PROVE IInv'
  BY <1>10 DEF GiveUp, serverVars
<1>11. ASSUME Thawed
       PROVE IInv'
  BY <1>11 DEF Thawed, serverVars
<1>12. ASSUME NEW h \in Hosts, Refresh(h) \/ Expire(h)
       PROVE IInv'
  BY <1>1, <1>12 DEF Refresh, Expire, serverVars, callVars
<1>13. ASSUME Others
       PROVE IInv'
  BY <1>1, <1>13 DEF Others, serverVars, callVars
<1>14. CASE UNCHANGED vars
  BY <1>1, <1>14 DEF vars, serverVars, callVars
<1>15. ASSUME CallStep
       PROVE IInv'
  BY <1>3, <1>5, <1>6, <1>7, <1>8, <1>9, <1>10, <1>11, <1>15,
     ResolvedStep, CallAgainStep DEF CallStep, StackOverflow
<1>16. QED
  BY <1>2, <1>3, <1>4, <1>12, <1>13, <1>14, <1>15 DEF Next, TickerPanics

(* The alias a call searches for is one that its version leads to and that  *)
(* leads no further, for every mapping that the server can be started with: *)
(* parseImageAliasMap stops neither too early nor at a key.                 *)
THEOREM AliasesAreResolved == Spec => []AliasResolved
<1>1. IInv => AliasResolved
  BY DEF IInv
<1>2. QED
  BY <1>1, InitIInv, InvStep, PTL DEF Spec
----------------------------------------------------------------------------
(* Types need the lists: what a call has heard of a host, it has heard of   *)
(* instances.                                                               *)
Lists(f) ==
  /\ f = [h \in Hosts |-> f[h]]
  /\ \A h \in Hosts : f[h] # NoList => f[h].free \subseteq Instances

Heard(f) ==
  /\ f = [h \in Hosts |-> f[h]]
  /\ \A h \in Hosts : f[h] # NoList => f[h].list.free \subseteq Instances

Typed ==
  /\ TypeOK
  /\ request.hosts \subseteq Hosts
  /\ totals = [h \in Hosts |-> totals[h]]
  /\ Lists(cache)
  /\ Heard(heard)

LEMMA NothingIsTyped ==
  /\ Lists(NothingHeard)
  /\ Heard(NothingHeard)
  /\ \A h \in Hosts : NothingHeard[h] = NoList
  BY DEF Lists, Heard, NothingHeard

LEMMA InitTyped == Init => Typed
<1> SUFFICES ASSUME Init PROVE Typed
  OBVIOUS
<1>1. HostTypeOK
  BY DEF Init, HostInit, HostTypeOK, Statuses
<1>2. 0 \in 0..MaxDepth /\ 0 \in 0..MaxRetry /\ 0 \in 0..MaxChanges /\ 0 \in 0..MaxCalls
  BY MaxRetryType, MaxDepthType, MaxChangesType, MaxCallsType
<1>3. queue \in Seq(Instances)
  <2>1. queue = <<>>
    BY DEF Init
  <2>2. QED
    BY <2>1
<1>4. \A h \in Hosts : totals[h] \in CpusOf[h] \cup {NoList}
  BY NothingIsTyped DEF Init
<1>5. TypeOK
  BY <1>1, <1>2, <1>3, <1>4 DEF Init, TypeOK
<1>6. request.hosts \subseteq Hosts
  BY DEF Init, NoRequest
<1>7. Lists(totals) /\ Lists(cache) /\ Heard(heard)
  BY NothingIsTyped DEF Init
<1>8. QED
  BY <1>5, <1>6, <1>7 DEF Typed, Lists

LEMMA ListingOfInstances ==
  ASSUME NEW h, NEW total
  PROVE  Listing(h, total).free \subseteq Instances
  BY DEF Listing, On

(* The totals of the hosts, when one of them has been read. *)
LEMMA TotalsRead ==
  ASSUME Typed, NEW h \in Hosts, NEW total \in Totals(h),
         totals' = [totals EXCEPT ![h] = total]
  PROVE  /\ totals' = [g \in Hosts |-> totals'[g]]
         /\ \A g \in Hosts : totals'[g] \in CpusOf[g] \cup {NoList}
  BY DEF Typed, TypeOK, Totals

(* Some order of the matches is a sequence of instances. *)
LEMMA MatchesInSequence ==
  ASSUME Typed, NEW q \in SetToSeqs(UNION {Matching(h) : h \in Hosts})
  PROVE  q \in Seq(Instances)
<1> DEFINE S == UNION {Matching(h) : h \in Hosts}
<1>1. S \subseteq Instances
  BY DEF Typed, Heard, Matching
<1>2. Cardinality(S) \in Nat
  BY <1>1, InstancesFinite, FS_Subset, FS_CardinalityType
<1>3. q \in [1..Cardinality(S) -> S]
  BY DEF SetToSeqs
<1>4. q \in [1..Cardinality(S) -> Instances]
  BY <1>1, <1>3
<1>5. ASSUME NEW n \in Nat, q \in [1..n -> Instances]
      PROVE q \in Seq(Instances)
  BY <1>5
<1>6. QED
  BY <1>2, <1>4, <1>5

LEMMA TypeStep == Typed /\ [Next]_vars => Typed'
<1> SUFFICES ASSUME Typed, [Next]_vars PROVE Typed'
  OBVIOUS
<1> USE CpusType, MaxRetryType, MaxDepthType, MaxChangesType, MaxCallsType
<1> USE DEF Typed, TypeOK, HostTypeOK, Active,
            hostVars, serverVars, listVars, callVars, bounds
<1>1. ASSUME NEW env \in Environments, StartServer(env)
      PROVE Typed'
  <2>1. /\ totals' = NothingHeard /\ cache' = NothingHeard /\ heard' = NothingHeard
        /\ UNCHANGED <<status, runner, changes, calls>>
        /\ server' \in {"up", "exited"} /\ pc' = "idle"
        /\ request' = NoRequest
        /\ depth' = 0 /\ toScan' = {} /\ queue' = <<>> /\ tried' = {}
        /\ cur' = NoInst /\ retried' = 0
    BY <1>1 DEF StartServer
  <2>2. TypeOK' /\ request'.hosts \subseteq Hosts
    <3>1. queue' \in Seq(Instances)
      BY <2>1
    <3>2. \A h \in Hosts : totals'[h] \in CpusOf[h] \cup {NoList}
      BY <2>1, NothingIsTyped
    <3>3. 0 \in 0..MaxDepth /\ 0 \in 0..MaxRetry
      OBVIOUS
    <3>4. QED
      BY <2>1, <3>1, <3>2, <3>3 DEF NoRequest
  <2>3. Lists(totals') /\ Lists(cache') /\ Heard(heard')
    BY <2>1, NothingIsTyped
  <2>4. QED
    BY <2>2, <2>3 DEF Lists, Heard
<1>2. ASSUME Dies
      PROVE Typed'
  BY <1>2 DEF Dies
<1>3. ASSUME NEW type, NEW version, NEW hosts \in SUBSET Hosts, Ask(type, version, hosts)
      PROVE Typed'
  <2>1. /\ heard' = NothingHeard /\ pc' = "resolve" /\ depth' = 1 /\ tried' = {}
        /\ cur' = NoInst /\ retried' = 0
        /\ calls < MaxCalls /\ calls' = calls + 1
        /\ request'.hosts = hosts
        /\ UNCHANGED <<hostVars, server, totals, cache, toScan, queue, changes>>
    BY <1>3 DEF Ask
  <2>2. TypeOK'
    BY <2>1
  <2>3. Heard(heard')
    BY <2>1, NothingIsTyped
  <2>4. QED
    BY <2>1, <2>2, <2>3 DEF Heard
<1>4. ASSUME CallAgain
      PROVE Typed'
  BY <1>4 DEF CallAgain
<1>5. ASSUME Resolved
      PROVE Typed'
  BY <1>5, NothingIsTyped DEF Resolved
<1>6. ASSUME NEW h \in Hosts, NEW list, Hear(h, list), list.free \subseteq Instances
      PROVE /\ Heard(heard')
            /\ toScan' \subseteq Hosts
            /\ UNCHANGED <<hostVars, server, pc, request, depth, queue, tried, cur, retried,
                           changes, calls>>
  <2>1. PICK percent : heard' = [heard EXCEPT ![h] = [list |-> list, percent |-> percent]]
    BY <1>6 DEF Hear
  <2>2. heard = [g \in Hosts |-> heard[g]]
    BY DEF Heard
  <2>3. heard' = [g \in Hosts |-> IF g = h THEN [list |-> list, percent |-> percent]
                                          ELSE heard[g]]
    BY <2>1, <2>2
  <2>4. Heard(heard')
    BY <1>6, <2>3 DEF Heard
  <2>5. QED
    BY <1>6, <2>4 DEF Hear
<1>7. ASSUME NEW h \in Hosts, HearCached(h)
      PROVE Typed'
  <2>1. cache[h].free \subseteq Instances /\ Hear(h, cache[h]) /\ UNCHANGED <<cache, totals>>
    BY <1>7 DEF HearCached, Lists
  <2>2. Heard(heard')
    BY <1>6, <2>1
  <2>3. QED
    BY <1>6, <2>1, <2>2 DEF Heard
<1>8. ASSUME NEW h \in Hosts, NEW total, cache' = [cache EXCEPT ![h] = Listing(h, total)]
      PROVE Lists(cache')
  <2>1. cache = [g \in Hosts |-> cache[g]]
    BY DEF Lists
  <2>2. cache' = [g \in Hosts |-> IF g = h THEN Listing(h, total) ELSE cache[g]]
    BY <1>8, <2>1
  <2>3. QED
    BY <2>2, ListingOfInstances DEF Lists
<1>9. ASSUME NEW h \in Hosts, HearFetched(h)
      PROVE Typed'
  <2>1. PICK total \in Totals(h) :
          /\ Hear(h, Listing(h, total))
          /\ cache' = [cache EXCEPT ![h] = Listing(h, total)]
          /\ totals' = [totals EXCEPT ![h] = total]
    BY <1>9 DEF HearFetched
  <2>2. Heard(heard') /\ Lists(cache')
    BY <1>6, <1>8, <2>1, ListingOfInstances
  <2>3. /\ totals' = [g \in Hosts |-> totals'[g]]
        /\ \A g \in Hosts : totals'[g] \in CpusOf[g] \cup {NoList}
    BY <2>1, TotalsRead
  <2>4. /\ toScan' \subseteq Hosts
        /\ UNCHANGED <<hostVars, server, pc, request, depth, queue, tried, cur, retried,
                       changes, calls>>
    BY <1>6, <2>1, ListingOfInstances
  <2>5. QED
    BY <2>2, <2>3, <2>4 DEF Lists, Heard
<1>10. ASSUME NEW h \in Hosts, HearNothing(h)
       PROVE Typed'
  <2>1. /\ totals' = [g \in Hosts |-> totals'[g]]
        /\ \A g \in Hosts : totals'[g] \in CpusOf[g] \cup {NoList}
    BY <1>10, TotalsRead DEF HearNothing
  <2>2. QED
    BY <1>10, <2>1 DEF HearNothing, Lists, Heard
<1>11. ASSUME Found
       PROVE Typed'
  <2>1. queue' \in Seq(Instances)
    BY <1>11, MatchesInSequence DEF Found
  <2>2. QED
    BY <1>11, <2>1 DEF Found, Lists, Heard
<1>12. ASSUME NEW r \in Runners, Claim(r)
       PROVE Typed'
  <2>1. Head(queue) \in Instances
    BY <1>12 DEF Claim
  <2>2. <<>> \in Seq(Instances)
    OBVIOUS
  <2>3. QED
    BY <1>12, <2>1, <2>2 DEF Claim, WriteRunner, Lists, Heard
<1>13. ASSUME ClaimFails
       PROVE Typed'
  <2>1. Head(queue) \in Instances /\ Tail(queue) \in Seq(Instances)
    BY <1>13 DEF ClaimFails
  <2>2. QED
    BY <1>13, <2>1 DEF ClaimFails, Lists, Heard
<1>14. ASSUME Again
       PROVE Typed'
  BY <1>14 DEF Again, Lists, Heard
<1>15. ASSUME GiveUp
       PROVE Typed'
  BY <1>15 DEF GiveUp, Lists, Heard
<1>16. ASSUME Thawed
       PROVE Typed'
  BY <1>16 DEF Thawed, Unfreeze, Statuses, Lists, Heard
<1>17. ASSUME NEW h \in Hosts, Refresh(h)
       PROVE Typed'
  <2>1. PICK total \in Totals(h) :
          /\ totals' = [totals EXCEPT ![h] = total]
          /\ cache' = IF Listable(h) THEN [cache EXCEPT ![h] = Listing(h, total)] ELSE cache
    BY <1>17 DEF Refresh
  <2>2. Lists(cache')
    BY <1>8, <2>1
  <2>3. /\ totals' = [g \in Hosts |-> totals'[g]]
        /\ \A g \in Hosts : totals'[g] \in CpusOf[g] \cup {NoList}
    BY <2>1, TotalsRead
  <2>4. QED
    BY <1>17, <2>2, <2>3 DEF Refresh, Lists, Heard
<1>18. ASSUME NEW h \in Hosts, Expire(h)
       PROVE Typed'
  <2>1. cache' = [cache EXCEPT ![h] = NoList] /\ cache = [g \in Hosts |-> cache[g]]
    BY <1>18 DEF Expire, Lists
  <2>2. cache' = [g \in Hosts |-> IF g = h THEN NoList ELSE cache[g]]
    BY ONLY <2>1
  <2>3. Lists(cache')
    BY <2>2 DEF Lists
  <2>4. QED
    BY <1>18, <2>3 DEF Expire, Lists, Heard
<1>19. ASSUME Others
       PROVE Typed'
  <2>1. HostTypeOK'
    BY <1>19 DEF Others, Environment, Boot, Freeze, Stop, Delete, WriteRunner, Unfreeze, Statuses
  <2>2. QED
    BY <1>19, <2>1 DEF Others, Lists, Heard
<1>20. CASE UNCHANGED vars
  BY <1>20 DEF vars, Lists, Heard
<1>21. ASSUME CallStep
       PROVE Typed'
  BY <1>2, <1>4, <1>5, <1>7, <1>9, <1>10, <1>11, <1>12, <1>13, <1>14, <1>15, <1>16, <1>21
     DEF CallStep, StackOverflow
<1>22. QED
  BY <1>1, <1>2, <1>3, <1>17, <1>18, <1>19, <1>20, <1>21 DEF Next, TickerPanics

(* Every variable of the server keeps its type, whatever it is started with *)
(* and whatever the hosts answer: a search's candidates are instances.      *)
THEOREM TypeCorrect == Spec => []TypeOK
<1>1. Typed => TypeOK
  BY DEF Typed
<1>2. QED
  BY <1>1, InitTyped, TypeStep, PTL DEF Spec
----------------------------------------------------------------------------
(* Why the stack suffices: the words that a call has looked up are keys, or *)
(* empty, and each leads to the one it looks up now.  So they are all       *)
(* different as long as the version leads into no cycle, and fewer than the *)
(* frames of the stack.                                                     *)
KeysOf(aliases) == DOMAIN aliases \cup {""}

FewKeys ==
  server = "up" \/ pc # "idle" =>
    IsFiniteSet(KeysOf(conf.aliases)) /\ Cardinality(KeysOf(conf.aliases)) < MaxDepth

LookedUp(aliases, version, w, S) ==
  /\ S \subseteq KeysOf(aliases)
  /\ \A k \in S : k \in LeadsTo(aliases, version) /\ w \in LeadsTo(aliases, NextWord(aliases, k))

NoWordTwice ==
  pc = "resolve" =>
    \/ HasCycle(conf.aliases, request.version)
    \/ \E S : Cardinality(S) = depth - 1 /\ LookedUp(conf.aliases, request.version, word, S)

DInv == Typed /\ IInv /\ FewKeys /\ NoWordTwice /\ DiesOnlyOfConfig

(* A word that is looked up for the second time is on a cycle. *)
LEMMA SecondTimeIsCycle ==
  ASSUME NEW aliases, NEW version, NEW w, NEW S, LookedUp(aliases, version, w, S), w \in S
  PROVE  HasCycle(aliases, version)
<1>1. w \in LeadsTo(aliases, version) /\ w \in LeadsTo(aliases, NextWord(aliases, w))
  BY DEF LookedUp
<1>2. w = "" \/ w \in DOMAIN aliases
  BY DEF LookedUp, KeysOf
<1>3. QED
  BY <1>1, <1>2 DEF HasCycle, NextWord

(* One that is not adds to the words that have been looked up. *)
LEMMA OneMoreWord ==
  ASSUME NEW aliases, NEW version, NEW w \in LeadsTo(aliases, version), CallsAgain(aliases, w),
         IsFiniteSet(KeysOf(aliases)),
         NEW S, LookedUp(aliases, version, w, S), w \notin S
  PROVE  /\ Cardinality(S \cup {w}) = Cardinality(S) + 1
         /\ S \cup {w} \subseteq KeysOf(aliases)
         /\ LookedUp(aliases, version, NextWord(aliases, w), S \cup {w})
<1>1. w \in KeysOf(aliases)
  BY DEF CallsAgain, KeysOf
<1>2. IsFiniteSet(S)
  BY FS_Subset DEF LookedUp
<1>3. Cardinality(S \cup {w}) = Cardinality(S) + 1
  BY <1>2, FS_AddElement
<1>4. ASSUME NEW k, w \in LeadsTo(aliases, k)
      PROVE  NextWord(aliases, w) \in LeadsTo(aliases, k)
  BY <1>4, LeadsOn DEF CallsAgain, NextWord
<1>5. NextWord(aliases, w) \in LeadsTo(aliases, NextWord(aliases, w))
  BY LeadsToItself
<1>6. QED
  BY <1>1, <1>3, <1>4, <1>5 DEF LookedUp

LEMMA NothingLookedUp ==
  ASSUME NEW aliases, NEW version, NEW w
  PROVE  Cardinality({}) = 0 /\ LookedUp(aliases, version, w, {})
  BY FS_EmptySet DEF LookedUp

LEMMA OverflowIsCycle == DInv /\ StackOverflow => HasCycle(conf.aliases, request.version)
<1> SUFFICES ASSUME DInv, StackOverflow PROVE HasCycle(conf.aliases, request.version)
  OBVIOUS
<1> DEFINE m == conf.aliases  v == request.version
<1>1. pc = "resolve" /\ CallsAgain(m, word) /\ depth = MaxDepth
  BY DEF StackOverflow
<1>2. IsFiniteSet(KeysOf(m)) /\ Cardinality(KeysOf(m)) < MaxDepth
  BY <1>1 DEF DInv, FewKeys
<1>3. word \in LeadsTo(m, v)
  BY <1>1 DEF DInv, IInv, Resolving
<1>4. ASSUME NEW S, Cardinality(S) = depth - 1, LookedUp(m, v, word, S), word \notin S
      PROVE  FALSE
  <2>1. Cardinality(S \cup {word}) = Cardinality(S) + 1 /\ S \cup {word} \subseteq KeysOf(m)
    BY <1>1, <1>2, <1>3, <1>4, OneMoreWord
  <2>2. Cardinality(S \cup {word}) = MaxDepth
    BY <1>1, <1>4, <2>1, MaxDepthType
  <2>3. Cardinality(S \cup {word}) <= Cardinality(KeysOf(m)) /\ Cardinality(KeysOf(m)) \in Nat
    BY <1>2, <2>1, FS_Subset, FS_CardinalityType
  <2>4. QED
    BY <1>2, <2>2, <2>3, MaxDepthType
<1>5. QED
  BY <1>1, <1>4, SecondTimeIsCycle DEF DInv, NoWordTwice

LEMMA LookUpStep == DInv /\ CallAgain => NoWordTwice'
<1> SUFFICES ASSUME DInv, CallAgain PROVE NoWordTwice'
  OBVIOUS
<1> DEFINE m == conf.aliases  v == request.version
<1>1. /\ pc = "resolve" /\ CallsAgain(m, word) /\ UNCHANGED <<conf, request>>
      /\ word' = NextWord(m, word) /\ depth' = depth + 1 /\ depth \in Nat
  BY MaxDepthType DEF CallAgain, serverVars, DInv, Typed, TypeOK
<1>2. IsFiniteSet(KeysOf(m)) /\ word \in LeadsTo(m, v)
  BY <1>1 DEF DInv, FewKeys, IInv, Resolving
<1>3. CASE HasCycle(m, v)
  BY <1>1, <1>3 DEF NoWordTwice
<1>4. ASSUME NEW S, Cardinality(S) = depth - 1, LookedUp(m, v, word, S), word \notin S
      PROVE  NoWordTwice'
  <2>1. /\ Cardinality(S \cup {word}) = Cardinality(S) + 1
        /\ LookedUp(m, v, NextWord(m, word), S \cup {word})
    BY <1>1, <1>2, <1>4, OneMoreWord
  <2>2. Cardinality(S \cup {word}) = depth' - 1
    BY <1>1, <1>4, <2>1
  <2>3. QED
    BY <1>1, <2>1, <2>2 DEF NoWordTwice
<1>5. QED
  BY <1>1, <1>3, <1>4, SecondTimeIsCycle DEF DInv, NoWordTwice

LEMMA InitDInv == Init => DInv
  BY InitTyped, InitIInv DEF Init, DInv, FewKeys, NoWordTwice, DiesOnlyOfConfig

LEMMA DInvStep == DInv /\ [Next]_vars => DInv'
<1> SUFFICES ASSUME DInv, [Next]_vars PROVE DInv'
  OBVIOUS
<1>1. Typed' /\ IInv'
  BY TypeStep, InvStep DEF DInv
<1> DEFINE Rest == FewKeys /\ NoWordTwice /\ DiesOnlyOfConfig
<1> SUFFICES Rest'
  BY <1>1 DEF DInv
<1> USE DEF FewKeys, NoWordTwice, DiesOnlyOfConfig
<1>2. ASSUME UNCHANGED <<server, conf, pc, request, word, depth>>
      PROVE  Rest'
  BY <1>2 DEF DInv
<1>3. ASSUME NEW env \in Environments, StartServer(env)
      PROVE  Rest'
  <2>1. pc' = "idle" /\ server' \in {"up", "exited"}
    BY <1>3 DEF StartServer
  <2>2. CASE Loads(env)
    <3>1. /\ IsFiniteSet(KeysOf(Load(env).aliases))
          /\ Cardinality(KeysOf(Load(env).aliases)) < MaxDepth
      BY <2>2, DeepStack DEF KeysOf
    <3>2. conf' = Load(env)
      BY <1>3, <2>2 DEF StartServer
    <3>3. QED
      BY <2>1, <3>1, <3>2
  <2>3. CASE ~Loads(env)
    BY <1>3, <2>1, <2>3 DEF StartServer
  <2>4. QED
    BY <2>2, <2>3
<1>4. CASE TickerPanics
  <2>1. /\ server' = "died" /\ UNCHANGED <<conf, pc, request, word, depth>>
        /\ server = "up" /\ conf.period <= 0
    BY <1>4 DEF TickerPanics, Dies, callVars
  <2>2. QED
    BY <2>1 DEF DInv
<1>5. CASE server = "up" /\ StackOverflow
  <2>1. /\ server' = "died" /\ UNCHANGED <<conf, pc, request, word, depth>>
        /\ server = "up"
    BY <1>5 DEF StackOverflow, Dies, callVars
  <2>2. HasCycle(conf.aliases, request.version)
    BY <1>5, OverflowIsCycle
  <2>3. QED
    BY <2>1, <2>2 DEF DInv
<1>6. ASSUME UNCHANGED <<server, conf>>, server = "up", pc' # "resolve"
      PROVE  Rest'
  BY <1>6 DEF DInv
<1>7. ASSUME UNCHANGED <<server, conf>>, server = "up", depth' = 1
      PROVE  Rest'
  <2>1. Cardinality({}) = depth' - 1
    BY <1>7, FS_EmptySet
  <2>2. LookedUp(conf'.aliases, request'.version, word', {})
    BY NothingLookedUp
  <2>3. QED
    BY <1>7, <2>1, <2>2 DEF DInv
<1>8. ASSUME NEW type, NEW version, NEW hosts, Ask(type, version, hosts)
      PROVE  Rest'
  BY <1>7, <1>8 DEF Ask, serverVars
<1>9. CASE server = "up" /\ CallAgain
  <2>1. UNCHANGED <<server, conf>>
    BY <1>9 DEF CallAgain, serverVars
  <2>2. QED
    BY <1>9, <2>1, LookUpStep DEF DInv
<1>10. CASE server = "up" /\ Again
  BY <1>7, <1>10 DEF Again, serverVars
<1>11. ASSUME NEW h \in Hosts, HearCached(h) \/ HearFetched(h) \/ HearNothing(h)
       PROVE  Rest'
  BY <1>2, <1>11 DEF HearCached, HearFetched, HearNothing, Hear, serverVars
<1>12. ASSUME server = "up",
              \/ Resolved \/ Found \/ ClaimFails \/ GiveUp \/ Thawed
              \/ \E r \in Runners : Claim(r)
       PROVE  Rest'
  <2>1. UNCHANGED <<server, conf>> /\ pc' # "resolve"
    BY <1>12 DEF Resolved, Found, Claim, ClaimFails, GiveUp, Thawed, serverVars
  <2>2. QED
    BY <1>6, <1>12, <2>1
<1>13. CASE CallStep
  BY <1>5, <1>9, <1>10, <1>11, <1>12, <1>13 DEF CallStep
<1>14. ASSUME NEW h \in Hosts, Refresh(h) \/ Expire(h)
       PROVE  Rest'
  BY <1>2, <1>14 DEF Refresh, Expire, serverVars, callVars
<1>15. CASE Others \/ UNCHANGED vars
  BY <1>2, <1>15 DEF Others, vars, serverVars, callVars
<1>16. QED
  BY <1>3, <1>4, <1>8, <1>13, <1>14, <1>15 DEF Next

(* The server ends by itself only because of a period that is not positive  *)
(* or a version that leads into a cycle: without one, parseImageAliasMap    *)
(* looks no word up twice, however the mapping is made.                     *)
THEOREM ConfigIsTheCause == Spec => []DiesOnlyOfConfig
<1>1. DInv => DiesOnlyOfConfig
  BY DEF DInv
<1>2. QED
  BY <1>1, InitDInv, DInvStep, PTL DEF Spec
=============================================================================
