--------------------------- MODULE SelectionProofs ---------------------------
(* Proofs about the selection of an instance by PoolSearch: the order in    *)
(* which a call tries the hosts, and what it has tried when it gives up.    *)
EXTENDS PoolSearchProofs

(* The used CPUs of a host are a sum over a set, computed by a recursive    *)
(* function.  It exists because it does for the subsets of at most k        *)
(* instances, for every k: a least k for which it did not would follow one  *)
(* for which it does, or be 0.                                              *)
CoresOf(S) == MapThenSumSet(LAMBDA i : Cores[i], S)

First(S) == CHOOSE i \in S : TRUE

Adds(f, D) ==
  f = [s \in D |-> IF s = {} THEN 0 ELSE Cores[First(s)] + f[s \ {First(s)}]]

UpTo(S, k) == {s \in SUBSET S : Cardinality(s) <= k}

(* Removing the first element. *)
LEMMA RestIsSmaller ==
  ASSUME NEW S, IsFiniteSet(S), NEW s \in SUBSET S, s # {}
  PROVE  /\ First(s) \in s
         /\ s \ {First(s)} \in SUBSET S
         /\ Cardinality(s) \in Nat
         /\ Cardinality(s \ {First(s)}) = Cardinality(s) - 1
         /\ Cardinality(s) > 0
<1>1. First(s) \in s
  BY DEF First
<1>2. IsFiniteSet(s)
  BY FS_Subset
<1>3. Cardinality(s \ {First(s)}) = Cardinality(s) - 1
  BY <1>1, <1>2, FS_RemoveElement
<1>4. Cardinality(s) \in Nat /\ Cardinality(s) # 0
  BY <1>2, FS_CardinalityType, FS_EmptySet
<1>5. QED
  BY <1>1, <1>3, <1>4

LEMMA AddsOnMore ==
  ASSUME NEW S, IsFiniteSet(S), NEW k \in Nat, NEW f, Adds(f, UpTo(S, k))
  PROVE  \E g : Adds(g, UpTo(S, k + 1))
<1> DEFINE g == [s \in UpTo(S, k + 1) |->
                   IF s = {} THEN 0 ELSE Cores[First(s)] + f[s \ {First(s)}]]
<1>1. ASSUME NEW s \in UpTo(S, k + 1), s # {}
      PROVE  g[s \ {First(s)}] = f[s \ {First(s)}]
  <2> DEFINE t == s \ {First(s)}
  <2>1. t \in UpTo(S, k) /\ t \in UpTo(S, k + 1)
    BY <1>1, RestIsSmaller DEF UpTo
  <2>2. f[t] = IF t = {} THEN 0 ELSE Cores[First(t)] + f[t \ {First(t)}]
    BY <2>1 DEF Adds
  <2>3. QED
    BY <2>1, <2>2
<1> DEFINE D == UpTo(S, k + 1)
           v(s) == IF s = {} THEN 0 ELSE Cores[First(s)] + f[s \ {First(s)}]
           w(s) == IF s = {} THEN 0 ELSE Cores[First(s)] + g[s \ {First(s)}]
<1>2. \A s \in D : v(s) = w(s)
  BY <1>1
<1>3. g = [s \in D |-> v(s)]
  OBVIOUS
<1> HIDE DEF g, v, w, D
<1>4. g = [s \in D |-> w(s)]
  BY <1>2, <1>3
<1>5. Adds(g, UpTo(S, k + 1))
  BY <1>4 DEF Adds, D, w
<1>6. QED
  BY <1>5

LEMMA AddsOnNone ==
  ASSUME NEW S, IsFiniteSet(S)
  PROVE  \E f : Adds(f, UpTo(S, 0))
<1> DEFINE D == UpTo(S, 0)
           f == [s \in D |-> 0]
           w(s) == IF s = {} THEN 0 ELSE Cores[First(s)] + f[s \ {First(s)}]
<1>1. \A s \in UpTo(S, 0) : s = {}
  <2> SUFFICES ASSUME NEW s \in UpTo(S, 0), s # {} PROVE FALSE
    OBVIOUS
  <2>1. s \in SUBSET S /\ Cardinality(s) <= 0
    BY DEF UpTo
  <2>2. Cardinality(s) \in Nat /\ Cardinality(s) > 0
    BY <2>1, RestIsSmaller
  <2>3. QED
    BY <2>1, <2>2
<1>2. \A s \in D : w(s) = 0
  BY <1>1
<1>3. f = [s \in D |-> 0]
  OBVIOUS
<1> HIDE DEF f, w, D
<1>4. f = [s \in D |-> w(s)]
  BY <1>2, <1>3
<1>5. QED
  BY <1>4 DEF Adds, D, w

LEMMA AddsOnAll ==
  ASSUME NEW S, IsFiniteSet(S)
  PROVE  \E f : Adds(f, SUBSET S)
<1> DEFINE Bad == {k \in Nat : ~ \E f : Adds(f, UpTo(S, k))}
<1>1. Bad = {}
  <2> SUFFICES ASSUME Bad # {} PROVE FALSE
    OBVIOUS
  <2>1. PICK k \in Bad : \A j \in Bad : <<j, k>> \notin OpToRel(<, Nat)
    BY WFMin, NatLessThanWellFounded
  <2>2. \A j \in Bad : ~ (j < k)
    BY <2>1 DEF OpToRel
  <2>3. k # 0
    BY AddsOnNone
  <2>4. k - 1 \in Nat /\ k - 1 < k /\ (k - 1) + 1 = k
    BY <2>3
  <2>5. k - 1 \notin Bad
    BY <2>2, <2>4
  <2>6. PICK f : Adds(f, UpTo(S, k - 1))
    BY <2>4, <2>5
  <2>7. \E g : Adds(g, UpTo(S, k))
    BY <2>4, <2>6, AddsOnMore
  <2>8. QED
    BY <2>7
<1>2. Cardinality(S) \in Nat
  BY FS_CardinalityType
<1>3. UpTo(S, Cardinality(S)) = SUBSET S
  BY FS_Subset DEF UpTo
<1>4. PICK f : Adds(f, UpTo(S, Cardinality(S)))
  BY <1>1, <1>2
<1>5. QED
  BY <1>3, <1>4

(* The CPUs that a list shows in use are a number. *)
LEMMA CoresAreCounted ==
  ASSUME NEW S, IsFiniteSet(S), \A i \in S : Cores[i] \in Nat
  PROVE  CoresOf(S) \in Nat
<1> DEFINE f == CHOOSE g : Adds(g, SUBSET S)
           Bad == {s \in SUBSET S : f[s] \notin Nat}
           Less == StrictSubsetOrdering(S)
<1>1. Adds(f, SUBSET S)
  BY AddsOnAll
<1>2. CoresOf(S) = f[S]
  BY DEF CoresOf, MapThenSumSet, MapThenFoldSet, Adds, First
<1> HIDE DEF f
<1>3. Bad = {}
  <2> SUFFICES ASSUME Bad # {} PROVE FALSE
    OBVIOUS
  <2>1. IsWellFoundedOn(Less, SUBSET S)
    BY FS_StrictSubsetOrderingWellFounded, FS_FiniteSubsetsOfFinite
  <2>2. PICK s \in Bad : \A t \in Bad : <<t, s>> \notin Less
    BY <2>1, WFMin
  <2>3. f[s] = IF s = {} THEN 0 ELSE Cores[First(s)] + f[s \ {First(s)}]
    BY <1>1 DEF Adds
  <2>4. s # {}
    BY <2>3
  <2>5. First(s) \in s /\ s \ {First(s)} \in SUBSET S
    BY <2>4, RestIsSmaller
  <2>6. <<s \ {First(s)}, s>> \in Less
    BY <2>5 DEF StrictSubsetOrdering
  <2>7. f[s \ {First(s)}] \in Nat
    BY <2>2, <2>5, <2>6
  <2>8. Cores[First(s)] \in Nat
    BY <2>5
  <2>9. QED
    BY <2>3, <2>4, <2>7, <2>8
<1>4. QED
  BY <1>2, <1>3
----------------------------------------------------------------------------
(* A share is the quotient rounded down, or one less where it is exact.     *)
LEMMA ShareBounds ==
  ASSUME NEW used \in Nat, NEW total \in Nat, total > 0,
         NEW percent \in Percents(used, total)
  PROVE  /\ percent \in Int
         /\ percent * total <= 100 * used
         /\ 100 * used <= (percent + 1) * total
<1> DEFINE n == used * 100
           share == n \div total
<1>1. n \in Nat
  OBVIOUS
<1> HIDE DEF n
<1>2. share \in Int
  BY <1>1
<1>3. share * total <= n /\ n < (share + 1) * total
  BY <1>1
<1>4. ASSUME n % total = 0 PROVE n = share * total
  <2>1. n % total = n - share * total
    BY <1>1
  <2> HIDE DEF share
  <2>2. QED
    BY <1>1, <1>2, <1>4, <2>1
<1> HIDE DEF share
<1>5. percent = share \/ (percent = share - 1 /\ n % total = 0)
  BY DEF Percents, share, n
<1>6. n = 100 * used
  BY DEF n
<1>7. CASE percent = share
  BY <1>2, <1>3, <1>6, <1>7
<1>8. CASE percent = share - 1 /\ n % total = 0
  <2>1. n = share * total /\ (percent + 1) * total = share * total
    BY <1>2, <1>4, <1>8
  <2>2. percent * total <= share * total
    BY <1>2, <1>8
  <2>3. QED
    BY <1>1, <1>2, <1>6, <1>8, <2>1, <2>2
<1>9. QED
  BY <1>5, <1>7, <1>8

(* So a host that is less loaded by more than a percent has a lower share. *)
LEMMA LowerShare ==
  ASSUME NEW u \in Nat, NEW t \in Nat, t > 0, NEW p \in Percents(u, t),
         NEW v \in Nat, NEW s \in Nat, s > 0, NEW q \in Percents(v, s),
         100 * u * s + t * s < 100 * v * t
  PROVE  p < q
<1>1. p \in Int /\ p * t <= 100 * u
  BY ShareBounds
<1>2. q \in Int /\ 100 * v <= (q + 1) * s
  BY ShareBounds
<1>3. (p * t) * s <= (100 * u) * s
  BY <1>1
<1>4. (100 * v) * t <= ((q + 1) * s) * t
  BY <1>2
<1>5. (p * t) * s + t * s < ((q + 1) * s) * t
  BY <1>1, <1>2, <1>3, <1>4
<1>6. t * s \in Nat /\ t * s > 0
  OBVIOUS
<1>7. (p * t) * s = p * (t * s) /\ ((q + 1) * s) * t = (q + 1) * (t * s)
  BY <1>1, <1>2
<1> DEFINE m == t * s
<1> HIDE DEF m
<1>8. p * m + m < (q + 1) * m /\ m \in Nat /\ m > 0
  BY <1>5, <1>6, <1>7 DEF m
<1>9. q <= p => (q + 1) * m <= (p + 1) * m
  BY <1>1, <1>2, <1>8
<1>10. (p + 1) * m = p * m + m
  BY <1>1, <1>8
<1>11. QED
  BY <1>1, <1>2, <1>8, <1>9, <1>10

(* Compared with a limit, a share errs by no more than one percent. *)
LEMMA ShareAndLimit ==
  ASSUME NEW u \in Nat, NEW t \in Nat, t > 0, NEW p \in Percents(u, t), NEW limit \in Nat
  PROVE  /\ p < limit => 100 * u < (limit + 1) * t
         /\ 100 * u < limit * t => p < limit
<1>1. p \in Int /\ p * t <= 100 * u /\ 100 * u <= (p + 1) * t
  BY ShareBounds
<1>2. ASSUME p < limit PROVE 100 * u < (limit + 1) * t
  <2>1. (p + 1) * t <= limit * t
    BY <1>1, <1>2
  <2>2. limit * t < (limit + 1) * t
    OBVIOUS
  <2>3. QED
    BY <1>1, <2>1, <2>2
<1>3. ASSUME 100 * u < limit * t PROVE p < limit
  <2>1. p * t < limit * t
    BY <1>1, <1>3
  <2>2. limit <= p => limit * t <= p * t
    BY <1>1
  <2>3. QED
    BY <1>1, <2>1, <2>2
<1>4. QED
  BY <1>2, <1>3
----------------------------------------------------------------------------
(* What the comparison of hosts rests on: a list is of instances of its     *)
(* host and has two numbers, a share is that of its list, and the limit is  *)
(* a number once the server has one.                                        *)
IsListOf(h, list) ==
  /\ \A i \in list.free : i \in Instances /\ HostOf[i] = h
  /\ list.used \in Nat /\ list.total \in Nat

CachedLists == \A h \in Hosts : cache[h] # NoList => IsListOf(h, cache[h])

HeardShares ==
  \A h \in Hosts :
    heard[h] # NoList =>
      /\ IsListOf(h, heard[h].list)
      /\ heard[h].percent \in Percents(heard[h].list.used, heard[h].list.total)

LimitKnown == server = "up" \/ pc # "idle" => conf.limit \in Nat

(* While candidates are tried: every match is one of them or has been       *)
(* tried, they are matches, and they are in order.                          *)
AllQueued ==
  pc = "try" =>
    \A h \in Hosts : \A i \in Matching(h) :
      i \in tried \/ \E k \in DOMAIN queue : queue[k] = i

OnlyMatches ==
  pc = "try" => \A k \in DOMAIN queue : queue[k] \in Matching(HostOf[queue[k]])

Sorted ==
  pc = "try" => \A j, l \in DOMAIN queue : j < l => Percent(queue[j]) <= Percent(queue[l])

(* Once it has given up, all matches have been tried. *)
AllTried ==
  pc = "failed" =>
    /\ retried = MaxRetry
    /\ \A h \in Hosts : Matching(h) \subseteq tried

HasClaimed == cur # NoInst => pc \in {"thaw", "served"}

Sound == CachedLists /\ HeardShares /\ LimitKnown

Thorough == AllQueued /\ OnlyMatches /\ Sorted /\ AllTried

Selection == Typed /\ Sound /\ Thorough /\ HasClaimed /\ LeastLoadedFirst

LEMMA InitSelection == Init => Selection
<1> SUFFICES ASSUME Init PROVE Selection
  OBVIOUS
<1>1. Typed
  BY InitTyped
<1>2. CachedLists /\ HeardShares
  BY NothingIsTyped DEF Init, CachedLists, HeardShares
<1>3. QED
  BY <1>1, <1>2 DEF Init, Selection, Sound, Thorough, LimitKnown, AllQueued, OnlyMatches,
     Sorted, AllTried, HasClaimed, LeastLoadedFirst

(* A host that can be listed gives a list of its instances and its CPUs.    *)
LEMMA ListingIsOfHost ==
  ASSUME Typed, NEW h \in Hosts, Listable(h), NEW total \in Totals(h)
  PROVE  IsListOf(h, Listing(h, total))
<1> DEFINE S == On(h, {"Running"})
<1>1. S \subseteq Instances /\ IsFiniteSet(S)
  BY InstancesFinite, FS_Subset DEF On
<1>2. \A i \in S : Cores[i] \in Nat
  BY CoresType DEF Listable, On
<1>3. CoresOf(S) \in Nat
  BY <1>1, <1>2, CoresAreCounted
<1>4. Listing(h, total).used = CoresOf(S)
  BY DEF Listing, CoresOf
<1>5. total \in Nat
  BY CpusType DEF Totals, Typed, TypeOK
<1>6. \A i \in Listing(h, total).free : i \in Instances /\ HostOf[i] = h
  BY DEF Listing, On
<1>7. QED
  BY <1>3, <1>4, <1>5, <1>6 DEF IsListOf, Listing

LEMMA CachedStep ==
  ASSUME Typed, CachedLists, NEW h \in Hosts,
         \/ cache' = [cache EXCEPT ![h] = NoList]
         \/ \E total \in Totals(h) :
              Listable(h) /\ cache' = [cache EXCEPT ![h] = Listing(h, total)]
  PROVE  CachedLists'
<1>1. cache = [g \in Hosts |-> cache[g]]
  BY DEF Typed, Lists
<1>2. \A g \in Hosts : g # h => cache'[g] = cache[g]
  BY <1>1
<1>3. cache'[h] = NoList \/ IsListOf(h, cache'[h])
  BY <1>1, ListingIsOfHost
<1>4. QED
  BY <1>2, <1>3 DEF CachedLists

LEMMA HeardStep ==
  ASSUME Typed, HeardShares, NEW h \in Hosts, NEW list, IsListOf(h, list), Hear(h, list)
  PROVE  HeardShares'
<1>1. PICK percent \in Percents(list.used, list.total) :
        heard' = [heard EXCEPT ![h] = [list |-> list, percent |-> percent]]
  BY DEF Hear
<1>2. heard = [g \in Hosts |-> heard[g]]
  BY DEF Typed, Heard
<1>3. \A g \in Hosts : g # h => heard'[g] = heard[g]
  BY <1>1, <1>2
<1>4. heard'[h] = [list |-> list, percent |-> percent]
  BY <1>1, <1>2
<1>5. QED
  BY <1>3, <1>4 DEF HeardShares

LEMMA SoundStep == Typed /\ Sound /\ [Next]_vars => Sound'
<1> SUFFICES ASSUME Typed, Sound, [Next]_vars PROVE Sound'
  OBVIOUS
<1> USE DEF Sound, hostVars, serverVars, listVars, callVars, bounds
<1>1. ASSUME UNCHANGED <<server, conf, pc, cache, heard>> PROVE Sound'
  BY <1>1 DEF CachedLists, HeardShares, LimitKnown
<1>2. ASSUME NEW env \in Environments, StartServer(env) PROVE Sound'
  <2>1. CachedLists' /\ HeardShares'
    BY <1>2, NothingIsTyped DEF StartServer, CachedLists, HeardShares
  <2>2. CASE Loads(env)
    <3>1. env.overCommit # Malformed
      BY <2>2 DEF Loads
    <3>2. Value(env.overCommit, 100) \in Nat
      BY <3>1, LimitsAreUnsigned DEF Value
    <3>3. conf' = Load(env)
      BY <1>2, <2>2 DEF StartServer
    <3>4. Load(env).limit = Value(env.overCommit, 100)
      BY DEF Load
    <3>5. QED
      BY <2>1, <3>2, <3>3, <3>4 DEF LimitKnown
  <2>3. CASE ~Loads(env)
    BY <1>2, <2>1, <2>3 DEF StartServer, LimitKnown
  <2>4. QED
    BY <2>2, <2>3
<1>3. ASSUME Dies PROVE Sound'
  BY <1>3 DEF Dies, CachedLists, HeardShares, LimitKnown
<1>4. ASSUME NEW type, NEW version, NEW hosts, Ask(type, version, hosts) PROVE Sound'
  <2>1. heard' = NothingHeard /\ UNCHANGED <<server, conf, cache>> /\ server = "up"
    BY <1>4 DEF Ask
  <2>2. QED
    BY <2>1, NothingIsTyped DEF CachedLists, HeardShares, LimitKnown
<1>5. ASSUME Resolved PROVE Sound'
  <2>1. heard' = NothingHeard /\ UNCHANGED <<server, conf, cache>> /\ pc = "resolve"
    BY <1>5 DEF Resolved
  <2>2. QED
    BY <2>1, NothingIsTyped DEF CachedLists, HeardShares, LimitKnown
<1>6. ASSUME NEW h \in Hosts, HearCached(h) PROVE Sound'
  <2>1. Hear(h, cache[h]) /\ IsListOf(h, cache[h])
    BY <1>6 DEF HearCached, CachedLists
  <2>2. HeardShares'
    BY <2>1, HeardStep
  <2>3. QED
    BY <1>6, <2>2 DEF HearCached, Hear, CachedLists, LimitKnown
<1>7. ASSUME NEW h \in Hosts, HearFetched(h) PROVE Sound'
  <2>1. PICK total \in Totals(h) :
          /\ Hear(h, Listing(h, total))
          /\ cache' = [cache EXCEPT ![h] = Listing(h, total)]
    BY <1>7 DEF HearFetched
  <2>2. Listable(h)
    BY <1>7 DEF HearFetched
  <2>3. CachedLists' /\ HeardShares'
    BY <2>1, <2>2, CachedStep, HeardStep, ListingIsOfHost
  <2>4. QED
    BY <2>1, <2>3 DEF Hear, LimitKnown
<1>8. ASSUME NEW h \in Hosts, Refresh(h) PROVE Sound'
  <2>1. UNCHANGED <<server, conf, pc, heard>>
    BY <1>8 DEF Refresh
  <2>2. CASE Listable(h)
    BY <1>8, <2>1, <2>2, CachedStep DEF Refresh, HeardShares, LimitKnown
  <2>3. CASE ~Listable(h)
    BY <1>1, <1>8, <2>1, <2>3 DEF Refresh
  <2>4. QED
    BY <2>2, <2>3
<1>9. ASSUME NEW h \in Hosts, Expire(h) PROVE Sound'
  BY <1>9, CachedStep DEF Expire, HeardShares, LimitKnown
<1>10. ASSUME /\ server = "up"
              /\ \/ CallAgain \/ Found \/ ClaimFails \/ Again \/ GiveUp \/ Thawed
                 \/ \E h \in Hosts : HearNothing(h)
                 \/ \E r \in Runners : Claim(r)
       PROVE  Sound'
  <2>1. UNCHANGED <<server, conf, cache, heard>> /\ server = "up"
    BY <1>10 DEF CallAgain, HearNothing, Found, Claim, ClaimFails, Again, GiveUp, Thawed
  <2>2. QED
    BY <2>1 DEF CachedLists, HeardShares, LimitKnown
<1>11. ASSUME CallStep PROVE Sound'
  BY <1>3, <1>5, <1>6, <1>7, <1>10, <1>11 DEF CallStep, StackOverflow
<1>12. CASE Others
  BY <1>1, <1>12 DEF Others
<1>13. CASE UNCHANGED vars
  BY <1>1, <1>13 DEF vars
<1>14. QED
  BY <1>2, <1>3, <1>4, <1>8, <1>9, <1>11, <1>12, <1>13 DEF Next, TickerPanics
----------------------------------------------------------------------------
LEMMA MatchesAreOfHost ==
  ASSUME HeardShares, NEW h \in Hosts, NEW i \in Matching(h)
  PROVE  /\ i \in Instances /\ HostOf[i] = h
         /\ heard[h] # NoList /\ ~OverLimit(heard[h].percent)
         /\ i \in heard[h].list.free /\ IsMatch(i)
  BY DEF Matching, HeardShares, IsListOf

LEMMA SameMatches ==
  ASSUME UNCHANGED <<conf, request, word, heard>>, NEW h
  PROVE  Matching(h)' = Matching(h)
  BY DEF Matching, OverLimit, IsMatch

(* A sequence of a finite set has each of its elements. *)
LEMMA SequenceIsOnto ==
  ASSUME NEW S, IsFiniteSet(S), NEW q \in SetToSeqs(S), NEW x \in S
  PROVE  \E k \in DOMAIN q : q[k] = x
<1> DEFINE n == Cardinality(S)
<1>1. n \in Nat
  BY FS_CardinalityType
<1>2. IsFiniteSet(1..n) /\ Cardinality(1..n) = n
  BY <1>1, FS_Interval
<1>3. q \in Injection(1..n, S)
  BY DEF SetToSeqs, Injection, IsInjective
<1>4. q \in Surjection(1..n, S)
  BY <1>2, <1>3, FS_Injection
<1>5. QED
  BY <1>3, <1>4 DEF Surjection, Injection

(* findInstances returns all matches, and nothing else. *)
LEMMA FoundStep ==
  ASSUME Typed, Sound, Found
  PROVE  Thorough'
<1> DEFINE S == UNION {Matching(h) : h \in Hosts}
<1>1. PICK q \in SetToSeqs(S) : InOrder(q) /\ queue' = q
  BY DEF Found
<1>2. UNCHANGED <<conf, request, word, heard, tried>> /\ pc' = "try"
  BY DEF Found, serverVars
<1>3. \A h \in Hosts : Matching(h)' = Matching(h)
  BY <1>2, SameMatches
<1>4. IsFiniteSet(S)
  <2>1. S \subseteq Instances
    BY MatchesAreOfHost DEF Sound
  <2>2. QED
    BY <2>1, InstancesFinite, FS_Subset
<1>5. AllQueued'
  <2> SUFFICES ASSUME NEW h \in Hosts, NEW i \in Matching(h)
               PROVE  \E k \in DOMAIN q : q[k] = i
    BY <1>1, <1>2, <1>3 DEF AllQueued
  <2>1. QED
    BY <1>1, <1>4, SequenceIsOnto
<1>6. OnlyMatches'
  <2>1. ASSUME NEW k \in DOMAIN q PROVE q[k] \in Matching(HostOf[q[k]])
    <3>1. q[k] \in S
      BY <1>1, <2>1 DEF SetToSeqs
    <3>2. PICK h \in Hosts : q[k] \in Matching(h)
      BY <3>1
    <3>3. HostOf[q[k]] = h
      BY <3>2, MatchesAreOfHost DEF Sound
    <3>4. QED
      BY <3>2, <3>3
  <2>2. \A i : i \in Matching(HostOf[i]) => i \in Matching(HostOf[i])'
    BY <1>2, SameMatches
  <2>3. QED
    BY <1>1, <2>1, <2>2 DEF OnlyMatches
<1>7. Sorted'
  BY <1>1, <1>2 DEF Sorted, InOrder, Percent
<1>8. AllTried'
  BY <1>2 DEF AllTried
<1>9. QED
  BY <1>5, <1>6, <1>7, <1>8 DEF Thorough

LEMMA ClaimFailsStep ==
  ASSUME Typed, Thorough, ClaimFails
  PROVE  Thorough'
<1>1. /\ pc = "try" /\ pc' = "try" /\ queue # <<>>
      /\ tried' = tried \cup {Head(queue)} /\ queue' = Tail(queue)
      /\ UNCHANGED <<conf, request, word, heard>>
  BY DEF ClaimFails, serverVars
<1>2. queue \in Seq(Instances)
  BY DEF Typed, TypeOK
<1>3. /\ Head(queue) = queue[1] /\ DOMAIN queue = 1..Len(queue) /\ Len(queue) \in Nat
      /\ DOMAIN queue' = 1..(Len(queue) - 1)
      /\ \A k \in DOMAIN queue' : k + 1 \in DOMAIN queue /\ queue'[k] = queue[k + 1]
  BY <1>1, <1>2
<1>4. \A h : Matching(h)' = Matching(h)
  BY <1>1, SameMatches
<1>5. AllQueued'
  <2> SUFFICES ASSUME NEW h \in Hosts, NEW i \in Matching(h), i \notin tried'
               PROVE  \E k \in DOMAIN queue' : queue'[k] = i
    BY <1>4 DEF AllQueued
  <2>1. PICK k \in DOMAIN queue : queue[k] = i
    BY <1>1 DEF Thorough, AllQueued
  <2>2. k # 1
    BY <1>1, <1>3, <2>1
  <2>3. k - 1 \in DOMAIN queue' /\ queue'[k - 1] = queue[k]
    BY <1>3, <2>2
  <2>4. QED
    BY <2>1, <2>3
<1>6. OnlyMatches'
  BY <1>1, <1>3, <1>4 DEF Thorough, OnlyMatches
<1>7. Sorted'
  BY <1>1, <1>3 DEF Thorough, Sorted, Percent
<1>8. AllTried'
  BY <1>1 DEF AllTried
<1>9. QED
  BY <1>5, <1>6, <1>7, <1>8 DEF Thorough

LEMMA GiveUpStep ==
  ASSUME Typed, Thorough, GiveUp
  PROVE  Thorough'
<1>1. /\ pc = "try" /\ pc' = "failed" /\ queue = <<>> /\ retried >= MaxRetry
      /\ UNCHANGED <<conf, request, word, heard, tried, retried>>
  BY DEF GiveUp, serverVars
<1>2. retried = MaxRetry
  BY <1>1, MaxRetryType DEF Typed, TypeOK
<1>3. \A h \in Hosts : Matching(h) \subseteq tried
  BY <1>1 DEF Thorough, AllQueued
<1>4. QED
  BY <1>1, <1>2, <1>3, SameMatches DEF Thorough, AllQueued, OnlyMatches, Sorted, AllTried
----------------------------------------------------------------------------
(* The head of the queue is of a host with the least share of those that    *)
(* are left.                                                                *)
LEMMA ClaimStep ==
  ASSUME Typed, Sound, Thorough, NEW r \in Runners, Claim(r)
  PROVE  LeastLoadedFirst'
<1> DEFINE i == Head(queue)
           h == HostOf[i]
           b == heard[h].list
<1>1. /\ pc = "try" /\ queue # <<>> /\ cur' = i
      /\ UNCHANGED <<conf, request, word, heard, tried>>
  BY DEF Claim, serverVars
<1>2. queue \in Seq(Instances)
  BY DEF Typed, TypeOK
<1>3. i = queue[1] /\ DOMAIN queue = 1..Len(queue) /\ 1 \in DOMAIN queue /\ i \in Instances
  BY <1>1, <1>2
<1>4. h \in Hosts
  BY <1>3, HostOfType
<1>5. i \in Matching(h)
  BY <1>1, <1>3 DEF Thorough, OnlyMatches
<1>6. /\ heard[h] # NoList /\ ~OverLimit(heard[h].percent)
      /\ b.used \in Nat /\ b.total \in Nat
      /\ heard[h].percent \in Percents(b.used, b.total)
  BY <1>4, <1>5, MatchesAreOfHost DEF Sound, HeardShares, IsListOf
<1>7. conf.limit \in Nat
  BY <1>1 DEF Sound, LimitKnown
<1> HIDE DEF i, h, b
<1>8. ASSUME NEW g \in request.hosts, heard[g] # NoList, LessLoaded(g, h),
             NEW j \in heard[g].list.free, IsMatch(j)
      PROVE  j \in tried
  <2> DEFINE a == heard[g].list
  <2>1. g \in Hosts
    BY <1>8 DEF Typed
  <2>2. /\ a.used \in Nat /\ a.total \in Nat
        /\ heard[g].percent \in Percents(a.used, a.total)
        /\ HostOf[j] = g
    BY <1>8, <2>1 DEF Sound, HeardShares, IsListOf
  <2>3. /\ a.total > 0 /\ b.total > 0
        /\ 100 * a.used * b.total + a.total * b.total < 100 * b.used * a.total
    BY <1>8 DEF LessLoaded, b
  <2>4. heard[g].percent < heard[h].percent
    BY <1>6, <2>2, <2>3, LowerShare
  <2>5. heard[g].percent \in Int /\ heard[h].percent \in Int
    BY <1>6, <2>2, <2>3, ShareBounds
  <2>6. ~OverLimit(heard[g].percent)
    BY <1>6, <1>7, <2>4, <2>5 DEF OverLimit
  <2>7. j \in Matching(g)
    BY <1>8, <2>6 DEF Matching
  <2>8. ASSUME NEW k \in DOMAIN queue, queue[k] = j PROVE FALSE
    <3>1. Percent(j) = heard[g].percent /\ Percent(i) = heard[h].percent
      BY <2>2 DEF Percent, h
    <3>2. k # 1
      BY <1>3, <2>4, <2>5, <2>8, <3>1
    <3>3. 1 < k
      BY <1>3, <3>2
    <3>4. Percent(i) <= Percent(j)
      BY <1>1, <1>3, <2>8, <3>3 DEF Thorough, Sorted
    <3>5. QED
      BY <2>4, <2>5, <3>1, <3>4
  <2>9. QED
    BY <1>1, <2>1, <2>7, <2>8 DEF Thorough, AllQueued
<1>9. ASSUME b.total > 0, conf.limit > 0
      PROVE  100 * b.used < (conf.limit + 1) * b.total
  <2>1. heard[h].percent \in Int
    BY <1>6, <1>9, ShareBounds
  <2>2. heard[h].percent < conf.limit
    BY <1>6, <1>7, <1>9, <2>1 DEF OverLimit
  <2>3. QED
    BY <1>6, <1>7, <1>9, <2>2, ShareAndLimit
<1>10. QED
  BY <1>1, <1>8, <1>9 DEF LeastLoadedFirst, LessLoaded, IsMatch, h, b

LEMMA SelectionStep == Selection /\ [Next]_vars => Selection'
<1> SUFFICES ASSUME Selection, [Next]_vars PROVE Selection'
  OBVIOUS
<1>1. Typed' /\ Sound'
  BY TypeStep, SoundStep DEF Selection
<1> DEFINE Rest == Thorough /\ HasClaimed /\ LeastLoadedFirst
<1> SUFFICES Rest'
  BY <1>1 DEF Selection
<1>2. ASSUME UNCHANGED <<conf, pc, request, word, heard, queue, tried, cur, retried>>
      PROVE  Rest'
  <2>1. \A h : Matching(h)' = Matching(h)
    BY <1>2, SameMatches
  <2>2. Thorough'
    BY <1>2, <2>1 DEF Selection, Thorough, AllQueued, OnlyMatches, Sorted, AllTried, Percent
  <2>3. HasClaimed' /\ LeastLoadedFirst'
    BY <1>2 DEF Selection, HasClaimed, LeastLoadedFirst, LessLoaded, IsMatch
  <2>4. QED
    BY <2>2, <2>3
<1>3. ASSUME cur' = NoInst, pc' \notin {"try", "failed"} PROVE Rest'
  BY <1>3 DEF Thorough, AllQueued, OnlyMatches, Sorted, AllTried, HasClaimed, LeastLoadedFirst
<1>4. ASSUME NEW env \in Environments, StartServer(env) PROVE Rest'
  BY <1>3, <1>4 DEF StartServer
<1>5. ASSUME NEW type, NEW version, NEW hosts, Ask(type, version, hosts) PROVE Rest'
  BY <1>3, <1>5 DEF Ask
<1>6. CASE Dies
  BY <1>2, <1>6 DEF Dies, callVars
<1>7. CASE CallAgain \/ Resolved \/ Again
  <2>1. cur' = NoInst
    BY <1>7 DEF CallAgain, Resolved, Again, Selection, HasClaimed
  <2>2. pc' \notin {"try", "failed"}
    BY <1>7 DEF CallAgain, Resolved, Again
  <2>3. QED
    BY <1>3, <2>1, <2>2
<1>8. ASSUME NEW h \in Hosts, HearCached(h) \/ HearFetched(h) \/ HearNothing(h)
      PROVE  Rest'
  <2>1. cur' = NoInst /\ pc' = "list"
    BY <1>8 DEF HearCached, HearFetched, HearNothing, Hear, Selection, HasClaimed
  <2>2. QED
    BY <1>3, <2>1
<1>9. ASSUME NEW r \in Runners, Claim(r) PROVE Rest'
  <2>1. LeastLoadedFirst'
    BY <1>9, ClaimStep DEF Selection
  <2>2. pc' = "thaw"
    BY <1>9 DEF Claim
  <2>3. QED
    BY <2>1, <2>2 DEF Thorough, AllQueued, OnlyMatches, Sorted, AllTried, HasClaimed
<1>10. ASSUME Found \/ ClaimFails \/ GiveUp PROVE Rest'
  <2>1. Thorough'
    BY <1>10, FoundStep, ClaimFailsStep, GiveUpStep DEF Selection
  <2>2. cur' = NoInst
    BY <1>10 DEF Found, ClaimFails, GiveUp, Selection, HasClaimed
  <2>3. QED
    BY <2>1, <2>2 DEF HasClaimed, LeastLoadedFirst
<1>11. CASE Thawed
  <2>1. pc' = "served" /\ UNCHANGED <<conf, request, word, heard, tried, cur>>
    BY <1>11 DEF Thawed, serverVars
  <2>2. LeastLoadedFirst'
    BY <2>1 DEF Selection, LeastLoadedFirst, LessLoaded, IsMatch
  <2>3. QED
    BY <2>1, <2>2 DEF Thorough, AllQueued, OnlyMatches, Sorted, AllTried, HasClaimed
<1>12. CASE CallStep
  BY <1>6, <1>7, <1>8, <1>9, <1>10, <1>11, <1>12 DEF CallStep, StackOverflow
<1>13. ASSUME NEW h \in Hosts, Refresh(h) \/ Expire(h) PROVE Rest'
  BY <1>2, <1>13 DEF Refresh, Expire, serverVars, callVars
<1>14. CASE Others \/ UNCHANGED vars
  BY <1>2, <1>14 DEF Others, vars, serverVars, callVars
<1>15. QED
  BY <1>4, <1>5, <1>6, <1>12, <1>13, <1>14 DEF Next, TickerPanics

(* A call that gives up has tried, in its last search, every match that it  *)
(* had read of a host under the limit: rounding hides no host, the order    *)
(* loses no candidate, for any numbers of hosts, instances and CPUs.        *)
THEOREM GivesUpInVain == Spec => []FailsOnlyInVain
<1>1. Selection => FailsOnlyInVain
  <2> SUFFICES ASSUME Selection, pc = "failed", NEW h \in request.hosts, heard[h] # NoList,
                      heard[h].list.total > 0,
                      \/ conf.limit = 0
                      \/ 100 * heard[h].list.used < conf.limit * heard[h].list.total,
                      NEW i \in heard[h].list.free, IsMatch(i)
               PROVE  i \in tried
    BY DEF FailsOnlyInVain, Selection, Thorough, AllTried
  <2> DEFINE b == heard[h].list
  <2>1. h \in Hosts
    BY DEF Selection, Typed
  <2>2. /\ b.used \in Nat /\ b.total \in Nat
        /\ heard[h].percent \in Percents(b.used, b.total)
    BY <2>1 DEF Selection, Sound, HeardShares, IsListOf
  <2>3. conf.limit \in Nat
    BY DEF Selection, Sound, LimitKnown
  <2>4. heard[h].percent \in Int
    BY <2>2, ShareBounds
  <2>5. ~OverLimit(heard[h].percent)
    BY <2>2, <2>3, <2>4, ShareAndLimit DEF OverLimit
  <2>6. i \in Matching(h)
    BY <2>5 DEF Matching
  <2>7. QED
    BY <2>1, <2>6 DEF Selection, Thorough, AllTried
<1>2. QED
  BY <1>1, InitSelection, SelectionStep, PTL DEF Spec

(* A call takes an instance of the least loaded host that has a match left, *)
(* up to one percent, and never one of a host that its list shows beyond    *)
(* the limit: the sort by rounded shares is as good as one by exact shares. *)
THEOREM LeastLoadedIsFirst == Spec => []LeastLoadedFirst
<1>1. Selection => LeastLoadedFirst
  BY DEF Selection
<1>2. QED
  BY <1>1, InitSelection, SelectionStep, PTL DEF Spec
=============================================================================
