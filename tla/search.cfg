CONSTANTS
  h1 = h1  h2 = h2  i1 = i1  i2 = i2  i3 = i3
  Hosts = {h1, h2}
  Instances = {i1, i2, i3}
  HostOf <- FirstHost
  Kinds <- TheKinds
  KindOf <- SomeKinds
  Runners = {r}
  NoRunner = NoRunner
  NotFrozen = NotFrozen
  Unset = Unset
  Malformed = Malformed
  Environments <- TheEnvironments
  Versions = {"", "n"}
  Cores <- SomeCores
  CpusOf <- SomeCpus
  Huge = 1000
  MaxRetry = 1
  MaxDepth = 7
  MaxChanges = 1
  MaxCalls = 1
  NoList = NoList
  NoConf = NoConf
  NoInst = NoInst
SPECIFICATION FairSpec
INVARIANTS TypeOK AliasResolved DiesOnlyOfConfig LeastLoadedFirst FailsOnlyInVain
PROPERTY EveryCallEnds
CHECK_DEADLOCK FALSE
