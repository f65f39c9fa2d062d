CONSTANTS
  h1 = h1  h2 = h2  i1 = i1  i2 = i2  p1 = p1  p2 = p2  p3 = p3
  w1 = w1  r1 = r1  r2 = r2  small = small  large = large  m1 = m1  m2 = m2
  Hosts = {h1}
  Instances = {i1, i2}
  HostOf <- OneHost
  Kinds = {small}
  KindOf <- OneKind
  Runners = {r1, r2}
  NoRunner = NoRunner
  NotFrozen = NotFrozen
  Requests = {p1, p2}
  Writers = {}
  Locks = {m1, m2}
  LockOf <- MutexPerUser
  Free = Free
  MaxLeaked = 0
  NoView = NoView
  RunnerOf <- OwnRunner
  WantOf <- WantSmall
  MaxRetry = 0
  LateOps = FALSE
  NoInst = NoInst
SPECIFICATION Spec
INVARIANT ExclusiveUse
CHECK_DEADLOCK FALSE
