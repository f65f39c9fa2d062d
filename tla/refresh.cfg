CONSTANTS
  h1 = h1  h2 = h2  i1 = i1  i2 = i2  p1 = p1  p2 = p2  p3 = p3
  w1 = w1  r1 = r1  r2 = r2  small = small  large = large  m1 = m1  m2 = m2
  Hosts = {h1}
  Instances = {i1}
  HostOf <- OneHost
  Kinds = {small}
  KindOf <- OneKind
  Runners = {r1, r2}
  NoRunner = NoRunner
  NotFrozen = NotFrozen
  Requests = {p1, p3}
  Writers = {w1}
  Locks = {m1}
  LockOf <- OneMutex
  Free = Free
  MaxLeaked = 1
  NoView = NoView
  RunnerOf <- RetriedRunner
  WantOf <- WantSmall
  MaxRetry = 1
  LateOps = FALSE
  NoInst = NoInst
SPECIFICATION Spec
INVARIANTS ScriptsRunForOwner IInv HolderIsAtWork
PROPERTY CallsGetNearer
