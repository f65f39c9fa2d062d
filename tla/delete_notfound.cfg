CONSTANTS
  h1 = h1  h2 = h2  i1 = i1  d1 = d1  d2 = d2  s1 = s1  a1 = a1  small = small
  Hosts = {h1, h2}
  Instances = {i1}
  HostOf <- OnFirstHost
  Kinds = {small}
  KindOf <- OneKind
  Runners = {}
  NoRunner = NoRunner
  NotFrozen = NotFrozen
  Deletes = {d1, d2}
  Scrapers = {s1}
  Setups = {a1}
  Free = Free
  Background = Background
  NoCall = NoCall
  Cut = Cut
  CloudId <- SameInstance
  NoHost = NoHost
SPECIFICATION Spec
INVARIANT NotFoundIsAbsent
