CONSTANTS
  h1 = h1  i1 = i1  i2 = i2  i3 = i3  r1 = r1
  jammy = jammy  noble = noble  small = small  m1 = m1
  Hosts = {h1}
  Instances = {i1, i2, i3}
  HostOf <- OneHost
  Kinds <- KindsOfConfig
  KindOf <- SmallJammy
  Runners = {r1}
  NoRunner = NoRunner
  NotFrozen = NotFrozen
  Images = {jammy}
  KeyOf <- OwnKeys
  Types = {small}
  Configs <- TwoOrNone
  CountWithoutRunning = FALSE
  MaxVersion = 2
  MaxCrashes = 1
  NoInst = NoInst
SPECIFICATION Spec
PROPERTY RunningIsNotOld
