SPECIFICATION FairSpec
CONSTANTS
  r1 = r1
  r2 = r2
  r3 = r3
  named = named
  numbered = numbered
  inside = inside
  outside = outside
  MethodOf <- OneWrite
  HostOf <- OneNamed
  NoAddress = NoAddress
  Period = 2
  Burst = 1
  KillEnv = FALSE
  Hosts = {named, numbered}
  Addresses = {inside, outside}
  AllowHosts = {named}
  AllowNets = {inside}
  PinDns = TRUE
  Requests = {r1, r2, r3}
  MaxConcurrency = 1
  MaxRetries = 1
  AllowWrites = FALSE
  HasKillFile = TRUE
INVARIANTS
  TypeOK
  PermitsConserved
  EgressInv
  KillCostsOneSend
  ClearedWhileOnItsWay
PROPERTIES
  EveryRequestEnds
  ImplementsPoliteClient
