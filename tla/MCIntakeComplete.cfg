SPECIFICATION Spec
CONSTANTS
  alice = alice
  bob = bob
  carol = carol
  item = item
  list = list
  asset = asset
  delete = delete
  q1 = q1
  NoQuery = NoQuery
  NoUrl = NoUrl
  Anonymous = Anonymous
  Observable <- Requests
  Captures <- Configs
  Given <- ManyRuns
  Items <- AllItems
  StaticTargets = {asset}
  IgnoredTargets = {delete}
  Identities <- TwoIdentities
  ObjectTargets = {item, delete}
  IncludeAnonymous = TRUE
  ObjectRefsOnly = TRUE
INVARIANTS
  EveryReferenceReplayed
CHECK_DEADLOCK FALSE
