SPECIFICATION FairSpec
CONSTANTS
  alice = alice
  bob = bob
  me = me
  item = item
  NoQuery = NoQuery
  Anonymous = Anonymous
  NoBaseline = NoBaseline
  NoText = ""
  MaxObserved = 2
  Identities <- TwoIdentities
  Captures <- ShortCaptures
  ObjectTargets = {me, item}
  IncludeAnonymous = TRUE
  ObjectRefsOnly = TRUE
  Marks <- Seeded
  Answers <- MixedServer
  Observable <- WithSession
  HeaderCreds <- SessionHeader
  CookieUsers = {alice, bob}
  Trusted = "cookie"
  Registry <- WithPlugin
  PluginFindings <- Forgery
INVARIANTS
  TypeOK
  EveryTaskAccounted
  MergeLosesNothing
  LeaksReported
  ProvenMeansDisclosed
PROPERTIES
  RunEnds
CHECK_DEADLOCK FALSE
