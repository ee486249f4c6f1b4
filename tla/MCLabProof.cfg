SPECIFICATION LabSpec
CONSTANTS
  alice = alice
  bob = bob
  nobody = nobody
  getAlice = getAlice
  getBob = getBob
  getNobody = getNobody
  put = put
  Plain = Plain
  Nothing = Nothing
  NoQuery = NoQuery
  Anonymous = Anonymous
  NoBaseline = NoBaseline
  NoText = NoText
  MaxObserved = 2
  Members = {alice, bob}
  SubjectOf <- Subjects
  WriteTarget = put
  Open = {TRUE, FALSE}
  Identities <- TwoIdentities
  Captures <- ShortCaptures
  Observable <- LabTraffic
  ObjectTargets = {getAlice, getBob, getNobody, put}
  IncludeAnonymous = TRUE
  ObjectRefsOnly = TRUE
  Marks <- LabMarks
  Answers <- LabAnswers
  HeaderCreds <- TokenHeader
  CookieUsers = {}
  Trusted = "authorization"
  Registry <- RunOracles
  PluginFindings = {}
INVARIANTS
  NothingProvenOfChecked
CHECK_DEADLOCK FALSE
