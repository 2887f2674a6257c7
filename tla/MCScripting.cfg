CONSTANTS
  Decode <- MCDecode
  Lower <- MCLower
  Heads <- MCHeads
  Uris <- MCUris
  Templates <- MCTemplates
  UriOps <- MCUriOps
  QueryOps <- MCQueryOps
  HeaderEdits <- MCHeaderEdits
  HeaderOps <- MCHeaderOps
  ProxyRewrites <- MCProxyRewrites
  PathPatterns <- MCPathPatterns
  Vars <- MCVars
  ExpandCap = 5
  MaxCalls = 2
  MaxMatchAfter = 1
  MaxPasses = 2
  Scripts <- MCScripts
  HasEntry = {"a", "b"}
  Callable <- MCCallable
  Asked <- MCAsked
  MaxCallDepth = 2
  MaxMem = 2
  MaxBuffered = 3
  Limits = {0, 1, 2}
  BodyLen = 2
  CredentialSet <- MCCredentials
  Accounts <- MCAccounts
  FakePassword = "fake"
  Statuses = {0, 103, 200}
  MaxSteps = 3
SPECIFICATION Spec
INVARIANTS SeenIsSent JudgedIsServed RightOutput
PROPERTIES RewritesAgree EffectsKept
