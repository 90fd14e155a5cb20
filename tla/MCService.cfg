CONSTANTS
  appA = appA
  appB = appB
  App = {appA, appB}
  NoApp = NoApp
  Admins = {appB}
  Registered <- MCRegistered
  Request <- MCRequest
  NoStatus = NoStatus
  NoConfig = NoConfig
  Conn = {k1, k2, k3}
  Config <- MCConfig
  Kind <- MCKind
  Providers <- MCProviders
  PoolSize <- MCPoolSize
  AllowRoot <- MCAllowRoot
  AsRoot = TRUE
  MaxHup = 2
  Faults = {"config", "kim", "provider", "no_tpm", "authenticator", "listener", "accept"}
  Thread = {th1}
  Client = {appA, appB}
  NoClient = NoClient
  KeyName <- MCKeyName
  Key <- MCKey
  Provider <- MCProvider
  ProvList <- MCProvList
  CoreFaults = {"list", "destroy"}
SPECIFICATION MCSpec
INVARIANTS
  ServiceTypeOK OneInstancePerKind RequestsKeepTheirConfig
  CallsAreAuthorized ResponseAgrees
  DeletedUnlessExcused ListsAreHonest
PROPERTIES LifecycleSpec StopEnds HupIsHonoured WalksEnd
CHECK_DEADLOCK FALSE
