CONSTANTS
  i1 = i1
  e1 = e1
  e2 = e2
  d1 = d1
  d2 = d2
  d3 = d3
  Inits = {i1}
  Executes = {e1, e2}
  Cleanups = {d1, d2, d3}
  StageOf <- MCStageOf
  Labelled = {e1, e2, d1, d2}
  OnHost = {e2}
  MaxDockerFaults = 1
  vi = vi
  v1 = v1
  v2 = v2
  vc = vc
  p1 = p1
  p2 = p2
  sv1 = sv1
  sv2 = sv2
  VMInits = {vi}
  VMExecutes = {v1, v2}
  VMCleanups = {vc}
  DelegateTasks = {p1, p2}
  VMStageOf <- MCVMStageOf
  Services = {sv1, sv2}
  ServicesOf <- MCServicesOf
  Malformed = {p2}
  MaxVMFaults = 2
  s1 = s1
  s2 = s2
  s3 = s3
  k1 = k1
  k2 = k2
  plain = plain
  coded = coded
  SecretTaskIDs = {s1, s2, s3}
  SecretRequests <- MCSecretRequests
  Keys = {k1, k2}
  Values = {plain, coded}
  Decoded <- MCDecoded
  NoSecret = NoSecret
  MaxVaultFaults = 1
  TokenCallers = {c1, c2}
  Starter = main
  Lives <- MCLives
  DefaultTime = 3
  Starts <- MCStarts
  PoolsOf <- MCPoolsOf
  in1 = in1
  in2 = in2
  st1 = st1
  st2 = st2
  so1 = so1
  cf1 = cf1
  cf2 = cf2
  InstallCommands = {in1, in2}
  StartCommands = {st1, st2}
  StopCommands = {so1}
  ConfigPathOf <- MCConfigPathOf
  NoPath = NoPath
  MaxServiceFaults = 1
SPECIFICATION FairRouter
CHECK_DEADLOCK FALSE
INVARIANTS
  RouterTypeOK
  AnswersAccounted
  ServicesReported
  CachedTokenLives
  RunnerIsKnown
  PlistDescribesService
PROPERTIES
  RemovesOnlyItsOwn
  QuietCleanupLeavesNothing
  CleanedStageEnds
  EveryTaskIsTold
  ErasedIsUnknown
  FetchesWhatWasWritten
  StopReturns
