SPECIFICATION MCSpec
CONSTANTS
  arbitrum = arbitrum
  base = base
  key = key
  public = public
  node = node
  abi = abi
  pins = pins
  NoUrl = NoUrl
  Local = Local
  Net = {arbitrum, base}
  Url = {key, public, node}
  NetOrder <- MCNetOrder
  Samples = 2
  BurstSize = 3
  HeadBlock = 10
  OwnDepths <- MCOwnDepths
  StateDepths <- MCStateDepths
  Responses <- MCResponses
  Inputs <- MCInputs
  Thread = {t1, t2}
  Audience = {gate}
  Nobody = Nobody
  Lifetime = 5
  Margin = 3
  OpTime = 1
  Lookup = 0
  Warm = {0, 4}
  MaxTime = 6
  Task = {task1, task2}
  Network = {arbitrum, base}
  PlainName = {arbitrum}
  Build <- MCBuild
  NoBuild = NoBuild
  ProbeTries = 2
  Path = {abi, pins, foundry}
  Config = foundry
  Hooks <- MCHooks
  s1 = s1
  s2 = s2
  Sources <- MCSources
  NoPins = NoPins
  MaxVersion = 2
  MaxPRs = 0
  MaxRuns = 0
  MaxWipes = 0
  MaxFailures = 0
INVARIANT TokenLivesAtGate
VIEW MCView
SYMMETRY SourceSymmetry
CHECK_DEADLOCK FALSE
