SPECIFICATION MCSpec
CONSTANTS
  f1 = f1
  f2 = f2
  f3 = f3
  f4 = f4
  rulesDir = rulesDir
  subDir = subDir
  File = {f1, f2, f3, f4}
  Dir = {rulesDir, subDir}
  RulesRoot = rulesDir
  MaxDepth = 2
  Cap = 3
  Size <- MCSize
  Repositories <- MCRepositories
  MaxCommit = 4
  Forms <- MCForms
  Texts <- MCTexts
  NotRegular = NotRegular
  Nobody = Nobody
  Branches <- MCBranches
  Samples <- MCSamples
INVARIANTS
  FollowedWhole
  BillIsExact
  GreenTreeIsClean
  VerdictIsTrue
  ScansAreExact
  PairingIsMaximum
  AcceptsExactlySurvivors
PROPERTIES
  JobEnds
