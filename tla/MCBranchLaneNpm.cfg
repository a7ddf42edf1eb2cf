SPECIFICATION Spec
CONSTANTS
  MaxPushes = 3
  MaxBumps = 0
  MaxBranch = 6
  TextX = x
  TextY = y
  Texts <- MCTexts
  Packages = 1
  Npm = TRUE
  MaxReruns = 1
  MaxFailures = 1
SYMMETRY TextSymmetry
INVARIANT TagNamesItsTree
