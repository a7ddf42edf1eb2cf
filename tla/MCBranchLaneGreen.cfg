SPECIFICATION Spec
CONSTANTS
  MaxPushes = 2
  MaxBumps = 0
  MaxBranch = 4
  TextX = x
  TextY = y
  Texts <- MCTexts
  Packages = 1
  Npm = FALSE
  MaxReruns = 0
  MaxFailures = 0
SYMMETRY TextSymmetry
INVARIANT PublishedWasGreen
