SPECIFICATION Spec
CONSTANTS
  MaxPushes = 3
  MaxBumps = 1
  MaxBranch = 6
  TextX = x
  TextY = y
  Texts <- MCTexts
  Packages = 2
  Npm = FALSE
  MaxReruns = 1
  MaxFailures = 1
SYMMETRY TextSymmetry
INVARIANT PublishedIsTagged
INVARIANT UploadIsNew
INVARIANT RegistryFollowsBranch
INVARIANT QuietRegistryIsHead
