SPECIFICATION Spec
CONSTANTS
  self = self
  a = a
  b = b
  Runs <- MCRuns
  OwnRuns <- MCOwnRuns
  Self = self
  PerPage = 1
  MaxPages = 3
  Poll = 1
  Grace = 2
  Deadline = 3
  MaxLag = 1
  MaxTime = 4
SYMMETRY Symmetry
INVARIANT GraceCoversRegistrationLag
