SPECIFICATION FairSpec
CONSTANTS
  self = self
  a = a
  b = b
  Runs <- MCRuns
  OwnRuns <- MCOwnRuns
  Self = self
  PerPage = 1
  MaxPages = 3
  Poll = 1
  Grace = 1
  Deadline = 2
  MaxLag = 9
  MaxTime = 3
INVARIANT TypeOK
INVARIANT PagingLosesNothing
INVARIANT PublishOnlyFromGreenListing
INVARIANT NoCiMeansNothingElseRan
INVARIANT TimeoutHasCause
PROPERTY Terminates
