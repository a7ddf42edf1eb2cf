SPECIFICATION FairSpec
CONSTANTS
  NoVersion = NoVersion
  Malformed = Malformed
  IntentVersions <- MCIntentsFew
  MaxComponent = 2
  MaxCommits = 3
  Contents = {"x", "y"}
  MaxTags = 1
  MaxReruns = 0
  MaxFailures = 1
INVARIANT QuietRegistryIsHead
INVARIANT RegistryFollowsBranch
PROPERTY QueuedJobEnds
