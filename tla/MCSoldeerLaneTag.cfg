SPECIFICATION Spec
CONSTANTS
  NoVersion = NoVersion
  Malformed = Malformed
  IntentVersions <- MCIntentsFew
  MaxComponent = 2
  MaxCommits = 2
  Contents = {"x", "y"}
  MaxTags = 1
  MaxReruns = 1
  MaxFailures = 1
INVARIANT SuccessLeavesTag
