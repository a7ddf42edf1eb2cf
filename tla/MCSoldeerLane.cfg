SPECIFICATION Spec
CONSTANTS
  NoVersion = NoVersion
  Malformed = Malformed
  IntentVersions <- MCIntents
  MaxComponent = 2
  MaxCommits = 2
  Contents = {"x", "y"}
  MaxTags = 2
  MaxReruns = 1
  MaxFailures = 1
INVARIANT TypeOK
INVARIANT PublishedWasGreen
INVARIANT TagsNameTheirRevision
PROPERTY ImplementsLedger
