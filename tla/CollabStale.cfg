SPECIFICATION Spec
CONSTANTS
  Tabs = {"a", "b"}
  UserOf <- OwnUsers
  Seed <- OneText
  MaxOps = 2
  CasRetries = 2
  Plans <- StalePlans
INVARIANTS LatestIsApplied
CHECK_DEADLOCK FALSE
