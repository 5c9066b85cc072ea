\* Two editors, each moving its caret into a sentence: a lock the server refuses is held by heartbeat.
SPECIFICATION Spec
CONSTANTS
  Tabs = {"a", "b"}
  UserOf <- OwnUsers
  Seed <- OneText
  MaxOps = 1
  CasRetries = 2
  Plans <- LockPlans
INVARIANTS LocksExclusive
CHECK_DEADLOCK FALSE
