SPECIFICATION Spec
CONSTANTS
  Tabs = {"a", "b"}
  UserOf <- OwnUsers
  Seed <- OneText
  MaxOps = 2
  CasRetries = 2
  Plans <- CollabPlans
INVARIANTS TypeOK BaseWithinLog ResentOnlyAfterFailure CleanConverges
PROPERTIES LogSpec
CHECK_DEADLOCK FALSE
