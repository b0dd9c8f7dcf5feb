SPECIFICATION FairSpec
CONSTANTS
  buyer = buyer
  agent = agent
  p = p
  q = q
  reviewer = reviewer
  Tasks <- TwoCallers
  ProcessOf <- OneLoop
  Advised <- OnlyAgent
  Reporting <- QuotedAndSilent
  Ids = {r1, r2, r3}
  Amounts = {1}
  Drift = {0}
  DailyLimit = 3
  ActionsPerDay = 2
  LastDay = 0
  PolicyVerdicts = {"APPROVE", "REVIEW"}
  ReuseIds = FALSE
  KillSwitch = TRUE
  Answering = FALSE
  Reviewer = reviewer
INVARIANT ActionsBounded
INVARIANT FreezeStops
INVARIANT NothingForgotten
PROPERTY EveryRequestIsClosed
\* The ids run out, the last day passes, and every caller may be done.
CHECK_DEADLOCK FALSE
