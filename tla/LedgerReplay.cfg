SPECIFICATION Spec
CONSTANTS
  buyer = buyer
  agent = agent
  p = p
  q = q
  reviewer = reviewer
  Tasks <- OneCaller
  ProcessOf <- Alone
  Advised <- Nobody
  Reporting <- Quoted
  Ids = {r1, r2}
  Amounts = {1}
  Drift = {0}
  DailyLimit = 3
  ActionsPerDay = 3
  LastDay = 0
  PolicyVerdicts = {"APPROVE"}
  ReuseIds = TRUE
  KillSwitch = FALSE
  Answering = TRUE
  Reviewer = reviewer
PROPERTY SettledRowKept
\* The ids run out, the last day passes, and every caller may be done.
CHECK_DEADLOCK FALSE
