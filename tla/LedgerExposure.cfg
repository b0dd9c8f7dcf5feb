SPECIFICATION Spec
CONSTANTS
  buyer = buyer
  agent = agent
  p = p
  q = q
  reviewer = reviewer
  Tasks <- TwoCallers
  ProcessOf <- TwoProcesses
  Advised <- OnlyAgent
  Reporting <- AllActual
  Ids = {r1, r2}
  Amounts = {1}
  Drift = {0}
  DailyLimit = 3
  ActionsPerDay = 3
  LastDay = 0
  PolicyVerdicts = {"APPROVE", "REVIEW"}
  ReuseIds = FALSE
  KillSwitch = FALSE
  Answering = TRUE
  Reviewer = reviewer
INVARIANT ExposureIsAuthorised
\* The ids run out, the last day passes, and every caller may be done.
CHECK_DEADLOCK FALSE
