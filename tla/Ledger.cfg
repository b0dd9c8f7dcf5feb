SPECIFICATION Spec
CONSTANTS
  buyer = buyer
  agent = agent
  p = p
  q = q
  reviewer = reviewer
  Tasks <- TwoCallers
  ProcessOf <- TwoProcesses
  Advised <- OnlyAgent
  Reporting <- AllActual
  Ids = {r1, r2, r3}
  Amounts = {1, 2}
  Drift = {0, 2}
  DailyLimit = 2
  ActionsPerDay = 3
  LastDay = 1
  PolicyVerdicts = {"APPROVE"}
  ReuseIds = FALSE
  KillSwitch = FALSE
  Answering = TRUE
  Reviewer = reviewer
SYMMETRY AnyId
INVARIANT TypeOK
INVARIANT SpendBounded
INVARIANT MovedIsAccountedFor
INVARIANT ReceiptsMatchRows
INVARIANT NothingForgotten
PROPERTY ImplementsReconciliation
\* The ids run out, the last day passes, and every caller may be done.
CHECK_DEADLOCK FALSE
