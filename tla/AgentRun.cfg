\* A cockpit and two guarded agents; runs of one or two units, or more than one may ask for.
SPECIFICATION FairSpec
CONSTANTS
    Cockpits = {cockpit}
    graph = graph
    claude = claude
    Guards = {graph, claude}
    FrameworkOf <- Framework
    CallerCeiling = 1
    CallerSteps <- GraphStepsSet
    DefaultSteps = 2
    Models = {m, n}
    Ids = {a, b}
    Budgets = {1, 2, 4}
    Costs = {1, 2}
    PerTransaction = 3
    Daily = 3
    ActionsPerDay = 2
    None = None
INVARIANTS
    TypeOK
    OneDecisionPerId
    CeilingHolds
    StopIsJournalledOnce
    SpendIsTheCost
    NoRunForgotten
    OverrideNamesADecision
PROPERTY EveryRunEnds
CHECK_DEADLOCK FALSE
