\* An operator at work over the three files, and two processes of one agent.
SPECIFICATION Spec
SYMMETRY Interchangeable
CONSTANTS
    Operators = {o}
    Deciders = {d, e}
    Calls = {"authorize", "advise"}
    boss = boss
    child = child
    exile = exile
    ghost = ghost
    Agents = {boss, child, exile, ghost}
    AgentOf <- ForChild
    trip = trip
    IntentIds = {trip, j}
    Requests = {r, s}
    Amounts = {2}
    Reported = {1, 3}
    Kinds <- OneKind
    Names = {"none"}
    Registered <- Family
    Standing <- Errand
    Registrations <- Forms
    Declarations <- Errands
    Answers = {"approved"}
    PolicyVerdicts = {"APPROVE", "REVIEW"}
    LastMoment = 1
    MaxWrites = 1
INVARIANTS
    TypeOK
    StopReachesDecision
    LapsedIsNotUngoverned
    SpentWithinIntent
    QueueLosesOnlyToOverlap
    DepthIsHonest
PROPERTY RevocationIsTerminal
CHECK_DEADLOCK FALSE
