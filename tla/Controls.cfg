CONSTANTS
    a = a
    u = u
    v = v
    s = s
    r = r
    q = q
    Agents = {a}
    Vendors = {u, v, s}
    Resources = {r, q}
    Sanctioned = {s}
    Profile <- Vetted
    Ids = {1, 2, 3, 4, 5}
    Requests <- Errands
    Amounts = {1, 3}
    Reported = {0, 1, 4}
    Treasury <- Limits
    TrustWeights <- Trusting
    RiskWeights <- Wary
    Eiap <- Advisor
    Recommendations = {"REJECT"}
    ExpectedValue <- Worth
    DerivedFacts <- Composed
    Rules <- Bundle
    Minute = 1
    Hour = 2
    Day = 2
    ThirtyDays = 3
    Month = 4
    BaselineCap = 3
    Histories <- Past
    FirstMoment = 2
    LastMoment = 4
    MaxDisputes = 1
SPECIFICATION Spec
INVARIANTS
    TypeOK
    EnvelopesHold
    RatesHold
PROPERTY DisputeEndsApproval
CHECK_DEADLOCK FALSE
