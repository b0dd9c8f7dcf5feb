\* Two processes, one outside change.
SPECIFICATION Spec
CONSTANTS
    Writers = {w1, w2}
    Ids = {a}
    MaxLines = 3
    MaxTouches = 1
SYMMETRY Interchangeable
INVARIANTS
    TypeOK
    VerifiedWasWritten
    AlarmIffForked
    AnchorIsHonest
    ConsistentMeansUnchanged
    RecordsTellTheLastSettlement
PROPERTY AppendOnly
CHECK_DEADLOCK FALSE
