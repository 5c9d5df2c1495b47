SPECIFICATION FairSpec
CONSTANTS
    r1 = r1
    r2 = r2
    Requests = {r1, r2}
    Nobody = Nobody
    RequireVector = FALSE
    BadConfig = {2}
    BadProgram = {1}
    MaxEdits = 2
    MaxAudit = 3
INVARIANTS TypeOK ActiveIsLastAudited GateHolds
PROPERTIES ImplementsRegistry RequestsFinish
CHECK_DEADLOCK FALSE
