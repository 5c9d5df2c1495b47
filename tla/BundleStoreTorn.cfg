SPECIFICATION Spec
CONSTANTS
    r1 = r1
    r2 = r2
    Requests = {r1, r2}
    Nobody = Nobody
    RequireVector = TRUE
    BadConfig = {}
    BadProgram = {}
    MaxEdits = 2
    MaxAudit = 3
SYMMETRY Symmetry
INVARIANTS NoTornBundle
CHECK_DEADLOCK FALSE
