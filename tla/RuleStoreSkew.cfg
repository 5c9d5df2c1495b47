SPECIFICATION Spec
CONSTANTS
    r1 = r1
    r2 = r2
    a = a
    b = b
    Requests = {r1, r2}
    Ids = {a, b}
    Slugs <- MCSlugs
    Payloads <- MCPayloads
    Patches <- MCPatches
    SettingsPatches <- MCSettingsPatches
    Unset = Unset
    NoRow = NoRow
    NoTx = NoTx
    Nobody = Nobody
    Chain = Chain
    MaxAudit = 4
SYMMETRY Symmetry
INVARIANTS ValidRows
CHECK_DEADLOCK FALSE
