SPECIFICATION Spec
CONSTANTS
    n1 = n1
    Nodes = {n1}
    Contents = {"good"}
    Good = {"good"}
    Missing = Missing
    Torn = Torn
    Fallback = Fallback
    Corrupt = Corrupt
    Down = Down
    FaultKinds = {"unsaved"}
    MaxReleases = 2
    MaxFaults = 1
INVARIANTS UnchangedMeansActive
