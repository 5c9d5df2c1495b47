SPECIFICATION FairSpec
CONSTANTS
    n1 = n1
    Nodes = {n1}
    Contents = {"good", "bad"}
    Good = {"good"}
    Missing = Missing
    Torn = Torn
    Fallback = Fallback
    Corrupt = Corrupt
    Down = Down
    FaultKinds = {"crash", "torn", "unsaved", "unwritten", "agent"}
    MaxReleases = 3
    MaxFaults = 3
INVARIANTS TypeOK RunsOnlyReleases HonestUnlessCut
PROPERTIES CacheNeverLost VectorKeepsRunning NodeComesUp NodesConverge
