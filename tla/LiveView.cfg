SPECIFICATION FairSpec
CONSTANTS
    p1 = p1
    p2 = p2
    v1 = v1
    Publishers = {p1, p2}
    Viewers = {v1}
    Nobody = Nobody
    BatchSize = 2
    BufferSize = 1
    QueueSize = 2
INVARIANTS TypeOK QueueBounded StrandedOnlyByLateGetter
PROPERTIES ImplementsLiveFeed RaisesOnlyOnOverlap PublishersFinish FramesReach
CHECK_DEADLOCK FALSE
