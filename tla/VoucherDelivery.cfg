SPECIFICATION Spec
CONSTANTS
    Ops = {o1, o2, o3}
    Docs = {d1, d2}
    Senders = {s1, s2}
    Fetchers = {f1}
    StageLimit = 1
    MaxBatches = 2
    MaxSeq = 2
    MaxRestores = 1
SYMMETRY Symmetry
INVARIANTS
    TypeOK
    StagingGapless
    PostedExactlyOnce
    ReceiptsSound
    ReceiptsInOrder
    HandoverSound
PROPERTIES
    ImplementsOrderedDelivery
