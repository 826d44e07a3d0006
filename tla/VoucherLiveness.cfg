SPECIFICATION FairSpec
CONSTANTS
    Ops = {o1, o2}
    Docs = {d1, d2}
    Senders = {s1}
    Fetchers = {f1}
    StageLimit = 2
    MaxBatches = 1
    MaxSeq = 2
    MaxRestores = 0
PROPERTIES
    CapturedIsConfirmed
