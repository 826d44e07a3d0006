SPECIFICATION FairSpec
CONSTANTS
    item = item
    adjust = adjust
    sale = sale
    stock = stock
    pos = pos
    Ops <- TwoOps
    NoOp = NoOp
    Streams <- MCStreams
    StreamOf <- MCStreamOf
    Kind <- MCKind
    Creator <- MCCreator
    Appliers = {a1}
    Reviewers = {v1, v2}
    StageLimit = 1
    MaxChanges = 2
    Disagreements <- SaleDisagreements
    MaxFaults = 1
INVARIANTS
    OverridesDecided

    
\* Everything delivered and nothing left to change.
CHECK_DEADLOCK FALSE
