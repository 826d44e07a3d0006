SPECIFICATION Spec
CONSTANTS
    item = item
    adjust = adjust
    sale = sale
    stock = stock
    pos = pos
    Ops <- AllOps
    NoOp = NoOp
    Streams <- MCStreams
    StreamOf <- MCStreamOf
    Kind <- MCKind
    Creator <- MCCreator
    Appliers = {a1, a2}
    Reviewers = {v1}
    StageLimit = 1
    MaxChanges = 1
    Disagreements <- StockDisagreements
    MaxFaults = 2
SYMMETRY Symmetry
INVARIANTS
    TypeOK
    EffectsMatchReceipts
    ItemsBeforeUse
    HandoverSound
PROPERTIES
    ImplementsOrderedDelivery
\* Everything delivered and nothing left to change.
CHECK_DEADLOCK FALSE
