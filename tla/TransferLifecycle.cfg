SPECIFICATION Spec
CONSTANTS
    Transfers = {t1}
    Items = {i1}
    Sources = {a, b}
    Destinations = {b, c}
    Users = {u1, u2}
    Editors = {e1}
    NoRevision = NoRevision
    MaxQuantity = 1
    MaxRevisions = 2
SYMMETRY Symmetric
INVARIANTS
    TypeOK
    StockMatchesDocuments
    OnePendingPerUser
PROPERTIES
    DecisionsAreFinal
    ApprovalReplacesWhatWasSeen
    NothingDiscarded
\* A transfer may be deleted for good.
CHECK_DEADLOCK FALSE
