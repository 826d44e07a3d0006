SPECIFICATION Spec
CONSTANTS
    Transfers = {t1}
    Items = {i1}
    Sources = {a, b}
    Destinations = {b, c}
    Users = {u1}
    Editors = {e1, e2}
    NoRevision = NoRevision
    MaxQuantity = 2
    MaxRevisions = 0
INVARIANTS
    EditsReverseWhatIsStored
\* A transfer may be deleted for good.
CHECK_DEADLOCK FALSE
