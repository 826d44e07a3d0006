SPECIFICATION FairSpec
CONSTANTS
    o1 = o1
    o2 = o2
    a1 = a1
    a2 = a2
    c1 = c1
    c2 = c2
    Ops <- MCOps
    Actors <- MCActors
    Tabs = {t1, t2}
    Owner <- MCOwner
    Company <- MCCompany
    Parents <- NoParents
    NoOne = NoOne
    ServerErrors = TRUE
    MaxFaults = 2
    MaxSwitches = 1
INVARIANTS
    TypeOK
    AcknowledgedIsBooked
    BookedInQueueOrder
    BookedOnce
PROPERTIES
    SettledIsFinal
    ImplementsSavedQueue
    EverySavedSettles
\* Signed out for good, nothing is left to do.
CHECK_DEADLOCK FALSE
