SPECIFICATION FairSpec
CONSTANTS
    o1 = o1
    o2 = o2
    a1 = a1
    a2 = a2
    c1 = c1
    c2 = c2
    Ops <- MCOps
    Actors <- MCActors
    Tabs = {t1, t2}
    Owner <- MCOwner
    Company <- MCCompany
    Parents <- ChainParents
    NoOne = NoOne
    ServerErrors = TRUE
    MaxFaults = 1
    MaxSwitches = 1
PROPERTIES
    RetriesSettle
\* Signed out for good, nothing is left to do.
CHECK_DEADLOCK FALSE
