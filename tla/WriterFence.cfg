CONSTANTS
    CloudApps = {c1, c2}
    LanApp = lan
    RelaySettings = {TRUE, FALSE}
    MaxEpoch = 5
    MaxCaptures = 2
SYMMETRY Symmetric
SPECIFICATION Spec
INVARIANTS
    TypeOK
    OneSiteWrites
    UsersWriteOnDrainedBooks
PROPERTIES
    CommitsInEpochOrder
    ImplementsWriteAuthority
