\* Two alerts and two booting workers: purges against handlers and each other,
\* and the end of every lock wait.  No symmetry, for the liveness property.
CONSTANTS
    Workers = {w1, w2}
    Analysts = {alice}
    NoOne = NoOne
    MaxAlert = 2
    MaxRequests = 3
    MaxClock = 2
    Retention = 1
SPECIFICATION FairSpec
INVARIANTS
    NoOrphanRows
    AnnouncedIsRecorded
PROPERTIES
    ImplementsLedger
    WorkersReturn
