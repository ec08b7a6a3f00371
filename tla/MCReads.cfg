\* Three stored alerts and one that may arrive, two commits by others.
CONSTANTS
    Severity <- SomeSeverity
    Category <- SomeCategory
    Target <- SomeTarget
    Stored = 3
    Demo = {2}
    Lists <- SomeLists
    PerPage = 2
    AuditPerPage = 1
    Retention = 1
    Week = 1
    MaxWrites = 2
    MaxClock = 2
SPECIFICATION Spec
INVARIANTS
    TypeOK
    WalkMissesNothing
    WalkRepeatsNothing
    AuditReachesAll
    EnvelopeFits
    FiguresFit
    LayerShowsWorst
