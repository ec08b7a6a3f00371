\* Nobody writes: the pages of a table at rest.
CONSTANTS
    Severity <- SomeSeverity
    Category <- SomeCategory
    Target <- SomeTarget
    Stored = 3
    Demo = {2}
    Lists <- SomeLists
    PerPage = 2
    AuditPerPage = 1
    Retention = 1
    Week = 1
    MaxWrites = 0
    MaxClock = 1
SPECIFICATION Spec
INVARIANTS
    PagesDisjoint
