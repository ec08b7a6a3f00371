\* One alert, two workers, three handlers after the ingest: the classification race.
CONSTANTS
    Workers = {w1, w2}
    Analysts = {alice, bob}
    NoOne = NoOne
    MaxAlert = 1
    MaxRequests = 4
    MaxClock = 2
    Retention = 0
SPECIFICATION Spec
SYMMETRY Symmetric
INVARIANTS
    TypeOK
    StatusIsLastClassification
    AssigneeIsLastActor
    OpenIsUnassigned
    ActionsMatchAudit
    ClassifiedAtMostOncePerWorker
