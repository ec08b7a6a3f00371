\* A page and a worker that its stream may keep; refreshes overlap.  Fairness.
CONSTANTS
    Pages = {p1}
    Workers = 1
    MaxAlert = 2
    PerPage = 1
    MaxInFlight = 2
    MaxActs = 2
    MaxFailures = 1
SPECIFICATION FairSpec
INVARIANTS
    TypeOK
    ToldMeansShown
    RowsWereTrue
PROPERTIES
    BackwardsNeedsOverlap
    PagesCatchUp
    ClicksAreAnswered
