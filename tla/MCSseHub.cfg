\* A publishing thread, two pages that come and go, a queue of two events.  Fairness.
CONSTANTS
    Publishers = {p1}
    Streams = {s1, s2}
    Nobody = Nobody
    MaxSize = 2
    MaxEvents = 3
SPECIFICATION FairSpec
INVARIANTS
    TypeOK
    SubscribersMissNothing
    FullQueuesAreListed
    CutOffOnlyWhenFull
PROPERTIES
    ImplementsBroadcast
    GoneBrowsersAreForgotten
    EventsArrive
