\* Two workers, messages of every kind, two crashes or lost memberships.
\* Stopped consumers and a topic without new messages: the system may stop.
CONSTANTS
    Consumers = {c1, c2}
    Nobody = Nobody
    MaxOffset = 2
    MaxHandovers = 2
SPECIFICATION FairSpec
INVARIANTS
    TypeOK
    CommittedIsAccountedFor
    DuplicatesNeedHandovers
    OneLoopPerMessage
PROPERTIES
    MessagesAreConsumed
CHECK_DEADLOCK FALSE
