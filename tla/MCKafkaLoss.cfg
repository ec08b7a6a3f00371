\* A worker that dies with a message whose offset is committed.
\* Stopped consumers and a topic without new messages: the system may stop.
CONSTANTS
    Consumers = {c1, c2}
    Nobody = Nobody
    MaxOffset = 2
    MaxHandovers = 1
SPECIFICATION Spec
INVARIANTS
    AlertsLandInTheQueue
CHECK_DEADLOCK FALSE
