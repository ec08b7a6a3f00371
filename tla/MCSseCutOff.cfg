\* A page that reads too slowly.
CONSTANTS
    Publishers = {p1}
    Streams = {s1, s2}
    Nobody = Nobody
    MaxSize = 2
    MaxEvents = 4
SPECIFICATION Spec
INVARIANTS
    OpenStreamsAreSubscribed
