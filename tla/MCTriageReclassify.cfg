\* Two workers classify one alert at the same time.
CONSTANTS
    Workers = {w1, w2}
    Analysts = {alice, bob}
    NoOne = NoOne
    MaxAlert = 1
    MaxRequests = 3
    MaxClock = 1
    Retention = 0
SPECIFICATION Spec
PROPERTIES
    ClosedIsFinal
