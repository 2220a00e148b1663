CONSTANTS
    MaxEvents = 3
    Window = 2
    MaxFaults = 1
SPECIFICATION Spec
INVARIANT TypeOK
PROPERTY WatchRefinesSubscription
PROPERTY CancelReleases
PROPERTY AllDelivered
CHECK_DEADLOCK FALSE
