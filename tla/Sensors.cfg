\* Two sensors whose maps hold two events each; four events of three times.
SPECIFICATION FairSpec
CONSTANTS
    NoSensors = 2
    MaxReadings = 2
    MaxToProcess = 0
    MaxStamp = 3
    MaxEvents = 4
INVARIANTS
    NewestKept
PROPERTIES
    EventsArrive
CHECK_DEADLOCK FALSE
