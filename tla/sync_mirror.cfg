SPECIFICATION FairSerial
CONSTANTS
    Features = {f1}
    Versions = {v1, v2}
    Requests = {r1}
    Workers = {w1}
    Tasks = {t1}
    Limit = 2
    MaxRepeatFailures = 2
    MaxFaults = 0
    None = None
INVARIANTS NoSilentStaleness
PROPERTIES EventuallyMirrored
