SPECIFICATION CoreSpec
CONSTANTS
    Features = {f1, f2}
    Versions = {v1}
    Requests = {r1}
    Workers = {w1}
    Tasks = {t1}
    Limit = 1
    MaxRepeatFailures = 1
    MaxFaults = 0
    None = None
SYMMETRY FeatureSymmetry
INVARIANTS RunningWithinLimit
