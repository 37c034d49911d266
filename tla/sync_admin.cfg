SPECIFICATION Spec
CONSTANTS
    Features = {f1}
    Versions = {v1}
    Requests = {r1}
    Workers = {w1}
    Tasks = {t1, t2}
    Limit = 1
    MaxRepeatFailures = 2
    MaxFaults = 0
    None = None
SYMMETRY Symmetry
INVARIANTS TypeOK OpenJobsReachable IndexedIsUpsert
