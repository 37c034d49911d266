SPECIFICATION FairCore
CONSTANTS
    Features = {f1}
    Versions = {v1}
    Requests = {r1}
    Workers = {w1}
    Tasks = {t1}
    Limit = 2
    MaxRepeatFailures = 2
    MaxFaults = 1
    None = None
PROPERTIES ArchivedLeavesRemote FollowsLifecycle
