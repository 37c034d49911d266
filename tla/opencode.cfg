SPECIFICATION WorldSpec
CONSTANTS
    Sessions = {s1}
    Turns = {t1}
    Keys = {k1, k2}
    Configs = {c1, c2}
    MaxFaults = 1
    NoFile = NoFile
    None = None
INVARIANTS TypeOK ExpiredHistoryIsGone CalmPrompts StuckIsKnown
PROPERTIES KeyForever KeptReclaimed
