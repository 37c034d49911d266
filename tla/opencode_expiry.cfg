SPECIFICATION WorldSpec
CONSTANTS
    Sessions = {s1}
    Turns = {t1}
    Keys = {k1, k2}
    Configs = {c1}
    MaxFaults = 0
    NoFile = NoFile
    None = None
PROPERTIES ExpiredIsTerminal
