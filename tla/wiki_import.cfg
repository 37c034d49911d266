SPECIFICATION ImportSpec
CONSTANTS
    Nodes = {3, 4}
    KB = 1
    RP = 2
    Names = {1, 2}
    Suffixes = {1, 2}
    Documents = {d1}
    Reports = {r1}
    Items = {1, 2, 3}
    Folders = {f, g}
    Users = {u1, u2}
    Bodies = {b1, b2}
    Edits = {e1, e2}
    Rows = {n1, n2}
    MaxVersions = 2
    N = 3
    Source <- ImportSource
    Assets = {1}
    Broken = {2}
    Bases <- ImportBases
    SystemFolders <- ImportBases
    UserPaths <- ImportUserPaths
    Requests = {q1, q2}
    Papers = {1, 2}
    Dirs = {1, 2}
    Labels = {1, 2}
    Changers = {k1, k2}
    MaxTexts = 2
    MaxChanges = 4
    None = None
INVARIANT ImportCanFinish
CHECK_DEADLOCK FALSE
