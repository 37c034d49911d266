SPECIFICATION StreamSpec
CONSTANTS
    Configs = {c1, c2}
    Sessions = {s1}
    Chats = {r1}
    Streams = {r2}
    MaxRetries = 1
    Threshold = 2
    Own = Own
    Questions = {q1, q2}
    Titlers = {g1}
    Scripts <- TurnScripts
    MaxMessages = 2
    Asked = 8
    Before = 9
    Editors = {x, y}
    ReportIds = {1, 2}
    Attachments = {u1, u2, u3}
    Pids = {x, y}
    Models = {m1, m2}
    DefaultModel = m0
    ConfigIds = {c1, c2}
    Scopes = {g, u}
    Contents = {k1, k2}
    Admins = {x, y}
    Locations = {c1, c2}
    Pushes = 1
    JobIds = {x, y}
    Readers = {s1}
    Users = {m}
    Browsers = {c1, c2}
    Tokens = {x, y}
    Calls = {x, y}
    MaxPasswords = 2
    MaxVersion = 2
    Servers = {p1, p2, p3}
    PortCount = 2
    Callers = {w}
    Posts = {x, y}
    Drafters = {x, y}
    Keys = {c1, c2}
    Topics = {g}
    CacheLimit = 1
    MaxTalk = 2
    ServerKeys = {p1}
    AppKeys = {r1, r2}
    TuneLimit = 2
    EnvValue = 2
    Wishes <- TuneLists
    Tuners = {x, y}
    MaxRows = 5
    Embeddings = {m1, m2}
    Secrets = {g}
    Switchers = {x, y}
    MaxModels = 4
    None = None
INVARIANT SilentTurnFails
CHECK_DEADLOCK FALSE
