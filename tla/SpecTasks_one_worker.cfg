SPECIFICATION LiveSpec
CONSTANTS
    Specs = {s1, s2}
    Texts = {a, b}
    Editors = {e1}
    Importers = {}
    Agents = {}
    Admins = {}
    Workers = {w1}
    MaxRetries = 1
    MaxTasks = 2
    MaxFaults = 0
    Bare = Bare
    Blank = Blank
    Files = {a, b, Bare, Blank}
    Unborn = Unborn
    Gone = Gone
    Idle = Idle
    NoSpec = NoSpec
    s1 = s1
    s2 = s2
    a = a
    b = b
    e1 = e1
    w1 = w1
INVARIANTS
    IndexCatchesUp
    UploadStoredOnce
PROPERTIES
    TasksEnd
CHECK_DEADLOCK FALSE
