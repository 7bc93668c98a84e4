SPECIFICATION Spec
CONSTANTS
    Specs = {s1}
    Texts = {a}
    Editors = {e1}
    Importers = {}
    Agents = {}
    Admins = {}
    Workers = {w1}
    MaxRetries = 3
    MaxTasks = 1
    MaxFaults = 0
    Bare = Bare
    Blank = Blank
    Files = {a, Bare, Blank}
    Unborn = Unborn
    Gone = Gone
    Idle = Idle
    NoSpec = NoSpec
    s1 = s1
    a = a
    e1 = e1
    w1 = w1
PROPERTIES
    ErrorsUseUpRetries
CHECK_DEADLOCK FALSE
