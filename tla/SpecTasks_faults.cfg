SPECIFICATION Spec
CONSTANTS
    Specs = {s1}
    Texts = {a}
    Editors = {h1}
    Importers = {h1}
    Agents = {h1}
    Admins = {h1}
    Workers = {w1, w2}
    MaxRetries = 1
    MaxTasks = 2
    MaxFaults = 1
    Bare = Bare
    Blank = Blank
    Files = {a, Blank}
    Unborn = Unborn
    Gone = Gone
    Idle = Idle
    NoSpec = NoSpec
    s1 = s1
    a = a
    h1 = h1
    w1 = w1
    w2 = w2
SYMMETRY WorkerSymmetry
INVARIANTS
    TypeOK
    SearchShowsOneIndexing
    OneAttemptAtATime
    NoTaskDisappears
CHECK_DEADLOCK FALSE
