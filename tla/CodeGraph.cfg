CONSTANTS
    f1 = f1
    f2 = f2
    a = a
    b = b
    c = c
    Files = {f1, f2}
    Symbols = {a, b, c}
    Payloads <- MCPayloads
    Workers = {w1, w2}
    Idle = Idle
    MaxRetries = 1
    MaxPushes = 2
    MaxAttempts = 6
    MaxFaults = 1
SPECIFICATION Spec
INVARIANTS
    GraphIsSound
    PushReplacesItsFiles
    MissingFilesAreExplained
PROPERTIES
    PushesEnd
    ImplementsTable
CHECK_DEADLOCK FALSE
