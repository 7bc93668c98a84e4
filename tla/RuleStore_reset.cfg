SPECIFICATION LiveSpec
CONSTANTS
    Streams <- ResetStreams
    Seeds <- ResetSeeds
    Default = "def"
    Main = "main"
    Texts = {seed}
    SeedText = seed
    Publishers = {}
    Admins = {a1, a2}
    Resetters = {a1, r1}
    NoRequest = NoRequest
    MaxRows = 0
    seed = seed
    a1 = a1
    a2 = a2
    r1 = r1
PROPERTIES
    MainComesBack
    ServerComesBack
