SPECIFICATION Spec
CONSTANTS
    Streams <- AdminStreams
    Seeds <- AllSeeds
    Default = "def"
    Main = "main"
    Texts = {seed}
    SeedText = seed
    Publishers = {p1}
    Admins = {a1}
    Resetters = {}
    NoRequest = NoRequest
    MaxRows = 2
    seed = seed
    p1 = p1
    a1 = a1
INVARIANTS
    ProtectedMainKeepsAVersion
    SeedNeverCollides
    ChunksComeFromOnePublish
