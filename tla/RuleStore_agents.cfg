SPECIFICATION Spec
CONSTANTS
    Streams <- PatternStreams
    Seeds <- RepoSeeds
    Default = "def"
    Main = "main"
    Texts = {seed}
    SeedText = seed
    Publishers = {p1, p2}
    Admins = {}
    Resetters = {}
    NoRequest = NoRequest
    MaxRows = 2
    seed = seed
    p1 = p1
    p2 = p2
SYMMETRY PublisherSymmetry
INVARIANTS
    TypeOK
    VersionGoesToOneCaller
    PatternHasItsOption
PROPERTIES
    AppendOnly
