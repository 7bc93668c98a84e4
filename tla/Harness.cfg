SPECIFICATION Spec
CONSTANTS
    Apps = {"shop"}
    Patterns = {"def", "web", "org/web"}
    Default = "def"
    DefaultSegment = "__default__"
    Categories = {"main", "more", "new"}
    Main = "main"
    New = "new"
    Unaddressable = {"org/web"}
    Scenes <- AllScenes
    Bodies = {text, bare}
    Bare = {bare}
    Agents = {"agent"}
    Uploaders = {"uploader"}
    Admins = {"admin"}
    Scripts = {"script"}
    NoCall = NoCall
    MaxRows = 2
    MaxFiles = 2
    text = text
    bare = bare
INVARIANTS
    UploadTellsTheTruth
    DeleteOfferedWhenAccepted
    EveryRowIsReachable
    FormsMatchWhatAgentsGet
    ReindexedStreamsAreFound
PROPERTIES
    MainKeepsAVersion
    SearchKeepsWhatItFound
