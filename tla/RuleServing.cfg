SPECIFICATION Spec
CONSTANTS
    Apps = {"shop", "shop[1]", "default"}
    DefaultApp = "default"
    Patterns = {"web", "def"}
    Default = "def"
    Sections = {"main", "more"}
    Main = "main"
    NoApp = "none"
    AllApps = "*"
    Origins = {"github", "server"}
    ServerGit = "server"
    Contains <- WebIn
    Rank <- PatternOrder
    Met <- GlobMeets
    Scenes <- AllScenes
    Agents = {"agent"}
    Writers = {"writer"}
    Admins = {"admin"}
    Nothing = Nothing
    MaxWrites = 3
INVARIANTS
PROPERTIES
    InvalidationReachesEveryAnswer
    SnapshotTellsOfEveryChange
    CacheCatchesUp
    AgentsCatchUp
CHECK_DEADLOCK FALSE
