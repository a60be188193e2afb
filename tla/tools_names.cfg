SPECIFICATION ToolsSpec
CONSTANTS
    Corpora = {"graphics", "ti"}
    RtlVersions <- MCVersions
    Differs <- MCDiffers
    MaxEdits = 4
    Modes = {"plain", "screen", "int"}
    Logged <- MCLogged
INVARIANTS
    NotedCounted
