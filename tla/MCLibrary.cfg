SPECIFICATION Spec
CONSTANTS
    Processes = {1, 2}
    Packs <- MCPacks
    MaxFault = 2
    MaxInstall = 3
    MaxSave = 3
    MaxLoad = 2
    MaxUpset = 2
    Workers = {1, 2}
    Paths = {"x", "y"}
    Found <- MCFound
    Latest = 2
    RecentLimit = 2
    MaxCalls = 3
    MaxTrouble = 1
    MaxIntrusion = 3
    MaxProbe = 2
INVARIANTS
    TypeOK
    AvatarInv
    StoresInv
PROPERTIES
    LibraryEnds
