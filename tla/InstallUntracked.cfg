SPECIFICATION Spec
CONSTANTS
    s1 = s1
    s2 = s2
    conf = conf
    kernel = kernel
    users = users
    v1 = v1
    v2 = v2
    mine = mine
    rootonly = rootonly
    NoFile = NoFile
    Partial = Partial
    Dir = Dir
    Paths <- MCPaths
    ShellPaths <- MCShellPaths
    BootPaths <- MCBootPaths
    ConfPaths <- MCBootPaths
    KernelFile = kernel
    UsersDb = users
    RootOnly = rootonly
    Contents <- MCContents
    Images <- MCImages
    ManifestCap = 3
    EditPaths <- MCEditPaths
    EditValues <- MCEditValues
    MaxEdits = 1
    MaxInterrupts = 0
PROPERTIES
    UntrackedPreserved
