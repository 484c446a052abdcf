SPECIFICATION RepairSpec
CONSTANTS
    s1 = s1
    s2 = s2
    conf = conf
    kernel = kernel
    users = users
    v1 = v1
    v2 = v2
    mine = mine
    rootonly = rootonly
    NoFile = NoFile
    Partial = Partial
    Dir = Dir
    Paths <- SmallPaths
    ShellPaths <- SmallShellPaths
    BootPaths <- MCBootPaths
    ConfPaths <- MCBootPaths
    KernelFile = kernel
    UsersDb = users
    RootOnly = rootonly
    Contents <- MCContents
    Images <- SmallImages
    ManifestCap = 3
    EditPaths <- SmallEditPaths
    EditValues <- SmallEditValues
    MaxEdits = 0
    MaxInterrupts = 1
PROPERTIES
    RepairConverges
