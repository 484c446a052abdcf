SPECIFICATION CommandsSpec
CONSTANTS
    x = x
    Absent = Absent
    None = None
    NoFile = NoFile
    Junk = Junk
    BadId = BadId
    Locked = Locked
    Unset = Unset
    Missing = Missing
    Superuser = "root"
    People <- AccountNames
    Strangers <- OtherNames
    DbMax = 4
    FileMax = 4
    Rub = BS
    Del = Rubout
    FirstId = 2
    IdWord = 8
    LineMax = 3
    LoginMax = 2
    Passwords <- LibraryPasswords
    TypedKeys <- TypedPasswords
    AccountFiles <- AccountStarts
    MaxCalls = 2
    BS = BS
    Rubout = Rubout
    U = U
    V = V
    Dir = Dir
    TooLong = TooLong
    Widths <- FileNames
    Begins <- NameBegins
    WithElf <- ElfNames
    PathMax = 14
    CommandMax = 20
    CopyMax = 2
    MaxFiles = 3
    MaxRuns = 2
    Cells <- WrittenCells
    Places <- FilePlaces
    Users <- FileUsers
    Root = "root"
    Starts <- FileStarts
    Texts <- TypedPaths
    Commands <- TypedCommands
    Search <- SearchPath
    Plus = Plus
    Minus = Minus
    X = 33
    Word = 64
    Field = 16
    Types = 32
    DiskSectors = 20
    MaxCommands = 4
    Records <- BootRecords
    Requests <- PartCommands
    Rows = 3
    Cols = 4
    AnsiMax = 4
    CaptureMax = 13
    Keys <- TypedCharacters
    Chars <- PrintedCharacters
    Upper <- Capitals
    Meaning <- Builtins
    Outputs <- ProgramOutputs
    MaxKeys = 3
    MaxLines = 2
CHECK_DEADLOCK FALSE
INVARIANTS AccountsHold SourceKept PathsAgree ScreenIsTail PartitionsHold
PROPERTIES  ChangesOwned
