SPECIFICATION FairSpec
CONSTANTS
    s0 = s0 s1 = s1 s2 = s2
    root = root guest = guest
    slash = slash hroot = hroot
    Procs = {s0, s1, s2}
    Root = s0
    RootKinds = {"xsh", "terminal"}
    Users = {root, guest}
    RootUser = root
    Dirs = {slash, hroot}
    Slash = slash
    Home <- MCHome
    NoDir = NoDir
    Codes = {7}
    MaxCmds <- MCMaxCmds
    NoProc = NoProc
    NoFile = NoFile
    NoExit = NoExit
CHECK_DEADLOCK FALSE
INVARIANTS CleanAtPrompt
PROPERTIES Delivered ExitClosesAll TerminalReturns
