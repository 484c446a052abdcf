SPECIFICATION Spec
CONSTANTS
    MaxLines = 3
    MaxLen = 3
    Tab = 4
    x = x
    J = J
    Space = Space
    NL = NL
    CR = CR
    Letters <- VimLetters
    f = f
    g = g
    Paths <- VimPaths
    NoPath = NoPath
    Absent = Absent
    Starts <- VimStarts
    MaxKeys = 6
CHECK_DEADLOCK FALSE
INVARIANTS TypeOK UnmodifiedIsOnDisk
PROPERTIES KeysAreEdits
