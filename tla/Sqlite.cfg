SPECIFICATION Spec
CONSTANTS
    Db = Db
    Journal = Journal
    NoFile = NoFile
    Closed = Closed
    Idle = Idle
    MaxPages = 3
    MaxTxn = 3
INVARIANTS Recoverable AtomicCommit
