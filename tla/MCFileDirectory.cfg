SPECIFICATION Spec
CONSTANTS
    Threads = {t1, t2}
    Owner = owner
    Sharees = {s1}
    Folders <- MCFolders
    Inner = "x"
    MaxFiles = 4
    MaxRequests = 3
    MaxFaults = 1
    MaxWrites = 1
INVARIANTS
    TypeOK
    FilesAreFound
    SavedIsKept
    SharesHold
SYMMETRY MCSymmetry
CHECK_DEADLOCK FALSE
