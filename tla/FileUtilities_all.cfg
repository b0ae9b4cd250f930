SPECIFICATION DialogSpec
CONSTANTS
    Threads = {t1, t2}
    Drives <- const_Drives
    Boot <- C
    Tree0 <- const_Tree0
    Paths <- const_Paths
    Files <- const_Files
    TmpDir <- Tmp
    Wildcards = 1
    Char = {"a", "b", "c", "d", "e", "f", "t", "x", "z", "1", "2", "3"}
    Counters <- const_Counters
    MaxCalls = 3
    MaxClock = 1
    NoDrives <- const_NoDrives
    Removable <- const_Removable
    Starts <- const_Starts
    Typed <- const_Typed
    Others = {t1}
    MaxOthers = 1
INVARIANT FilesAreSeen
PROPERTY DialogIsRight
PROPERTY FilesAsAsked
 
CHECK_DEADLOCK FALSE
