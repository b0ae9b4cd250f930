INIT Init
NEXT Next
CONSTANTS
    Summer = {4, 5, 6, 7, 8, 9}
    MaxRevisions = 3
    Chunk = 4
    Block = 8
    Width = 6
    MaxBytes = 40
INVARIANT MatchIsRight
INVARIANT SettingsAreRead
INVARIANT DatesAreRight
INVARIANT LevelsAreKept
INVARIANT PackagesAreFound
INVARIANT SumsAreRight
INVARIANT BitmapsAreChosen
CHECK_DEADLOCK FALSE
