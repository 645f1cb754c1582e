SPECIFICATION UploadSpec
CONSTANTS
    File = {o1, f1, f2, f3, f4, f5, f6}
    Old = {o1}
    Size = 2
    Attempts = 3
    MaxCommits = 4
    OtherWriter = TRUE
SYMMETRY Symmetry
CHECK_DEADLOCK FALSE
INVARIANTS SnapshotReadable OldOrNew ReturnedReplaced
