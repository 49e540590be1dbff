SPECIFICATION FilesSpec
CONSTANTS
    Jobs = {j1, j2}
    Kinds = {"convert", "routed", "rotate", "move", "copy"}
    Stems = {s1}
    MaxN = 3
    MaxOthers = 1
    Other = Other
    None = None
    Runs = {r1, r2}
    Verbs = {"files_to_folder", "sort_by_dimensions", "tags_move", "tags_copy", "rename_by_exif"}
    Home <- MCHome
    Selected <- MCSelected
    WantedDir <- MCDir
    WantedName <- MCName
    MaxSaved = 1
    Batches <- MCBatches
    Folded <- MCFolded
    Folders <- MCFolders
    MaxForeign = 1
    EDGE = 2
    BITS = 4
    ZIGZAG <- MCZigzag
    Wave <- MCWave
    RunMax = 1
    StdDc <- MCStdDc
    StdAc <- MCStdAc
    MaxDim = 8
    MaxCells = 30
    RST = 13
    EOI = 14
    Sources <- MCPlain
    Nothing = Nothing
SYMMETRY Symmetry
INVARIANTS NoLitter ReportsItsOutput NothingLost CountsTrue SaysWhatItMade PlainAsTurned
PROPERTY Promise
CHECK_DEADLOCK FALSE
