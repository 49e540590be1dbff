SPECIFICATION ShellSpec
CONSTANTS
    Factories = {f1}
    Objects = {o1, o2}
    Workers = {w1, w2, w3}
    MaxLocks = 1
    Cap <- MCCap
    PaneFiles = {p1, p2, p3}
    Unpaintable = {p3}
    Shades = {light, mid, dark}
    ThemeBg = dark
    Themed = {mid, dark}
    Windows = {h1, h2}
    MaxQueue = 3
    MaxWorkers = 2
    Nil = Nil
    MenuFiles = {j, k, a, x}
    j = j
    k = k
    a = a
    x = x
    NoFile = NoFile
    Class <- MCClass
    Selections <- MCSelections
    Orders <- MCOrders
    Hidden <- MCHidden
    Starts <- MCStarts
    Grants = {20, 44, 45}
    MaxChanges = 1
    MaxAsked = 2
    Heads <- MCHeads
    Caps = {2, 4}
    MAX_BYTES = 4
    RAW_PREFIX_BYTES = 2
    HEAD_PREVIEW_BYTES = 1
    MaxSize = 5
    MaxErrors = 1
    Size = 5
    BLOCK = 2
    BUDGET_BLOCKS = 2
    Asks = {0, 1, 3, 6}
    MaxAsk = 6
    Positions = {0, 1, 3, 4, 7}
INVARIANTS
    HeldStaysLoaded
    PaneIsCurrent NeverAnotherFile NothingLeaks
    ClickRunsItsTitle PreviewIsTheSelection MenusAgree
    WholeFileInOrder
PROPERTIES
    PlaceComesBack CallReturns ReadsLikeAFile
CHECK_DEADLOCK FALSE
