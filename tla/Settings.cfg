SPECIFICATION SettingsSpec
CONSTANTS
  Keys = {k1}
  Vals = {0, 1}
  Default = 0
  Accounts = {a1, a2}
  a1 = a1
  a2 = a2
  Workers = {w1, w2}
  w1 = w1
  w2 = w2
  MaxConflicts = 2
  MaxTransient = 1
  MaxVersion = 2
  Patient = TRUE
  Absent = Absent
  None = None
  Exts = {e1}
  MaxForeign = 3
  Formats = {jpg, psd}
  jpg = jpg
  psd = psd
  Items = {"a", "b", "c"}
  Sep = "--"
  DefaultTokens <- MCTokens
  Orders <- MCOrders
  Texts = {"", "jp"}
  Matches <- MCMatches
  Blank = ""
  NoText = NoText
  MaxOutside = 1
INVARIANTS MarkerCoversOwed TicksAreTrue
PROPERTIES LockIsReleased PullReadsTheAccount
  SaveStoresWhatIsShown MenuListReadsBack UninstallLeavesNothing ForeignKept
CHECK_DEADLOCK FALSE
