SPECIFICATION DesktopSpec
CONSTANTS
    Files = {htmlFile, pdfFile, gifFile, songFile, noteFile}
    htmlFile = htmlFile
    pdfFile = pdfFile
    gifFile = gifFile
    songFile = songFile
    noteFile = noteFile
    NoFile = NoFile
    Class <- MCClass
    Selectable = {htmlFile, pdfFile}
    MaxGen = 2
    MaxLag = 1
    MaxShort = 1
    Procs = {p1, p2}
    MaxPosts = 1
    Daemons = {d1, d2}
    MaxQueue = 1
    Points = {1, 2}
    MaxMarks = 3
INVARIANTS
    ShowsItsFile OneViewer OnePressOneToggle KeepsItsMarks HandsOver
PROPERTIES
    EveryLoadIsShown KeepsWindowLife NoneLingers HotkeysComeBack IconComesBack
