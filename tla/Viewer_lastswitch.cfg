SPECIFICATION WindowSpec
CONSTANTS
    Files = {htmlFile, pdfFile}
    htmlFile = htmlFile
    pdfFile = pdfFile
    gifFile = gifFile
    songFile = songFile
    noteFile = noteFile
    NoFile = NoFile
    Class <- MCClass
    Selectable = {htmlFile, pdfFile}
    MaxGen = 3
    MaxLag = 1
    MaxShort = 0
INVARIANTS LastSwitchWins
