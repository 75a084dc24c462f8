SPECIFICATION LineSpec
CONSTANTS
    L = L
    E = E
    x = x
    Backspace = Backspace
    Nul = Nul
    Letters <- MCLetters
    Commands <- MCCommands
    Usages <- MCUsages
    Capacity = 3
    MaxText = 6
INVARIANTS OneAnswerPerLine RunsWhatWasSent
