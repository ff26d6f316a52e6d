CONSTANTS
    kMaxExpireSeconds = 7
    kMaxEchoedVerbLength = 2
    Base = 4
    CountWidth = 1
    LengthWidth = 1
    ExpiryWidth = 2
    SumWidth = 3
    kMaxFieldLength = 1
    Kilo = 4
    SizeMax = 255
    Numerals <- MCNumerals
    Pieces <- MCPieces
    Longest <- MCLongest
    Times <- MCTimes
SPECIFICATION Spec
CHECK_DEADLOCK FALSE
INVARIANTS
    ParserIsTheGrammar SentLinesAreAnswered TextSurvivesTheWire OptionsAreHonoured
    SnapshotsRestore OnlySnapshotsAreDecoded
