SPECIFICATION Spec
CONSTANTS
    Questions <- MCQuestions
    Indexed <- MCIndexed
    Extensions <- MCExtensions
    ExcludeFolders <- MCExcludeFolders
    Numeral <- MCNumeral
    Kilo = 128
    SizeLimit = 1073741824
    TicksPerDay = 4
    Summers <- MCSummers
    Shift = 1
    MaxLength = 5
INVARIANTS GlobMatches OperatorsAreBoolean BoundsAreMeant SlowFindsAll
CHECK_DEADLOCK FALSE
