SPECIFICATION Spec
CONSTANTS
    Items = 3
    NoSummary = NoSummary
INVARIANTS
    ExitIsVerdict
    PassLinesAreTrue
    SummaryIsExact
CHECK_DEADLOCK FALSE
