SPECIFICATION FairSpec
CONSTANTS
    r1 = r1
    r2 = r2
    r3 = r3
    r4 = r4
    config = config
    cad = cad
    Requests <- MCRequests
    Types <- MCTypes
    Expect <- MCExpect
    None = None
INVARIANTS
    RegisteredIsLive
    AnswerTakenOnce
    UncontendedGetsItsAnswer
PROPERTIES
    RequestEnds
CHECK_DEADLOCK FALSE
