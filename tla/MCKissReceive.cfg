SPECIFICATION ReceiveFairSpec
CONSTANTS
    Waiter = {w1, w2, w3}
    MaxFrames = 3
INVARIANTS
    ApplicationHearsTheRest
    ForgottenNeedsOverlap
PROPERTY
    CompletedReturns
CHECK_DEADLOCK FALSE
