SPECIFICATION Spec
CONSTANTS
    s1 = s1
    s2 = s2
    s3 = s3
    NoSender = NoSender
    Senders <- MCTwoSenders
    Budgeted <- MCAlwaysBudgeted
    MaxBudget = 3
    Reserve = 1
    PaceFloor = 2
    AirCost = 2
    RefillRate = 1

PROPERTIES
    ReserveBeforeSending
