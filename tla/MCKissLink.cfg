SPECIFICATION LinkFairSpec
CONSTANTS
    c1 = c1
    c2 = c2
    c3 = c3
    txdelay = txdelay
    persist = persist
    Command <- Commands
    Parameter = {txdelay, persist}
    Sets <- MCSets
    None = None
    BufferSize = 2
    MaxConnects = 3
INVARIANTS
    SecondWorkerWasLeftBehind
    WrittenOnceInOrder
    
    ConnectedIsServed
PROPERTY
    QueuedIsTaken
