SPECIFICATION InboxSpec
CONSTANTS
    d1 = d1
    d2 = d2
    c1 = c1
    NoMsg = NoMsg
    Msgs <- MCTwoDirect
    Channel <- MCNoChannel
    Cap = 2
    OutMax = 1
    HasSqlite = TRUE
PROPERTIES
    CompletionRemovesOwnEntry
