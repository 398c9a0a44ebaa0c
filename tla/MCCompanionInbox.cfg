SPECIFICATION InboxFairSpec
CONSTANTS
    d1 = d1
    d2 = d2
    c1 = c1
    NoMsg = NoMsg
    Msgs <- MCMsgs
    Channel <- MCChannel
    Cap = 2
    OutMax = 1
    HasSqlite = TRUE
INVARIANTS
    RetentionLimit
    LossNeedsRefusalAndWrongPop
    DuplicateNeedsRace
PROPERTIES
    MailboxSpec
    StoredIsFetched
