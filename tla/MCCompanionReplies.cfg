SPECIFICATION RepliesSpec
CONSTANTS
    c1 = c1
    c2 = c2
    c3 = c3
    l1 = l1
    l2 = l2
    l3 = l3
    t1 = t1
    t2 = t2
    plain = plain
    g1 = g1
    g2 = g2
    h1 = h1
    h2 = h2
    Server = Server
    None = None
    Others = {api, mqtt}
    MaxConnects = 2
    Commands <- MCCommands
    Logins <- MCLogins
    Hash <- MCHash
    Texts <- MCTexts
    Grants <- MCGrants
    About <- MCAbout
    Traffic <- MCTraffic
INVARIANTS
    SlotMeansInFlight
    LosesOnlyByOverlap
    HeardOnce
CHECK_DEADLOCK FALSE
