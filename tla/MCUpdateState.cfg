SPECIFICATION FairSpec
CONSTANTS
    c1 = c1
    c2 = c2
    i1 = i1
    i2 = i2
    k1 = k1
    main = main
    dev = dev
    Checks <- MCChecks
    Installs <- MCInstalls
    Choosers <- MCChoosers
    Channels <- MCChannels
    Target <- MCTarget
    Offer <- MCOffer
    Base = 1
    None = None
INVARIANTS
    InstallOwnsState
    ResultMatchesChannel
    AnnouncedUpdateIsNewer
PROPERTIES
    BusyEnds
