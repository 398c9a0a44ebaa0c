SPECIFICATION Spec
CONSTANTS
    b1 = b1
    b2 = b2
    ephemeral = ephemeral
    direct = direct
    plain = plain
    response = response
    text = text
    login = login
    e1 = e1
    e2 = e2
    e3 = e3
    d1 = d1
    d2 = d2
    n1 = n1
    n2 = n2
    r1 = r1
    r2 = r2
    r3 = r3
    t1 = t1
    t2 = t2
    g1 = g1
    Helper = Helper
    Nobody = Nobody
    Packets <- MCPackets
    Copies <- MCCopies
    Traffic <- MCTraffic
    Of <- MCOf
    Bridges <- MCBridges
    Kind <- MCKind
    Dest <- MCDest
    Owner <- MCOwner
    Colliding <- MCColliding
    Keyless <- MCKeyless
    FinalHop <- MCFinalHop
    TTL = 2
INVARIANTS
    TakenOncePerWindow
    MissedNeedsReason
PROPERTIES
    SuppressedNeedsFullOffer
CHECK_DEADLOCK FALSE
