\* Ignoring unix drops (-U) with a location that has no kernel symbol.
CONSTANTS
    l1 = l1
    l2 = l2
    l3 = l3
    n1 = n1
    n2 = n2
    m1 = m1
    m2 = m2
    i1 = i1
    i2 = i2
    Macs = {m1, m2}
    IPs = {i1, i2}
    SymOf <- MCSymOf
    ParseError = ParseError
    NoSym = NoSym
    NoKey = NoKey
    PktTypes = {0, 255}
    SkipOvs = FALSE
    SkipTcp = FALSE
    Locs = {l1, l3}
    Netns = {n1}
    Mode = "NETNS"
    Flows <- MCBucketFlows
    SkipUnix = TRUE
    DropThresh = 1
    MaxFlowEntries = 25
    AllocCanFail = FALSE
    MaxDrops = 2
SPECIFICATION Spec
INVARIANT NoCrash
CHECK_DEADLOCK FALSE
