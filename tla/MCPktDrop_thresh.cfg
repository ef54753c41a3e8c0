\* Grouping by namespace with a display threshold of 2 (-t 2).
CONSTANTS
    l1 = l1
    l2 = l2
    l3 = l3
    n1 = n1
    n2 = n2
    m1 = m1
    m2 = m2
    i1 = i1
    i2 = i2
    Macs = {m1, m2}
    IPs = {i1, i2}
    SymOf <- MCSymOf
    ParseError = ParseError
    NoSym = NoSym
    NoKey = NoKey
    PktTypes = {0, 255}
    SkipOvs = FALSE
    SkipTcp = FALSE
    Locs = {l1}
    Netns = {n1}
    Mode = "NETNS"
    Flows <- MCBucketFlows
    SkipUnix = FALSE
    DropThresh = 2
    MaxFlowEntries = 25
    AllocCanFail = FALSE
    MaxDrops = 2
SPECIFICATION Spec
INVARIANT BucketsMatchTotal
CHECK_DEADLOCK FALSE
