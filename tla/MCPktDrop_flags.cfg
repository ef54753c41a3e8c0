\* Grouping by flow with failing allocations: are the flags cleared?
CONSTANTS
    l1 = l1
    l2 = l2
    l3 = l3
    n1 = n1
    n2 = n2
    m1 = m1
    m2 = m2
    i1 = i1
    i2 = i2
    Macs = {m1, m2}
    IPs = {i1, i2}
    SymOf <- MCSymOf
    ParseError = ParseError
    NoSym = NoSym
    NoKey = NoKey
    PktTypes = {0, 255}
    SkipOvs = FALSE
    SkipTcp = FALSE
    Locs = {l1}
    Netns = {n1}
    Mode = "FLOW"
    Flows <- MCFlowFlows
    SkipUnix = FALSE
    DropThresh = 1
    MaxFlowEntries = 25
    AllocCanFail = TRUE
    MaxDrops = 2
SPECIFICATION Spec
PROPERTY FlagsClearedByReport
CHECK_DEADLOCK FALSE
