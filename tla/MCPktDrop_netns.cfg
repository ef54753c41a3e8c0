\* Grouping by network namespace with -T, exit events and allocation failures;
\* l3 has no kernel symbol.
CONSTANTS
    l1 = l1
    l2 = l2
    l3 = l3
    n1 = n1
    n2 = n2
    m1 = m1
    m2 = m2
    i1 = i1
    i2 = i2
    Locs = {l1, l2, l3}
    Netns = {n1, n2}
    Macs = {m1, m2}
    IPs = {i1, i2}
    Mode = "NETNS"
    Flows <- MCBucketFlows
    SymOf <- MCSymOf
    ParseError = ParseError
    NoSym = NoSym
    NoKey = NoKey
    PktTypes = {255}
    SkipOvs = FALSE
    SkipUnix = FALSE
    SkipTcp = TRUE
    DropThresh = 1
    MaxFlowEntries = 25
    AllocCanFail = TRUE
    MaxDrops = 2
SPECIFICATION Spec
INVARIANTS
    TypeOK
    CreditBounded
    BucketsMatchTotal
    CountsConsistent
PROPERTIES
    SweepEvictsExactly
    LocAgingRefined
    HistAgingRefined
    IdleEntriesEvicted
\* The program stops for good after a signal.
CHECK_DEADLOCK FALSE
