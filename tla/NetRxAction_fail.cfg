\* One read of the map that fails.
CONSTANTS
    Bkts = {b1}
    Width = 2
    Wrap = 4
    MaxUnread = 2
    CanFail = TRUE
SPECIFICATION Spec
INVARIANT FailureReported
\* main returns for good.
CHECK_DEADLOCK FALSE
