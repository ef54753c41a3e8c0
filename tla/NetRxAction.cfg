\* Two buckets with 2-bit counters: every counter wraps within a few
\* events, and the copy of one bucket can be taken while the other counts.
CONSTANTS
    Bkts = {b1, b2}
    Width = 2
    Wrap = 4
    MaxUnread = 2
    CanFail = TRUE
SPECIFICATION Spec
INVARIANT TypeOK
PROPERTIES
    Refinement
    StopHonoured
\* main returns for good.
CHECK_DEADLOCK FALSE
