\* The owner, who asks again and again, and another process with the same command.
SPECIFICATION FairSpec
CONSTANTS
    Process = {p1, p2}
    Owner = p1
    None = None
    MaxCalls = 3
    MaxFaults = 4
CHECK_DEADLOCK FALSE
INVARIANT IncompleteIsClosed
PROPERTIES KeepsTakeoverPromise CommittedForGood EventuallyActive
