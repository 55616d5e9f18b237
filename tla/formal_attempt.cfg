\* One process, one correction basis, two Epochs, a call that stops, a clock set back.
SPECIFICATION FairSpec
CONSTANTS
    p1 = p1
    Process = {p1}
    b1 = b1
    Basis = {b1}
    NoBasis = NoBasis
    MaxEpochs = 2
    MaxRetries = 1
    MaxFaults = 1
    MaxSetbacks = 1
INVARIANTS ClosedByTheResult 
PROPERTY SuccessCloses
CHECK_DEADLOCK FALSE
