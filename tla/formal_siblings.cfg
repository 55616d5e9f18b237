\* Two processes correct one failed Attempt on two bases, in one Epoch.
SPECIFICATION FairSpec
CONSTANTS
    p1 = p1
    p2 = p2
    Process = {p1, p2}
    b1 = b1
    b2 = b2
    Basis = {b1, b2}
    NoBasis = NoBasis
    MaxEpochs = 1
    MaxRetries = 1
    MaxFaults = 0
    MaxSetbacks = 0
PROPERTY NoEffectAfterClose
CHECK_DEADLOCK FALSE
