\* The same Host: an Epoch that ended and a recovery that refuses it for good.
SPECIFICATION FairSpec
CONSTANTS
    Workspaces = {w1, w2}
    None = None
    MaxEpochs = 2
    MaxFaults = 2
    MaxStops = 1
PROPERTY EndedIsReleased
