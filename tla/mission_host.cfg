\* Two Epochs, each over a workspace of its own, a stop by the operator and
\* any two faults: a crash, a failed, lost or stale call.
SPECIFICATION FairSpec
CONSTANTS
    Workspaces = {w1, w2}
    None = None
    MaxEpochs = 2
    MaxFaults = 2
    MaxStops = 1
INVARIANTS BoundIsSaved SavedAgreesWithStore NoCheckpointPastRead WorkIsBound
PROPERTIES KeepsEpochPromise FailureAfterContainment AuthorizationEnds EndedIsReleasedOrHeld
