\* Two processes of one principal, two Executive Epochs, one capture.
SPECIFICATION FairSpec
CONSTANTS
    Process = {p1, p2}
    None = None
    MaxEpochs = 2
    MaxCaptures = 1
    MaxCalls = 4
    MaxFaults = 1
INVARIANTS SourceIsWholePast NoWriterBetweenEpochs
CHECK_DEADLOCK FALSE
PROPERTIES KeepsSourcePromise SafeAnswerHasWriter WriterReturns
