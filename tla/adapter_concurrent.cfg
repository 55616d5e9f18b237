\* Two controllers call the adapter on one Attempt at once;
\* each of them may start a worker.
SPECIFICATION Spec
CONSTANTS
    a1 = a1
    a2 = a2
    MaxRows = 4
    Attempt = {a1}
    Controller = {c1, c2}
    Worker = {w1, w2}
    NoAttempt = NoAttempt
    NoWorker = NoWorker
    Previous <- Alone
    Revocable = {}
CONSTRAINT FewRows
SYMMETRY ConcurrentSymmetry
INVARIANTS EffectAfterIntent OneAppServer AgreedOutcome ExitedWithoutRecord
CHECK_DEADLOCK FALSE
