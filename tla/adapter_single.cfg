\* One controller, an Attempt whose fence may be revoked, and its retry, a crash
\* possible at every step: the promise is kept, and what was begun is settled.
SPECIFICATION FairSpec
CONSTANTS
    a1 = a1
    a2 = a2
    MaxRows = 0
    Attempt = {a1, a2}
    Controller = {c1}
    Worker = {w1}
    NoAttempt = NoAttempt
    NoWorker = NoWorker
    Previous <- Chain
    Revocable = {a1}
CONSTRAINT FewCalls
CHECK_DEADLOCK FALSE
INVARIANT RetryAfterEffect
PROPERTIES KeepsPromise EventuallySettled
