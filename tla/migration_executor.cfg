SPECIFICATION Spec
CONSTANTS
    MaxAttempts = 3
    MaxFaults = 7
INVARIANT OutcomesAreTrue
INVARIANT PassedIsWhole
PROPERTY ProtectedForGood
PROPERTY KeepsMigrationPromise
 
