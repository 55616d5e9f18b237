\* Two executors of two operations, four leases, deaths and failures anywhere.
SPECIFICATION Spec
CONSTANTS
    Proc = {p1, p2}
    Scope = {A, B}
    NoProc = NoProc
    NoScope = NoScope
    MaxLeases = 4
CHECK_DEADLOCK FALSE
INVARIANTS OneStage OwnerSurvivesCrashes
PROPERTY ForeignUntouched
