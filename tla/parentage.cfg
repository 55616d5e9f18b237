\* Three delegated threads, depth two, any notifications in any order.
SPECIFICATION CustodySpec
CONSTANTS
    Thread = {x, y, z}
    Root = Root
    Nobody = Nobody
    MaxDepth = 2
    MaxTold = 4
CONSTRAINT FewTold
SYMMETRY ThreadSymmetry
INVARIANTS VerdictHasNoOrder FinalsKept
CHECK_DEADLOCK FALSE
