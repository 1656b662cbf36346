SPECIFICATION ConvSpec
CONSTANTS
    Rows = {r1, r2}
    NoRow = NoRow
    MaxUses = 2
    MaxIter = 2
    MaxTurns = 3
INVARIANTS RollbackKeepsMessages
CHECK_DEADLOCK FALSE
