CONSTANTS
    r1 = r1
    r2 = r2
    f1 = f1
    f2 = f2
    Nobody = Nobody
    Blank = Blank
    Runs = {r1, r2}
    Files = {f1, f2}
    Mode <- MCMode
    Given <- MCGiven
    Edits = {e1}
    AutoCommit = TRUE
    Faults = {}
SPECIFICATION Spec
INVARIANT GateHolds
CHECK_DEADLOCK FALSE
