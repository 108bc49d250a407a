\* What one may believe of the pipeline and TLC refutes; one at a time, in this order:
\*   CommitsPassed, EditsNeverLost (a PROPERTY), NothingLeft with Given <- MCGiven,
\*   NoOverlap with Faults = {"race"} or {"slow"}.
CONSTANTS
    r1 = r1
    r2 = r2
    f1 = f1
    f2 = f2
    Nobody = Nobody
    Blank = Blank
    Runs = {r1, r2}
    Files = {f1, f2}
    Mode <- MCMode
    Given <- MCSame
    Edits = {e1}
    AutoCommit = TRUE
    Faults = {}
SPECIFICATION Spec
INVARIANT CommitsPassed
CHECK_DEADLOCK FALSE
