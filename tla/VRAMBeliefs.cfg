\* What one may believe of the scheduler and TLC refutes; one at a time, in this order:
\*   OneOnGpu (an INVARIANT), HeadWaits, AlwaysFreeAgain with LosesGrants = TRUE,
\*   AlwaysLeave with Hangs = TRUE.
CONSTANTS
    r1 = r1
    r2 = r2
    b1 = b1
    Requests = {r1, r2}
    Boots = {b1}
    Need <- MCNeed
    MaxMB = 2
    Readings = {0, 1, 2}
    Flex = 1
    FlexFloor = 1
    BootPatience = 3
    BootLife = 4
    Hangs = FALSE
    LosesGrants = FALSE
    QueueBound = 3
SPECIFICATION FairSpec
INVARIANTS OneOnGpu
