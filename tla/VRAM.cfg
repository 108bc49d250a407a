CONSTANTS
    r1 = r1
    r2 = r2
    b1 = b1
    Requests = {r1, r2}
    Boots = {b1}
    Need <- MCNeed
    MaxMB = 2
    Readings = {0, 1, 2}
    Flex = 1
    FlexFloor = 1
    BootPatience = 3
    BootLife = 4
    Hangs = TRUE
    LosesGrants = TRUE
    QueueBound = 3
SPECIFICATION FairSpec
INVARIANTS OneActive KeepsPlace
PROPERTIES GrantsInOrder FreeAgain
