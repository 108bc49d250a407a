CONSTANTS
    ArchiveJobs = {1, 2, 3}
    ExtractJobs = {}
    KeyOf <- MCKeyOf
    Runners = {"compile", "timer"}
    Workers = {}
    Stale = 1
    ChildTime = 1
    CrashBound = 1
SPECIFICATION FairSpec
INVARIANTS ResultsReal
PROPERTIES AllSettle
