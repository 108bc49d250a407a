CONSTANTS
    ArchiveJobs = {}
    ExtractJobs = {4}
    KeyOf <- MCKeyOf
    Runners = {}
    Workers = {"w1"}
    Stale = 1
    ChildTime = 1
    CrashBound = 1
SPECIFICATION FairSpec
PROPERTIES AllSettle
