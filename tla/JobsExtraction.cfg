CONSTANTS
    ArchiveJobs = {}
    ExtractJobs = {4, 5, 6}
    KeyOf <- MCKeyOf
    Runners = {}
    Workers = {"w1", "w2"}
    Stale = 1
    ChildTime = 1
    CrashBound = 2
SPECIFICATION FairSpec
INVARIANTS ResultsReal OneExtraction
PROPERTIES OneJobPerCrash
