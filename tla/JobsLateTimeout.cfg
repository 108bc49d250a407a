CONSTANTS
    ArchiveJobs = {}
    ExtractJobs = {4, 5}
    KeyOf <- MCKeyOf
    Runners = {}
    Workers = {"w1", "w2"}
    Stale = 1
    ChildTime = 1
    CrashBound = 0
SPECIFICATION Spec
PROPERTY EndsOnce
