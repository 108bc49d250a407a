\* What one may believe of the archive jobs and TLC refutes; one at a time, in this
\*   order: EndsOnce (a PROPERTY), OneArchive (an INVARIANT).
CONSTANTS
    ArchiveJobs = {1, 2, 3}
    ExtractJobs = {}
    KeyOf <- MCKeyOf
    Runners = {"compile", "timer"}
    Workers = {}
    Stale = 1
    ChildTime = 1
    CrashBound = 0
SPECIFICATION Spec
PROPERTY EndsOnce
