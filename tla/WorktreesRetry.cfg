\* One caller, git that works.
CONSTANTS
    c1 = c1
    t1 = t1
    Jobs = {t1}
    NoJob = NoJob
    Threads = {c1}
    GitFails = FALSE
    SyncTimes = FALSE
SPECIFICATION Spec
PROPERTY CreateSucceeds
