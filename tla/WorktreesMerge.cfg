\* One caller at a time, git that works, rsync that may time out.
CONSTANTS
    c1 = c1
    t1 = t1
    Jobs = {t1}
    NoJob = NoJob
    Threads = {c1}
    GitFails = FALSE
    SyncTimes = TRUE
SPECIFICATION Spec
PROPERTY MergeBlocked
