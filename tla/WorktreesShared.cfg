\* Two callers on two tasks, git and rsync that fail.
CONSTANTS
    c1 = c1
    c2 = c2
    t1 = t1
    t2 = t2
    Jobs = {t1, t2}
    NoJob = NoJob
    Threads = {c1, c2}
    GitFails = TRUE
    SyncTimes = TRUE
SPECIFICATION Spec
INVARIANTS NoOrphan OneCreator Quiescent
SYMMETRY Symmetry
