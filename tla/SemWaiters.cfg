CONSTANTS
    Threads = {t1, t2, t3}
    Sems = {s}
    InitValue <- zero
    MaxCount = 3
SPECIFICATION WaitersSpec
PROPERTY EveryWaiterServed
