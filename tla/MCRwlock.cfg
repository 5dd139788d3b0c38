CONSTANTS
    Threads = {r1, r2, w1, w2}
    ReaderThreads = {r1, r2}
    WriterThreads = {w1, w2}
    nloop = 2
SPECIFICATION RwSpec
INVARIANTS
    RwSafe NobodyAsleep
PROPERTIES
    CancelImplements FairAllJoined
