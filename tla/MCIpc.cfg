CONSTANTS
    Threads = {"produce", "consume"}
    Sems = {"mutex", "nempty", "nstored"}
    InitValue <- opened
    NBUFF = 3
    nitems = 7
    MaxCount = 4
    Procs = {p1, p2, p3}
    Creators = {p1, p2}
    Exclusive = {p2}
    Failing = {p1, p2}
    Unlinkers = {p3}
    Mortal = {p1}
    MAX_TRIES = 2
    MaxFiles = 2
    SvProcs = {v1, v2, v3}
    SvCreators = {v1, v2}
    SvExclusive = {v1}
    SvMortal = {v1, v2}
    SvNoMemory = {v3}
    SvTries = 2
    SvValue = 1
    FifoProcs = {f1, f2, f3}
    FifoCreators = {f1, f2}
    FifoExcl = {f2}
    FifoMortal = {f1}
    FifoValue = 1
    PIPE_BUF_MAX = 2
    LockProcs = {p1, p2, p3}
    LoopTwice = {p1}
    NLoop <- LoopTurns
    MaxKills = 1
    LOCK_TRIES = 2
    Producers6 = {p1, p2, p3}
    nitems6 = 4
    Producers4 = {p1, p2}
    Consumers4 = {c1, c2, c3}
    NBUFF4 = 2
    nitems4 = 3
    MaxSent = 4
    ShmClients = {k1, k2}
    NMESG = 2
    ShmLoops = 2
    MsgClients = {m1, m2, m3}
    FileLines = 2
    QBYTES = 2
    MsgMortal = {m1}
    parent = parent
    child = child
    MqProcs = {parent, child}
    MqMortal = {}
    NoPid = NoPid
    maxmsg = 3
    Prios = {1, 2}
    Data = {a, b}
    nmsgs = 4
SPECIFICATION IpcSpec
INVARIANTS
    ProdConsSafe OpenSafe SvOpenSafe FifoSafe LockSafe CondSafe SemSafe
    NotifySafe ShmSafe SvMsgSafe TransferSafe
PROPERTIES
    Implements MqImplements
    FairProgramsEnd FairOpensEnd FairMessagesRead
CHECK_DEADLOCK FALSE
