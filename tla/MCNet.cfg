CONSTANTS
    RttCalls = 2
    RttEchoes = 3
    QSIZE = 3
    MaxDg = 7
    BcastLines = 2
    MaxReplies = 3
    nfiles = 3
    maxnconn = 2
    WebPrograms = {"web01", "web02", "web03"}
    NBytes = 4
    MAXLINE = 3
    SockRoom = 1
    nchildren = 3
    MaxClients = 4
    MaxDeaths = 1
    Workers = {w1, w2, w3}
    MaxConns = 3
    MaxKilled = 2
    Threads8 = {t1, t2, t3}
    MAXNCLI = 3
    MaxAccepts = 5
SPECIFICATION NetSpec
INVARIANTS
    RttSafe EchoSafe BcastSafe WebSafe NonbSafe Serv05Safe PoolSafe RingSafe
PROPERTIES
    FairClientsEnd FairServersServe
CHECK_DEADLOCK FALSE
