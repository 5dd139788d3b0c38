CONSTANTS
    MqProcs = {p1, p2, p3}
    MqMortal = {p1, p2, p3}
    NoPid = NoPid
    maxmsg = 2
    Prios = {1}
    Data = {a}
SPECIFICATION MqSpec
INVARIANT MqBookkeeping
PROPERTY ReceiverBeforeSignal
CHECK_DEADLOCK FALSE
