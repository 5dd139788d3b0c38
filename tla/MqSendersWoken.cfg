CONSTANTS
    MqProcs = {p1, p2, p3}
    MqMortal = {}
    NoPid = NoPid
    maxmsg = 1
    Prios = {1}
    Data = {a}
SPECIFICATION MqSpec
INVARIANT SendersWoken
CHECK_DEADLOCK FALSE
