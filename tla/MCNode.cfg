SPECIFICATION PartsSpec
CONSTANTS
    s1 = s1  s2 = s2  gw = gw  other = other
    None = None  NotText = NotText  Unparsable = Unparsable
    Sessions = {s1, s2}
    Pins = {p1}
    Peers = {gw, other}
    Peer <- PeerOf
    MaxConcurrent = 1
    DinQueueDepth = 1
    DinPriorityEqual = FALSE
INVARIANTS
    CountsExact
    OneSubprocess
    
    ConnectReversible
PROPERTIES
    WaitersServed
    SwapsEnd
CHECK_DEADLOCK FALSE
