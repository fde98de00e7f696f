SPECIFICATION FairSpec
CONSTANTS
    Devices = {d1, d2}
    Accounts = {a1, a2}
    Owner = a1
    Synced = {d1}
    Flagged = {d2}
    Granted = {a2}
    MaxGeneration = 2
    MaxFaults = 1
    None = None

    
PROPERTIES
    NetmapsConverge
CHECK_DEADLOCK FALSE
