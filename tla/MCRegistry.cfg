SPECIFICATION PartsSpec
CONSTANTS
    c1 = c1  c2 = c2  c3 = c3
    h1 = h1  h2 = h2  h3 = h3  l1 = l1
    slow = slow  single = single
    None = None
    Nodes = {slow, single}
    Requests = {h1, h2, h3, l1}
    Heavy = {h1, h2, h3}
    Owner <- MCOwner
    Slots <- MCSlots
    Eligible <- MCEligible
    MaxExternal <- MCExternal
    Slow = {slow}
    Parts = {"admission", "fleet"}
    FleetDevices = {"a", "b"}
INVARIANTS
    CountersExact
    HeavyAlone
    
PROPERTIES
    ConnectedReturns
