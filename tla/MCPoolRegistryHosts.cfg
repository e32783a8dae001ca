CONSTANTS
    a = a
    b = b
    port = port
    r2 = r2
    Locations = {a, b}
    Ports = {port}
    PortOf <- OnePort
    Requests = {}
    Publishers = {}
    Reloaders = {w1, w2}
    MaxId = 2
    MaxPools = 1
SPECIFICATION Spec
PROPERTIES OtherHostsKept
