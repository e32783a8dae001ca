CONSTANTS
    a = a
    b = b
    port = port
    r2 = r2
    Locations = {a, b}
    Ports = {port}
    PortOf <- OnePort
    Requests = {r1, r2}
    Publishers = {p1}
    Reloaders = {w1}
    MaxId = 2
    MaxPools = 2
SPECIFICATION FairSpec
INVARIANTS RegistrySound RightUpstream LabelStaysReset
PROPERTIES UnreferencedIsDrained MissIsServed
CONSTRAINT Small
