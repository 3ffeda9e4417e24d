SPECIFICATION IngestSpec
CONSTANTS
    ax = ax
    ay = ay
    bx = bx
    a = a
    b = b
    p1 = p1
    p2 = p2
    p3 = p3
    p4 = p4
    po = po
    Devices <- MCDevices
    ShortNames <- MCShortNames
    short <- MCshort
    Ports <- MCPorts
    Bundle <- MCBundle
    Cables <- MCCables
    MaxRows = 2
INVARIANTS
    TablesTypeOK
    LinksAreTheCables
    OneLinkPerConnection
    CdpTakesPrecedence
CHECK_DEADLOCK FALSE
