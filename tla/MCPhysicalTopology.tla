------------------------- MODULE MCPhysicalTopology -------------------------
(* Two devices that share a short name in different domains and a third;   *)
(* a bundle of two cables, a cable of its own between the same devices and *)
(* one to the namesake; two rows per cable, so up to four per link.        *)
EXTENDS PhysicalTopology

CONSTANTS ax, ay, bx, a, b, p1, p2, p3, p4, po

End(device, port) == [device |-> device, port |-> port]

MCDevices == {ax, ay, bx}
MCShortNames == {a, b}
MCshort == [d \in MCDevices |-> IF d = bx THEN b ELSE a]
MCPorts == {p1, p2, p3, p4, po}

MCBundle ==
    [d \in MCDevices |->
        [p \in MCPorts |-> IF d # ay /\ p \in {p1, p2} THEN po ELSE p]]

MCCables ==
    {[a |-> End(ax, p1), b |-> End(bx, p1)],
     [a |-> End(ax, p2), b |-> End(bx, p2)],
     [a |-> End(ax, p3), b |-> End(bx, p4)],
     [a |-> End(ay, p1), b |-> End(bx, p3)]}
=============================================================================
