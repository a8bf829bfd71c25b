------------------------------ MODULE MCWorld -------------------------------
(* World on one bus: a device owns it, and two of its children listen.     *)
EXTENDS World, TLC

CONSTANTS root, hub, a, b, bus, dot, x, y, z, w, nil, news, chat

MCNodeIds == {root, hub, a, b}
MCLinkIds == {bus}
MCNames == {dot, x, y, z, w}
MCReserved == {dot}

MCInitialNetwork ==
    LET n1 == CreateNode(NewNetwork, hub, x).net
        n2 == CreateNode(n1, a, y).net
        n3 == CreateNode(n2, b, z).net
        n4 == CreateLink(n3, bus, w).net
        n5 == Connect(n4, hub, a, bus).net
    IN  Connect(n5, hub, b, bus).net

Tight == [transmissions |-> 2, deliveries |-> 2, pending |-> 2]
Narrow == [transmissions |-> 2, deliveries |-> 1, pending |-> 2]
Roomy == [transmissions |-> 3, deliveries |-> 4, pending |-> 3]

MCLimits == {Tight, Roomy}
MCNarrowLimits == {Narrow, Tight}
=============================================================================
