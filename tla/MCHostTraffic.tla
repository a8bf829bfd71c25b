-------------------------- MODULE MCHostTraffic ---------------------------
(* HostTraffic with two C# nodes that may join the root's one link.        *)
EXTENDS HostTraffic, TLC

CONSTANTS root, n1, n2, l1, dot, x, y, z, nil, top, a, b, bus

MCNames == {<<dot>>, <<y>>, <<z>>, <<x>>, <<x, 2>>}
MCReserved == {<<dot>>}
MCRootName == <<dot>>

MCIdOf == (top :> <<z>>) @@ (a :> <<x>>) @@ (b :> <<x>>) @@ (bus :> <<y>>)

(* One orphan: each of the two nodes may be disposed, once.                *)
OneLink == [models |-> {top, a, b}, wires |-> {bus}, net |-> Engine!NewNetwork, linkOf |-> (bus :> nil),
            allowed |-> {"dispose", "lingering"}, strays |-> FALSE, orphans |-> 1]

MCScenes == {OneLink}

Symmetry == Permutations({a, b})
=============================================================================
