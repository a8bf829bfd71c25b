----------------------------- MODULE MCNetwork ------------------------------
(* Network with the root, a few nodes and links that share two names.      *)
EXTENDS Network, TLC

CONSTANTS root, a, b, bus, wifi, dot, star, x, y, nil

MCNodeIds == {root, a, b}
MCLinkIds == {bus, wifi}
MCNames == {dot, star, x, y}
MCReserved == {dot, star}

Symmetry ==
    Permutations({a, b}) \cup Permutations({bus, wifi}) \cup Permutations({x, y})
=============================================================================
