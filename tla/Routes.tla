------------------------------- MODULE Routes -------------------------------
(***************************************************************************)
(* Addresses (emergence-engine/src/route.rs) and who accepts a packet on a *)
(* link (accepts in world.rs).  A route is a non-empty sequence of hops,   *)
(* the head being where the packet goes next.                              *)
(*                                                                         *)
(* A definition marked `Fault:` is not the code's.                         *)
(***************************************************************************)
EXTENDS NetworkOps, Naturals, Sequences, FiniteSets

CONSTANTS
    MaxDepth,     \* PacketRoute::MAX_DEPTH
    Parent,       \* names::PARENT, `^`
    Everyone,     \* names::BROADCAST, `*`
    AnyLink       \* names::ANY_LINK, `?`

ASSUME RoutesAssumption ==
    /\ MaxDepth \in Nat \ {0}
    /\ {Parent, Everyone, AnyLink} \subseteq Reserved
    /\ Cardinality({RootName, Parent, Everyone, AnyLink}) = 4

Hop(node, link) == [node |-> node, link |-> link]
IsRoute(route) == Len(route) \in 1..MaxDepth

Hops == LET Labels == Names \cup Reserved \cup {Nil} IN [node: Labels, link: Labels]
PacketRoutes == {route \in Seq(Hops) : IsRoute(route)}

(* The route with a hop added in front, if it does not become too deep:    *)
(* a set of one route, or of none.                                         *)
Prepended(route, hop) == IF Len(route) = MaxDepth THEN {} ELSE {<<hop>> \o route}

(* The route without its head, if that leaves one.                         *)
Popped(route) == IF Len(route) > 1 THEN {Tail(route)} ELSE {}

-----------------------------------------------------------------------------
(* accepts: listener n, on link l, and the two routes of the packet        *)

OnThisLink(s, l, name) == name \in {s.name[l], Everyone, AnyLink}

FromChild(s, n, from) == \E c \in s.children[n] : s.name[c] = Head(from).node

(* The rules in the order they are tried; the last two are the owner's.    *)
Accepts(s, n, l, from, to) ==
    LET here == OnThisLink(s, l, Head(to).link)
        next == Head(to).node
    IN  IF Head(from).node = s.name[n] THEN Nil
        ELSE IF next = s.name[n] /\ here THEN "addressed"
        ELSE IF next = Everyone /\ here THEN "broadcast"
        ELSE IF s.owner[l] # n THEN Nil
        ELSE IF next = Parent /\ FromChild(s, n, from) THEN "child_to_parent"
        ELSE IF ~here THEN "gateway" ELSE Nil
=============================================================================
