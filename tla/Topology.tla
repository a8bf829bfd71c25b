------------------------------ MODULE Topology ------------------------------
(***************************************************************************)
(* What the network graph promises, without its data structure: a forest   *)
(* (each node has at most one parent), an owner for some links, and one    *)
(* relation saying which node is a member of which link.  Nothing is       *)
(* stored twice here, so nothing can disagree.  Network implements this    *)
(* module with structs that record every edge at both of its ends.         *)
(***************************************************************************)
CONSTANTS NodeIds, LinkIds, Root, Nil

VARIABLES
    alive,    \* the nodes that resolve
    wires,    \* the links that resolve
    up,       \* the parent of each node, or Nil
    owner,    \* the owner of each link, or Nil
    member    \* pairs <<node, link>>: the node is subscribed to the link

vars == <<alive, wires, up, owner, member>>

Init ==
    /\ alive = {Root}
    /\ wires = {}
    /\ up = [n \in NodeIds |-> Nil]
    /\ owner = [l \in LinkIds |-> Nil]
    /\ member = {}

Above(n) ==
    {m \in NodeIds : \A S \in SUBSET NodeIds :
        n \in S /\ (\A x \in S : up[x] \in S \cup {Nil}) => m \in S}

AddNode(n) ==
    /\ n \notin alive
    /\ alive' = alive \cup {n}
    /\ UNCHANGED <<wires, up, owner, member>>

AddLink(l) ==
    /\ l \notin wires
    /\ wires' = wires \cup {l}
    /\ UNCHANGED <<alive, up, owner, member>>

(* A node joins a link.  Nobody else's membership moves.                   *)
Join(n, l) ==
    /\ n \in alive /\ l \in wires
    /\ member' = member \cup {<<n, l>>}
    /\ UNCHANGED <<alive, wires, up, owner>>

Leave(n, l) ==
    /\ member' = member \ {<<n, l>>}
    /\ UNCHANGED <<alive, wires, up, owner>>

(* An ownerless link becomes internal to a node, for good.                 *)
Own(o, l) ==
    /\ o \in alive /\ l \in wires
    /\ owner[l] = Nil
    /\ owner' = [owner EXCEPT ![l] = o]
    /\ UNCHANGED <<alive, wires, up, member>>

(* Nesting, all or nothing: the child gets its parent, the link (if any)   *)
(* its owner and its new member in one step.                               *)
Attach(p, n, l) ==
    /\ {p, n} \subseteq alive
    /\ n # Root
    /\ up[n] \in {Nil, p}
    /\ n \notin Above(p)
    /\ up' = [up EXCEPT ![n] = p]
    /\ \/ l = Nil /\ UNCHANGED <<owner, member>>
       \/ /\ l \in wires
          /\ owner[l] \in {Nil, p}
          /\ owner' = [owner EXCEPT ![l] = p]
          /\ member' = member \cup {<<n, l>>}
    /\ UNCHANGED <<alive, wires>>

(* A node leaves its parent and every link its parent owns; what is nested *)
(* in it and its other memberships move with it.                           *)
Detach(n) ==
    /\ up[n] # Nil
    /\ up' = [up EXCEPT ![n] = Nil]
    /\ member' = member \ {<<n, l>> : l \in {k \in wires : owner[k] = up[n]}}
    /\ UNCHANGED <<alive, wires, owner>>

(* Exactly the nodes below n disappear, and exactly the links they own.    *)
Remove(n) ==
    /\ n \in alive \ {Root}
    /\ LET gone == {m \in alive : n \in Above(m)}
           cut == {l \in wires : owner[l] \in gone}
       IN  /\ alive' = alive \ gone
           /\ wires' = wires \ cut
           /\ up' = [m \in NodeIds |-> IF m \in gone THEN Nil ELSE up[m]]
           /\ owner' = [l \in LinkIds |-> IF l \in cut THEN Nil ELSE owner[l]]
           /\ member' = {e \in member : e[1] \notin gone /\ e[2] \notin cut}

Cut(l) ==
    /\ l \in wires
    /\ wires' = wires \ {l}
    /\ owner' = [owner EXCEPT ![l] = Nil]
    /\ member' = {e \in member : e[2] # l}
    /\ UNCHANGED <<alive, up>>

Next ==
    \/ \E n \in NodeIds : AddNode(n) \/ Detach(n) \/ Remove(n)
    \/ \E l \in LinkIds : AddLink(l) \/ Cut(l)
    \/ \E n \in NodeIds, l \in LinkIds : Join(n, l) \/ Leave(n, l) \/ Own(n, l)
    \/ \E p, n \in NodeIds, l \in LinkIds \cup {Nil} : Attach(p, n, l)

Spec == Init /\ [][Next]_vars
=============================================================================
