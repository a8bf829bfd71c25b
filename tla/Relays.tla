------------------------------- MODULE Relays -------------------------------
(***************************************************************************)
(* Monitor::check_topology (emergence-engine/src/monitor.rs): which nodes  *)
(* close a relay loop, from the topology alone.  The union-find table      *)
(* `sets` is the partition it stands for.  `logic` gives every node's      *)
(* logic kind, NoLogic for none.                                           *)
(*                                                                         *)
(* A definition marked `Fault:` is not the code's.                         *)
(***************************************************************************)
EXTENDS NetworkOps, Naturals, SequencesExt

NoLogic == "none"

(* ControllerLogic::relaying *)
Routed(kind) == kind = "gateway"
Flooding(kind) == kind = "bridge"

UsableLinks(s, n) == s.subscriptions[n] \cup s.internal[n]

SetOf(sets, l) == CHOOSE S \in sets : l \in S

Joined(sets, l, k) ==
    (sets \ {SetOf(sets, l), SetOf(sets, k)}) \cup {SetOf(sets, l) \cup SetOf(sets, k)}

(* Fault: gateways are left out. *)
BridgesOnly(s, logic) == {{l} : l \in s.links}

(* The first pass joins the two sides of every gateway and reports nothing.*)
RoutedSets(s, logic) ==
    LET pairs == UNION {s.internal[n] \X s.subscriptions[n] :
                           n \in {m \in s.nodes : Routed(logic[m])}}
    IN  FoldSet(LAMBDA pair, sets : Joined(sets, pair[1], pair[2]),
                {{l} : l \in s.links}, pairs)

(* The connections a bridge makes: each of its links with the next one.    *)
Windows(s, n) ==
    LET links == SetToSeq(UsableLinks(s, n))
        next == IF links = <<>> THEN <<>> ELSE Tail(links)
    IN  [i \in DOMAIN next |-> [node |-> n, one |-> links[i], other |-> next[i]]]

(* The second pass: one flooding connection after the other.               *)
WithConnection(found, c) ==
    IF SetOf(found.sets, c.one) = SetOf(found.sets, c.other)
    THEN [found EXCEPT !.closing = @ \cup {c.node}]
    ELSE [found EXCEPT !.sets = Joined(@, c.one, c.other)]

Followed(s, logic, found, n) ==
    IF Flooding(logic[n]) THEN FoldLeft(WithConnection, found, Windows(s, n)) ELSE found

(* The nodes check_topology reports.  It meets them in the order of their  *)
(* slots, whatever their logics.                                           *)
ClosingALoop(s, logic) ==
    FoldLeft(LAMBDA found, n : Followed(s, logic, found, n),
             [sets |-> RoutedSets(s, logic), closing |-> {}], SetToSeq(s.nodes)).closing

-----------------------------------------------------------------------------
(* What it is meant to find: a bridge that hears back, over another of its *)
(* links, what it has relayed to one of them, because the other relays     *)
(* connect the two.                                                        *)

(* The links that what is heard on l can be relayed to by the nodes of R.  *)
RelayedFrom(s, logic, R, l) ==
    UNION {IF Flooding(logic[n]) THEN UsableLinks(s, n)
           ELSE IF l \in s.internal[n] THEN s.subscriptions[n] ELSE s.internal[n] :
             n \in {m \in R : /\ l \in UsableLinks(s, m)
                              /\ Routed(logic[m]) \/ Flooding(logic[m])}}

ReachesOver(s, logic, R, k, l) ==
    \A S \in SUBSET s.links :
        k \in S /\ (\A m \in S : RelayedFrom(s, logic, R, m) \subseteq S) => l \in S

HearsItself(s, logic, b) ==
    \E k, l \in UsableLinks(s, b) :
        k # l /\ ReachesOver(s, logic, s.nodes \ {b}, k, l)

(* Every gateway has each of its links on one side only: its own network,  *)
(* or the networks it is on.                                               *)
TwoSided(s, logic) ==
    \A n \in s.nodes : Routed(logic[n]) => s.internal[n] \cap s.subscriptions[n] = {}

HasRelayLoop(s, logic) == \E b \in s.nodes : Flooding(logic[b]) /\ HearsItself(s, logic, b)
=============================================================================
