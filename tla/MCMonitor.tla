----------------------------- MODULE MCMonitor ------------------------------
(* Small networks, each with the traffic or the changes one check is about.*)
EXTENDS Monitor

CONSTANTS root, a, b, c, l1, l2, l3, nil, k1, k2, k3

MCNodeIds == {root, a, b, c}
MCLinkIds == {l1, l2, l3}
MCReserved == {"."}
MCNames == {".", "a", "b", "c", "1", "2", "3"}
MCKeys == {k1, k2, k3}

NewNode(s, n, name) == Connect(CreateNode(s, n, name).net, root, n, nil).net
NewLink(s, l, name) == CreateLink(s, l, name).net

Bare == NewLink(NewNode(NewNode(NewNetwork, a, "a"), b, "b"), l1, "1")
Pair == Subscribe(Subscribe(Bare, a, l1).net, b, l1).net
Wide == NewNode(NewLink(NewLink(Bare, l2, "2"), l3, "3"), c, "c")
Bridged == Subscribe(Subscribe(Wide, b, l1).net, b, l2).net

Off == [warn |-> 0, error |-> 0]
At(warn, error) == [warn |-> warn, error |-> error]
Quiet == [network |-> Off, link |-> Off, node |-> Off, replay |-> Off, amplification |-> Off,
          window |-> 2, cooldown |-> 2]
Idle == [net |-> Pair, logic |-> [n \in MCNodeIds |-> NoLogic], config |-> Quiet, keys |-> {k1}, senders |-> {a},
         fates |-> {[is |-> "declined"]}, sends |-> 0, pushed |-> {}, movable |-> {}, kinds |-> {}, ticks |-> 4]

(* Two nodes that send more or less.                                       *)
Rates == [Idle EXCEPT !.sends = 2, !.senders = {a, b}, !.config.node = At(1, 2), !.config.link = At(0, 2),
                      !.config.network = At(2, 0)]

(* One packet or another, again and again.                                 *)
Replaying == [Idle EXCEPT !.sends = 2, !.config.replay = At(2, 3), !.keys = MCKeys, !.pushed = {b}, !.ticks = 3,
                         !.fates = {[is |-> "kept"]}]

(* Logics that answer too much, lose packets and panic.                    *)
Logics == [Idle EXCEPT !.sends = 1, !.senders = {a, b}, !.config.amplification = At(1, 2), !.config.cooldown = 3,
                       !.logic = [n \in MCNodeIds |-> IF n = root THEN NoLogic ELSE "custom"],
                       !.fates = {[is |-> "handled", sends |-> 1], [is |-> "handled", sends |-> 2],
                                  [is |-> "expired"], [is |-> "panicked", sends |-> 0]}]

(* Two bridges and a gateway with a link of its own, plugged in and out.   *)
Topologies ==
    [Idle EXCEPT !.net = AddInternalLink(Bridged, c, l3).net,
                 !.logic = [n \in MCNodeIds |-> IF n = root THEN NoLogic
                                                ELSE IF n = c THEN "gateway" ELSE "bridge"],
                 !.movable = {a, c}, !.ticks = 2, !.kinds = {NoLogic, "bridge"}]

MCScenes == {Rates, Replaying, Logics, Topologies}
=============================================================================
