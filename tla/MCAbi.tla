-------------------------------- MODULE MCAbi --------------------------------
(* Hosts that build templates, shape a network, and pass packets on.       *)
EXTENDS Abi

CONSTANTS top, a, b, c, d, e, l1, l2, l3, nil

MCNodeIds == {top, a, b, c, d, e}
MCLinkIds == {l1, l2, l3}
MCReserved == {"."}
MCNames == {".", "pc", "mail", "ipc"}
MCScanning == {"mail"}

NewNode(s, n, name) == Connect(CreateNode(s, n, name).net, top, n, nil).net
NewLink(s, l, name) == CreateLink(s, l, name).net

(* A node under the root, and a link both are on.                          *)
Small == NewNode(NewLink(NewNetwork, l1, "ipc"), a, "pc")
Joined == Subscribe(Subscribe(Small, a, l1).net, top, l1).net

Cap(transmissions, pending) == [transmissions |-> transmissions, pending |-> pending]

Npc(day, schedule, lines) == [day |-> day, schedule |-> schedule, lines |-> lines]
Baker == Npc(2, <<0, 1>>, 1)

Still == [world |-> NewWorld(Small, Cap(2, 2)), calls |-> {}, nodes |-> {}, links |-> {}, names |-> {},
          orders |-> {}, npc |-> Baker, kinds |-> {}, limits |-> {}, senders |-> {}, ticks |-> 0]

Order(template, name, spec) == [template |-> template, name |-> name, spec |-> spec]
Computer(services, apps) == [services |-> services, apps |-> apps]
Mail == [app |-> "mail"]

(* Computers, good and bad, and apps for them.                             *)
Computers ==
    [Still EXCEPT !.world.net = Joined, !.calls = {"wire", "remove", "build"}, !.nodes = {a, b}, !.links = {l1, l2},
                  !.orders = {Order("computer", "pc", Computer(<<"ipc">>, <<"mail">>)),
                              Order("computer", "pc", Computer(<<>>, <<"mail", "mail">>)),
                              Order("computer", "pc", Computer(<<"mail">>, <<"mail">>)),
                              Order("computer", "pc", Computer(<<"pc">>, <<>>)),
                              Order("computer", "pc", Computer(<<".">>, <<>>)),
                              Order("computer", ".", Computer(<<>>, <<>>)),
                              Order("computer", "ipc", Computer(<<>>, <<>>)),
                              Order("computer", Nil, Computer(<<>>, <<>>)),
                              Order("app", "pc", Mail), Order("app", ".", Mail), Order("car", "pc", Mail)}]

(* NPCs, good and bad, and a clock.  The handles d and e were used before. *)
Town ==
    [Still EXCEPT !.calls = {"build", "logic", "tick"}, !.nodes = {top, a}, !.links = {l1},
                  !.world.net = [Subscribe(Small, a, l1).net EXCEPT !.issued = @ \cup {d, e}], !.kinds = {"npc"},
                  !.orders = {Order("npc", "mail", spec) :
                                  spec \in {Baker, Npc(0, <<0>>, 1), Npc(2, <<>>, 1), Npc(2, <<1>>, 1),
                                            Npc(2, <<0, 0>>, 1), Npc(2, <<0, 2>>, 1), Npc(1, <<0>>, 0)}},
                  !.ticks = 3]

(* The shape of the network.                                               *)
Shape ==
    [Still EXCEPT !.world.net = NewLink(NewNetwork, l1, "ipc"), !.calls = {"create", "wire", "remove", "ask"},
                  !.nodes = {top, a, b}, !.links = {l1}, !.names = {"pc", "."}]

(* Two host nodes that pass on what they hear, past an NPC.                *)
Traffic ==
    [Still EXCEPT !.world.net = Subscribe(NewNode(Joined, b, "mail"), b, l1).net,
                  !.world.limits = Cap(1, 1), !.calls = {"limit", "host", "send", "tick"},
                  !.nodes = {a, b}, !.links = {l1},
                  !.limits = {Cap(0, 2)}, !.senders = {a, b}, !.ticks = 3]

MCScenes == {Computers, Town, Shape, Traffic}
==============================================================================
