----------------------------- MODULE MCRouting ------------------------------
(* Small networks of up to six nodes on up to three links.                 *)
EXTENDS Routing, TLC

CONSTANTS root, a, b, c, d, e, f, l1, l2, l3, nil

MCNodeIds == {root, a, b, c, d, e, f}
MCLinkIds == {l1, l2, l3}
MCReserved == {".", "^", "*", "?"}
MCNames == MCReserved \cup
    {"pc", "server", "house", "laptop", "fileman", "tv", "hub", "wifi", "lan", "ipc"}

NewNode(s, n, name) == CreateNode(s, n, name).net
NewLink(s, o, l, name) == AddInternalLink(CreateLink(s, l, name).net, o, l).net

(* Nodes inside p, each on link l: <<node, name>> pairs in any order.      *)
Inside(s, p, l, nodes) ==
    FoldSet(LAMBDA pair, net1 : Connect(NewNode(net1, pair[1], pair[2]), p, pair[1], l).net, s, nodes)

Kinds(assigned) == assigned @@ [n \in MCNodeIds |-> NoLogic]
AskTo(s, n, l, to) ==
    [node |-> n, via |-> l, to |-> to, from |-> <<Hop(s.name[n], s.name[l])>>]

(* Two computers on one network, with apps of one name.                    *)
Office ==
    LET s1 == Inside(NewLink(NewNetwork, root, l1, "wifi"), root, l1,
                     {<<a, "laptop">>, <<b, "pc">>, <<c, "server">>})
        s2 == Inside(NewLink(s1, b, l2, "ipc"), b, l2, {<<d, "fileman">>})
        s3 == Inside(NewLink(s2, c, l3, "ipc"), c, l3, {<<e, "fileman">>, <<f, "tv">>})
    IN  [net |-> s3,
         logic |-> Kinds((a :> "responder") @@ (b :> "gateway") @@ (c :> "gateway")
                         @@ (f :> "responder")
                         @@ (d :> "responder") @@ (e :> "scanner")),
         asks |-> {AskTo(s3, d, l2, <<Hop("server", "wifi"), Hop("tv", "ipc")>>),
                   AskTo(s3, a, l1, <<Hop("pc", "?"), Hop("fileman", "ipc")>>),
                   [node |-> d, via |-> l2, to |-> <<Hop("laptop", "wifi")>>,
                    from |-> <<Hop("fileman", "ipc"), Hop("house", "lan"), Hop("house", "wifi")>>]}]

(* A computer inside a house: two gateways one behind the other.           *)
House ==
    LET s1 == Inside(NewLink(NewNetwork, root, l1, "wifi"), root, l1,
                     {<<a, "house">>, <<e, "laptop">>})
        s2 == Inside(NewLink(s1, a, l2, "lan"), a, l2, {<<b, "pc">>, <<c, "laptop">>})
        s3 == Inside(NewLink(s2, b, l3, "ipc"), b, l3, {<<d, "fileman">>})
    IN  [net |-> s3,
         logic |-> Kinds((a :> "gateway") @@ (b :> "gateway") @@ (c :> "responder")
                         @@ (d :> "responder") @@ (e :> "beacon")),
         asks |-> {AskTo(s3, c, l2, <<Hop("pc", "lan"), Hop("fileman", "ipc")>>),
                   AskTo(s3, d, l3, <<Hop("laptop", "lan")>>),
                   AskTo(s3, e, l1, <<Hop("house", "wifi"), Hop("pc", "lan"), Hop("fileman", "ipc")>>)}]

(* Two buildings on each other's links: a ring of gateways.                *)
Ring ==
    LET s1 == Inside(NewNetwork, root, nil, {<<a, "house">>, <<b, "server">>})
        s2 == NewLink(NewLink(s1, a, l1, "wifi"), b, l2, "lan")
        s3 == Subscribe(Subscribe(s2, b, l1).net, a, l2).net
        s4 == Inside(s3, a, l1, {<<c, "laptop">>})
    IN  [net |-> s4,
         logic |-> Kinds((a :> "gateway") @@ (b :> "gateway") @@ (c :> "responder")),
         asks |-> {AskTo(s4, c, l1, <<Hop("tv", "ipc")>>), AskTo(s4, c, l1, <<Hop("^", "wifi")>>),
                   AskTo(s4, c, l1, <<Hop("*", "lan")>>),
                   AskTo(s4, c, l1, <<Hop("server", "wifi"), Hop("house", "lan"), Hop("laptop", "wifi")>>)}]

(* Bridges between two buses.                                              *)
Bridged(bridges) ==
    LET s1 == NewLink(NewLink(NewNetwork, root, l1, "wifi"), root, l2, "lan")
        s2 == Inside(Inside(s1, root, l1, {<<a, "laptop">>} \cup bridges), root, l2, {<<d, "tv">>})
        s3 == FoldSet(LAMBDA pair, s : Subscribe(s, pair[1], l2).net, s2, bridges)
    IN  [net |-> s3,
         logic |-> Kinds((a :> "responder") @@ (d :> "responder")
                         @@ [n \in {pair[1] : pair \in bridges} |-> "bridge"]),
         asks |-> {AskTo(s3, a, l1, <<Hop("*", "wifi")>>), AskTo(s3, a, l1, <<Hop("tv", "?")>>)}]

(* A bridge beside a computer that has an app on its own bus.              *)
BridgeAndGateway ==
    LET s1 == Inside(NewLink(NewNetwork, root, l1, "wifi"), root, l1,
                     {<<a, "laptop">>, <<b, "pc">>, <<c, "hub">>})
        s2 == Inside(NewLink(s1, b, l2, "ipc"), b, l2, {<<d, "fileman">>})
        s3 == Subscribe(s2, c, l2).net
    IN  [net |-> s3,
         logic |-> Kinds((a :> "responder") @@ (b :> "gateway") @@ (c :> "bridge")
                         @@ (d :> "responder")),
         asks |-> {AskTo(s3, d, l2, <<Hop("laptop", "wifi")>>),
                   AskTo(s3, a, l1, <<Hop("tv", "ipc")>>)}]

(* Healthy nodes among faulty ones.                                        *)
Faulty(kinds) ==
    LET s1 == Inside(NewLink(NewNetwork, root, l1, "wifi"), root, l1,
                     {<<a, "laptop">>, <<b, "tv">>, <<c, "pc">>, <<d, "hub">>})
    IN  [net |-> s1,
         logic |-> Kinds((a :> "responder") @@ (b :> "responder") @@ (c :> kinds[1]) @@ (d :> kinds[2])),
         asks |-> {AskTo(s1, a, l1, <<Hop("*", "wifi")>>), AskTo(s1, b, l1, <<Hop("pc", "wifi")>>)}]

MCScenes ==
    {Office, House, Ring, Bridged({<<b, "hub">>}), Bridged({<<b, "hub">>, <<c, "pc">>}), BridgeAndGateway,
     Faulty(<<"echo", "crasher">>), Faulty(<<"amplifier", "crasher">>), Faulty(<<"replayer", "flooder">>)}
=============================================================================
