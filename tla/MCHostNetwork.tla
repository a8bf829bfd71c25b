--------------------------- MODULE MCHostNetwork ----------------------------
(* HostNetwork with its root and two or three C# nodes, two of them of one *)
(* ID.  A template has, or has not, built a node that owns a link.         *)
EXTENDS HostNetwork, TLC

CONSTANTS root, n1, n2, n3, l1, l2, dot, x, y, z, w, nil, top, a, b, c, ipc, bus

MCNames == {<<dot>>, <<x>>, <<y>>, <<z>>, <<w>>} \cup {<<x, n>> : n \in 2..4} \cup {<<x, 2, 2>>}
MCReserved == {<<dot>>}
MCRootName == <<dot>>

MCIdOf == (top :> <<z>>) @@ (a :> <<x>>) @@ (b :> <<x>>) @@ (c :> <<x>>) @@ (ipc :> <<y>>) @@ (bus :> <<z>>)

NoLinkOf == (ipc :> nil) @@ (bus :> nil)

(* A network some of whose handles were used before.                       *)
Spent(s, handles) == [s EXCEPT !.issued = @ \cup handles]

TemplateNetwork ==
    LET s1 == Engine!CreateNode(Engine!NewNetwork, n1, <<w>>).net
        s2 == Engine!CreateLink(s1, l1, <<y>>).net
        s3 == Engine!AddInternalLink(s2, n1, l1).net
    IN  Engine!Connect(s3, root, n1, nil).net
TemplateLinkOf == [NoLinkOf EXCEPT ![ipc] = l1]

(* Two nodes and a template's, and callers who commit no lapse.            *)
Careful == [models |-> {top, a, b}, wires |-> {ipc, bus}, net |-> TemplateNetwork, linkOf |-> TemplateLinkOf,
            allowed |-> {}, strays |-> FALSE, orphans |-> 1]

(* Two nodes and one link, and any calls at all.                           *)
Careless == [models |-> {top, a, b}, wires |-> {bus}, net |-> Spent(Engine!NewNetwork, {n3, l2}),
             linkOf |-> NoLinkOf, allowed |-> Lapses, strays |-> FALSE, orphans |-> 0]

(* One node, disposed at any time, and the node and link of a template.    *)
Disposing == [models |-> {top, c}, wires |-> {ipc}, net |-> Spent(TemplateNetwork, {l2}),
              linkOf |-> TemplateLinkOf, allowed |-> Lapses, strays |-> TRUE, orphans |-> 2]

(* Two nodes that leave a parent and join another before the step.         *)
Rejoining == [Careful EXCEPT !.net = Spent(Engine!NewNetwork, {n3}), !.linkOf = NoLinkOf, !.allowed = {"rejoin"}]

MCScenes == {Careful, Careless, Disposing}
RejoinScenes == {Rejoining}

Symmetry == Permutations({a, b})
=============================================================================
