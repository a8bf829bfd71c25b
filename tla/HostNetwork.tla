---------------------------- MODULE HostNetwork -----------------------------
(***************************************************************************)
(* The Unity host layer's structure (bindings/unity/Host): C# nodes and    *)
(* links with views of their own of who is nested where, who owns which    *)
(* link and who is on it, beside the engine's network that really carries  *)
(* the packets.  HostNetwork changes both by separate calls, either of     *)
(* which may do nothing or be refused, and it puts off what leaving a link *)
(* means for the engine until the end of the next step.                    *)
(*                                                                         *)
(* An operation is a function on the whole state h, like those of the      *)
(* engine.  Calls from inside a callback (Setup, OnConnected) are calls    *)
(* after the operation that made the callback, except in Connect, whose    *)
(* parts Nest, Own and SubscribeToLink can therefore be called alone.      *)
(* Traffic, and a native library of the wrong version, are left out.       *)
(*                                                                         *)
(* A definition marked `Fault:` is not the code's.  It is a mistake the    *)
(* definition after it could have held, kept to show that a property below *)
(* would notice.                                                           *)
(***************************************************************************)
EXTENDS Naturals, Sequences, FiniteSets

CONSTANTS
    NodeIds, LinkIds, Names, Reserved, Root, RootName, Nil,
    Models,           \* NodeModel objects
    Wires,            \* LinkModel objects
    RootModel,        \* the NodeModel named Addresses.Root
    IdOf,             \* the ID of each model and wire, as a sequence: "x#2" is <<x, 2>>
    Scenes            \* what templates have built, and who calls what, see below

Engine == INSTANCE NetworkOps

Lapses == {"cycle", "shared", "rejoin", "lingering", "dispose", "hidden"}

(* A scene: the C# objects that are used; `net`, what templates have built *)
(* before, with the LinkModels of its links; the lapses callers may commit *)
(* (see Lapses); whether Disconnect is called for a node that is not there;*)
(* and a bound on the nodes that disposed C# nodes leave behind.           *)
(* Templates put links into nodes of their own, and none on the root.      *)
(* A name is a text, or a text and counts; reserved ones have no counts.   *)
ASSUME HostAssumption ==
    /\ Root \in NodeIds /\ RootModel \in Models
    /\ NodeIds \cap LinkIds = {}
    /\ Nil \notin NodeIds \cup LinkIds \cup Models \cup Wires
    /\ \A name \in Names : name \in Seq({name[i] : i \in DOMAIN name}) /\ name # <<>>
    /\ \A name \in Reserved : Len(name) = 1
    /\ IdOf \in [Models \cup Wires -> Names \ Reserved]
    /\ \A plan \in Scenes :
          /\ RootModel \in plan.models /\ plan.models \subseteq Models
          /\ plan.wires \subseteq Wires
          /\ Engine!InOrder(plan.net)
          /\ plan.net.internal[Root] = {} /\ plan.net.subscriptions[Root] = {}
          /\ plan.linkOf \in [Wires -> plan.net.links \cup {Nil}]
          /\ \A l \in plan.net.links : \E k \in plan.wires : plan.linkOf[k] = l
          /\ \A j, k \in Wires : plan.linkOf[j] = plan.linkOf[k] /\ j # k => plan.linkOf[j] = Nil
          /\ plan.allowed \subseteq Lapses /\ plan.strays \in BOOLEAN /\ plan.orphans \in Nat

VARIABLES
    scene,
    host     \* HostNetwork's state, the views of its nodes and links, and the engine's

vars == <<scene, host>>

(* The host has used its root node, and nothing else of its own.  `links`  *)
(* is both NodeModel.Links and, read the other way, LinkModel's            *)
(* ConnectedNodeSubscriptions: every operation changes the two together.   *)
Init ==
    /\ scene \in Scenes
    /\ host =
           [net |-> scene.net,
            hosts |-> {},
            nodeOf |-> [m \in Models |-> IF m = RootModel THEN Root ELSE Nil],
            linkOf |-> scene.linkOf,
            used |-> [x \in Names |-> 0],
            parent |-> [m \in Models |-> Nil],
            inner |-> [m \in Models |-> {}],
            owned |-> [m \in Models |-> {}],
            links |-> [m \in Models |-> {}],
            leaving |-> {},
            unnesting |-> {}]

Known(h, m) == h.nodeOf[m] # Nil
NodeAt(h, id) == {m \in Models : Known(h, m) /\ h.nodeOf[m] = id}

-----------------------------------------------------------------------------
(* The views, as NodeModel changes them *)

NestChild(h, p, n) == [h EXCEPT !.inner[p] = @ \cup {n}, !.parent[n] = p]

UnnestChild(h, p, n) ==
    [h EXCEPT !.inner[p] = @ \ {n}, !.parent[n] = IF @ = p THEN Nil ELSE @]

-----------------------------------------------------------------------------
(* The engine's nodes and links behind them, made when first needed *)

(* A name that was asked for before gets the count of its uses appended;   *)
(* the name that results is not counted as used.                           *)
UniqueName(h, id) == IF h.used[id] = 0 THEN id ELSE Append(id, h.used[id] + 1)

(* The root's model has its node already: nothing is created for it.      *)
NodeIdOf(h, m) ==
    IF Known(h, m) THEN h
    ELSE LET id == CHOOSE x \in NodeIds : x \notin h.net.issued
         IN  [h EXCEPT !.net = Engine!CreateNode(@, id, UniqueName(h, IdOf[m])).net,
                       !.used[IdOf[m]] = @ + 1,
                       !.hosts = @ \cup {id},
                       !.nodeOf[m] = id]

LinkIdOf(h, k) ==
    IF h.linkOf[k] # Nil THEN h
    ELSE LET id == CHOOSE x \in LinkIds : x \notin h.net.issued
         IN  [h EXCEPT !.net = Engine!CreateLink(@, id, UniqueName(h, IdOf[k])).net,
                       !.used[IdOf[k]] = @ + 1,
                       !.linkOf[k] = id]

-----------------------------------------------------------------------------
(* The primitive changes *)

(* The view changes first.  A refusal of the engine's is logged.           *)
AddChild(h, p, n) ==
    LET t == NodeIdOf(NodeIdOf(NestChild(h, p, n), p), n)
    IN  [t EXCEPT !.unnesting = @ \ {<<t.nodeOf[p], t.nodeOf[n]>>},
                  !.net = Engine!Connect(@, t.nodeOf[p], t.nodeOf[n], Nil).net]

RemoveChild(h, p, n) ==
    LET t == UnnestChild(h, p, n)
    IN  IF ~(Known(h, n) /\ Known(h, p)) THEN t
        ELSE [t EXCEPT !.unnesting = @ \ {<<h.nodeOf[p], h.nodeOf[n]>>},
                       !.net = Engine!Disconnect(@, h.nodeOf[p], h.nodeOf[n]).net]

(* Fault: a departure that is under way is not called off. *)
SubscriptionStillLeaving(h, n, k) ==
    LET t == LinkIdOf(NodeIdOf([h EXCEPT !.links[n] = @ \cup {k}], n), k)
    IN  [t EXCEPT !.net = Engine!Subscribe(@, t.nodeOf[n], t.linkOf[k]).net]

AddSubscription(h, n, k) ==
    LET t == LinkIdOf(NodeIdOf([h EXCEPT !.links[n] = @ \cup {k}], n), k)
    IN  [t EXCEPT !.leaving = @ \ {<<t.nodeOf[n], t.linkOf[k]>>},
                  !.net = Engine!Subscribe(@, t.nodeOf[n], t.linkOf[k]).net]

(* Fault: the engine is never told of a departure from a parent. *)
LeaveLinkOnly(h, p, n, k) ==
    LET t == UnnestChild([h EXCEPT !.links[n] = @ \ {k}], p, n)
    IN  IF ~Known(h, n) THEN t
        ELSE [t EXCEPT !.leaving = @ \cup {<<h.nodeOf[n], l>> : l \in {h.linkOf[k]} \ {Nil}}]

(* The view changes now, the engine at the end of the next step.           *)
Leave(h, p, n, k) ==
    LET t == UnnestChild([h EXCEPT !.links[n] = @ \ {k}], p, n)
    IN  IF ~Known(h, n) THEN t
        ELSE [t EXCEPT
                !.leaving = @ \cup {<<h.nodeOf[n], l>> : l \in {h.linkOf[k]} \ {Nil}},
                !.unnesting = @ \cup {<<id, h.nodeOf[n]>> : id \in {h.nodeOf[p]} \ {Nil}}]

(* World.Unsubscribe for every node that is leaving a link, then           *)
(* World.Disconnect for every node still under the parent it has left:     *)
(* which takes it off all the links that parent owns.                      *)
FinishLeaving(h) ==
    LET s == h.net
        gone == {n \in NodeIds : <<s.parent[n], n>> \in h.unnesting}
        left(n) == {l \in LinkIds : <<n, l>> \in h.leaving}
                   \cup (IF n \in gone THEN s.internal[s.parent[n]] ELSE {})
    IN  [h EXCEPT
           !.net = [s EXCEPT
              !.subscriptions = [n \in NodeIds |-> @[n] \ left(n)],
              !.subscribers = [l \in LinkIds |-> @[l] \ {n \in NodeIds : l \in left(n)}],
              !.parent = [n \in NodeIds |-> IF n \in gone THEN Nil ELSE @[n]],
              !.children = [m \in NodeIds |-> @[m] \ {n \in gone : s.parent[n] = m}]],
           !.leaving = {},
           !.unnesting = {}]

-----------------------------------------------------------------------------
(* Operations *)

Nest(h, p, n) == IF h.parent[n] = Nil THEN AddChild(h, p, n) ELSE h

MoveInto(h, p, n) ==
    IF h.parent[n] = p THEN h
    ELSE AddChild(IF h.parent[n] = Nil THEN h ELSE RemoveChild(h, h.parent[n], n), p, n)

Own(h, o, k) ==
    IF k \in h.owned[o] THEN h
    ELSE LET t == LinkIdOf(NodeIdOf([h EXCEPT !.owned[o] = @ \cup {k}], o), k)
         IN  [t EXCEPT !.net = Engine!AddInternalLink(@, t.nodeOf[o], t.linkOf[k]).net]

SubscribeToLink(h, n, k) == IF k \in h.links[n] THEN h ELSE AddSubscription(h, n, k)

Connect(h, p, n, k) ==
    IF p = n THEN h ELSE SubscribeToLink(Own(Nest(h, p, n), p, k), n, k)

Disconnect(h, p, n, k) == Leave(h, p, n, k)

(* Fault: the engine goes on collecting deliveries for the node. *)
ForgetInHostOnly(h, m) == [h EXCEPT !.nodeOf[m] = Nil]

Forget(h, m) ==
    IF Known(h, m) THEN [h EXCEPT !.nodeOf[m] = Nil, !.hosts = @ \ {h.nodeOf[m]}] ELSE h

(* What a disposed node was nested in and on is left as it is.             *)
Dispose(h, m) == [Forget(h, m) EXCEPT !.inner[m] = {}, !.owned[m] = {}]

(* Fault: a second C# node may stand for a node of the engine's. *)
TakenIfKnown(h, id, m) == Known(h, m) \/ id \notin h.net.nodes

(* What Adopt turns down, and what World.SetHost does not find.            *)
Taken(h, id, m) == Known(h, m) \/ NodeAt(h, id) # {} \/ id \notin h.net.nodes

(* A node the engine has becomes a C# node, whose view is filled in.  All  *)
(* of the engine's links have a LinkModel here, so LinkFor finds one.      *)
Adopt(h, id, m) ==
    LET wires(L) == {k \in Wires : h.linkOf[k] \in L}
        ups == NodeAt(h, h.net.parent[id])
        downs == UNION {NodeAt(h, c) : c \in h.net.children[id]}
    IN  IF Taken(h, id, m) THEN h
        ELSE [h EXCEPT
                !.nodeOf[m] = id,
                !.hosts = @ \cup {id},
                !.used[h.net.name[id]] = IF @ = 0 THEN 1 ELSE @,
                !.parent = [n \in Models |-> IF n \in downs THEN m
                                             ELSE IF n = m /\ ups # {} THEN CHOOSE p \in ups : TRUE
                                             ELSE @[n]],
                !.inner = [n \in Models |-> IF n = m THEN @[n] \cup downs
                                            ELSE IF n \in ups THEN @[n] \cup {m}
                                            ELSE @[n]],
                !.owned[m] = @ \cup wires(h.net.internal[id]),
                !.links[m] = @ \cup wires(h.net.subscriptions[id])]

(* The end of a step: the world has ticked and its deliveries are taken.   *)
Step(h) == FinishLeaving(h)

-----------------------------------------------------------------------------
(* What the views cannot follow.  A caller sees the views and knows what   *)
(* it has taken out of where since the last step.                          *)

When(lapse, condition) == IF condition THEN {lapse} ELSE {}

(* The parents a node has left since the last step.                        *)
LeftBehind(h, n) == {p \in Models : <<h.nodeOf[p], h.nodeOf[n]>> \in h.unnesting}

(* Is m the node n, or above it, where a node is also below the parents    *)
(* that it has just left if `recent`?                                      *)
IsAbove(h, m, n, recent) ==
    LET ups(x) == ({h.parent[x]} \ {Nil}) \cup (IF recent THEN LeftBehind(h, x) ELSE {})
    IN  \A S \in SUBSET scene.models : n \in S /\ m \notin S => \E x \in S : ~(ups(x) \subseteq S)

(* A node is nested in itself or below itself; or elsewhere (or around the *)
(* node it left) before the step after it left; or its engine parent is    *)
(* a node that C# does not have.                                           *)
NestLapses(h, p, n) ==
    When("cycle", IsAbove(h, n, p, FALSE))
    \cup When("rejoin", \/ h.unnesting # {} /\ IsAbove(h, n, p, TRUE) /\ ~IsAbove(h, n, p, FALSE)
                        \/ LeftBehind(h, n) \ {p} # {})
    \cup When("hidden", /\ Known(h, n)
                        /\ h.net.parent[h.nodeOf[n]] # Nil
                        /\ NodeAt(h, h.net.parent[h.nodeOf[n]]) = {})

(* A link is given a second owner, seen or unseen; or a node comes to own  *)
(* a link that a node which is just leaving it is on.                      *)
OwnLapses(h, o, k) ==
    When("shared", \E p \in Models \ {o} : k \in h.owned[p])
    \cup When("hidden", /\ h.linkOf[k] # Nil
                        /\ h.net.owner[h.linkOf[k]] # Nil
                        /\ NodeAt(h, h.net.owner[h.linkOf[k]]) = {})
    \cup When("lingering", \E n \in Models : k \in h.links[n] /\ o \in LeftBehind(h, n))

(* A node joins a link of the parent it is just leaving.                   *)
SubscribeLapses(h, n, k) ==
    When("lingering", \E p \in LeftBehind(h, n) : k \in h.owned[p])

(* A node leaves its parent but stays on one of its links.                 *)
LeaveLapses(h, p, n, k) ==
    When("lingering", (h.links[n] \ {k}) \cap h.owned[p] # {})

MoveLapses(h, p, n) ==
    LET from == h.parent[n] IN
    IF from = Nil THEN NestLapses(h, p, n)
    ELSE LeaveLapses(h, from, n, Nil) \cup NestLapses(RemoveChild(h, from, n), p, n)

ConnectLapses(h, p, n, k) ==
    LET nested == Nest(h, p, n)
        owning == Own(nested, p, k)
    IN  (IF h.parent[n] = Nil THEN NestLapses(h, p, n) ELSE {})
        \cup OwnLapses(nested, p, k) \cup SubscribeLapses(owning, n, k)

(* A node is disposed while it is still part of something.                 *)
DisposeLapses(h, m) ==
    When("dispose", \/ h.parent[m] # Nil \/ h.inner[m] # {}
                    \/ h.owned[m] # {} \/ h.links[m] # {})

(* A node is adopted that another C# node was behind, and which is leaving.*)
AdoptLapses(h, id) ==
    When("rejoin", \/ \E l \in LinkIds : <<id, l>> \in h.leaving
                   \/ \E x \in NodeIds : <<x, id>> \in h.unnesting \/ <<id, x>> \in h.unnesting)

-----------------------------------------------------------------------------
Call(result, lapses) ==
    /\ IF scene.allowed = Lapses THEN TRUE ELSE lapses \subseteq scene.allowed
    /\ host' = result
    /\ UNCHANGED scene

(* Bound: there are engine handles for what a call may create.             *)
Enough(ms) ==
    \E id \in [{m \in ms : ~Known(host, m)} -> NodeIds \ host.net.issued] :
        \A m, n \in DOMAIN id : m # n => id[m] # id[n]

EnoughFor(k) == host.linkOf[k] = Nil => LinkIds \ host.net.issued # {}

(* Everything but the root can be nested and put on links.                 *)
Members == scene.models \ {RootModel}

DoNest(p, n) ==
    Enough({p, n}) /\ Call(Nest(host, p, n), IF host.parent[n] = Nil THEN NestLapses(host, p, n) ELSE {})

DoMoveInto(p, n) ==
    Enough({p, n}) /\ Call(MoveInto(host, p, n), IF host.parent[n] = p THEN {} ELSE MoveLapses(host, p, n))

DoOwn(o, k) ==
    Enough({o}) /\ EnoughFor(k) /\ Call(Own(host, o, k), OwnLapses(host, o, k))

DoSubscribeToLink(n, k) ==
    Enough({n}) /\ EnoughFor(k) /\ Call(SubscribeToLink(host, n, k), SubscribeLapses(host, n, k))

DoConnect(p, n, k) ==
    /\ p # n /\ Enough({p, n}) /\ EnoughFor(k)
    /\ Call(Connect(host, p, n, k), ConnectLapses(host, p, n, k))

(* Bound: strays are calls that do not name the node's parent and link.    *)
DoDisconnect(p, n, k) ==
    /\ ~scene.strays => host.parent[n] = p /\ k \in host.links[n]
    /\ Call(Disconnect(host, p, n, k), LeaveLapses(host, p, n, k))

(* Bound: at most scene.orphans of the engine's nodes are without a C# node.     *)
DoDispose(m) ==
    /\ Known(host, m) =>
          Cardinality(host.net.nodes \ {host.nodeOf[n] : n \in Models}) < scene.orphans
    /\ Call(Dispose(host, m), DisposeLapses(host, m))

DoAdopt(id, m) == Call(Adopt(host, id, m), AdoptLapses(host, id))

DoStep == Call(Step(host), {})

Next ==
    \/ \E p \in scene.models, n \in Members : DoNest(p, n) \/ DoMoveInto(p, n)
    \/ \E m \in scene.models, k \in scene.wires : DoOwn(m, k)
    \/ \E m \in Members, k \in scene.wires : DoSubscribeToLink(m, k)
    \/ \E p \in scene.models, n \in Members, k \in scene.wires : DoConnect(p, n, k) \/ DoDisconnect(p, n, k)
    \/ \E m \in Members : DoDispose(m) \/ \E id \in NodeIds \ {Root} : DoAdopt(id, m)
    \/ DoStep

Spec == Init /\ [][Next]_vars

-----------------------------------------------------------------------------
(* Properties *)

(* The engine collects deliveries for the nodes C# has, and for no others; *)
(* and no two C# nodes, and no two C# links, stand for the same one of the *)
(* engine's, which would hand the deliveries of both to whichever came     *)
(* last.                                                                   *)
HostsKnown ==
    /\ host.hosts = {host.nodeOf[m] : m \in Models} \ {Root, Nil}
    /\ \A id \in NodeIds : Cardinality(NodeAt(host, id)) <= 1
    /\ \A l \in LinkIds : Cardinality({k \in Wires : host.linkOf[k] = l}) <= 1

(* Whatever is called in whatever order, the engine never has a C# node on *)
(* a link, under a parent, or owning a link, where the views do not have   *)
(* it too, unless it is just leaving there: nothing is delivered to a node *)
(* over a link it is not aware of.                                         *)
EngineWithinViews ==
    \A m \in Models : Known(host, m) =>
        LET id == host.nodeOf[m] IN
        /\ \A l \in host.net.subscriptions[id] :
              <<id, l>> \in host.leaving \/ \E k \in host.links[m] : host.linkOf[k] = l
        /\ \A l \in host.net.internal[id] : \E k \in host.owned[m] : host.linkOf[k] = l
        /\ \A p \in NodeAt(host, host.net.parent[id]) :
              host.parent[m] = p \/ p \in LeftBehind(host, m)

(* "They are changed together, so a difference is a bug", which            *)
(* VerifyStructure looks for: what the views show is so in the engine, at  *)
(* any time, and a parent lists the nodes that name it.                    *)
ViewsWithinEngine ==
    /\ \A p, n \in Models : n \in host.inner[p] <=> host.parent[n] = p
    /\ \A m \in Models : Known(host, m) =>
          LET id == host.nodeOf[m] IN
          /\ \A k \in host.links[m] : host.linkOf[k] \in host.net.subscriptions[id]
          /\ \A k \in host.owned[m] : host.linkOf[k] \in host.net.internal[id]
          /\ host.parent[m] # Nil =>
                Known(host, host.parent[m]) /\ host.net.parent[id] = host.nodeOf[host.parent[m]]

(* That is true for callers who commit none of the lapses.                 *)
CarefulCallersSeeTruth == scene.allowed = {} => ViewsWithinEngine
=============================================================================
