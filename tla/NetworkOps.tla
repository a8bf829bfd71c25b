----------------------------- MODULE NetworkOps -----------------------------
(***************************************************************************)
(* The operations of `Network` (emergence-engine/src/network.rs) as        *)
(* functions on a value of the struct.  Every operation is given a network *)
(* s and answers [ok, net]: whether it succeeded, and the network it left  *)
(* behind.  A checked step that can fail half-way (Rust's `?`) answers     *)
(* with whatever was already written, so that "a rejected operation        *)
(* changes nothing" is a theorem about the code and not a convention of    *)
(* the model.                                                              *)
(*                                                                         *)
(* A Vec of handles is a set here: the order in which children or          *)
(* subscribers were added decides nothing in this component.               *)
(*                                                                         *)
(* A definition marked `Fault:` is not the code's.  It is a mistake the    *)
(* definition after it could have held, kept to show that a property of    *)
(* Network would notice.                                                   *)
(***************************************************************************)
CONSTANTS
    NodeIds,    \* every node handle the slot map can ever issue
    LinkIds,    \* every link handle the slot map can ever issue
    Names,      \* names a caller may ask for, legal or not
    Reserved,   \* the names validate_name turns down
    Root,       \* the handle of the root node
    RootName,   \* Network::ROOT_NAME
    Nil         \* Option::None: no handle, no name

ASSUME NetworkAssumption ==
    /\ Root \in NodeIds
    /\ RootName \in Names
    /\ RootName \in Reserved
    /\ Nil \notin NodeIds \cup LinkIds \cup Names
    /\ NodeIds \cap LinkIds = {}

-----------------------------------------------------------------------------
(* Network, ControlNode and Link.  A handle that does not resolve has      *)
(* blank fields.  `issued` holds every handle handed out so far: a slot    *)
(* map key is never handed out twice.                                      *)
NetworkType ==
    [nodes: SUBSET NodeIds, links: SUBSET LinkIds,
     issued: SUBSET (NodeIds \cup LinkIds),
     name: [NodeIds \cup LinkIds -> (Names \ Reserved) \cup {RootName, Nil}],
     parent: [NodeIds -> NodeIds \cup {Nil}],
     children: [NodeIds -> SUBSET NodeIds],
     internal: [NodeIds -> SUBSET LinkIds],
     subscriptions: [NodeIds -> SUBSET LinkIds],
     owner: [LinkIds -> NodeIds \cup {Nil}],
     subscribers: [LinkIds -> SUBSET NodeIds]]

NewNetwork ==
    [nodes |-> {Root}, links |-> {},
     issued |-> {Root},
     name |-> [h \in NodeIds \cup LinkIds |-> IF h = Root THEN RootName ELSE Nil],
     parent |-> [n \in NodeIds |-> Nil],
     children |-> [n \in NodeIds |-> {}],
     internal |-> [n \in NodeIds |-> {}],
     subscriptions |-> [n \in NodeIds |-> {}],
     owner |-> [l \in LinkIds |-> Nil],
     subscribers |-> [l \in LinkIds |-> {}]]

Done(s) == [ok |-> TRUE, net |-> s]
Rejected(s) == [ok |-> FALSE, net |-> s]

-----------------------------------------------------------------------------
(* Queries *)

(* Fault: reserved names are let through. *)
AnyNameValid(name) == TRUE

ValidName(name) == name \notin Reserved

(* Fault: the owner is forgotten. *)
SubscribersOnly(s, l) == s.subscribers[l]

(* Everyone who hears a link: its subscribers and its owner.               *)
Audience(s, l) == s.subscribers[l] \cup ({s.owner[l]} \ {Nil})

NodeNameFree(s, n, l) ==
    \A m \in Audience(s, l) : m # n => s.name[m] # s.name[n]

LinkNameFree(s, l, others) ==
    \A k \in others : k # l => s.name[k] # s.name[l]

ClosedUpward(s, S) == \A m \in S : s.parent[m] \in S \cup {Nil}

(* Fault: only a node's nesting in itself is turned down. *)
SelfOnly(s, n) == {n}

(* The walk up from a node, as the least set that holds the node and the   *)
(* parent of each of its members.                                          *)
AncestorsAndSelf(s, n) ==
    {m \in NodeIds : \A S \in SUBSET NodeIds : n \in S /\ ClosedUpward(s, S) => m \in S}

ClosedDownward(s, S) == \A m \in S : s.children[m] \subseteq S

(* Fault: what is nested in the node is left alone. *)
NodeAlone(s, n) == {n}

(* The subtree remove_node collects breadth first through `children`.      *)
Subtree(s, n) ==
    {m \in NodeIds : \A S \in SUBSET NodeIds : n \in S /\ ClosedDownward(s, S) => m \in S}

CanUseLink(s, n, l) ==
    /\ n \in s.nodes
    /\ l \in s.subscriptions[n] \cup s.internal[n]

-----------------------------------------------------------------------------
(* Checks that change nothing *)

CanAddInternalLink(s, o, l) ==
    /\ o \in s.nodes
    /\ l \in s.links
    /\ s.owner[l] \in {Nil, o}
    /\ s.owner[l] = Nil =>
          /\ LinkNameFree(s, l, s.internal[o])
          /\ o # Root => NodeNameFree(s, o, l)

(* Fault: the names of the node's other subscriptions are not looked at. *)
SubscribeByNodeName(s, n, l) ==
    /\ n \in s.nodes
    /\ l \in s.links
    /\ n \notin s.subscribers[l] => NodeNameFree(s, n, l)

CanSubscribe(s, n, l) ==
    /\ n \in s.nodes
    /\ l \in s.links
    /\ n \notin s.subscribers[l] =>
          /\ LinkNameFree(s, l, s.subscriptions[n])
          /\ NodeNameFree(s, n, l)

(* Fault: the two newcomers are not held against each other. *)
ConnectLinkEachAlone(s, p, n, l) == CanAddInternalLink(s, p, l) /\ CanSubscribe(s, n, l)

(* connect's checks on the link: both halves' own checks and, because the  *)
(* parent is about to join the audience as owner, the clash between the    *)
(* two newcomers.                                                          *)
CanConnectLink(s, p, n, l) ==
    /\ CanAddInternalLink(s, p, l)
    /\ CanSubscribe(s, n, l)
    /\ s.owner[l] = Nil /\ p # Root => s.name[p] # s.name[n]

CanConnect(s, p, n, l) ==
    /\ {p, n} \subseteq s.nodes
    /\ n # Root
    /\ s.parent[n] \in {Nil, p}
    /\ n \notin AncestorsAndSelf(s, p)
    /\ l # Nil => CanConnectLink(s, p, n, l)

-----------------------------------------------------------------------------
(* Writes: the part of an operation after its checks *)

WithOwner(s, o, l) ==
    [s EXCEPT !.owner[l] = o, !.internal[o] = @ \cup {l}]

WithSubscriber(s, n, l) ==
    [s EXCEPT !.subscribers[l] = @ \cup {n}, !.subscriptions[n] = @ \cup {l}]

(* Fault: the edge is recorded at the child only. *)
ParentOnly(s, p, n) == [s EXCEPT !.parent[n] = p]

WithParent(s, p, n) ==
    [s EXCEPT !.parent[n] = p, !.children[p] = @ \cup {n}]

WithoutParent(s, p, n) ==
    [s EXCEPT !.parent[n] = Nil, !.children[p] = @ \ {n}]

(* unsubscribe for every link of L at once: disconnect runs it in a loop.  *)
WithoutSubscriber(s, n, L) ==
    [s EXCEPT !.subscribers = [l \in LinkIds |-> IF l \in L THEN @[l] \ {n} ELSE @[l]],
              !.subscriptions[n] = @ \ L]

(* drop_link for every link of L: the subscribers and the owner the link   *)
(* itself records are the ones that forget it.                             *)
WithoutLinks(s, L) ==
    [s EXCEPT !.links = @ \ L,
              !.name = [h \in NodeIds \cup LinkIds |-> IF h \in L THEN Nil ELSE @[h]],
              !.subscriptions = [n \in NodeIds |-> @[n] \ {l \in L : n \in s.subscribers[l]}],
              !.internal = [n \in NodeIds |-> @[n] \ {l \in L : n = s.owner[l]}],
              !.owner = [l \in LinkIds |-> IF l \in L THEN Nil ELSE @[l]],
              !.subscribers = [l \in LinkIds |-> IF l \in L THEN {} ELSE @[l]]]

(* The nodes of D leave every link they subscribe to and are deleted.      *)
WithoutNodes(s, D) ==
    [s EXCEPT !.nodes = @ \ D,
              !.name = [h \in NodeIds \cup LinkIds |-> IF h \in D THEN Nil ELSE @[h]],
              !.parent = [n \in NodeIds |-> IF n \in D THEN Nil ELSE @[n]],
              !.children = [n \in NodeIds |-> IF n \in D THEN {} ELSE @[n]],
              !.internal = [n \in NodeIds |-> IF n \in D THEN {} ELSE @[n]],
              !.subscriptions = [n \in NodeIds |-> IF n \in D THEN {} ELSE @[n]],
              !.subscribers =
                  [l \in LinkIds |-> @[l] \ {n \in D : l \in s.subscriptions[n]}]]

-----------------------------------------------------------------------------
(* Operations.  `id` is the handle the slot map hands out.                 *)

CreateNode(s, id, name) ==
    IF ~ValidName(name) THEN Rejected(s)
    ELSE Done([s EXCEPT !.nodes = @ \cup {id}, !.issued = @ \cup {id}, !.name[id] = name])

CreateLink(s, id, name) ==
    IF ~ValidName(name) THEN Rejected(s)
    ELSE Done([s EXCEPT !.links = @ \cup {id}, !.issued = @ \cup {id}, !.name[id] = name])

AddInternalLink(s, o, l) ==
    IF CanAddInternalLink(s, o, l) THEN Done(WithOwner(s, o, l)) ELSE Rejected(s)

Subscribe(s, n, l) ==
    IF CanSubscribe(s, n, l) THEN Done(WithSubscriber(s, n, l)) ELSE Rejected(s)

(* Nests first, then runs the two checked operations: were one of them to  *)
(* fail, the writes before it would stay.                                  *)
Connect(s, p, n, l) ==
    IF ~CanConnect(s, p, n, l) THEN Rejected(s)
    ELSE LET nested == IF s.parent[n] = Nil THEN WithParent(s, p, n) ELSE s
             owned == AddInternalLink(nested, p, l)
         IN  IF l = Nil THEN Done(nested)
             ELSE IF owned.ok THEN Subscribe(owned.net, n, l) ELSE owned

Unsubscribe(s, n, l) ==
    IF n \in s.nodes /\ l \in s.links THEN Done(WithoutSubscriber(s, n, {l})) ELSE Rejected(s)

(* Fault: the node leaves links its parent does not own. *)
LeaveEveryLink(s, p, n) ==
    IF ~({p, n} \subseteq s.nodes /\ s.parent[n] = p) THEN Rejected(s)
    ELSE Done(WithoutParent(WithoutSubscriber(s, n, s.links), p, n))

(* The loop over the parent's internal links stops with an error at a link *)
(* handle that does not resolve, leaving the earlier ones unsubscribed.    *)
Disconnect(s, p, n) ==
    IF ~({p, n} \subseteq s.nodes /\ s.parent[n] = p) THEN Rejected(s)
    ELSE LET left == WithoutSubscriber(s, n, s.internal[p] \cap s.links)
         IN  IF s.internal[p] \subseteq s.links
             THEN Done(WithoutParent(left, p, n))
             ELSE Rejected(left)

RemoveNode(s, n) ==
    IF n \notin s.nodes \ {Root} THEN Rejected(s)
    ELSE LET doomed == Subtree(s, n)
             orphaned == {l \in s.links : \E m \in doomed : l \in s.internal[m]}
             unlinked == WithoutNodes(WithoutLinks(s, orphaned), doomed)
         IN  Done(IF s.parent[n] \in NodeIds \ doomed
                  THEN [unlinked EXCEPT !.children[s.parent[n]] = @ \ {n}]
                  ELSE unlinked)

RemoveLink(s, l) ==
    IF l \in s.links THEN Done(WithoutLinks(s, {l})) ELSE Rejected(s)

-----------------------------------------------------------------------------
(* What it takes for a network to be in order *)

(* A handle that does not resolve has left nothing behind; the handles in  *)
(* use are among those handed out; names are legal, the root's its own.    *)
Resolved(s) ==
    /\ s.nodes \cup s.links \subseteq s.issued
    /\ Root \in s.nodes /\ s.name[Root] = RootName
    /\ \A h \in (s.nodes \cup s.links) \ {Root} : s.name[h] \in Names \ Reserved
    /\ \A n \in NodeIds :
          /\ n \notin s.nodes => s.parent[n] = Nil /\ s.subscriptions[n] = {}
          /\ s.parent[n] \in s.nodes \cup {Nil}
    /\ \A l \in LinkIds :
          /\ l \notin s.links => s.owner[l] = Nil /\ s.subscribers[l] = {}
          /\ s.owner[l] \in s.nodes \cup {Nil}

(* Both ends of every edge say the same.                                   *)
Paired(s) ==
    /\ \A m, n \in NodeIds : n \in s.children[m] <=> s.parent[n] = m
    /\ \A n \in NodeIds, l \in LinkIds :
          /\ l \in s.internal[n] <=> s.owner[l] = n
          /\ l \in s.subscriptions[n] <=> n \in s.subscribers[l]

(* In any set of nodes one has its parent outside: the walk up ends.       *)
Forest(s) ==
    /\ s.parent[Root] = Nil
    /\ \A S \in SUBSET NodeIds : S # {} => \E m \in S : s.parent[m] \notin S

(* No two nodes that hear a link share a name.                             *)
Addressable(s) ==
    \A l \in s.links : \A m, n \in s.subscribers[l] \cup ({s.owner[l]} \ {Nil}) :
        s.name[m] = s.name[n] => m = n

(* The links a node subscribes to have distinct names, and so have those   *)
(* it owns.                                                                *)
Distinguishable(s) ==
    \A n \in s.nodes :
        /\ \A k, l \in s.subscriptions[n] : s.name[k] = s.name[l] => k = l
        /\ \A k, l \in s.internal[n] : s.name[k] = s.name[l] => k = l

InOrder(s) ==
    /\ s \in NetworkType
    /\ Resolved(s)
    /\ Paired(s)
    /\ Forest(s)
    /\ Addressable(s)
    /\ Distinguishable(s)
=============================================================================
