---------------------------- MODULE WorldProofs ------------------------------
(***************************************************************************)
(* The graph, and the world that runs on it.                               *)
(*                                                                         *)
(* The graph first: every reachable network is in order, for any number of *)
(* nodes, links and names, and implements Topology: each operation is one  *)
(* step there, or none.  InOrder is inductive; NetworkOpsProofs has a      *)
(* lemma for each operation saying that it keeps it.                       *)
(*                                                                         *)
(* Then what a world keeps to whatever its limits, its network, its logics *)
(* and its host: the hop budget, the bound on a tick, the fuse on          *)
(* deliveries, the report of refused sends, and the queue.  The invariant  *)
(* has four parts: what the packets under way look like, where tick() is,  *)
(* how the places of the queue are accounted for, and what the host has    *)
(* collected.                                                              *)
(***************************************************************************)
EXTENDS World, Network, NetworkOpsProofs, SequenceTheorems, FiniteSetTheorems

USE NetworkAssumption

-----------------------------------------------------------------------------
(* The graph: Network *)

(* One step: whatever the operation, the network it leaves is in order,    *)
(* and it is the network it was given if the operation was rejected.       *)
LEMMA StepInOrder ==
    ASSUME InOrder(network), NetworkNext
    PROVE  InOrder(network') /\ (ok' \/ network' = network) /\ ok' \in BOOLEAN
<1> DEFINE Good == InOrder(network') /\ (ok' \/ network' = network) /\ ok' \in BOOLEAN
<1>1. ASSUME DoCreateNode PROVE Good
  <2>1. PICK id \in NodeIds \ network.issued, name \in Names : Perform(CreateNode(network, id, name))
    BY <1>1 DEF DoCreateNode
  <2> QED
    BY <2>1, CreateNodeInOrder DEF Perform
<1>2. ASSUME DoCreateLink PROVE Good
  <2>1. PICK id \in LinkIds \ network.issued, name \in Names : Perform(CreateLink(network, id, name))
    BY <1>2 DEF DoCreateLink
  <2> QED
    BY <2>1, CreateLinkInOrder DEF Perform
<1>3. ASSUME DoAddInternalLink PROVE Good
  <2>1. PICK o \in NodeIds, l \in LinkIds : Perform(AddInternalLink(network, o, l))
    BY <1>3 DEF DoAddInternalLink
  <2> QED
    BY <2>1, OwnerInOrder DEF Perform, AddInternalLink, Done, Rejected
<1>4. ASSUME DoSubscribe PROVE Good
  <2>1. PICK n \in NodeIds, l \in LinkIds : Perform(Subscribe(network, n, l))
    BY <1>4 DEF DoSubscribe
  <2> QED
    BY <2>1, SubscriberInOrder DEF Perform, Subscribe, Done, Rejected
<1>5. ASSUME DoUnsubscribe PROVE Good
  <2>1. PICK n \in NodeIds, l \in LinkIds : Perform(Unsubscribe(network, n, l))
    BY <1>5 DEF DoUnsubscribe
  <2>2. InOrder(WithoutSubscriber(network, n, {l}))
    BY UnsubscribedInOrder
  <2> QED
    BY <2>1, <2>2 DEF Perform, Unsubscribe, Done, Rejected
<1>6. ASSUME DoConnect PROVE Good
  <2>1. PICK p \in NodeIds, n \in NodeIds, l \in LinkIds \cup {Nil} : Perform(Connect(network, p, n, l))
    BY <1>6 DEF DoConnect
  <2> QED
    BY <2>1, ConnectAllOrNothing DEF Perform
<1>7. ASSUME DoDisconnect PROVE Good
  <2>1. PICK p \in NodeIds, n \in NodeIds : Perform(Disconnect(network, p, n))
    BY <1>7 DEF DoDisconnect
  <2> QED
    BY <2>1, DisconnectAllOrNothing DEF Perform
<1>8. ASSUME DoRemoveNode PROVE Good
  <2>1. PICK n \in NodeIds : Perform(RemoveNode(network, n))
    BY <1>8 DEF DoRemoveNode
  <2> QED
    BY <2>1, RemoveNodeInOrder DEF Perform
<1>9. ASSUME DoRemoveLink PROVE Good
  <2>1. PICK l \in LinkIds : Perform(RemoveLink(network, l))
    BY <1>9 DEF DoRemoveLink
  <2> QED
    BY <2>1, RemoveLinkInOrder DEF Perform
<1> QED
  BY <1>1, <1>2, <1>3, <1>4, <1>5, <1>6, <1>7, <1>8, <1>9 DEF NetworkNext

(* Every reachable network is in order.                                    *)
THEOREM NetworkInOrder == NetworkSpec => [](InOrder(network) /\ ok \in BOOLEAN)
<1> DEFINE IInv == InOrder(network) /\ ok \in BOOLEAN
<1>1. NetworkInit => IInv
  BY NewNetworkInOrder DEF NetworkInit
<1>2. IInv /\ [NetworkNext]_networkVars => IInv'
  <2> SUFFICES ASSUME IInv, [NetworkNext]_networkVars PROVE IInv'
    OBVIOUS
  <2>1. CASE NetworkNext
    BY <2>1, StepInOrder
  <2>2. CASE UNCHANGED networkVars
    BY <2>2 DEF networkVars
  <2> QED
    BY <2>1, <2>2
<1> QED
  BY <1>1, <1>2, PTL DEF NetworkSpec

(* The fields keep their types.                                            *)
THEOREM NetworkTyped == NetworkSpec => []TypeOK
<1>1. InOrder(network) /\ ok \in BOOLEAN => TypeOK
  BY DEF InOrder, TypeOK
<1> QED
  BY <1>1, NetworkInOrder, PTL

(* A removed node or link has left nothing behind.                         *)
THEOREM HandlesResolve == NetworkSpec => []NothingDangles
<1>1. InOrder(network) => NothingDangles
  BY DEF InOrder, NothingDangles
<1> QED
  BY <1>1, NetworkInOrder, PTL

(* Both ends of every edge say the same.                                   *)
THEOREM EndsAlwaysAgree == NetworkSpec => []EndsAgree
<1>1. InOrder(network) => EndsAgree
  BY DEF InOrder, EndsAgree
<1> QED
  BY <1>1, NetworkInOrder, PTL

(* No cycle of parents, so every walk up or down the hierarchy returns.    *)
THEOREM HierarchyIsForest == NetworkSpec => []WalksEnd
<1>1. InOrder(network) => WalksEnd
  BY DEF InOrder, WalksEnd
<1> QED
  BY <1>1, NetworkInOrder, PTL

(* A name on a link is the address of one node.                            *)
THEOREM NamesAreAddresses == NetworkSpec => []AddressesUnique
<1>1. InOrder(network) => AddressesUnique
  BY DEF InOrder, AddressesUnique
<1> QED
  BY <1>1, NetworkInOrder, PTL

(* A node's links go by distinct names.                                    *)
THEOREM LinkNamesDistinct == NetworkSpec => []LinkNamesUnique
<1>1. InOrder(network) => LinkNamesUnique
  BY DEF InOrder, LinkNamesUnique
<1> QED
  BY <1>1, NetworkInOrder, PTL

(* An operation that is rejected changes nothing.                          *)
THEOREM AllOrNothing == NetworkSpec => RejectionChangesNothing
<1>1. InOrder(network) /\ [NetworkNext]_networkVars => [ok' = FALSE => network' = network]_networkVars
  BY StepInOrder DEF networkVars
<1> QED
  BY <1>1, NetworkInOrder, PTL DEF NetworkSpec, RejectionChangesNothing

-----------------------------------------------------------------------------
(* The structs that record every edge at both ends implement the relations *)
(* of Topology: what the operations write is in order, so the end that an  *)
(* operation walks along shows the edges that Topology speaks of.          *)

(* The edges between nodes and links, read off the nodes.                  *)
Members(s) == {e \in NodeIds \X LinkIds : e[2] \in s.subscriptions[e[1]]}

LEMMA MembersAre ==
    ASSUME NEW s, NEW n \in NodeIds, NEW l \in LinkIds
    PROVE  <<n, l>> \in Members(s) <=> l \in s.subscriptions[n]
BY DEF Members

(* Two sets of such edges are equal if they have the same of them.         *)
LEMMA SameEdges ==
    ASSUME NEW E, NEW F, E \subseteq NodeIds \X LinkIds, F \subseteq NodeIds \X LinkIds,
           \A n \in NodeIds, l \in LinkIds : <<n, l>> \in E <=> <<n, l>> \in F
    PROVE  E = F
OBVIOUS

LEMMA Unmoved ==
    ASSUME network' = network
    PROVE  UNCHANGED Abstract!vars
BY DEF Abstract!vars

-----------------------------------------------------------------------------
(* New nodes and links, joining, leaving and owning                        *)

LEMMA NodesAppear ==
    ASSUME InOrder(network), DoCreateNode
    PROVE  [Abstract!Next]_(Abstract!vars)
<1>1. PICK id \in NodeIds \ network.issued, name \in Names : network' = CreateNode(network, id, name).net
  BY DEF DoCreateNode, Perform
<1>2. CASE ~ValidName(name)
  BY <1>1, <1>2, Unmoved DEF CreateNode, Rejected
<1>3. CASE ValidName(name)
  <2>1. network' = [network EXCEPT !.nodes = @ \cup {id}, !.issued = @ \cup {id}, !.name[id] = name]
    BY <1>1, <1>3 DEF CreateNode, Done
  <2>2. /\ network'.nodes = network.nodes \cup {id} /\ id \notin network.nodes
        /\ UNCHANGED <<network.links, network.parent, network.owner, network.subscriptions>>
    BY <1>1, <2>1 DEF InOrder, NetworkType, Resolved
  <2>3. Abstract!AddNode(id)
    BY <2>2 DEF Abstract!AddNode
  <2> QED
    BY <2>3 DEF Abstract!Next
<1> QED
  BY <1>2, <1>3

LEMMA LinksAppear ==
    ASSUME InOrder(network), DoCreateLink
    PROVE  [Abstract!Next]_(Abstract!vars)
<1>1. PICK id \in LinkIds \ network.issued, name \in Names : network' = CreateLink(network, id, name).net
  BY DEF DoCreateLink, Perform
<1>2. CASE ~ValidName(name)
  BY <1>1, <1>2, Unmoved DEF CreateLink, Rejected
<1>3. CASE ValidName(name)
  <2>1. network' = [network EXCEPT !.links = @ \cup {id}, !.issued = @ \cup {id}, !.name[id] = name]
    BY <1>1, <1>3 DEF CreateLink, Done
  <2>2. /\ network'.links = network.links \cup {id} /\ id \notin network.links
        /\ UNCHANGED <<network.nodes, network.parent, network.owner, network.subscriptions>>
    BY <1>1, <2>1 DEF InOrder, NetworkType, Resolved
  <2>3. Abstract!AddLink(id)
    BY <2>2 DEF Abstract!AddLink
  <2> QED
    BY <2>3 DEF Abstract!Next
<1> QED
  BY <1>2, <1>3

LEMMA OwnersAppear ==
    ASSUME InOrder(network), DoAddInternalLink
    PROVE  [Abstract!Next]_(Abstract!vars)
<1>1. PICK o \in NodeIds, l \in LinkIds : network' = AddInternalLink(network, o, l).net
  BY DEF DoAddInternalLink, Perform
<1>2. CASE ~CanAddInternalLink(network, o, l)
  BY <1>1, <1>2, Unmoved DEF AddInternalLink, Rejected
<1>3. CASE CanAddInternalLink(network, o, l)
  <2>1. /\ network'.owner = [network.owner EXCEPT ![l] = o]
        /\ UNCHANGED <<network.nodes, network.links, network.parent, network.subscriptions>>
    BY <1>1, <1>3 DEF AddInternalLink, Done, WithOwner, InOrder, NetworkType
  <2>2. o \in network.nodes /\ l \in network.links /\ network.owner[l] \in {Nil, o}
    BY <1>3 DEF CanAddInternalLink
  <2>3. CASE network.owner[l] = Nil
    BY <2>1, <2>2, <2>3 DEF Abstract!Next, Abstract!Own
  <2>4. CASE network.owner[l] = o
    <3>1. network'.owner = network.owner
      BY <2>1, <2>4 DEF InOrder, NetworkType
    <3> QED
      BY <2>1, <3>1 DEF Abstract!vars
  <2> QED
    BY <2>2, <2>3, <2>4
<1> QED
  BY <1>2, <1>3

LEMMA SubscriptionAdds ==
    ASSUME NEW s \in NetworkType, NEW n \in NodeIds, NEW l \in LinkIds
    PROVE  Members(WithSubscriber(s, n, l)) = Members(s) \cup {<<n, l>>}
<1> DEFINE t == WithSubscriber(s, n, l)
<1>1. \A m \in NodeIds : t.subscriptions[m] = IF m = n THEN s.subscriptions[n] \cup {l} ELSE s.subscriptions[m]
  BY DEF WithSubscriber, NetworkType
<1>2. \A m \in NodeIds, k \in LinkIds : <<m, k>> \in Members(t) <=> <<m, k>> \in Members(s) \cup {<<n, l>>}
  BY <1>1, MembersAre, ZenonT(60)
<1>3. Members(t) \subseteq NodeIds \X LinkIds /\ Members(s) \cup {<<n, l>>} \subseteq NodeIds \X LinkIds
  BY DEF Members
<1> QED
  BY <1>2, <1>3, SameEdges

LEMMA SubscriptionLeaves ==
    ASSUME NEW s \in NetworkType, NEW n \in NodeIds, NEW L \in SUBSET LinkIds
    PROVE  Members(WithoutSubscriber(s, n, L)) = Members(s) \ {<<n, l>> : l \in L}
<1> DEFINE t == WithoutSubscriber(s, n, L)
           gone == {<<n, l>> : l \in L}
<1>1. \A m \in NodeIds : t.subscriptions[m] = IF m = n THEN s.subscriptions[n] \ L ELSE s.subscriptions[m]
  BY DEF WithoutSubscriber, NetworkType
<1>2. \A m \in NodeIds, k \in LinkIds : <<m, k>> \in gone <=> m = n /\ k \in L
  OBVIOUS
<1>3. \A m \in NodeIds, k \in LinkIds : <<m, k>> \in Members(t) <=> <<m, k>> \in Members(s) \ gone
  BY <1>1, <1>2, MembersAre
<1>4. Members(t) \subseteq NodeIds \X LinkIds /\ Members(s) \ gone \subseteq NodeIds \X LinkIds
  BY DEF Members
<1> QED
  BY <1>3, <1>4, SameEdges

LEMMA MembersJoin ==
    ASSUME InOrder(network), DoSubscribe
    PROVE  [Abstract!Next]_(Abstract!vars)
<1>1. PICK n \in NodeIds, l \in LinkIds : network' = Subscribe(network, n, l).net
  BY DEF DoSubscribe, Perform
<1>2. CASE ~CanSubscribe(network, n, l)
  BY <1>1, <1>2, Unmoved DEF Subscribe, Rejected
<1>3. CASE CanSubscribe(network, n, l)
  <2>1. network' = WithSubscriber(network, n, l)
    BY <1>1, <1>3 DEF Subscribe, Done
  <2>2. UNCHANGED <<network.nodes, network.links, network.parent, network.owner>>
    BY <2>1 DEF WithSubscriber, InOrder, NetworkType
  <2>3. Members(network') = Members(network) \cup {<<n, l>>}
    BY <2>1, SubscriptionAdds DEF InOrder
  <2>4. n \in network.nodes /\ l \in network.links
    BY <1>3 DEF CanSubscribe
  <2>5. Abstract!Join(n, l)
    BY <2>2, <2>3, <2>4 DEF Abstract!Join, Members
  <2> QED
    BY <2>5 DEF Abstract!Next
<1> QED
  BY <1>2, <1>3

LEMMA MembersLeave ==
    ASSUME InOrder(network), DoUnsubscribe
    PROVE  [Abstract!Next]_(Abstract!vars)
<1>1. PICK n \in NodeIds, l \in LinkIds : network' = Unsubscribe(network, n, l).net
  BY DEF DoUnsubscribe, Perform
<1>2. CASE ~(n \in network.nodes /\ l \in network.links)
  BY <1>1, <1>2, Unmoved DEF Unsubscribe, Rejected
<1>3. CASE n \in network.nodes /\ l \in network.links
  <2>1. network' = WithoutSubscriber(network, n, {l})
    BY <1>1, <1>3 DEF Unsubscribe, Done
  <2>2. UNCHANGED <<network.nodes, network.links, network.parent, network.owner>>
    BY <2>1 DEF WithoutSubscriber, InOrder, NetworkType
  <2>3. Members(network') = Members(network) \ {<<n, k>> : k \in {l}}
    BY <2>1, SubscriptionLeaves DEF InOrder
  <2>4. {<<n, k>> : k \in {l}} = {<<n, l>>}
    OBVIOUS
  <2>5. Abstract!Leave(n, l)
    BY <2>2, <2>3, <2>4 DEF Abstract!Leave, Members
  <2> QED
    BY <2>5 DEF Abstract!Next
<1> QED
  BY <1>2, <1>3

-----------------------------------------------------------------------------
(* connect and disconnect *)

(* What is above a node is the same walk in both.                          *)
LEMMA AboveIsWalk ==
    ASSUME NEW n \in NodeIds
    PROVE  Abstract!Above(n) = AncestorsAndSelf(network, n)
BY DEF Abstract!Above, AncestorsAndSelf, ClosedUpward

(* The two checked operations connect ends with are let through, so that   *)
(* its writes are all done.                                                *)
LEMMA ConnectWrites ==
    ASSUME NEW s, InOrder(s), NEW p \in NodeIds, NEW n \in NodeIds, NEW l \in LinkIds,
           CanConnect(s, p, n, l)
    PROVE  LET u == IF s.parent[n] = Nil THEN WithParent(s, p, n) ELSE s
           IN  Connect(s, p, n, l).net = WithSubscriber(WithOwner(u, p, l), n, l)
<1> DEFINE u == IF s.parent[n] = Nil THEN WithParent(s, p, n) ELSE s
<1>1. CanAddInternalLink(u, p, l) /\ CanSubscribe(WithOwner(u, p, l), n, l)
  BY ConnectOwns, ConnectSubscribes
<1>2. l # Nil
  BY NetworkAssumption
<1> HIDE DEF u
<1>3. Connect(s, p, n, l) = LET owned == AddInternalLink(u, p, l)
                            IN  IF owned.ok THEN Subscribe(owned.net, n, l) ELSE owned
  BY <1>2 DEF Connect, u
<1>4. AddInternalLink(u, p, l) = Done(WithOwner(u, p, l))
  BY <1>1 DEF AddInternalLink
<1>5. Subscribe(WithOwner(u, p, l), n, l) = Done(WithSubscriber(WithOwner(u, p, l), n, l))
  BY <1>1 DEF Subscribe
<1>6. Connect(s, p, n, l).net = WithSubscriber(WithOwner(u, p, l), n, l)
  BY <1>3, <1>4, <1>5 DEF Done
<1> QED
  BY <1>6 DEF u

LEMMA ChildrenAttach ==
    ASSUME InOrder(network), DoConnect
    PROVE  [Abstract!Next]_(Abstract!vars)
<1>1. PICK p \in NodeIds, n \in NodeIds, l \in LinkIds \cup {Nil} : network' = Connect(network, p, n, l).net
  BY DEF DoConnect, Perform
<1>2. CASE ~CanConnect(network, p, n, l)
  BY <1>1, <1>2, Unmoved DEF Connect, Rejected
<1>3. CASE CanConnect(network, p, n, l)
  <2> DEFINE u == IF network.parent[n] = Nil THEN WithParent(network, p, n) ELSE network
  <2>1. /\ {p, n} \subseteq network.nodes /\ n # Root
        /\ network.parent[n] \in {Nil, p} /\ n \notin Abstract!Above(p)
    BY <1>3, AboveIsWalk DEF CanConnect
  <2>2. u \in NetworkType
    BY ParentTyped DEF InOrder
  <2>3. /\ u.parent = [network.parent EXCEPT ![n] = p]
        /\ u.nodes = network.nodes /\ u.links = network.links /\ u.owner = network.owner
        /\ u.subscriptions = network.subscriptions
    BY <2>1 DEF WithParent, InOrder, NetworkType
  <2> HIDE DEF u
  <2>4. CASE l = Nil
    <3>1. network' = u
      BY <1>1, <1>3, <2>4 DEF Connect, Done, u
    <3>2. Abstract!Attach(p, n, l)
      BY <2>1, <2>3, <2>4, <3>1 DEF Abstract!Attach
    <3> QED
      BY <3>2 DEF Abstract!Next
  <2>5. CASE l \in LinkIds
    <3> DEFINE t == WithOwner(u, p, l)
    <3>1. network' = WithSubscriber(t, n, l)
      BY <1>1, <1>3, <2>5, ConnectWrites DEF u
    <3>2. t \in NetworkType
      BY <2>2, <2>5, OwnerTyped
    <3>3. /\ t.owner = [u.owner EXCEPT ![l] = p]
          /\ t.nodes = u.nodes /\ t.links = u.links /\ t.parent = u.parent
          /\ t.subscriptions = u.subscriptions
      BY <2>2 DEF WithOwner, NetworkType
    <3> HIDE DEF t
    <3>4. /\ network'.nodes = t.nodes /\ network'.links = t.links
          /\ network'.parent = t.parent /\ network'.owner = t.owner
      BY <3>1, <3>2 DEF WithSubscriber, NetworkType
    <3>5. Members(network') = Members(t) \cup {<<n, l>>}
      BY <2>5, <3>1, <3>2, SubscriptionAdds
    <3>6. Members(t) = Members(network)
      BY <2>3, <3>3 DEF Members
    <3>7. l \in network.links /\ network.owner[l] \in {Nil, p}
      BY <1>3, <2>5 DEF CanConnect, CanConnectLink, CanAddInternalLink
    <3>8. Abstract!Attach(p, n, l)
      BY <2>1, <2>3, <3>3, <3>4, <3>5, <3>6, <3>7 DEF Abstract!Attach, Members
    <3> QED
      BY <3>8 DEF Abstract!Next
  <2> QED
    BY <2>4, <2>5
<1> QED
  BY <1>2, <1>3

(* The links a child is taken off are those its parent records as its own. *)
LEMMA ChildrenDetach ==
    ASSUME InOrder(network), DoDisconnect
    PROVE  [Abstract!Next]_(Abstract!vars)
<1>1. PICK p \in NodeIds, n \in NodeIds : network' = Disconnect(network, p, n).net
  BY DEF DoDisconnect, Perform
<1>2. CASE ~({p, n} \subseteq network.nodes /\ network.parent[n] = p)
  BY <1>1, <1>2, Unmoved DEF Disconnect, Rejected
<1>3. CASE {p, n} \subseteq network.nodes /\ network.parent[n] = p
  <2> DEFINE L == network.internal[p] \cap network.links
             left == WithoutSubscriber(network, n, L)
  <2>1. network' = WithoutParent(left, p, n)
    BY <1>1, <1>3, InternalLinksResolve DEF Disconnect, Done
  <2>2. L \in SUBSET LinkIds /\ L = {k \in network.links : network.owner[k] = network.parent[n]}
    BY <1>3 DEF InOrder, NetworkType, Paired
  <2>3. /\ left.parent = network.parent /\ left.nodes = network.nodes
        /\ left.links = network.links /\ left.owner = network.owner
    BY DEF WithoutSubscriber, InOrder, NetworkType
  <2>4. Members(left) = Members(network) \ {<<n, l>> : l \in L}
    BY <2>2, SubscriptionLeaves DEF InOrder
  <2>5. left \in NetworkType
    BY <2>2, UnsubscribedInOrder DEF InOrder
  <2> HIDE DEF left
  <2>6. /\ network'.parent = [left.parent EXCEPT ![n] = Nil]
        /\ network'.nodes = left.nodes /\ network'.links = left.links /\ network'.owner = left.owner
        /\ network'.subscriptions = left.subscriptions
    BY <2>1, <2>5 DEF WithoutParent, NetworkType
  <2>7. Members(network') = Members(left)
    BY <2>6 DEF Members
  <2>8. network.parent[n] # Nil
    BY <1>3, NetworkAssumption
  <2>9. Abstract!Detach(n)
    BY <2>2, <2>3, <2>4, <2>6, <2>7, <2>8 DEF Abstract!Detach, Members
  <2> QED
    BY <2>9 DEF Abstract!Next
<1> QED
  BY <1>2, <1>3

-----------------------------------------------------------------------------
(* remove_link and remove_node *)

(* The subscribers a link records are all the nodes that show it.          *)
LEMMA LinksCut ==
    ASSUME NEW s, InOrder(s), NEW L \in SUBSET s.links
    PROVE  LET t == WithoutLinks(s, L)
           IN  /\ t.nodes = s.nodes /\ t.links = s.links \ L /\ t.parent = s.parent
               /\ t.owner = [l \in LinkIds |-> IF l \in L THEN Nil ELSE s.owner[l]]
               /\ Members(t) = {e \in Members(s) : e[2] \notin L}
<1> DEFINE t == WithoutLinks(s, L)
<1>1. /\ t.nodes = s.nodes /\ t.links = s.links \ L /\ t.parent = s.parent
      /\ t.owner = [l \in LinkIds |-> IF l \in L THEN Nil ELSE s.owner[l]]
      /\ t.subscriptions = [n \in NodeIds |-> s.subscriptions[n] \ {l \in L : n \in s.subscribers[l]}]
  BY DEF WithoutLinks, InOrder, NetworkType
<1>2. L \subseteq LinkIds
  BY DEF InOrder, NetworkType
<1>3. \A n \in NodeIds, l \in LinkIds : l \in t.subscriptions[n] <=> l \in s.subscriptions[n] /\ l \notin L
  BY <1>1, <1>2 DEF InOrder, Paired
<1> HIDE DEF t
<1> DEFINE kept == {e \in Members(s) : e[2] \notin L}
<1>4. \A n \in NodeIds, l \in LinkIds : <<n, l>> \in kept <=> <<n, l>> \in Members(s) /\ l \notin L
  OBVIOUS
<1>5. \A n \in NodeIds, l \in LinkIds : <<n, l>> \in Members(t) <=> <<n, l>> \in kept
  BY <1>3, <1>4, MembersAre
<1>6. Members(t) \subseteq NodeIds \X LinkIds /\ kept \subseteq NodeIds \X LinkIds
  BY DEF Members
<1>7. Members(t) = kept
  BY <1>5, <1>6, SameEdges
<1> QED
  BY <1>1, <1>7 DEF t

LEMMA LinksGo ==
    ASSUME InOrder(network), DoRemoveLink
    PROVE  [Abstract!Next]_(Abstract!vars)
<1>1. PICK l \in LinkIds : network' = RemoveLink(network, l).net
  BY DEF DoRemoveLink, Perform
<1>2. CASE l \notin network.links
  BY <1>1, <1>2, Unmoved DEF RemoveLink, Rejected
<1>3. CASE l \in network.links
  <2>1. network' = WithoutLinks(network, {l})
    BY <1>1, <1>3 DEF RemoveLink, Done
  <2>2. /\ network'.nodes = network.nodes /\ network'.links = network.links \ {l} /\ network'.parent = network.parent
        /\ network'.owner = [k \in LinkIds |-> IF k \in {l} THEN Nil ELSE network.owner[k]]
        /\ Members(network') = {e \in Members(network) : e[2] \notin {l}}
    BY <1>3, <2>1, LinksCut
  <2>3. network'.owner = [network.owner EXCEPT ![l] = Nil]
    BY <2>2 DEF InOrder, NetworkType
  <2>4. Abstract!Cut(l)
    BY <1>3, <2>2, <2>3 DEF Abstract!Cut, Members
  <2> QED
    BY <2>4 DEF Abstract!Next
<1> QED
  BY <1>2, <1>3

(* The walk down from n, along children, finds exactly the nodes whose     *)
(* walk up, along parents, comes past n.                                   *)
LEMMA SubtreeIsBelow ==
    ASSUME NEW s, InOrder(s), NEW n \in NodeIds, NEW m \in NodeIds
    PROVE  m \in Subtree(s, n) <=> n \in AncestorsAndSelf(s, m)
<1> DEFINE D == Subtree(s, n)
<1>1. ASSUME n \in AncestorsAndSelf(s, m), m \notin D PROVE FALSE
  <2> DEFINE S == NodeIds \ D
  <2>1. n \in D
    BY DEF Subtree
  <2>2. ASSUME NEW x \in S PROVE s.parent[x] \in S \cup {Nil}
    <3>1. s.parent[x] \notin D
      <4>1. SUFFICES ASSUME s.parent[x] \in D PROVE x \in D
        OBVIOUS
      <4>2. s.parent[x] \in NodeIds
        BY <4>1 DEF Subtree
      <4>3. x \in s.children[s.parent[x]]
        BY <4>2 DEF InOrder, Paired
      <4> QED
        BY <4>1, <4>3 DEF Subtree, ClosedDownward
    <3> QED
      BY <3>1 DEF InOrder, NetworkType
  <2>3. m \in S /\ S \in SUBSET NodeIds /\ ClosedUpward(s, S)
    BY <1>1, <2>2 DEF ClosedUpward
  <2>4. n \in S
    BY <1>1, <2>3 DEF AncestorsAndSelf
  <2> QED
    BY <2>1, <2>4
<1>2. ASSUME m \in D PROVE n \in AncestorsAndSelf(s, m)
  <2> DEFINE T == {x \in NodeIds : n \in AncestorsAndSelf(s, x)}
  <2>1. n \in T
    BY DEF AncestorsAndSelf
  <2>2. ASSUME NEW x \in T, NEW y \in s.children[x] PROVE y \in T
    <3>1. y \in NodeIds /\ s.parent[y] = x /\ x # Nil
      BY NetworkAssumption DEF InOrder, NetworkType, Paired
    <3>2. ASSUME NEW S \in SUBSET NodeIds, y \in S, ClosedUpward(s, S) PROVE n \in S
      <4>1. x \in S
        BY <3>1, <3>2 DEF ClosedUpward
      <4> QED
        BY <3>2, <4>1 DEF AncestorsAndSelf
    <3> QED
      BY <3>1, <3>2 DEF AncestorsAndSelf
  <2>3. T \in SUBSET NodeIds /\ ClosedDownward(s, T)
    BY <2>2 DEF ClosedDownward
  <2> QED
    BY <1>2, <2>1, <2>3 DEF Subtree
<1> QED
  BY <1>1, <1>2

(* The nodes of D show nothing any more, and nobody else shows less.       *)
LEMMA NodesCut ==
    ASSUME NEW s \in NetworkType, NEW D \in SUBSET NodeIds
    PROVE  LET t == WithoutNodes(s, D)
           IN  /\ t.nodes = s.nodes \ D /\ t.links = s.links /\ t.owner = s.owner
               /\ t.parent = [m \in NodeIds |-> IF m \in D THEN Nil ELSE s.parent[m]]
               /\ Members(t) = {e \in Members(s) : e[1] \notin D}
<1> DEFINE t == WithoutNodes(s, D)
           kept == {e \in Members(s) : e[1] \notin D}
<1>1. /\ t.nodes = s.nodes \ D /\ t.links = s.links /\ t.owner = s.owner
      /\ t.parent = [m \in NodeIds |-> IF m \in D THEN Nil ELSE s.parent[m]]
      /\ t.subscriptions = [m \in NodeIds |-> IF m \in D THEN {} ELSE s.subscriptions[m]]
  BY DEF WithoutNodes, NetworkType
<1> HIDE DEF t
<1>2. \A n \in NodeIds, l \in LinkIds : <<n, l>> \in kept <=> <<n, l>> \in Members(s) /\ n \notin D
  OBVIOUS
<1>3. ASSUME NEW n \in NodeIds, NEW l \in LinkIds
      PROVE  <<n, l>> \in Members(t) <=> <<n, l>> \in kept
  <2>1. l \in t.subscriptions[n] <=> l \in s.subscriptions[n] /\ n \notin D
    BY <1>1
  <2>2. <<n, l>> \in Members(t) <=> <<n, l>> \in Members(s) /\ n \notin D
    BY <2>1, MembersAre
  <2> QED
    BY <1>2, <2>2
<1>4. Members(t) \subseteq NodeIds \X LinkIds /\ kept \subseteq NodeIds \X LinkIds
  BY DEF Members
<1>5. Members(t) = kept
  BY <1>3, <1>4, SameEdges
<1> QED
  BY <1>1, <1>5 DEF t

LEMMA NodesGo ==
    ASSUME InOrder(network), DoRemoveNode
    PROVE  [Abstract!Next]_(Abstract!vars)
<1>1. PICK n \in NodeIds : network' = RemoveNode(network, n).net
  BY DEF DoRemoveNode, Perform
<1>2. CASE n \notin network.nodes \ {Root}
  BY <1>1, <1>2, Unmoved DEF RemoveNode, Rejected
<1>3. CASE n \in network.nodes \ {Root}
  <2> DEFINE D == Subtree(network, n)
             L == {l \in network.links : \E m \in D : l \in network.internal[m]}
             v == WithoutLinks(network, L)
             w == WithoutNodes(v, D)
  <2>1. D \subseteq network.nodes
    BY <1>3, SubtreeFacts
  <2>2. D = {m \in network.nodes : n \in Abstract!Above(m)}
    <3>1. network.nodes \subseteq NodeIds
      BY DEF InOrder, NetworkType
    <3>2. ASSUME NEW m \in network.nodes PROVE m \in D <=> n \in Abstract!Above(m)
      BY <3>1, SubtreeIsBelow, AboveIsWalk
    <3> QED
      BY <2>1, <3>2
  <2>3. L = {l \in network.links : network.owner[l] \in D}
    BY <2>1 DEF InOrder, NetworkType, Paired
  <2>4. /\ v.nodes = network.nodes /\ v.links = network.links \ L /\ v.parent = network.parent
        /\ v.owner = [l \in LinkIds |-> IF l \in L THEN Nil ELSE network.owner[l]]
        /\ Members(v) = {e \in Members(network) : e[2] \notin L}
    BY LinksCut
  <2>5. v \in NetworkType
    BY UnlinkedInOrder DEF InOrder
  <2>6. D \in SUBSET NodeIds
    BY <2>1 DEF InOrder, NetworkType
  <2> HIDE DEF v
  <2>7. /\ w.nodes = v.nodes \ D /\ w.links = v.links /\ w.owner = v.owner
        /\ w.parent = [m \in NodeIds |-> IF m \in D THEN Nil ELSE v.parent[m]]
        /\ Members(w) = {e \in Members(v) : e[1] \notin D}
    BY <2>5, <2>6, NodesCut
  <2>8. network' = w \/ network' = [w EXCEPT !.children[network.parent[n]] = @ \ {n}]
    BY <1>1, <1>3 DEF RemoveNode, Done, v
  <2>9. /\ network'.nodes = w.nodes /\ network'.links = w.links /\ network'.owner = w.owner
         /\ network'.parent = w.parent /\ network'.subscriptions = w.subscriptions
    BY <2>5, <2>8, ZenonT(60) DEF WithoutNodes, NetworkType
  <2>10. Members(network') = Members(w)
    BY <2>9 DEF Members
  <2> HIDE DEF w, D, L
  <2>11. Members(network') = {e \in Members(network) : e[1] \notin D /\ e[2] \notin L}
    BY <2>4, <2>7, <2>10
  <2>12. /\ network'.nodes = network.nodes \ D /\ network'.links = network.links \ L
         /\ network'.parent = [m \in NodeIds |-> IF m \in D THEN Nil ELSE network.parent[m]]
         /\ network'.owner = [l \in LinkIds |-> IF l \in L THEN Nil ELSE network.owner[l]]
    BY <2>4, <2>7, <2>9
  <2>13. Abstract!Remove(n)
    BY <1>3, <2>2, <2>3, <2>11, <2>12 DEF Abstract!Remove, Members
  <2> QED
    BY <2>13 DEF Abstract!Next
<1> QED
  BY <1>2, <1>3

-----------------------------------------------------------------------------
(* Each operation of a network is a step of the one-ended graph, or leaves *)
(* that as it is: nobody's membership, owner or parent moves unless the    *)
(* operation says so, and a removal takes all there is below.              *)
THEOREM StructsImplementTopology == NetworkSpec => ImplementsTopology
<1>1. NetworkInit => Abstract!Init
  <2> SUFFICES ASSUME NetworkInit PROVE Abstract!Init
    OBVIOUS
  <2>1. Members(network) = {}
    BY DEF NetworkInit, NewNetwork, Members
  <2> QED
    BY <2>1 DEF NetworkInit, NewNetwork, Abstract!Init, Members
<1>2. InOrder(network) /\ [NetworkNext]_networkVars => [Abstract!Next]_(Abstract!vars)
  <2> SUFFICES ASSUME InOrder(network), [NetworkNext]_networkVars PROVE [Abstract!Next]_(Abstract!vars)
    OBVIOUS
  <2>1. CASE UNCHANGED networkVars
    BY <2>1, Unmoved DEF networkVars
  <2> QED
    BY <2>1, NodesAppear, LinksAppear, OwnersAppear, MembersJoin, MembersLeave, ChildrenAttach, ChildrenDetach,
       LinksGo, NodesGo DEF NetworkNext
<1> QED
  BY <1>1, <1>2, NetworkInOrder, PTL DEF NetworkSpec, ImplementsTopology, Abstract!Spec

-----------------------------------------------------------------------------
(* The world *)

Sound == {p \in Outgoing : p.ttl + p.hops <= Budget}

Callbacks ==
    [kind: {"on_start", "on_tick", "on_received"}, node: NodeIds, packet: Sound \cup {Nil}, calls: Nat]

Underway ==
    /\ InOrder(net)
    /\ limits \in LimitChoices
    /\ pending \in Seq(Sound) /\ batch \in Seq(Sound)
    /\ current \in Sound \cup {Nil}
    /\ running \in Callbacks \cup {Nil}

(* A callback inside the deliveries runs for a packet on its link, and     *)
(* then the places reserved are those of the batch.                        *)
InPhase ==
    /\ phase \in {"idle", "on_tick", "deliver"}
    /\ phase # "deliver" => batch = <<>> /\ current = Nil /\ transmissions = 0
    /\ phase = "deliver" /\ running # Nil => current # Nil
    /\ current # Nil => reserved = Len(batch)

Waiting == transmissions + (IF current = Nil THEN 0 ELSE 1) + Len(batch)

Accounted ==
    /\ reserved \in Nat /\ transmissions \in Nat
    /\ \E choice \in LimitChoices : Len(batch) + Len(pending) <= choice.pending
    /\ phase = "deliver" => \E choice \in LimitChoices : Waiting <= choice.pending

Collected ==
    /\ inbox \in Seq([receiver: NodeIds, link: LinkIds, packet: Sound])
    /\ Len(inbox) <= MaxInbox

IInv == Underway /\ InPhase /\ Accounted /\ Collected

-----------------------------------------------------------------------------
(* Packets *)

LEMMA BudgetIsMost ==
    /\ Budget \in Nat /\ DefaultTtl <= Budget
    /\ \A ttl \in Ttls : ttl <= Budget
<1> DEFINE S == Ttls \cup {DefaultTtl}
<1>1. PICK most \in S : \A ttl \in S : most >= ttl
  BY WorldAssumption
<1>2. Budget \in S /\ \A ttl \in S : Budget >= ttl
  BY <1>1 DEF Budget, Max
<1> QED
  BY <1>2, WorldAssumption

(* What is newly sent has its budget whole.                                *)
LEMMA NewPacketSound ==
    ASSUME NEW n \in NodeIds, NEW l \in LinkIds, NEW e \in Events, NEW ttl \in Ttls \cup {DefaultTtl}
    PROVE  NewPacket(n, l, e, ttl) \in Sound
<1>1. ttl \in 0..Budget
  BY BudgetIsMost, WorldAssumption
<1> QED
  BY <1>1, BudgetIsMost DEF NewPacket, Sound, Outgoing

(* A hop moves one unit of the budget from what is left to what is spent.  *)
LEMMA TakenBySound ==
    ASSUME NEW p \in Sound, TakenBy(p).ttl > 0
    PROVE  TakenBy(p) \in Sound
<1>1. /\ p \in Outgoing
      /\ p.ttl \in 0..Budget /\ p.hops \in 0..Budget /\ p.ttl + p.hops <= Budget /\ Budget \in Nat
  BY BudgetIsMost DEF Sound, Outgoing
<1> DEFINE t == IF p.ttl = 0 THEN 0 ELSE p.ttl - 1
           h == p.hops + 1
<1>2. TakenBy(p) = [p EXCEPT !.ttl = t, !.hops = h]
  BY DEF TakenBy
<1> HIDE DEF t, h
<1>3. TakenBy(p).ttl = t
  BY <1>1, <1>2 DEF Outgoing
<1>4. t \in 0..Budget /\ h \in 0..Budget /\ t + h <= Budget
  BY <1>1, <1>3 DEF t, h
<1>5. [p EXCEPT !.ttl = t, !.hops = h] \in Sound
  BY <1>1, <1>4 DEF Sound, Outgoing
<1> QED
  BY <1>2, <1>5

(* Relaying leaves the budget as it is.                                    *)
LEMMA OnwardSound ==
    ASSUME NEW p \in Sound, NEW n \in NodeIds, NEW l \in LinkIds
    PROVE  Onward(p, n, l) \in Sound
BY DEF Onward, Sound, Outgoing

(* Only what is there can use a link, and only one there is.               *)
LEMMA UsersExist ==
    ASSUME NEW s, InOrder(s), NEW n, NEW l, CanUseLink(s, n, l)
    PROVE  n \in NodeIds /\ l \in LinkIds
BY DEF CanUseLink, InOrder, NetworkType

LEMMA ListenersExist ==
    ASSUME NEW s, InOrder(s), NEW l \in LinkIds
    PROVE  Audience(s, l) \subseteq NodeIds
BY DEF Audience, InOrder, NetworkType

-----------------------------------------------------------------------------
(* Sequences *)

LEMMA AppendTyped ==
    ASSUME NEW S, NEW s \in Seq(S), NEW e \in S
    PROVE  Append(s, e) \in Seq(S) /\ Len(Append(s, e)) = Len(s) + 1
BY AppendProperties

LEMMA TailTyped ==
    ASSUME NEW S, NEW s \in Seq(S), s # <<>>
    PROVE  /\ Head(s) \in S /\ Tail(s) \in Seq(S)
           /\ Len(s) \in Nat \ {0} /\ Len(Tail(s)) = Len(s) - 1
BY HeadTailProperties, EmptySeq

LEMMA ConcatOfAppend ==
    ASSUME NEW S, NEW s \in Seq(S), NEW t \in Seq(S), NEW e \in S
    PROVE  s \o Append(t, e) = Append(s \o t, e)
<1>1. <<e>> \in Seq(S) /\ s \o t \in Seq(S)
  BY ConcatProperties
<1>2. Append(t, e) = t \o <<e>> /\ Append(s \o t, e) = (s \o t) \o <<e>>
  BY <1>1, AppendIsConcat
<1> QED
  BY <1>1, <1>2, ConcatAssociative

LEMMA TailOfConcat ==
    ASSUME NEW S, NEW s \in Seq(S), NEW t \in Seq(S), s # <<>>
    PROVE  /\ s \o t # <<>>
           /\ Tail(s \o t) = Tail(s) \o t
<1>1. s \o t \in Seq(S) /\ Len(s \o t) = Len(s) + Len(t) /\ Len(s) \in Nat \ {0} /\ Len(t) \in Nat
  BY ConcatProperties, TailTyped, LenProperties
<1>2. s \o t # <<>>
  BY <1>1, EmptySeq
<1>3. Tail(s \o t) \in Seq(S) /\ Len(Tail(s \o t)) = Len(s) + Len(t) - 1
  BY <1>1, <1>2, HeadTailProperties
<1>4. Tail(s) \in Seq(S) /\ Len(Tail(s)) = Len(s) - 1
  BY HeadTailProperties
<1>5. Tail(s) \o t \in Seq(S) /\ Len(Tail(s) \o t) = Len(s) - 1 + Len(t)
  BY <1>4, ConcatProperties
<1>6. ASSUME NEW i \in 1..Len(Tail(s \o t)) PROVE Tail(s \o t)[i] = (Tail(s) \o t)[i]
  <2>1. Tail(s \o t)[i] = (s \o t)[i + 1] /\ i + 1 \in 1..(Len(s) + Len(t)) /\ i \in 1..(Len(s) - 1 + Len(t))
    BY <1>1, <1>2, <1>3, HeadTailProperties
  <2>2. (s \o t)[i + 1] = IF i + 1 <= Len(s) THEN s[i + 1] ELSE t[i + 1 - Len(s)]
    BY <2>1, ConcatProperties
  <2>3. (Tail(s) \o t)[i] = IF i <= Len(s) - 1 THEN Tail(s)[i] ELSE t[i - (Len(s) - 1)]
    BY <2>1, <1>4, ConcatProperties
  <2>4. i <= Len(s) - 1 => Tail(s)[i] = s[i + 1]
    BY <1>1, <1>4, <2>1, HeadTailProperties
  <2> QED
    BY <2>1, <2>2, <2>3, <2>4, <1>1
<1> QED
  BY <1>2, <1>3, <1>5, <1>6, <1>1, SeqEqual
-----------------------------------------------------------------------------
(* The host, between two ticks *)

Still == UNCHANGED <<batch, current, phase, transmissions, limits, net>>

(* A packet is taken only where there is a place for it.                   *)
LEMMA PushKeeps ==
    ASSUME IInv, NEW out \in Sound, Push(out), Still,
           phase = "deliver" => current # Nil,
           running' \in Callbacks \cup {Nil}, phase = "deliver" /\ running' # Nil => current # Nil,
           UNCHANGED inbox
    PROVE  /\ IInv'
           /\ \/ UNCHANGED pending
              \/ /\ pending' = Append(pending, out)
                 /\ Len(batch) + Len(pending) < limits.pending
<1>1. /\ Len(batch) \in Nat /\ Len(pending) \in Nat /\ reserved \in Nat /\ Len(batch) <= reserved
      /\ limits.pending \in Nat
  <2>1. Len(batch) \in Nat /\ Len(pending) \in Nat /\ reserved \in Nat /\ limits.pending \in Nat
    BY LenProperties, WorldAssumption DEF IInv, Underway, Accounted
  <2>2. CASE phase = "deliver"
    BY <2>1, <2>2 DEF IInv, InPhase
  <2>3. CASE phase # "deliver"
    <3>1. Len(batch) = 0
      BY <2>3, EmptySeq DEF IInv, InPhase
    <3> QED
      BY <2>1, <3>1
  <2> QED
    BY <2>1, <2>2, <2>3
<1>2. UNCHANGED reserved
  BY DEF Push
<1>3. CASE UNCHANGED pending
  BY <1>2, <1>3 DEF IInv, Underway, InPhase, Accounted, Waiting, Collected, Still
<1>4. CASE pending' = Append(pending, out) /\ Len(pending) + reserved < limits.pending
  <2>1. pending' \in Seq(Sound) /\ Len(pending') = Len(pending) + 1
    BY <1>4, AppendTyped DEF IInv, Underway
  <2>2. Len(batch) + Len(pending) < limits.pending /\ Len(batch') + Len(pending') <= limits.pending
    BY <1>1, <1>4, <2>1 DEF Still
  <2>3. Underway' /\ InPhase' /\ Collected'
    BY <1>2, <2>1 DEF IInv, Underway, InPhase, Collected, Still
  <2>4. Accounted'
    BY <1>2, <2>2 DEF IInv, Underway, Accounted, Waiting, Still
  <2> QED
    BY <1>4, <2>2, <2>3, <2>4 DEF IInv
<1> QED
  BY <1>1, <1>3, <1>4 DEF Push, Enqueue, Refuse

LEMMA HostKeeps ==
    ASSUME IInv, HostStep
    PROVE  IInv'
<1> USE DEF Idle
<1>1. ASSUME NEW n \in Talkers, NEW l \in net.links, NEW e \in Events, NEW ttl \in Ttls \cup {DefaultTtl},
             Idle, CanUseLink(net, n, l), Push(NewPacket(n, l, e, ttl)), UNCHANGED <<worldVars, tickVars, running>>
      PROVE  IInv'
  <2>1. NewPacket(n, l, e, ttl) \in Sound
    BY <1>1, UsersExist, NewPacketSound DEF IInv, Underway
  <2> QED
    BY <1>1, <2>1, PushKeeps DEF Still, worldVars, tickVars, IInv, Underway
<1>2. ASSUME Drain PROVE IInv'
  <2>1. Collected'
    BY <1>2, EmptySeq, WorldAssumption DEF Drain, Collected
  <2> QED
    BY <1>2, <2>1 DEF Drain, queueVars, tickVars, IInv, Underway, InPhase, Accounted, Waiting
<1>3. ASSUME NEW n, \/ \E host \in BOOLEAN : SetHost(n, host)
                    \/ RemoveLogic(n)
      PROVE  IInv'
  BY <1>3 DEF SetHost, RemoveLogic, queueVars, tickVars, IInv, Underway, InPhase, Accounted, Waiting, Collected
<1>4. ASSUME NEW n, SetLogic(n) PROVE IInv'
  <2>1. n \in NodeIds
    BY <1>4 DEF SetLogic, IInv, Underway, InOrder, NetworkType
  <2>2. running' \in Callbacks
    BY <1>4, <2>1 DEF SetLogic, Callback, Callbacks
  <2> QED
    BY <1>4, <2>2 DEF SetLogic, worldVars, queueVars, tickVars, IInv, Underway, InPhase, Accounted, Waiting, Collected
<1>5. ASSUME NEW new \in LimitChoices, SetLimits(new) PROVE IInv'
  BY <1>5 DEF SetLimits, queueVars, tickVars, IInv, Underway, InPhase, Accounted, Waiting, Collected
<1>6. ASSUME NEW s, InOrder(s), net' = s, UNCHANGED <<limits, inbox, queueVars, tickVars, running>>
      PROVE  IInv'
  BY <1>6 DEF queueVars, tickVars, IInv, Underway, InPhase, Accounted, Waiting, Collected
<1>7. ASSUME NEW n \in Managed
      PROVE  /\ InOrder(RemoveNode(net, n).net)
             /\ \A l \in net.links : InOrder(Subscribe(net, n, l).net) /\ InOrder(Unsubscribe(net, n, l).net)
  <2>1. n \in NodeIds /\ InOrder(net) /\ net.links \subseteq LinkIds
    BY WorldAssumption DEF IInv, Underway, InOrder, NetworkType
  <2> QED
    BY <2>1, RemoveNodeInOrder, SubscriberInOrder, UnsubscribedInOrder DEF Subscribe, Unsubscribe, Done, Rejected
<1>8. ASSUME NEW n \in Managed, RemoveNodeWithLogic(n) PROVE IInv'
  BY <1>6, <1>7, <1>8 DEF RemoveNodeWithLogic
<1>9. ASSUME NEW n \in Managed,
             \/ ChangeNetwork(RemoveNode(net, n))
             \/ \E l \in net.links : ChangeNetwork(Unsubscribe(net, n, l)) \/ ChangeNetwork(Subscribe(net, n, l))
      PROVE  IInv'
  BY <1>6, <1>7, <1>9 DEF ChangeNetwork
<1> QED
  BY <1>1, <1>2, <1>3, <1>4, <1>5, <1>8, <1>9 DEF HostStep, Send, SendPacket, Offer
-----------------------------------------------------------------------------
(* tick() and its callbacks *)

LEMMA TickBegins ==
    ASSUME IInv, StartTick \/ \E n \in NodeIds : OnTick(n)
    PROVE  IInv'
<1>1. CASE StartTick
  BY <1>1 DEF StartTick, Idle, worldVars, queueVars, IInv, Underway, InPhase, Accounted, Waiting, Collected
<1>2. ASSUME NEW n \in NodeIds, OnTick(n) PROVE IInv'
  <2>1. running' \in Callbacks
    BY <1>2 DEF OnTick, Callback, Callbacks
  <2> QED
    BY <1>2, <2>1 DEF OnTick, worldVars, queueVars, IInv, Underway, InPhase, Accounted, Waiting, Collected
<1> QED
  BY <1>1, <1>2

LEMMA BatchTaken ==
    ASSUME IInv, TakeBatch
    PROVE  IInv'
<1>1. /\ batch = <<>> /\ current = Nil /\ transmissions = 0
      /\ batch' = pending /\ pending' = <<>> /\ phase' = "deliver" /\ UNCHANGED <<current, transmissions, running>>
  BY DEF TakeBatch, IInv, InPhase
<1>2. Len(<<>>) = 0 /\ <<>> \in Seq(Sound) /\ Len(pending) \in Nat
  BY EmptySeq, LenProperties DEF IInv, Underway
<1>3. PICK choice \in LimitChoices : Len(batch) + Len(pending) <= choice.pending
  BY DEF IInv, Accounted
<1>4. Len(batch') + Len(pending') <= choice.pending /\ Waiting' <= choice.pending
  BY <1>1, <1>2, <1>3 DEF Waiting
<1> QED
  BY <1>1, <1>2, <1>4 DEF TakeBatch, worldVars, IInv, Underway, InPhase, Accounted, Collected

LEMMA Transmitted ==
    ASSUME IInv, Transmit
    PROVE  IInv'
<1>1. /\ phase = "deliver" /\ current = Nil /\ running = Nil /\ batch # <<>>
      /\ batch' = Tail(batch) /\ reserved' = Len(batch) - 1
      /\ current' \in {Nil, Head(batch)}
      /\ UNCHANGED <<worldVars, pending, phase, transmissions, running>>
  BY DEF Transmit, Between
<1>2. /\ Head(batch) \in Sound /\ Tail(batch) \in Seq(Sound)
      /\ Len(batch) \in Nat \ {0} /\ Len(Tail(batch)) = Len(batch) - 1
  BY <1>1, TailTyped DEF IInv, Underway
<1>3. PICK choice \in LimitChoices : Len(batch) + Len(pending) <= choice.pending
  BY DEF IInv, Accounted
<1>4. PICK other \in LimitChoices : Waiting <= other.pending
  BY <1>1 DEF IInv, Accounted
<1>5. Len(pending) \in Nat /\ transmissions \in Nat /\ choice.pending \in Nat /\ other.pending \in Nat
  BY LenProperties, WorldAssumption DEF IInv, Underway, Accounted
<1>6. Len(batch') + Len(pending') <= choice.pending
  BY <1>1, <1>2, <1>3, <1>5
<1>7. Waiting' <= other.pending
  BY <1>1, <1>2, <1>4, <1>5 DEF Waiting
<1>8. Accounted'
  BY <1>1, <1>2, <1>5, <1>6, <1>7 DEF Accounted, worldVars, IInv
<1>9. Underway' /\ InPhase' /\ Collected'
  BY <1>1, <1>2 DEF worldVars, IInv, Underway, InPhase, Collected
<1> QED
  BY <1>8, <1>9 DEF IInv

(* The oldest delivery makes room for the newest.                          *)
LEMMA HandedOver ==
    ASSUME Collected, NEW n \in NodeIds, NEW p \in Sound, HandToHost(n, p)
    PROVE  Collected'
<1> DEFINE D == [receiver: NodeIds, link: LinkIds, packet: Sound]
           d == [receiver |-> n, link |-> p.via, packet |-> p]
           kept == IF Len(inbox) >= MaxInbox THEN Tail(inbox) ELSE inbox
<1>1. d \in D
  BY DEF Sound, Outgoing
<1>2. Len(inbox) \in Nat /\ MaxInbox \in Nat \ {0} /\ Len(inbox) <= MaxInbox /\ inbox \in Seq(D)
  BY LenProperties, WorldAssumption DEF Collected
<1>3. kept \in Seq(D) /\ Len(kept) < MaxInbox /\ Len(kept) \in Nat
  <2>1. CASE Len(inbox) >= MaxInbox
    <3>1. inbox # <<>>
      BY <1>2, <2>1, EmptySeq
    <3> QED
      BY <1>2, <2>1, <3>1, TailTyped
  <2> QED
    BY <1>2, <2>1
<1>4. inbox' = Append(kept, d)
  BY DEF HandToHost
<1> HIDE DEF D, d, kept
<1>5. inbox' \in Seq(D) /\ Len(inbox') = Len(kept) + 1
  BY <1>1, <1>3, <1>4, AppendTyped
<1> QED
  BY <1>2, <1>3, <1>5 DEF Collected, D

LEMMA Delivered ==
    ASSUME IInv, NEW n \in NodeIds, Decline(n) \/ Deliver(n)
    PROVE  IInv'
<1>1. CASE Decline(n)
  BY <1>1 DEF Decline, worldVars, queueVars, IInv, Underway, InPhase, Accounted, Waiting, Collected
<1>2. CASE Deliver(n)
  <2> DEFINE p == TakenBy(current)
  <2>1. current \in Sound /\ current # Nil /\ running = Nil
    BY <1>2 DEF Deliver, IInv, Underway
  <2>2. p.ttl > 0 => p \in Sound
    BY <2>1, TakenBySound
  <2>3. /\ UNCHANGED <<net, limits, queueVars, phase, batch, current, transmissions>>
        /\ \/ UNCHANGED <<inbox, running>>
           \/ p.ttl > 0 /\ HandToHost(n, p) /\ UNCHANGED running
           \/ p.ttl > 0 /\ running' \in {Callback("on_received", n, p), Nil} /\ UNCHANGED inbox
    BY <1>2, <2>1 DEF Deliver
  <2> HIDE DEF p
  <2>4. Collected'
    BY <2>2, <2>3, HandedOver DEF IInv, Collected
  <2>5. running' \in Callbacks \cup {Nil}
    BY <2>1, <2>2, <2>3 DEF Callback, Callbacks
  <2> QED
    BY <2>1, <2>3, <2>4, <2>5 DEF queueVars, IInv, Underway, InPhase, Accounted, Waiting
<1> QED
  BY <1>1, <1>2

LEMMA Finished ==
    ASSUME IInv, FinishTransmit
    PROVE  IInv'
<1>1. /\ current # Nil /\ current' = Nil /\ running = Nil /\ transmissions' = transmissions + 1
      /\ UNCHANGED <<worldVars, queueVars, phase, batch, running>>
  BY DEF FinishTransmit
<1>2. Len(batch) \in Nat /\ transmissions \in Nat
  BY LenProperties DEF IInv, Underway, Accounted
<1>3. Waiting' = Waiting
  BY <1>1, <1>2 DEF Waiting
<1>4. Accounted'
  BY <1>1, <1>2, <1>3 DEF worldVars, queueVars, IInv, Accounted
<1> QED
  BY <1>1, <1>4 DEF worldVars, queueVars, IInv, Underway, InPhase, Collected

LEMMA TickEnds ==
    ASSUME IInv, Trip \/ Complete
    PROVE  IInv'
<1>1. PICK result : Ended(result)
  BY DEF Trip, Complete, EndTick
<1>2. phase = "deliver" /\ current = Nil /\ running = Nil
  BY DEF Trip, Complete, Between
<1>3. /\ phase' = "idle" /\ pending' = batch \o pending /\ batch' = <<>> /\ reserved' = 0 /\ transmissions' = 0
      /\ UNCHANGED <<net, limits, inbox, current, running>>
  BY <1>1 DEF Ended, HeldFirst
<1>4. /\ pending' \in Seq(Sound) /\ Len(pending') = Len(batch) + Len(pending)
      /\ Len(<<>>) = 0 /\ <<>> \in Seq(Sound) /\ Len(batch) \in Nat /\ Len(pending) \in Nat
  BY <1>3, ConcatProperties, EmptySeq, LenProperties DEF IInv, Underway
<1>5. Len(batch') + Len(pending') = Len(batch) + Len(pending)
  BY <1>3, <1>4
<1>6. Accounted'
  BY <1>3, <1>5 DEF IInv, Accounted
<1> QED
  BY <1>2, <1>3, <1>4, <1>6 DEF IInv, Underway, InPhase, Collected

LEMMA Unwound ==
    ASSUME IInv, NEW n, PanicInWants(n)
    PROVE  IInv'
<1>1. /\ phase' = "idle" /\ batch' = <<>> /\ current' = Nil /\ transmissions' = 0 /\ running = Nil
      /\ UNCHANGED <<net, limits, inbox, pending, reserved, running>>
  BY DEF PanicInWants, queueVars
<1>2. Len(<<>>) = 0 /\ <<>> \in Seq(Sound) /\ Len(batch) \in Nat /\ Len(pending) \in Nat
  BY EmptySeq, LenProperties DEF IInv, Underway
<1>3. PICK choice \in LimitChoices : Len(batch) + Len(pending) <= choice.pending
  BY DEF IInv, Accounted
<1>4. choice.pending \in Nat
  BY WorldAssumption
<1>5. Len(batch') + Len(pending') <= choice.pending
  BY <1>1, <1>2, <1>3, <1>4
<1> QED
  BY <1>1, <1>2, <1>5 DEF IInv, Underway, InPhase, Accounted, Collected

(* What a logic sends and relays waits for a later tick.                   *)
LEMMA CallPushes ==
    ASSUME IInv, NEW l, CallForward(l) \/ \E e \in Events : CallSend(l, e)
    PROVE  /\ IInv'
           /\ \E out \in Sound : \/ UNCHANGED pending
                                \/ /\ pending' = Append(pending, out)
                                   /\ Len(batch) + Len(pending) < limits.pending
<1>1. running \in Callbacks /\ running # Nil /\ (phase = "deliver" => current # Nil)
  BY DEF CallForward, CallSend, Calling, IInv, Underway, InPhase
<1>2. running' \in Callbacks
  BY <1>1 DEF CallForward, CallSend, Callbacks
<1>3. Still /\ UNCHANGED inbox
  BY DEF CallForward, CallSend, Still, worldVars, tickVars
<1>4. CanUseLink(net, running.node, l) /\ InOrder(net)
  BY DEF CallForward, CallSend, IInv, Underway
<1>5. running.node \in NodeIds /\ l \in LinkIds
  BY <1>4, UsersExist
<1>6. PICK out \in Sound : Push(out)
  <2>1. CASE CallForward(l)
    <3>1. running.packet \in Sound
      BY <2>1, <1>1 DEF CallForward, Callbacks
    <3> QED
      BY <2>1, <3>1, <1>5, OnwardSound DEF CallForward, Offer
  <2>2. ASSUME NEW e \in Events, CallSend(l, e) PROVE \E out \in Sound : Push(out)
    BY <2>2, <1>5, NewPacketSound DEF CallSend, Offer
  <2> QED
    BY <2>1, <2>2
<1> QED
  BY <1>1, <1>2, <1>3, <1>6, PushKeeps

LEMMA CallbackEnds ==
    ASSUME IInv, Return \/ Panic
    PROVE  IInv'
BY DEF Return, Panic, queueVars, tickVars, IInv, Underway, InPhase, Accounted, Waiting, Collected

-----------------------------------------------------------------------------
(* Theorems *)

LEMMA StepKeeps ==
    ASSUME IInv, [Next]_vars
    PROVE  IInv'
<1>1. CASE HostStep
  BY <1>1, HostKeeps
<1>2. CASE StartTick
  BY <1>2, TickBegins
<1>3. CASE EngineStep
  BY <1>3, TickBegins, BatchTaken, Transmitted, Delivered, Finished, TickEnds, CallbackEnds DEF EngineStep
<1>4. CASE LogicStep
  BY <1>4, Unwound, CallPushes, CallbackEnds DEF LogicStep
<1>5. CASE UNCHANGED vars
  BY <1>5 DEF vars, worldVars, queueVars, tickVars, IInv, Underway, InPhase, Accounted, Waiting, Collected
<1> QED
  BY <1>1, <1>2, <1>3, <1>4, <1>5 DEF Next

LEMMA InitKeeps ==
    ASSUME Init
    PROVE  IInv
<1>1. Len(<<>>) = 0 /\ \A S : <<>> \in Seq(S)
  BY EmptySeq
<1>2. limits \in LimitChoices /\ limits.pending \in Nat /\ MaxInbox \in Nat
  BY WorldAssumption DEF Init
<1> QED
  BY <1>1, <1>2, WorldAssumption DEF Init, IInv, Underway, InPhase, Accounted, Waiting, Collected

THEOREM WorldInvariant == Spec => []IInv
BY InitKeeps, StepKeeps, PTL DEF Spec

(* No packet that waits has hops left and hops made beyond the budget it   *)
(* was first given, however often it was relayed.                          *)
THEOREM BudgetsRunOut == Spec => []HopBudget
<1>1. IInv => HopBudget
  <2> SUFFICES ASSUME IInv, NEW q \in {pending, batch}, NEW i \in DOMAIN q
               PROVE  q[i].ttl + q[i].hops <= Budget
    BY DEF HopBudget
  <2>1. q \in Seq(Sound)
    BY DEF IInv, Underway
  <2>2. q[i] \in Sound
    BY <2>1, LenProperties, ElementOfSeq
  <2> QED
    BY <2>2 DEF Sound
<1> QED
  BY <1>1, WorldInvariant, PTL

(* A tick never transmits more than was let into the queue, and the host's *)
(* inbox never holds more than its limit.                                  *)
THEOREM TicksStayBounded == Spec => []TickBounded
<1>1. IInv => TickBounded
  BY DEF IInv, Accounted, Collected, Waiting, TickBounded
<1> QED
  BY <1>1, WorldInvariant, PTL

-----------------------------------------------------------------------------
(* Refused sends *)

(* The two counts differ exactly while a loss is still to be reported.     *)
Told ==
    /\ refused_sends \in Nat /\ refused_seen \in Nat /\ lost \in BOOLEAN
    /\ refused_seen <= refused_sends
    /\ lost <=> Unreported

(* A send that finds no place leaves the queue without its packet.         *)
LEMMA OfferTells ==
    ASSUME IInv, Told, NEW out, Offer(out)
    PROVE  Told'
<1>1. CASE Enqueue(out)
  BY <1>1 DEF Offer, Push, Refuse, Enqueue, Told, Unreported
<1>2. CASE Refuse
  <2>1. pending # Append(pending, out)
    <3>1. pending \in Seq({pending[k] : k \in 1..Len(pending)} \cup {out}) /\ Len(pending) \in Nat
      BY DEF IInv, Underway
    <3> QED
      BY <3>1, AppendTyped
  <2>2. lost'
    BY <1>2, <2>1 DEF Offer, Refuse
  <2> QED
    BY <1>2, <2>2 DEF Offer, Push, Refuse, Told, Unreported
<1> QED
  BY <1>1, <1>2 DEF Offer, Push

LEMMA UnwatchedTells ==
    ASSUME Told, UNCHANGED refusalVars
    PROVE  Told'
BY DEF Told, Unreported, refusalVars

(* Every tick that ends brings the counts together and settles the loss.   *)
LEMMA EndTells ==
    ASSUME Told, Trip \/ Complete
    PROVE  /\ Told'
           /\ outcome' \in {"completed", "queue"} => (outcome' = "queue" <=> lost)
<1>1. PICK limit \in {"transmissions", "deliveries", "completed"} : EndTick(limit)
  BY DEF Trip, Complete
<1>2. refused_seen' = refused_sends /\ refused_sends' = refused_sends /\ lost' = FALSE
  BY <1>1 DEF EndTick, Ended
<1>3. outcome' = IF limit = "completed" /\ Unreported THEN "queue" ELSE limit
  BY <1>1 DEF EndTick, Ended
<1>4. Told'
  <2>1. ~lost' /\ lost' \in BOOLEAN
    BY <1>2
  <2>2. /\ refused_sends' \in Nat /\ refused_seen' \in Nat /\ refused_seen' <= refused_sends'
        /\ ~(refused_sends' > refused_seen')
    BY <1>2 DEF Told
  <2>3. ~Unreported'
    BY <2>2 DEF Unreported
  <2> QED
    BY <2>1, <2>2, <2>3 DEF Told
<1>5. lost <=> Unreported
  BY DEF Told
<1>6. outcome' \in {"completed", "queue"} => limit = "completed"
  BY <1>3
<1>7. limit = "completed" => (outcome' = "queue" <=> Unreported)
  <2>1. CASE Unreported
    BY <1>3, <2>1
  <2>2. CASE ~Unreported
    BY <1>3, <2>2
  <2> QED
    BY <2>1, <2>2
<1> QED
  BY <1>4, <1>5, <1>6, <1>7

LEMMA StepTells ==
    ASSUME IInv, Told, [Next]_vars
    PROVE  /\ Told'
           /\ phase = "deliver" /\ phase' = "idle" /\ outcome' \in {"completed", "queue"}
                 => (outcome' = "queue" <=> lost)
<1>1. CASE HostStep
  <2>1. ~(phase = "deliver" /\ phase' = "idle")
    BY <1>1 DEF HostStep, Send, SendPacket, Drain, SetHost, SetLogic, RemoveLogic, RemoveNodeWithLogic,
                ChangeNetwork, SetLimits, Idle
  <2>2. (\E out : Offer(out)) \/ UNCHANGED refusalVars
    BY <1>1 DEF HostStep, Send, SendPacket, Drain, SetHost, SetLogic, RemoveLogic, RemoveNodeWithLogic,
                ChangeNetwork, SetLimits, queueVars
  <2> QED
    BY <2>1, <2>2, OfferTells, UnwatchedTells
<1>2. CASE StartTick
  BY <1>2, UnwatchedTells DEF StartTick, Idle, queueVars
<1>3. CASE Trip \/ Complete
  BY <1>3, EndTells
<1>4. ASSUME NEW n, TakeBatch \/ Transmit \/ FinishTransmit \/ Return \/ OnTick(n) \/ Decline(n) \/ Deliver(n)
      PROVE  UNCHANGED refusalVars /\ ~(phase = "deliver" /\ phase' = "idle")
  BY <1>4 DEF TakeBatch, Transmit, FinishTransmit, Return, OnTick, Decline, Deliver, queueVars, tickVars
<1>5. ASSUME NEW n, Panic \/ PanicInWants(n)
      PROVE  UNCHANGED refusalVars /\ (phase' = phase \/ outcome' = "unwound")
  BY <1>5 DEF Panic, PanicInWants, queueVars, tickVars
<1>6. ASSUME NEW l, CallForward(l) \/ \E e \in Events : CallSend(l, e)
      PROVE  (\E out : Offer(out)) /\ phase' = phase
  BY <1>6 DEF CallForward, CallSend, tickVars
<1>7. CASE UNCHANGED vars
  BY <1>7, UnwatchedTells DEF vars, queueVars, tickVars
<1>8. CASE EngineStep
  BY <1>3, <1>4, <1>8, UnwatchedTells DEF EngineStep
<1>9. CASE LogicStep
  BY <1>5, <1>6, <1>9, OfferTells, UnwatchedTells DEF LogicStep
<1> QED
  BY <1>1, <1>2, <1>7, <1>8, <1>9 DEF Next

(* A tick that trips no other limit reports the queue exactly if a send    *)
(* was lost since a tick last ended, whatever became of the ticks between. *)
THEOREM RefusalsAreTold == Spec => RefusalsReportedOnce
<1>1. Init => Told
  <2> SUFFICES ASSUME Init PROVE Told
    OBVIOUS
  <2>1. refused_sends = 0 /\ refused_seen = 0 /\ ~lost /\ lost \in BOOLEAN
    BY DEF Init
  <2>2. ~Unreported
    BY <2>1 DEF Unreported
  <2> QED
    BY <2>1, <2>2 DEF Told
<1>2. IInv /\ Told /\ [Next]_vars =>
          /\ Told'
          /\ [phase = "deliver" /\ phase' = "idle" /\ outcome' \in {"completed", "queue"}
                 => (outcome' = "queue" <=> lost)]_vars
  BY StepTells
<1> QED
  BY <1>1, <1>2, WorldInvariant, PTL DEF Spec, RefusalsReportedOnce

-----------------------------------------------------------------------------
(* The queue *)

(* Where no packet is let in, taken or put back, the queue is as it was.   *)
LEMMA QueueUntouched ==
    ASSUME UNCHANGED <<batch, pending, limits>>
    PROVE  UNCHANGED Queue!vars
BY DEF Queue!vars

LEMMA PushEnqueues ==
    ASSUME IInv, NEW out \in Sound, UNCHANGED <<batch, limits>>,
           \/ UNCHANGED pending
           \/ pending' = Append(pending, out) /\ Len(batch) + Len(pending) < limits.pending
    PROVE  [Queue!Next]_(Queue!vars)
<1>1. CASE UNCHANGED pending
  BY <1>1, QueueUntouched
<1>2. CASE pending' = Append(pending, out) /\ Len(batch) + Len(pending) < limits.pending
  <2>1. batch' \o pending' = Append(batch \o pending, out)
    BY <1>2, ConcatOfAppend DEF IInv, Underway
  <2>2. Len(batch \o pending) < limits.pending
    BY <1>2, ConcatProperties DEF IInv, Underway
  <2>3. out \in Outgoing
    BY DEF Sound
  <2> QED
    BY <2>1, <2>2, <2>3 DEF Queue!Next, Queue!Enqueue
<1> QED
  BY <1>1, <1>2

LEMMA HostQueues ==
    ASSUME IInv, HostStep
    PROVE  [Queue!Next]_(Queue!vars)
<1>1. ASSUME NEW n \in Talkers, NEW l \in net.links, NEW e \in Events, NEW ttl \in Ttls \cup {DefaultTtl},
             Idle, CanUseLink(net, n, l), Push(NewPacket(n, l, e, ttl)), UNCHANGED <<worldVars, tickVars, running>>
      PROVE  [Queue!Next]_(Queue!vars)
  <2>1. NewPacket(n, l, e, ttl) \in Sound
    BY <1>1, UsersExist, NewPacketSound DEF IInv, Underway
  <2>2. \/ UNCHANGED pending
        \/ pending' = Append(pending, NewPacket(n, l, e, ttl)) /\ Len(batch) + Len(pending) < limits.pending
    BY <1>1, <2>1, PushKeeps DEF Idle, Still, worldVars, tickVars, IInv, Underway
  <2> QED
    BY <1>1, <2>1, <2>2, PushEnqueues DEF worldVars, tickVars
<1>2. ASSUME NEW new \in LimitChoices, SetLimits(new) PROVE [Queue!Next]_(Queue!vars)
  BY <1>2 DEF SetLimits, queueVars, tickVars, Queue!Next, Queue!SetCap
<1>3. ASSUME NEW n,
             \/ Drain \/ SetLogic(n) \/ RemoveLogic(n) \/ RemoveNodeWithLogic(n)
             \/ \E host \in BOOLEAN : SetHost(n, host)
             \/ \E result : ChangeNetwork(result)
      PROVE  UNCHANGED <<batch, pending, limits>>
  BY <1>3 DEF Drain, SetLogic, RemoveLogic, RemoveNodeWithLogic, SetHost, ChangeNetwork, worldVars, queueVars, tickVars
<1> QED
  BY <1>1, <1>2, <1>3, QueueUntouched DEF HostStep, Send, SendPacket, Offer

LEMMA EngineQueues ==
    ASSUME IInv, EngineStep
    PROVE  [Queue!Next]_(Queue!vars)
<1>1. CASE TakeBatch
  <2>1. batch = <<>> /\ batch' = pending /\ pending' = <<>> /\ UNCHANGED limits
    BY <1>1 DEF TakeBatch, worldVars, IInv, InPhase
  <2>2. batch' \o pending' = batch \o pending
    BY <2>1, ConcatEmptySeq DEF IInv, Underway
  <2> QED
    BY <2>1, <2>2 DEF Queue!vars
<1>2. CASE Transmit
  <2>1. batch # <<>> /\ batch' = Tail(batch) /\ UNCHANGED <<pending, limits>>
    BY <1>2 DEF Transmit, worldVars
  <2>2. batch \o pending # <<>> /\ batch' \o pending' = Tail(batch \o pending)
    BY <2>1, TailOfConcat DEF IInv, Underway
  <2> QED
    BY <2>1, <2>2 DEF Queue!Next, Queue!Dequeue
<1>3. CASE Trip \/ Complete
  <2>1. batch' = <<>> /\ pending' = batch \o pending /\ UNCHANGED limits
    BY <1>3 DEF Trip, Complete, EndTick, Ended, HeldFirst
  <2>2. batch' \o pending' = batch \o pending
    BY <2>1, ConcatProperties, ConcatEmptySeq DEF IInv, Underway
  <2> QED
    BY <2>1, <2>2 DEF Queue!vars
<1>4. ASSUME NEW n, FinishTransmit \/ Return \/ OnTick(n) \/ Decline(n) \/ Deliver(n)
      PROVE  UNCHANGED <<batch, pending, limits>>
  BY <1>4 DEF FinishTransmit, Return, OnTick, Decline, Deliver, worldVars, queueVars, tickVars
<1> QED
  BY <1>1, <1>2, <1>3, <1>4, QueueUntouched DEF EngineStep

LEMMA LogicQueues ==
    ASSUME IInv, LogicStep, "wants" \notin PanicsIn
    PROVE  [Queue!Next]_(Queue!vars)
<1>1. CASE Panic
  BY <1>1, QueueUntouched DEF Panic, queueVars, tickVars
<1>2. ASSUME NEW l, CallForward(l) \/ \E e \in Events : CallSend(l, e)
      PROVE  [Queue!Next]_(Queue!vars)
  <2>1. PICK out \in Sound : \/ UNCHANGED pending
                             \/ pending' = Append(pending, out) /\ Len(batch) + Len(pending) < limits.pending
    BY <1>2, CallPushes
  <2>2. UNCHANGED <<batch, limits>>
    BY <1>2 DEF CallForward, CallSend, worldVars, tickVars
  <2> QED
    BY <2>1, <2>2, PushEnqueues
<1>3. ASSUME NEW n PROVE ~PanicInWants(n)
  BY DEF PanicInWants
<1> QED
  BY <1>1, <1>2, <1>3 DEF LogicStep

(* As long as no logic panics in `wants`, the batch, what is pending and   *)
(* the reserved places are together one bounded first-in-first-out queue.  *)
THEOREM QueueIsFifo ==
    ASSUME "wants" \notin PanicsIn
    PROVE  Spec => ImplementsQueue
<1>1. Init => Queue!Init
  BY EmptySeq, ConcatEmptySeq DEF Init, Queue!Init
<1>2. IInv /\ [Next]_vars => [Queue!Next]_(Queue!vars)
  <2> SUFFICES ASSUME IInv, [Next]_vars PROVE [Queue!Next]_(Queue!vars)
    OBVIOUS
  <2>1. CASE HostStep
    BY <2>1, HostQueues
  <2>2. CASE StartTick
    BY <2>2, QueueUntouched DEF StartTick, worldVars, queueVars
  <2>3. CASE EngineStep
    BY <2>3, EngineQueues
  <2>4. CASE LogicStep
    BY <2>4, LogicQueues
  <2>5. CASE UNCHANGED vars
    BY <2>5, QueueUntouched DEF vars, worldVars, queueVars, tickVars
  <2> QED
    BY <2>1, <2>2, <2>3, <2>4, <2>5 DEF Next
<1> QED
  BY <1>1, <1>2, WorldInvariant, PTL DEF Spec, ImplementsQueue, Queue!Spec

-----------------------------------------------------------------------------
(* The fuse on deliveries *)

(* Copies made and listeners still to be asked were allowed for when the   *)
(* packet went out.                                                        *)
Counted ==
    /\ deliveries \in Nat /\ copies \in Nat
    /\ awaiting \subseteq NodeIds
    /\ current = Nil => copies = 0
    /\ current # Nil /\ deliveries > 0 => deliveries + copies + Cardinality(awaiting) <= limits.deliveries

CountVars == <<deliveries, copies, awaiting, current>>

(* The audience tick() counts on is at least the audience there is.        *)
LEMMA ExpectedSuffices ==
    ASSUME IsFiniteSet(NodeIds), NEW out \in Sound, InOrder(net), CanUseLink(net, out.sender, out.via)
    PROVE  /\ Listeners(out.sender, out.via) \subseteq NodeIds
           /\ Cardinality(Listeners(out.sender, out.via)) <= Expected(out)
<1> DEFINE l == out.via
           subs == net.subscribers[l]
           up == net.owner[l]
<1>1. l \in LinkIds /\ out.sender \in NodeIds
  BY DEF Sound, Outgoing
<1>2. l \in net.links
  BY <1>1 DEF CanUseLink, InOrder, Resolved, Paired
<1>3. subs \subseteq NodeIds /\ Listeners(out.sender, l) \subseteq subs \cup {up}
  BY <1>1 DEF Listeners, Audience, InOrder, NetworkType
<1>4. Listeners(out.sender, l) \subseteq NodeIds
  BY <1>1, ListenersExist DEF Listeners
<1> HIDE DEF l, subs, up
<1>5. IsFiniteSet(subs)
  BY <1>3, FS_Subset
<1>6. Cardinality(subs) \in Nat
  BY <1>5, FS_CardinalityType
<1>7. IsFiniteSet(subs \cup {up}) /\ Cardinality(subs \cup {up}) <= Cardinality(subs) + 1
  <2>1. /\ IsFiniteSet(subs \cup {up})
        /\ Cardinality(subs \cup {up}) = IF up \in subs THEN Cardinality(subs) ELSE Cardinality(subs) + 1
    BY <1>5, FS_AddElement
  <2> QED
    BY <2>1, <1>6
<1>8. /\ Cardinality(Listeners(out.sender, l)) <= Cardinality(subs \cup {up})
      /\ IsFiniteSet(Listeners(out.sender, l))
  BY <1>3, <1>7, FS_Subset
<1>9. Cardinality(Listeners(out.sender, l)) \in Nat /\ Cardinality(subs \cup {up}) \in Nat
  BY <1>7, <1>8, FS_CardinalityType
<1>10. Cardinality(Listeners(out.sender, l)) <= Cardinality(subs) + 1
  BY <1>6, <1>7, <1>8, <1>9
<1> QED
  BY <1>2, <1>4, <1>10 DEF Expected, l, subs

LEMMA CountKept ==
    ASSUME IInv, Counted, UNCHANGED CountVars, current # Nil => limits' = limits
    PROVE  Counted'
BY DEF Counted, CountVars

LEMMA CountTransmit ==
    ASSUME IsFiniteSet(NodeIds), IInv, Counted, Transmit
    PROVE  Counted'
<1> DEFINE out == Head(batch)
<1>1. /\ current = Nil /\ batch # <<>> /\ ~DeliveriesSpent(out) /\ UNCHANGED <<copies, deliveries, limits, net>>
      /\ \/ UNCHANGED <<current, awaiting>>
         \/ /\ CanUseLink(net, out.sender, out.via)
            /\ current' = out /\ awaiting' = Listeners(out.sender, out.via)
  BY DEF Transmit, Between, worldVars
<1>2. out \in Sound /\ InOrder(net) /\ limits.deliveries \in Nat
  BY <1>1, TailTyped, WorldAssumption DEF IInv, Underway
<1> HIDE DEF out
<1>3. CASE UNCHANGED <<current, awaiting>>
  BY <1>1, <1>3, CountKept DEF CountVars
<1>4. CASE /\ CanUseLink(net, out.sender, out.via)
           /\ current' = out /\ awaiting' = Listeners(out.sender, out.via)
  <2>1. awaiting' \subseteq NodeIds /\ Cardinality(awaiting') <= Expected(out)
    BY <1>2, <1>4, ExpectedSuffices
  <2>2. IsFiniteSet(awaiting')
    BY <2>1, FS_Subset
  <2>3. Cardinality(awaiting') \in Nat
    BY <2>2, FS_CardinalityType
  <2>4. Expected(out) \in Nat
    <3>1. out.via \in net.links => IsFiniteSet(net.subscribers[out.via])
      BY <1>2, FS_Subset DEF InOrder, NetworkType
    <3> QED
      BY <3>1, FS_CardinalityType DEF Expected
  <2>5. deliveries > 0 => deliveries + Expected(out) <= limits.deliveries
    BY <1>1, <1>2, <2>4 DEF DeliveriesSpent, Counted
  <2>6. copies = 0 /\ deliveries \in Nat
    BY <1>1 DEF Counted
  <2> QED
    BY <1>1, <1>2, <2>1, <2>3, <2>4, <2>5, <2>6 DEF Counted
<1> QED
  BY <1>1, <1>3, <1>4

LEMMA CountDeliver ==
    ASSUME IsFiniteSet(NodeIds), IInv, Counted, NEW n \in NodeIds, Decline(n) \/ Deliver(n)
    PROVE  Counted'
<1>1. /\ current # Nil /\ n \in awaiting /\ awaiting' = awaiting \ {n}
      /\ copies' \in {copies, copies + 1} /\ UNCHANGED <<current, deliveries, limits>>
  BY DEF Decline, Deliver, worldVars
<1>2. IsFiniteSet(awaiting)
  BY FS_Subset DEF Counted
<1>3. Cardinality(awaiting) \in Nat /\ Cardinality(awaiting \ {n}) = Cardinality(awaiting) - 1
  BY <1>1, <1>2, FS_CardinalityType, FS_RemoveElement
<1>4. limits.deliveries \in Nat
  BY WorldAssumption DEF IInv, Underway
<1> QED
  BY <1>1, <1>3, <1>4 DEF Counted

LEMMA CountStep ==
    ASSUME IsFiniteSet(NodeIds), IInv, Counted, [Next]_vars
    PROVE  Counted'
<1>1. CASE HostStep
  <2>1. current = Nil
    BY <1>1 DEF HostStep, Send, SendPacket, Drain, SetHost, SetLogic, RemoveLogic, RemoveNodeWithLogic,
                ChangeNetwork, SetLimits, Idle, IInv, InPhase
  <2>2. UNCHANGED CountVars
    BY <1>1 DEF HostStep, Send, SendPacket, Drain, SetHost, SetLogic, RemoveLogic, RemoveNodeWithLogic,
                ChangeNetwork, SetLimits, tickVars, CountVars
  <2> QED
    BY <2>1, <2>2, CountKept
<1>2. CASE Transmit
  BY <1>2, CountTransmit
<1>3. ASSUME NEW n \in NodeIds, Decline(n) \/ Deliver(n) PROVE Counted'
  BY <1>3, CountDeliver
<1>4. CASE FinishTransmit
  BY <1>4 DEF FinishTransmit, Counted
<1>5. CASE Trip \/ Complete
  BY <1>5 DEF Trip, Complete, EndTick, Ended, Between, Counted
<1>6. ASSUME NEW n, PanicInWants(n) PROVE Counted'
  BY <1>6 DEF PanicInWants, Counted
<1>7. ASSUME NEW n, StartTick \/ OnTick(n) \/ TakeBatch \/ Return \/ Panic PROVE Counted'
  BY <1>7, CountKept DEF StartTick, OnTick, TakeBatch, Return, Panic, worldVars, tickVars, CountVars
<1>8. ASSUME NEW l, CallForward(l) \/ \E e \in Events : CallSend(l, e) PROVE Counted'
  BY <1>8, CountKept DEF CallForward, CallSend, worldVars, tickVars, CountVars
<1>9. CASE UNCHANGED vars
  BY <1>9, CountKept DEF vars, worldVars, tickVars, CountVars
<1> QED
  BY <1>1, <1>2, <1>3, <1>4, <1>5, <1>6, <1>7, <1>8, <1>9 DEF Next, EngineStep, LogicStep

(* A packet that is not the first to be delivered in its tick never takes  *)
(* the count of deliveries past the limit: nobody joins its audience       *)
(* between the check and the last copy.                                    *)
THEOREM FuseHolds ==
    ASSUME IsFiniteSet(NodeIds)
    PROVE  Spec => []DeliveriesFused
<1>1. Init => Counted
  BY DEF Init, Counted
<1>2. IInv /\ Counted /\ [Next]_vars => Counted'
  BY CountStep
<1>3. IInv /\ Counted => DeliveriesFused
  <2> SUFFICES ASSUME IInv, Counted, current # Nil, deliveries > 0
               PROVE  deliveries + copies <= limits.deliveries
    BY DEF DeliveriesFused
  <2>1. Cardinality(awaiting) \in Nat
    BY FS_Subset, FS_CardinalityType DEF Counted
  <2>2. limits.deliveries \in Nat
    BY WorldAssumption DEF IInv, Underway
  <2> QED
    BY <2>1, <2>2 DEF Counted
<1> QED
  BY <1>1, <1>2, <1>3, WorldInvariant, PTL DEF Spec
=============================================================================
