-------------------------- MODULE NetworkOpsProofs ---------------------------
(***************************************************************************)
(* Lemmas about the operations of the network: each keeps a network in     *)
(* order, for any number of nodes, links and names.  Both Network and      *)
(* World run on these operations, and their proofs rest on these lemmas.   *)
(***************************************************************************)
EXTENDS NetworkOps, TLAPS

USE NetworkAssumption

LEMMA NewNetworkInOrder == InOrder(NewNetwork)
<1> DEFINE s == NewNetwork
<1>1. s \in NetworkType
  BY DEF NewNetwork, NetworkType
<1>2. Resolved(s)
  BY DEF NewNetwork, Resolved
<1>3. Paired(s)
  BY DEF NewNetwork, Paired
<1>4. Forest(s)
  BY DEF NewNetwork, Forest
<1>5. Addressable(s) /\ Distinguishable(s)
  BY DEF NewNetwork, Addressable, Distinguishable
<1> QED
  BY <1>1, <1>2, <1>3, <1>4, <1>5 DEF InOrder

-----------------------------------------------------------------------------
(* subscribe *)

LEMMA SubscriberTyped ==
    ASSUME NEW s \in NetworkType, NEW n \in NodeIds, NEW l \in LinkIds
    PROVE  WithSubscriber(s, n, l) \in NetworkType
<1> DEFINE t == WithSubscriber(s, n, l)
<1>1. t.subscribers \in [LinkIds -> SUBSET NodeIds]
  BY DEF WithSubscriber, NetworkType
<1>2. t.subscriptions \in [NodeIds -> SUBSET LinkIds]
  BY DEF WithSubscriber, NetworkType
<1>3. t = [s EXCEPT !.subscribers = t.subscribers, !.subscriptions = t.subscriptions]
  BY DEF WithSubscriber, NetworkType
<1> QED
  BY <1>1, <1>2, <1>3 DEF NetworkType

LEMMA SubscriberInOrder ==
    ASSUME NEW s, InOrder(s), NEW n \in NodeIds, NEW l \in LinkIds, CanSubscribe(s, n, l)
    PROVE  InOrder(WithSubscriber(s, n, l))
<1> DEFINE t == WithSubscriber(s, n, l)
<1> USE DEF InOrder
<1>1. t \in NetworkType
  BY SubscriberTyped
<1>2. Resolved(t)
  BY DEF WithSubscriber, NetworkType, Resolved, CanSubscribe
<1>3. Paired(t)
  BY DEF WithSubscriber, NetworkType, Paired
<1>4. Forest(t)
  BY DEF WithSubscriber, NetworkType, Forest
<1>5. Addressable(t)
  BY DEF WithSubscriber, NetworkType, Addressable, CanSubscribe, NodeNameFree, Audience
<1>6. Distinguishable(t)
  BY DEF WithSubscriber, NetworkType, Distinguishable, CanSubscribe, LinkNameFree, Paired
<1> QED
  BY <1>1, <1>2, <1>3, <1>4, <1>5, <1>6

-----------------------------------------------------------------------------
(* add_internal_link *)

LEMMA OwnerTyped ==
    ASSUME NEW s \in NetworkType, NEW o \in NodeIds, NEW l \in LinkIds
    PROVE  WithOwner(s, o, l) \in NetworkType
<1> DEFINE t == WithOwner(s, o, l)
<1>1. t.owner \in [LinkIds -> NodeIds \cup {Nil}]
  BY DEF WithOwner, NetworkType
<1>2. t.internal \in [NodeIds -> SUBSET LinkIds]
  BY DEF WithOwner, NetworkType
<1>3. t = [s EXCEPT !.owner = t.owner, !.internal = t.internal]
  BY DEF WithOwner, NetworkType
<1> QED
  BY <1>1, <1>2, <1>3 DEF NetworkType

(* The root joins an audience unchecked: nobody else can have its name.    *)
LEMMA OwnerNameFree ==
    ASSUME NEW s, InOrder(s), NEW o \in NodeIds, NEW l \in LinkIds,
           CanAddInternalLink(s, o, l), s.owner[l] = Nil
    PROVE  NodeNameFree(s, o, l)
<1>1. CASE o # Root
  BY <1>1 DEF CanAddInternalLink
<1>2. CASE o = Root
  <2>1. ASSUME NEW m \in s.subscribers[l] PROVE m \in s.nodes
    <3>1. m \in NodeIds
      BY DEF InOrder, NetworkType
    <3>2. l \in s.subscriptions[m]
      BY <3>1 DEF InOrder, Paired
    <3> QED
      BY <3>1, <3>2 DEF InOrder, Resolved
  <2>2. \A m \in s.nodes \ {Root} : s.name[m] # s.name[Root]
    BY DEF InOrder, NetworkType, Resolved
  <2> QED
    BY <1>2, <2>1, <2>2 DEF CanAddInternalLink, NodeNameFree, Audience
<1> QED
  BY <1>1, <1>2

LEMMA OwnerInOrder ==
    ASSUME NEW s, InOrder(s), NEW o \in NodeIds, NEW l \in LinkIds,
           CanAddInternalLink(s, o, l)
    PROVE  InOrder(WithOwner(s, o, l))
<1> DEFINE t == WithOwner(s, o, l)
<1> USE DEF InOrder
<1>1. t \in NetworkType
  BY OwnerTyped
<1>2. Resolved(t)
  BY DEF WithOwner, NetworkType, Resolved, CanAddInternalLink
<1>3. Paired(t)
  BY DEF WithOwner, NetworkType, Paired, CanAddInternalLink
<1>4. Forest(t)
  BY DEF WithOwner, NetworkType, Forest
<1>5. Addressable(t)
  <2>1. CASE s.owner[l] = Nil
    <3>1. NodeNameFree(s, o, l)
      BY <2>1, OwnerNameFree
    <3>2. t.subscribers = s.subscribers /\ t.links = s.links /\ t.name = s.name
      BY DEF WithOwner, NetworkType
    <3>3. \A k \in LinkIds : t.owner[k] = IF k = l THEN o ELSE s.owner[k]
      BY DEF WithOwner, NetworkType
    <3>4. s.links \subseteq LinkIds
      BY DEF NetworkType
    <3> QED
      BY <2>1, <3>1, <3>2, <3>3, <3>4 DEF Addressable, NodeNameFree, Audience
  <2>2. CASE s.owner[l] = o
    BY <2>2 DEF WithOwner, NetworkType, Addressable
  <2> QED
    BY <2>1, <2>2 DEF CanAddInternalLink
<1>6. Distinguishable(t)
  <2>1. t.subscriptions = s.subscriptions /\ t.nodes = s.nodes /\ t.name = s.name
    BY DEF WithOwner, NetworkType
  <2>2. \A m \in NodeIds : t.internal[m] = IF m = o THEN s.internal[m] \cup {l} ELSE s.internal[m]
    BY DEF WithOwner, NetworkType
  <2>3. l \in s.internal[o] \/ LinkNameFree(s, l, s.internal[o])
    BY DEF CanAddInternalLink, Paired, NetworkType
  <2>4. s.nodes \subseteq NodeIds
    BY DEF NetworkType
  <2>5. ASSUME NEW m \in s.nodes, NEW j \in t.internal[m], NEW k \in t.internal[m],
               s.name[j] = s.name[k]
        PROVE  j = k
    <3>1. CASE j \in s.internal[m] /\ k \in s.internal[m]
      BY <2>5, <3>1 DEF Distinguishable
    <3>2. CASE ~(j \in s.internal[m] /\ k \in s.internal[m])
      <4>1. m = o /\ l \notin s.internal[o]
        BY <2>2, <2>4, <3>2
      <4>2. j = l \/ j \in s.internal[o]
        BY <2>2, <4>1
      <4>3. k = l \/ k \in s.internal[o]
        BY <2>2, <4>1
      <4> QED
        BY <2>3, <2>5, <3>2, <4>1, <4>2, <4>3 DEF LinkNameFree
    <3> QED
      BY <3>1, <3>2
  <2> QED
    BY <2>1, <2>5 DEF Distinguishable
<1> QED
  BY <1>1, <1>2, <1>3, <1>4, <1>5, <1>6

-----------------------------------------------------------------------------
(* connect *)

LEMMA ParentTyped ==
    ASSUME NEW s \in NetworkType, NEW p \in NodeIds, NEW n \in NodeIds
    PROVE  WithParent(s, p, n) \in NetworkType
<1> DEFINE t == WithParent(s, p, n)
<1>1. t.parent \in [NodeIds -> NodeIds \cup {Nil}]
  BY DEF WithParent, NetworkType
<1>2. t.children \in [NodeIds -> SUBSET NodeIds]
  BY DEF WithParent, NetworkType
<1>3. t = [s EXCEPT !.parent = t.parent, !.children = t.children]
  BY DEF WithParent, NetworkType
<1> QED
  BY <1>1, <1>2, <1>3 DEF NetworkType

LEMMA AncestorsClosed ==
    ASSUME NEW s \in NetworkType, NEW p \in NodeIds
    PROVE  /\ p \in AncestorsAndSelf(s, p)
           /\ ClosedUpward(s, AncestorsAndSelf(s, p))
<1> DEFINE A == AncestorsAndSelf(s, p)
<1>1. p \in A
  BY DEF AncestorsAndSelf
<1>2. ASSUME NEW m \in A, s.parent[m] # Nil
      PROVE  s.parent[m] \in A
  <2>1. s.parent[m] \in NodeIds
    BY <1>2 DEF AncestorsAndSelf, NetworkType
  <2>2. ASSUME NEW S \in SUBSET NodeIds, p \in S, ClosedUpward(s, S)
        PROVE  s.parent[m] \in S
    <3>1. m \in S
      BY <2>2 DEF AncestorsAndSelf
    <3> QED
      BY <1>2, <2>2, <3>1 DEF ClosedUpward
  <2> QED
    BY <2>1, <2>2 DEF AncestorsAndSelf
<1> QED
  BY <1>1, <1>2 DEF ClosedUpward

(* Nesting n under p makes no cycle if n is not above p: a set in which    *)
(* every parent stays inside would hold p and, cut down to what is above   *)
(* p, would have been such a set before.                                   *)
LEMMA ParentKeepsForest ==
    ASSUME NEW s \in NetworkType, Forest(s), NEW p \in NodeIds, NEW n \in NodeIds,
           n # Root, n \notin AncestorsAndSelf(s, p)
    PROVE  Forest(WithParent(s, p, n))
<1> DEFINE t == WithParent(s, p, n)
           A == AncestorsAndSelf(s, p)
<1>1. \A m \in NodeIds : t.parent[m] = IF m = n THEN p ELSE s.parent[m]
  BY DEF WithParent, NetworkType
<1>2. t.parent[Root] = Nil
  BY <1>1 DEF Forest
<1>3. ASSUME NEW S \in SUBSET NodeIds, S # {}, \A m \in S : t.parent[m] \in S
      PROVE  FALSE
  <2>1. CASE n \notin S
    BY <1>1, <1>3, <2>1 DEF Forest
  <2>2. CASE n \in S
    <3> DEFINE T == S \cap A
    <3>1. p \in T
      BY <1>1, <1>3, <2>2, AncestorsClosed
    <3>2. ASSUME NEW m \in T
          PROVE  s.parent[m] \in T
      <4>1. s.parent[m] \in S
        BY <1>1, <1>3
      <4>2. s.parent[m] \in A
        BY <4>1, AncestorsClosed DEF ClosedUpward
      <4> QED
        BY <4>1, <4>2
    <3> QED
      BY <3>1, <3>2 DEF Forest
  <2> QED
    BY <2>1, <2>2
<1> QED
  BY <1>2, <1>3 DEF Forest

LEMMA ParentInOrder ==
    ASSUME NEW s, InOrder(s), NEW p \in NodeIds, NEW n \in NodeIds, NEW l \in LinkIds \cup {Nil},
           CanConnect(s, p, n, l), s.parent[n] = Nil
    PROVE  InOrder(WithParent(s, p, n))
<1> DEFINE t == WithParent(s, p, n)
<1> USE DEF InOrder
<1>1. t \in NetworkType
  BY ParentTyped
<1>2. Resolved(t)
  BY DEF WithParent, NetworkType, Resolved, CanConnect
<1>3. Paired(t)
  BY DEF WithParent, NetworkType, Paired
<1>4. Forest(t)
  BY ParentKeepsForest DEF CanConnect
<1>5. Addressable(t) /\ Distinguishable(t)
  BY DEF WithParent, NetworkType, Addressable, Distinguishable
<1> QED
  BY <1>1, <1>2, <1>3, <1>4, <1>5

(* connect validates everything first: neither of the two checked          *)
(* operations it then runs can be rejected, so no half-made connection is  *)
(* ever left behind.                                                       *)
LEMMA ConnectOwns ==
    ASSUME NEW s, InOrder(s), NEW p \in NodeIds, NEW n \in NodeIds, NEW l \in LinkIds,
           CanConnect(s, p, n, l),
           NEW u, u = (IF s.parent[n] = Nil THEN WithParent(s, p, n) ELSE s)
    PROVE  CanAddInternalLink(u, p, l)
<1>1. CanAddInternalLink(s, p, l)
  BY DEF CanConnect, CanConnectLink
<1>2. /\ u.nodes = s.nodes /\ u.links = s.links /\ u.name = s.name /\ u.owner = s.owner
      /\ u.internal = s.internal /\ u.subscribers = s.subscribers
  BY DEF WithParent, InOrder, NetworkType
<1> QED
  BY <1>1, <1>2 DEF CanAddInternalLink, LinkNameFree, NodeNameFree, Audience

LEMMA ConnectSubscribes ==
    ASSUME NEW s, InOrder(s), NEW p \in NodeIds, NEW n \in NodeIds, NEW l \in LinkIds,
           CanConnect(s, p, n, l),
           NEW u, u = (IF s.parent[n] = Nil THEN WithParent(s, p, n) ELSE s)
    PROVE  CanSubscribe(WithOwner(u, p, l), n, l)
<1> DEFINE t == WithOwner(u, p, l)
<1>1. CanSubscribe(s, n, l)
  BY DEF CanConnect, CanConnectLink
<1>2. /\ u.nodes = s.nodes /\ u.links = s.links /\ u.name = s.name /\ u.owner = s.owner
      /\ u.subscribers = s.subscribers /\ u.subscriptions = s.subscriptions
  BY DEF WithParent, InOrder, NetworkType
<1>3. u \in NetworkType
  BY ParentTyped DEF InOrder
<1>4. /\ t.nodes = s.nodes /\ t.links = s.links /\ t.name = s.name
      /\ t.subscribers = s.subscribers /\ t.subscriptions = s.subscriptions
      /\ t.owner[l] = p
  BY <1>2, <1>3 DEF WithOwner, NetworkType
<1>5. n \notin s.subscribers[l] => NodeNameFree(t, n, l)
  <2> SUFFICES ASSUME n \notin s.subscribers[l] PROVE NodeNameFree(t, n, l)
    OBVIOUS
  <2>1. NodeNameFree(s, n, l)
    BY <1>1 DEF CanSubscribe
  <2>2. CASE s.owner[l] = p
    BY <1>4, <2>1, <2>2 DEF NodeNameFree, Audience
  <2>3. CASE s.owner[l] = Nil /\ p # Root
    BY <1>4, <2>1, <2>3 DEF NodeNameFree, Audience, CanConnect, CanConnectLink
  <2>4. CASE s.owner[l] = Nil /\ p = Root
    <3>1. s.name[n] # s.name[Root]
      BY DEF CanConnect, InOrder, Resolved
    <3> QED
      BY <1>4, <2>1, <2>4, <3>1 DEF NodeNameFree, Audience
  <2> QED
    BY <2>2, <2>3, <2>4 DEF CanConnect, CanConnectLink, CanAddInternalLink
<1> QED
  BY <1>1, <1>4, <1>5 DEF CanSubscribe, LinkNameFree

LEMMA ConnectAllOrNothing ==
    ASSUME NEW s, InOrder(s), NEW p \in NodeIds, NEW n \in NodeIds, NEW l \in LinkIds \cup {Nil}
    PROVE  LET r == Connect(s, p, n, l)
           IN  InOrder(r.net) /\ (r.ok \/ r.net = s) /\ r.ok \in BOOLEAN
<1> DEFINE u == IF s.parent[n] = Nil THEN WithParent(s, p, n) ELSE s
<1>1. CASE ~CanConnect(s, p, n, l)
  BY <1>1 DEF Connect, Rejected
<1>2. CASE CanConnect(s, p, n, l)
  <2>1. InOrder(u)
    BY <1>2, ParentInOrder
  <2>2. CASE l = Nil
    BY <1>2, <2>1, <2>2 DEF Connect, Done
  <2>3. CASE l # Nil
    <3>1. l \in LinkIds
      BY <2>3
    <3>2. AddInternalLink(u, p, l) = Done(WithOwner(u, p, l))
      BY <1>2, <3>1, ConnectOwns DEF AddInternalLink
    <3>3. InOrder(WithOwner(u, p, l))
      BY <1>2, <2>1, <3>1, ConnectOwns, OwnerInOrder
    <3>4. CanSubscribe(WithOwner(u, p, l), n, l)
      BY <1>2, <3>1, ConnectSubscribes
    <3>5. Connect(s, p, n, l) = Done(WithSubscriber(WithOwner(u, p, l), n, l))
      <4>1. Subscribe(WithOwner(u, p, l), n, l) = Done(WithSubscriber(WithOwner(u, p, l), n, l))
        BY <3>4 DEF Subscribe
      <4>2. AddInternalLink(u, p, l).ok /\ AddInternalLink(u, p, l).net = WithOwner(u, p, l)
        BY <3>2 DEF Done
      <4> QED
        BY <1>2, <2>3, <4>1, <4>2 DEF Connect
    <3>6. InOrder(WithSubscriber(WithOwner(u, p, l), n, l))
      BY <3>1, <3>3, <3>4, SubscriberInOrder
    <3> QED
      BY <3>5, <3>6 DEF Done
  <2> QED
    BY <2>2, <2>3
<1> QED
  BY <1>1, <1>2

-----------------------------------------------------------------------------
(* unsubscribe and disconnect *)

LEMMA UnsubscribedInOrder ==
    ASSUME NEW s, InOrder(s), NEW n \in NodeIds, NEW L \in SUBSET LinkIds
    PROVE  InOrder(WithoutSubscriber(s, n, L))
<1> DEFINE t == WithoutSubscriber(s, n, L)
<1> USE DEF InOrder
<1>1. t.subscribers \in [LinkIds -> SUBSET NodeIds]
  BY DEF WithoutSubscriber, NetworkType
<1>2. t.subscriptions \in [NodeIds -> SUBSET LinkIds]
  BY DEF WithoutSubscriber, NetworkType
<1>3. t = [s EXCEPT !.subscribers = t.subscribers, !.subscriptions = t.subscriptions]
  BY DEF WithoutSubscriber, NetworkType
<1>4. t \in NetworkType
  BY <1>1, <1>2, <1>3 DEF NetworkType
<1>5. \A k \in LinkIds, m \in NodeIds :
         /\ m \in t.subscribers[k] <=> m \in s.subscribers[k] /\ ~(k \in L /\ m = n)
         /\ k \in t.subscriptions[m] <=> k \in s.subscriptions[m] /\ ~(k \in L /\ m = n)
  BY DEF WithoutSubscriber, NetworkType
<1>6. /\ t.nodes = s.nodes /\ t.links = s.links /\ t.issued = s.issued /\ t.name = s.name
      /\ t.parent = s.parent /\ t.children = s.children
      /\ t.internal = s.internal /\ t.owner = s.owner
  BY <1>3 DEF NetworkType
<1>7. Resolved(t)
  BY <1>4, <1>5, <1>6 DEF Resolved, NetworkType
<1>8. Paired(t)
  BY <1>5, <1>6 DEF Paired
<1>9. Forest(t)
  BY <1>6 DEF Forest
<1>10. Addressable(t)
  <2>1. \A k \in LinkIds : t.subscribers[k] \subseteq s.subscribers[k]
    BY <1>4, <1>5 DEF NetworkType
  <2> QED
    BY <1>6, <2>1 DEF Addressable, NetworkType
<1>11. Distinguishable(t)
  <2>1. \A m \in NodeIds : t.subscriptions[m] \subseteq s.subscriptions[m]
    BY <1>4, <1>5 DEF NetworkType
  <2> QED
    BY <1>6, <2>1 DEF Distinguishable, NetworkType
<1> QED
  BY <1>4, <1>7, <1>8, <1>9, <1>10, <1>11

LEMMA UnparentedInOrder ==
    ASSUME NEW s, InOrder(s), NEW p \in NodeIds, NEW n \in NodeIds, s.parent[n] = p
    PROVE  InOrder(WithoutParent(s, p, n))
<1> DEFINE t == WithoutParent(s, p, n)
<1> USE DEF InOrder
<1>1. t.parent \in [NodeIds -> NodeIds \cup {Nil}]
  BY DEF WithoutParent, NetworkType
<1>2. t.children \in [NodeIds -> SUBSET NodeIds]
  BY DEF WithoutParent, NetworkType
<1>3. t = [s EXCEPT !.parent = t.parent, !.children = t.children]
  BY DEF WithoutParent, NetworkType
<1>4. t \in NetworkType
  BY <1>1, <1>2, <1>3 DEF NetworkType
<1>5. /\ \A m \in NodeIds : t.parent[m] = IF m = n THEN Nil ELSE s.parent[m]
      /\ \A m, k \in NodeIds : k \in t.children[m] <=> k \in s.children[m] /\ ~(m = p /\ k = n)
  BY DEF WithoutParent, NetworkType
<1>6. /\ t.nodes = s.nodes /\ t.links = s.links /\ t.issued = s.issued /\ t.name = s.name
      /\ t.internal = s.internal /\ t.owner = s.owner
      /\ t.subscribers = s.subscribers /\ t.subscriptions = s.subscriptions
  BY <1>3 DEF NetworkType
<1>7. Resolved(t)
  BY <1>5, <1>6 DEF Resolved
<1>8. Paired(t)
  BY <1>5, <1>6 DEF Paired
<1>9. Forest(t)
  BY <1>5, <1>6 DEF Forest
<1>10. Addressable(t) /\ Distinguishable(t)
  BY <1>6 DEF Addressable, Distinguishable
<1> QED
  BY <1>4, <1>7, <1>8, <1>9, <1>10

LEMMA InternalLinksResolve ==
    ASSUME NEW s, InOrder(s), NEW p \in NodeIds
    PROVE  s.internal[p] \subseteq s.links
  BY DEF InOrder, NetworkType, Resolved, Paired

(* disconnect's loop never meets a link that does not resolve.             *)
LEMMA DisconnectAllOrNothing ==
    ASSUME NEW s, InOrder(s), NEW p \in NodeIds, NEW n \in NodeIds
    PROVE  LET r == Disconnect(s, p, n)
           IN  InOrder(r.net) /\ (r.ok \/ r.net = s) /\ r.ok \in BOOLEAN
<1> DEFINE L == s.internal[p] \cap s.links
           u == WithoutSubscriber(s, n, L)
<1>1. CASE ~({p, n} \subseteq s.nodes /\ s.parent[n] = p)
  BY <1>1 DEF Disconnect, Rejected
<1>2. CASE {p, n} \subseteq s.nodes /\ s.parent[n] = p
  <2>1. Disconnect(s, p, n) = Done(WithoutParent(u, p, n))
    BY <1>2, InternalLinksResolve DEF Disconnect
  <2>2. InOrder(u)
    <3>1. L \in SUBSET LinkIds
      BY DEF InOrder, NetworkType
    <3> QED
      BY <3>1, UnsubscribedInOrder
  <2>3. u.parent[n] = p
    BY <1>2 DEF WithoutSubscriber, InOrder, NetworkType
  <2>4. InOrder(WithoutParent(u, p, n))
    BY <2>2, <2>3, UnparentedInOrder
  <2> QED
    BY <2>1, <2>4 DEF Done
<1> QED
  BY <1>1, <1>2

-----------------------------------------------------------------------------
(* remove_link and remove_node *)

LEMMA UnlinkedInOrder ==
    ASSUME NEW s, InOrder(s), NEW L \in SUBSET s.links
    PROVE  InOrder(WithoutLinks(s, L))
<1> DEFINE t == WithoutLinks(s, L)
<1> USE DEF InOrder
<1>1. L \subseteq LinkIds /\ s.links \subseteq LinkIds /\ s.nodes \subseteq NodeIds
  BY DEF NetworkType
<1>2. /\ t.links = s.links \ L
      /\ t.name = [h \in NodeIds \cup LinkIds |-> IF h \in L THEN Nil ELSE s.name[h]]
      /\ t.subscriptions =
            [n \in NodeIds |-> s.subscriptions[n] \ {l \in L : n \in s.subscribers[l]}]
      /\ t.internal = [n \in NodeIds |-> s.internal[n] \ {l \in L : n = s.owner[l]}]
      /\ t.owner = [l \in LinkIds |-> IF l \in L THEN Nil ELSE s.owner[l]]
      /\ t.subscribers = [l \in LinkIds |-> IF l \in L THEN {} ELSE s.subscribers[l]]
  BY DEF WithoutLinks, NetworkType
<1>3. /\ t.nodes = s.nodes /\ t.issued = s.issued
      /\ t.parent = s.parent /\ t.children = s.children
  BY DEF WithoutLinks, NetworkType
<1>4. t \in NetworkType
  <2>1. t.name \in [NodeIds \cup LinkIds -> (Names \ Reserved) \cup {RootName, Nil}]
    BY <1>2 DEF NetworkType
  <2>2. /\ t.subscriptions \in [NodeIds -> SUBSET LinkIds]
        /\ t.internal \in [NodeIds -> SUBSET LinkIds]
    BY <1>2 DEF NetworkType
  <2>3. /\ t.owner \in [LinkIds -> NodeIds \cup {Nil}]
        /\ t.subscribers \in [LinkIds -> SUBSET NodeIds]
    BY <1>2 DEF NetworkType
  <2>4. t = [s EXCEPT !.links = t.links, !.name = t.name, !.subscriptions = t.subscriptions,
                      !.internal = t.internal, !.owner = t.owner,
                      !.subscribers = t.subscribers]
    BY DEF WithoutLinks, NetworkType
  <2>5. t.links \in SUBSET LinkIds
    BY <1>1, <1>2
  <2> QED
    BY <2>1, <2>2, <2>3, <2>4, <2>5 DEF NetworkType
<1>5. \A l \in LinkIds, n \in NodeIds :
         /\ l \in t.subscriptions[n] <=> l \in s.subscriptions[n] /\ l \notin L
         /\ l \in t.internal[n] <=> l \in s.internal[n] /\ l \notin L
         /\ n \in t.subscribers[l] <=> n \in s.subscribers[l] /\ l \notin L
         /\ t.owner[l] = n <=> s.owner[l] = n /\ l \notin L
  <2> TAKE l \in LinkIds, n \in NodeIds
  <2>1. l \in t.subscriptions[n] <=> l \in s.subscriptions[n] /\ l \notin L
    <3>1. t.subscriptions[n] = s.subscriptions[n] \ {k \in L : n \in s.subscribers[k]}
      BY <1>2
    <3>2. l \in s.subscriptions[n] <=> n \in s.subscribers[l]
      BY DEF Paired
    <3> QED
      BY <3>1, <3>2
  <2>2. l \in t.internal[n] <=> l \in s.internal[n] /\ l \notin L
    <3>1. t.internal[n] = s.internal[n] \ {k \in L : n = s.owner[k]}
      BY <1>2
    <3>2. l \in s.internal[n] <=> s.owner[l] = n
      BY DEF Paired
    <3> QED
      BY <3>1, <3>2
  <2>3. n \in t.subscribers[l] <=> n \in s.subscribers[l] /\ l \notin L
    BY <1>2
  <2>4. t.owner[l] = n <=> s.owner[l] = n /\ l \notin L
    <3>1. n # Nil
      OBVIOUS
    <3> QED
      BY <1>2, <3>1
  <2> QED
    BY <2>1, <2>2, <2>3, <2>4
<1>6. \A h \in (NodeIds \cup LinkIds) \ L : t.name[h] = s.name[h]
  BY <1>2
<1>7. Resolved(t)
  <2>1. t.nodes \cup t.links \subseteq t.issued /\ Root \in t.nodes
    BY <1>2, <1>3 DEF Resolved
  <2>2. \A h \in t.nodes \cup t.links : t.name[h] = s.name[h]
    BY <1>1, <1>2, <1>3, <1>6
  <2>3. t.name[Root] = RootName
    BY <2>1, <2>2, <1>3 DEF Resolved
  <2>4. \A h \in (t.nodes \cup t.links) \ {Root} : t.name[h] \in Names \ Reserved
    BY <1>2, <1>3, <2>2 DEF Resolved
  <2>5. \A n \in NodeIds :
           /\ n \notin t.nodes => t.parent[n] = Nil /\ t.subscriptions[n] = {}
           /\ t.parent[n] \in t.nodes \cup {Nil}
    <3>1. \A n \in NodeIds : t.subscriptions[n] \subseteq s.subscriptions[n]
      BY <1>4, <1>5 DEF NetworkType
    <3>2. \A n \in NodeIds : n \notin t.nodes => s.subscriptions[n] = {}
      BY <1>3 DEF Resolved
    <3>3. \A n \in NodeIds : n \notin t.nodes => t.subscriptions[n] = {}
      BY <3>1, <3>2
    <3> QED
      BY <1>3, <3>3 DEF Resolved
  <2>6. \A l \in LinkIds :
           /\ l \notin t.links => t.owner[l] = Nil /\ t.subscribers[l] = {}
           /\ t.owner[l] \in t.nodes \cup {Nil}
    BY <1>2, <1>3 DEF Resolved
  <2> QED
    BY <2>1, <2>3, <2>4, <2>5, <2>6 DEF Resolved
<1>8. Paired(t)
  BY <1>3, <1>5 DEF Paired
<1>9. Forest(t)
  BY <1>3 DEF Forest
<1>10. Addressable(t)
  <2> SUFFICES ASSUME NEW l \in t.links,
                      NEW m \in t.subscribers[l] \cup ({t.owner[l]} \ {Nil}),
                      NEW n \in t.subscribers[l] \cup ({t.owner[l]} \ {Nil}),
                      t.name[m] = t.name[n]
               PROVE  m = n
    BY DEF Addressable
  <2>1. l \in s.links /\ l \notin L /\ l \in LinkIds
    BY <1>1, <1>2
  <2>2. t.subscribers[l] = s.subscribers[l] /\ t.owner[l] = s.owner[l]
    BY <1>2, <2>1
  <2>3. m \in NodeIds /\ n \in NodeIds
    BY <2>1, <1>4 DEF NetworkType
  <2>4. s.name[m] = s.name[n]
    BY <1>1, <1>6, <2>3
  <2> QED
    BY <2>1, <2>2, <2>4 DEF Addressable
<1>11. Distinguishable(t)
  <2>1. \A n \in NodeIds :
           /\ t.subscriptions[n] \subseteq s.subscriptions[n] \ L
           /\ t.internal[n] \subseteq s.internal[n] \ L
    BY <1>4, <1>5 DEF NetworkType
  <2>2. \A n \in NodeIds : \A l \in s.subscriptions[n] \cup s.internal[n] : l \in LinkIds
    BY DEF NetworkType
  <2>3. ASSUME NEW n \in t.nodes
        PROVE  /\ \A k, l \in t.subscriptions[n] : t.name[k] = t.name[l] => k = l
               /\ \A k, l \in t.internal[n] : t.name[k] = t.name[l] => k = l
    <3>1. n \in s.nodes /\ n \in NodeIds
      BY <1>1, <1>3
    <3>2. \A k \in t.subscriptions[n] \cup t.internal[n] : t.name[k] = s.name[k]
      BY <1>6, <2>1, <2>2, <3>1
    <3> QED
      BY <2>1, <3>1, <3>2 DEF Distinguishable
  <2> QED
    BY <2>3 DEF Distinguishable
<1> QED
  BY <1>4, <1>7, <1>8, <1>9, <1>10, <1>11

(* What remove_node collects: live nodes without the root, each with all   *)
(* its children, and each but the first with its parent.                   *)
LEMMA SubtreeFacts ==
    ASSUME NEW s, InOrder(s), NEW n \in s.nodes \ {Root}
    PROVE  LET D == Subtree(s, n)
           IN  /\ n \in D
               /\ D \subseteq s.nodes \ {Root}
               /\ ClosedDownward(s, D)
               /\ \A m \in D \ {n} : s.parent[m] \in D
<1> DEFINE D == Subtree(s, n)
<1> USE DEF InOrder
<1>1. n \in NodeIds /\ s.nodes \subseteq NodeIds /\ D \subseteq NodeIds
  BY DEF NetworkType, Subtree
<1>2. \A m \in NodeIds : \A k \in s.children[m] : k \in NodeIds /\ s.parent[k] = m
  BY DEF NetworkType, Paired
<1>3. n \in D
  BY <1>1 DEF Subtree
<1>4. ASSUME NEW S \in SUBSET NodeIds, n \in S, ClosedDownward(s, S)
      PROVE  D \subseteq S
  BY <1>4 DEF Subtree
<1>5. ClosedDownward(s, D)
  <2> SUFFICES ASSUME NEW m \in D, NEW k \in s.children[m] PROVE k \in D
    BY DEF ClosedDownward
  <2>1. k \in NodeIds
    BY <1>1, <1>2
  <2>2. ASSUME NEW S \in SUBSET NodeIds, n \in S, ClosedDownward(s, S)
        PROVE  k \in S
    BY <1>4, <2>2 DEF ClosedDownward
  <2> QED
    BY <2>1, <2>2 DEF Subtree
<1>6. D \subseteq s.nodes
  <2>1. ASSUME NEW m \in s.nodes, NEW k \in s.children[m]
        PROVE  k \in s.nodes
    <3>1. k \in NodeIds /\ s.parent[k] = m /\ m # Nil
      BY <1>1, <1>2
    <3> QED
      BY <3>1 DEF Resolved
  <2> QED
    BY <1>1, <1>4, <2>1 DEF ClosedDownward
<1>7. Root \notin D
  <2> DEFINE S == NodeIds \ {Root}
  <2>1. ASSUME NEW m \in S, NEW k \in s.children[m]
        PROVE  k \in S
    BY <1>2, <2>1 DEF Forest
  <2>2. D \subseteq S
    BY <1>1, <1>4, <2>1 DEF ClosedDownward
  <2> QED
    BY <2>2
<1>8. ASSUME NEW m \in D \ {n}, s.parent[m] \notin D PROVE FALSE
  <2> DEFINE S == D \ {m}
  <2>1. ClosedDownward(s, S)
    BY <1>1, <1>2, <1>5, <1>8, ZenonT(60) DEF ClosedDownward
  <2>2. n \in S /\ S \in SUBSET NodeIds
    BY <1>1, <1>3
  <2>3. D \subseteq S
    BY <1>4, <2>1, <2>2
  <2> QED
    BY <1>8, <2>3
<1> QED
  BY <1>3, <1>5, <1>6, <1>7, <1>8

(* Deleting a whole subtree that owns no link any more: nothing that       *)
(* survives hangs on anything deleted.                                     *)
LEMMA PrunedInOrder ==
    ASSUME NEW s, InOrder(s), NEW D \in SUBSET (s.nodes \ {Root}), NEW n \in D,
           ClosedDownward(s, D),
           \A m \in D \ {n} : s.parent[m] \in D,
           \A l \in LinkIds : s.owner[l] \notin D
    PROVE  LET w == WithoutNodes(s, D)
               u == IF s.parent[n] \in NodeIds \ D
                    THEN [w EXCEPT !.children[s.parent[n]] = @ \ {n}]
                    ELSE w
           IN  InOrder(u)
<1> DEFINE w == WithoutNodes(s, D)
           u == IF s.parent[n] \in NodeIds \ D
                THEN [w EXCEPT !.children[s.parent[n]] = @ \ {n}]
                ELSE w
<1> USE DEF InOrder
<1>1. D \subseteq NodeIds /\ n \in NodeIds /\ s.nodes \subseteq NodeIds /\ s.links \subseteq LinkIds
  BY DEF NetworkType
<1>2. /\ w.nodes = s.nodes \ D
      /\ w.name = [h \in NodeIds \cup LinkIds |-> IF h \in D THEN Nil ELSE s.name[h]]
      /\ w.parent = [m \in NodeIds |-> IF m \in D THEN Nil ELSE s.parent[m]]
      /\ w.children = [m \in NodeIds |-> IF m \in D THEN {} ELSE s.children[m]]
      /\ w.internal = [m \in NodeIds |-> IF m \in D THEN {} ELSE s.internal[m]]
      /\ w.subscriptions = [m \in NodeIds |-> IF m \in D THEN {} ELSE s.subscriptions[m]]
      /\ w.subscribers =
            [l \in LinkIds |-> s.subscribers[l] \ {m \in D : l \in s.subscriptions[m]}]
  BY DEF WithoutNodes, NetworkType
<1>3. w.links = s.links /\ w.issued = s.issued /\ w.owner = s.owner
  BY DEF WithoutNodes, NetworkType
<1>4. w \in NetworkType
  <2>1. w.name \in [NodeIds \cup LinkIds -> (Names \ Reserved) \cup {RootName, Nil}]
    BY <1>2 DEF NetworkType
  <2>2. /\ w.parent \in [NodeIds -> NodeIds \cup {Nil}]
        /\ w.children \in [NodeIds -> SUBSET NodeIds]
    BY <1>2 DEF NetworkType
  <2>3. /\ w.subscriptions \in [NodeIds -> SUBSET LinkIds]
        /\ w.internal \in [NodeIds -> SUBSET LinkIds]
    BY <1>2 DEF NetworkType
  <2>4. w.subscribers \in [LinkIds -> SUBSET NodeIds]
    BY <1>2 DEF NetworkType
  <2>5. w = [s EXCEPT !.nodes = w.nodes, !.name = w.name, !.parent = w.parent,
                      !.children = w.children, !.internal = w.internal,
                      !.subscriptions = w.subscriptions, !.subscribers = w.subscribers]
    BY DEF WithoutNodes, NetworkType
  <2>6. w.nodes \in SUBSET NodeIds
    BY <1>1, <1>2
  <2> QED
    BY <2>1, <2>2, <2>3, <2>4, <2>5, <2>6, ZenonT(60) DEF NetworkType
<1>5. /\ u.nodes = w.nodes /\ u.links = w.links /\ u.issued = w.issued /\ u.name = w.name
      /\ u.parent = w.parent /\ u.internal = w.internal /\ u.owner = w.owner
      /\ u.subscribers = w.subscribers /\ u.subscriptions = w.subscriptions
  BY <1>4 DEF NetworkType
<1>6. s.parent[n] \notin D
  <2>1. D # {} /\ D \in SUBSET NodeIds
    BY <1>1
  <2>2. PICK m \in D : s.parent[m] \notin D
    BY <2>1 DEF Forest
  <2> QED
    BY <2>2
<1>7. \A m, k \in NodeIds :
         k \in u.children[m] <=> k \in s.children[m] /\ m \notin D /\ ~(s.parent[n] = m /\ k = n)
  <2>1. \A m, k \in NodeIds : k \in w.children[m] <=> k \in s.children[m] /\ m \notin D
    BY <1>2
  <2>2. CASE s.parent[n] \in NodeIds \ D
    <3>1. \A m \in NodeIds : u.children[m] = IF m = s.parent[n] THEN w.children[m] \ {n}
                                             ELSE w.children[m]
      BY <1>4, <2>2 DEF NetworkType
    <3> QED
      BY <2>1, <3>1
  <2>3. CASE s.parent[n] \notin NodeIds \ D
    BY <1>6, <2>1, <2>3
  <2> QED
    BY <2>2, <2>3
<1>8. u \in NetworkType
  <2>1. u.children \in [NodeIds -> SUBSET NodeIds]
    BY <1>4 DEF NetworkType
  <2>2. u = [w EXCEPT !.children = u.children]
    BY <1>4 DEF NetworkType
  <2> QED
    BY <1>4, <2>1, <2>2 DEF NetworkType
<1> HIDE DEF u, w
<1>9. \A m, k \in NodeIds : k \in u.children[m] <=> u.parent[k] = m
  <2> TAKE m \in NodeIds, k \in NodeIds
  <2>1. k \in s.children[m] <=> s.parent[k] = m
    BY DEF Paired
  <2>2. u.parent[k] = IF k \in D THEN Nil ELSE s.parent[k]
    BY <1>2, <1>5
  <2>3. CASE k \in D
    BY <1>7, <2>1, <2>2, <2>3
  <2>4. CASE k \notin D
    BY <1>7, <2>1, <2>2, <2>4 DEF ClosedDownward
  <2> QED
    BY <2>3, <2>4
<1>10. \A m \in NodeIds, l \in LinkIds :
          /\ l \in u.internal[m] <=> u.owner[l] = m
          /\ l \in u.subscriptions[m] <=> m \in u.subscribers[l]
          /\ m \in u.subscribers[l] <=> m \in s.subscribers[l] /\ m \notin D
  <2> TAKE m \in NodeIds, l \in LinkIds
  <2>1. /\ l \in s.internal[m] <=> s.owner[l] = m
        /\ l \in s.subscriptions[m] <=> m \in s.subscribers[l]
    BY DEF Paired
  <2>2. u.internal[m] = IF m \in D THEN {} ELSE s.internal[m]
    BY <1>2, <1>5
  <2>3. u.subscriptions[m] = IF m \in D THEN {} ELSE s.subscriptions[m]
    BY <1>2, <1>5
  <2>4. m \in u.subscribers[l] <=> m \in s.subscribers[l] /\ ~(m \in D /\ l \in s.subscriptions[m])
    BY <1>2, <1>5
  <2> QED
    BY <1>3, <1>5, <2>1, <2>2, <2>3, <2>4
<1>11. Paired(u)
  BY <1>9, <1>10 DEF Paired
<1>12. \A h \in (NodeIds \cup LinkIds) \ D : u.name[h] = s.name[h]
  BY <1>2, <1>5
<1>13. Resolved(u)
  <2>1. u.nodes \cup u.links \subseteq u.issued /\ Root \in u.nodes
    BY <1>2, <1>3, <1>5 DEF Resolved
  <2>2. \A h \in u.nodes \cup u.links : u.name[h] = s.name[h]
    <3>1. u.nodes \subseteq NodeIds \ D /\ u.links \subseteq LinkIds \ D
      BY <1>1, <1>2, <1>3, <1>5
    <3> QED
      BY <1>12, <3>1
  <2>3. u.name[Root] = RootName
    BY <2>1, <2>2 DEF Resolved
  <2>4. \A h \in (u.nodes \cup u.links) \ {Root} : u.name[h] \in Names \ Reserved
    BY <1>2, <1>3, <1>5, <2>2, ZenonT(60) DEF Resolved
  <2>5. \A m \in NodeIds :
           /\ m \notin u.nodes => u.parent[m] = Nil /\ u.subscriptions[m] = {}
           /\ u.parent[m] \in u.nodes \cup {Nil}
    <3> TAKE m \in NodeIds
    <3>1. /\ u.parent[m] = IF m \in D THEN Nil ELSE s.parent[m]
          /\ u.subscriptions[m] = IF m \in D THEN {} ELSE s.subscriptions[m]
      BY <1>2, <1>5
    <3>2. m \notin D => s.parent[m] \notin D
      BY <1>1 DEF Paired, ClosedDownward
    <3>3. /\ m \notin s.nodes => s.parent[m] = Nil /\ s.subscriptions[m] = {}
          /\ s.parent[m] \in s.nodes \cup {Nil}
      BY DEF Resolved
    <3> QED
      BY <1>2, <1>5, <3>1, <3>2, <3>3
  <2>6. \A l \in LinkIds :
           /\ l \notin u.links => u.owner[l] = Nil /\ u.subscribers[l] = {}
           /\ u.owner[l] \in u.nodes \cup {Nil}
    <3> TAKE l \in LinkIds
    <3>1. u.subscribers[l] \subseteq s.subscribers[l]
      BY <1>2, <1>5
    <3>2. /\ l \notin s.links => s.owner[l] = Nil /\ s.subscribers[l] = {}
          /\ s.owner[l] \in s.nodes \cup {Nil}
      BY DEF Resolved
    <3> QED
      BY <1>2, <1>3, <1>5, <3>1, <3>2
  <2> QED
    BY <2>1, <2>3, <2>4, <2>5, <2>6 DEF Resolved
<1>14. Forest(u)
  <2>1. \A m \in NodeIds : u.parent[m] = s.parent[m] \/ u.parent[m] = Nil
    <3>1. u.parent = [m \in NodeIds |-> IF m \in D THEN Nil ELSE s.parent[m]]
      BY <1>2, <1>5
    <3> QED
      BY <3>1
  <2>2. \A S \in SUBSET NodeIds : Nil \notin S
    OBVIOUS
  <2> QED
    BY <2>1, <2>2 DEF Forest
<1>15. Addressable(u)
  <2> SUFFICES ASSUME NEW l \in u.links,
                      NEW m \in u.subscribers[l] \cup ({u.owner[l]} \ {Nil}),
                      NEW k \in u.subscribers[l] \cup ({u.owner[l]} \ {Nil}),
                      u.name[m] = u.name[k]
               PROVE  m = k
    BY DEF Addressable
  <2>1. l \in s.links /\ l \in LinkIds
    BY <1>1, <1>3, <1>5
  <2>2. \A x \in u.subscribers[l] \cup ({u.owner[l]} \ {Nil}) :
           x \in s.subscribers[l] \cup ({s.owner[l]} \ {Nil}) /\ x \notin D /\ x \in NodeIds
    <3>1. u.subscribers[l] \subseteq NodeIds /\ u.owner[l] \in NodeIds \cup {Nil}
      BY <1>8, <2>1 DEF NetworkType
    <3> QED
      BY <1>3, <1>5, <1>10, <2>1, <3>1
  <2>3. s.name[m] = s.name[k]
    BY <1>12, <2>2
  <2> QED
    BY <2>1, <2>2, <2>3 DEF Addressable
<1>16. Distinguishable(u)
  <2> SUFFICES ASSUME NEW m \in u.nodes
               PROVE  /\ \A k, l \in u.subscriptions[m] : u.name[k] = u.name[l] => k = l
                      /\ \A k, l \in u.internal[m] : u.name[k] = u.name[l] => k = l
    BY DEF Distinguishable
  <2>1. m \in s.nodes /\ m \notin D /\ m \in NodeIds
    BY <1>1, <1>2, <1>5
  <2>2. u.subscriptions[m] = s.subscriptions[m] /\ u.internal[m] = s.internal[m]
    BY <1>2, <1>5, <2>1
  <2>3. \A k \in s.subscriptions[m] \cup s.internal[m] : u.name[k] = s.name[k]
    <3>1. \A k \in LinkIds : u.name[k] = s.name[k]
      BY <1>1, <1>12
    <3> QED
      BY <2>1, <3>1 DEF NetworkType
  <2> QED
    BY <2>1, <2>2, <2>3 DEF Distinguishable
<1> QED
  BY <1>8, <1>11, <1>13, <1>14, <1>15, <1>16 DEF u, w

LEMMA RemoveNodeInOrder ==
    ASSUME NEW s, InOrder(s), NEW n \in NodeIds
    PROVE  LET r == RemoveNode(s, n)
           IN  InOrder(r.net) /\ (r.ok \/ r.net = s) /\ r.ok \in BOOLEAN
<1> DEFINE D == Subtree(s, n)
           L == {l \in s.links : \E m \in D : l \in s.internal[m]}
           v == WithoutLinks(s, L)
           w == WithoutNodes(v, D)
           u == IF s.parent[n] \in NodeIds \ D
                THEN [w EXCEPT !.children[s.parent[n]] = @ \ {n}]
                ELSE w
<1>1. CASE n \notin s.nodes \ {Root}
  BY <1>1 DEF RemoveNode, Rejected
<1>2. CASE n \in s.nodes \ {Root}
  <2>1. /\ n \in D
        /\ D \subseteq s.nodes \ {Root}
        /\ ClosedDownward(s, D)
        /\ \A m \in D \ {n} : s.parent[m] \in D
    BY <1>2, SubtreeFacts
  <2>2. InOrder(v)
    <3> HIDE DEF D
    <3>1. L \subseteq s.links
      OBVIOUS
    <3> HIDE DEF L
    <3> QED
      BY <3>1, UnlinkedInOrder
  <2>3. /\ v.nodes = s.nodes /\ v.parent = s.parent /\ v.children = s.children
        /\ v.owner = [l \in LinkIds |-> IF l \in L THEN Nil ELSE s.owner[l]]
    BY DEF WithoutLinks, InOrder, NetworkType
  <2>4. ASSUME NEW l \in LinkIds, v.owner[l] \in D PROVE FALSE
    <3>1. v.owner[l] \in NodeIds /\ v.owner[l] # Nil
      BY <2>4 DEF Subtree
    <3>2. l \notin L /\ s.owner[l] \in D /\ s.owner[l] # Nil
      BY <2>3, <2>4, <3>1
    <3>3. l \in s.internal[s.owner[l]]
      BY <3>2 DEF InOrder, Paired, Subtree
    <3>4. l \in s.links
      BY <3>2 DEF InOrder, Resolved
    <3>5. l \in L
      <4> HIDE DEF D
      <4> QED
        BY <3>2, <3>3, <3>4
    <3> QED
      BY <3>2, <3>5
  <2>5. InOrder(u)
    <3> HIDE DEF D, v
    <3>1. D \in SUBSET (v.nodes \ {Root}) /\ n \in D
      BY <2>1, <2>3
    <3>2. ClosedDownward(v, D) /\ \A m \in D \ {n} : v.parent[m] \in D
      BY <2>1, <2>3 DEF ClosedDownward
    <3> QED
      BY <2>2, <2>3, <2>4, <3>1, <3>2, PrunedInOrder
  <2>6. RemoveNode(s, n) = Done(u)
    BY <1>2 DEF RemoveNode
  <2> QED
    BY <2>5, <2>6, SMTT(30) DEF Done
<1> QED
  BY <1>1, <1>2

LEMMA RemoveLinkInOrder ==
    ASSUME NEW s, InOrder(s), NEW l \in LinkIds
    PROVE  LET r == RemoveLink(s, l)
           IN  InOrder(r.net) /\ (r.ok \/ r.net = s) /\ r.ok \in BOOLEAN
<1>1. CASE l \in s.links
  <2>1. InOrder(WithoutLinks(s, {l}))
    BY <1>1, UnlinkedInOrder
  <2> QED
    BY <1>1, <2>1 DEF RemoveLink, Done
<1>2. CASE l \notin s.links
  BY <1>2 DEF RemoveLink, Rejected
<1> QED
  BY <1>1, <1>2

-----------------------------------------------------------------------------
(* create_node and create_link *)

(* A handle that was never handed out appears nowhere.                     *)
LEMMA FreshHandleUnknown ==
    ASSUME NEW s, InOrder(s)
    PROVE  /\ \A n \in NodeIds \ s.issued :
                 /\ s.subscriptions[n] = {} /\ s.internal[n] = {}
                 /\ \A l \in LinkIds : n \notin s.subscribers[l] /\ s.owner[l] # n
           /\ \A l \in LinkIds \ s.issued :
                 /\ s.subscribers[l] = {} /\ s.owner[l] = Nil
                 /\ \A n \in NodeIds : l \notin s.subscriptions[n] /\ l \notin s.internal[n]
<1> USE DEF InOrder
<1>1. ASSUME NEW n \in NodeIds \ s.issued
      PROVE  /\ s.subscriptions[n] = {} /\ s.internal[n] = {}
             /\ \A l \in LinkIds : n \notin s.subscribers[l] /\ s.owner[l] # n
  <2>1. n \notin s.nodes /\ n # Nil /\ n \in NodeIds
    BY DEF Resolved
  <2>2. s.subscriptions[n] = {}
    BY <2>1 DEF Resolved
  <2>3. \A l \in LinkIds : s.owner[l] # n
    BY <2>1 DEF Resolved
  <2>4. \A l \in LinkIds : n \notin s.subscribers[l] /\ l \notin s.internal[n]
    BY <2>1, <2>2, <2>3 DEF Paired
  <2>5. s.internal[n] = {}
    BY <2>1, <2>4 DEF NetworkType
  <2> QED
    BY <2>2, <2>3, <2>4, <2>5
<1>2. ASSUME NEW l \in LinkIds \ s.issued
      PROVE  /\ s.subscribers[l] = {} /\ s.owner[l] = Nil
             /\ \A n \in NodeIds : l \notin s.subscriptions[n] /\ l \notin s.internal[n]
  <2>1. s.subscribers[l] = {} /\ s.owner[l] = Nil
    BY DEF Resolved
  <2> QED
    BY <2>1 DEF Paired
<1> QED
  BY <1>1, <1>2

LEMMA CreateNodeInOrder ==
    ASSUME NEW s, InOrder(s), NEW id \in NodeIds \ s.issued, NEW name \in Names
    PROVE  LET r == CreateNode(s, id, name)
           IN  InOrder(r.net) /\ (r.ok \/ r.net = s) /\ r.ok \in BOOLEAN
<1> DEFINE t == [s EXCEPT !.nodes = @ \cup {id}, !.issued = @ \cup {id}, !.name[id] = name]
<1> USE DEF InOrder
<1>1. CASE ~ValidName(name)
  BY <1>1 DEF CreateNode, Rejected
<1>2. CASE ValidName(name)
  <2>1. name \in Names \ Reserved
    BY <1>2 DEF ValidName
  <2>2. /\ t.nodes = s.nodes \cup {id} /\ t.issued = s.issued \cup {id}
        /\ t.links = s.links /\ t.parent = s.parent /\ t.children = s.children
        /\ t.internal = s.internal /\ t.subscriptions = s.subscriptions
        /\ t.owner = s.owner /\ t.subscribers = s.subscribers
        /\ \A h \in NodeIds \cup LinkIds : t.name[h] = IF h = id THEN name ELSE s.name[h]
    BY DEF NetworkType
  <2>3. t \in NetworkType
    <3>1. t.name \in [NodeIds \cup LinkIds -> (Names \ Reserved) \cup {RootName, Nil}]
      BY <2>1 DEF NetworkType
    <3>2. t = [s EXCEPT !.nodes = t.nodes, !.issued = t.issued, !.name = t.name]
      BY DEF NetworkType
    <3>3. t.nodes \in SUBSET NodeIds /\ t.issued \in SUBSET (NodeIds \cup LinkIds)
      BY <2>2 DEF NetworkType
    <3> QED
      BY <3>1, <3>2, <3>3 DEF NetworkType
  <2> HIDE DEF t
  <2>4. id # Root /\ id \notin LinkIds
    BY DEF Resolved
  <2>5. Resolved(t)
    <3>1. \A h \in NodeIds \cup LinkIds : h \in (t.nodes \cup t.links) \ {Root, id} =>
             h \in (s.nodes \cup s.links) \ {Root} /\ t.name[h] = s.name[h]
      BY <2>2
    <3>2. t.nodes \cup t.links \subseteq NodeIds \cup LinkIds
      BY <2>3 DEF NetworkType
    <3>3. \A h \in (t.nodes \cup t.links) \ {Root} : t.name[h] \in Names \ Reserved
      BY <2>1, <2>2, <3>1, <3>2 DEF Resolved
    <3> QED
      BY <2>2, <2>4, <3>3 DEF Resolved
  <2>6. Paired(t) /\ Forest(t)
    BY <2>2 DEF Paired, Forest
  <2>7. Addressable(t)
    <3>1. s.links \subseteq LinkIds
      BY DEF NetworkType
    <3>2. ASSUME NEW l \in s.links, NEW m \in s.subscribers[l] \cup ({s.owner[l]} \ {Nil})
          PROVE  m \in NodeIds /\ m # id
      <4>1. s.subscribers[l] \subseteq NodeIds /\ s.owner[l] \in NodeIds \cup {Nil}
        BY <3>1 DEF NetworkType
      <4>2. id \notin s.subscribers[l] /\ s.owner[l] # id
        BY <3>1, FreshHandleUnknown
      <4> QED
        BY <4>1, <4>2
    <3> QED
      BY <2>2, <3>2 DEF Addressable
  <2>8. Distinguishable(t)
    <3>1. \A n \in NodeIds : \A l \in s.subscriptions[n] \cup s.internal[n] : t.name[l] = s.name[l]
      BY <2>2, <2>4 DEF NetworkType
    <3>2. s.subscriptions[id] = {} /\ s.internal[id] = {}
      BY FreshHandleUnknown
    <3>3. s.nodes \subseteq NodeIds
      BY DEF NetworkType
    <3> SUFFICES ASSUME NEW n \in t.nodes
                 PROVE  /\ \A k, l \in t.subscriptions[n] : t.name[k] = t.name[l] => k = l
                        /\ \A k, l \in t.internal[n] : t.name[k] = t.name[l] => k = l
      BY DEF Distinguishable
    <3>4. CASE n = id
      BY <2>2, <3>2, <3>4
    <3>5. CASE n \in s.nodes
      <4>1. n \in NodeIds
        BY <3>3, <3>5
      <4> QED
        BY <2>2, <3>1, <3>5, <4>1 DEF Distinguishable
    <3> QED
      BY <2>2, <3>4, <3>5
  <2>9. CreateNode(s, id, name) = Done(t)
    BY <1>2 DEF CreateNode, t
  <2> QED
    BY <2>3, <2>5, <2>6, <2>7, <2>8, <2>9 DEF Done
<1> QED
  BY <1>1, <1>2

LEMMA CreateLinkInOrder ==
    ASSUME NEW s, InOrder(s), NEW id \in LinkIds \ s.issued, NEW name \in Names
    PROVE  LET r == CreateLink(s, id, name)
           IN  InOrder(r.net) /\ (r.ok \/ r.net = s) /\ r.ok \in BOOLEAN
<1> DEFINE t == [s EXCEPT !.links = @ \cup {id}, !.issued = @ \cup {id}, !.name[id] = name]
<1> USE DEF InOrder
<1>1. CASE ~ValidName(name)
  BY <1>1 DEF CreateLink, Rejected
<1>2. CASE ValidName(name)
  <2>1. name \in Names \ Reserved
    BY <1>2 DEF ValidName
  <2>2. /\ t.links = s.links \cup {id} /\ t.issued = s.issued \cup {id}
        /\ t.nodes = s.nodes /\ t.parent = s.parent /\ t.children = s.children
        /\ t.internal = s.internal /\ t.subscriptions = s.subscriptions
        /\ t.owner = s.owner /\ t.subscribers = s.subscribers
        /\ \A h \in NodeIds \cup LinkIds : t.name[h] = IF h = id THEN name ELSE s.name[h]
    BY DEF NetworkType
  <2>3. t \in NetworkType
    <3>1. t.name \in [NodeIds \cup LinkIds -> (Names \ Reserved) \cup {RootName, Nil}]
      BY <2>1 DEF NetworkType
    <3>2. t = [s EXCEPT !.links = t.links, !.issued = t.issued, !.name = t.name]
      BY DEF NetworkType
    <3>3. t.links \in SUBSET LinkIds /\ t.issued \in SUBSET (NodeIds \cup LinkIds)
      BY <2>2 DEF NetworkType
    <3> QED
      BY <3>1, <3>2, <3>3 DEF NetworkType
  <2> HIDE DEF t
  <2>4. id \notin NodeIds /\ id # Root
    OBVIOUS
  <2>5. Resolved(t)
    <3>1. \A h \in NodeIds \cup LinkIds : h \in (t.nodes \cup t.links) \ {Root, id} =>
             h \in (s.nodes \cup s.links) \ {Root} /\ t.name[h] = s.name[h]
      BY <2>2
    <3>2. t.nodes \cup t.links \subseteq NodeIds \cup LinkIds
      BY <2>3 DEF NetworkType
    <3>3. \A h \in (t.nodes \cup t.links) \ {Root} : t.name[h] \in Names \ Reserved
      BY <2>1, <2>2, <3>1, <3>2 DEF Resolved
    <3> QED
      BY <2>2, <2>4, <3>3 DEF Resolved
  <2>6. Paired(t) /\ Forest(t)
    BY <2>2 DEF Paired, Forest
  <2>7. Addressable(t)
    <3>1. \A l \in s.links : \A m \in s.subscribers[l] \cup ({s.owner[l]} \ {Nil}) :
             m \in NodeIds /\ m # id
      BY <2>4 DEF NetworkType
    <3>2. s.subscribers[id] = {} /\ s.owner[id] = Nil
      BY FreshHandleUnknown
    <3> QED
      BY <2>2, <3>1, <3>2 DEF Addressable
  <2>8. Distinguishable(t)
    <3> SUFFICES ASSUME NEW n \in t.nodes
                 PROVE  /\ \A k, l \in t.subscriptions[n] : t.name[k] = t.name[l] => k = l
                        /\ \A k, l \in t.internal[n] : t.name[k] = t.name[l] => k = l
      BY DEF Distinguishable
    <3>1. n \in s.nodes /\ n \in NodeIds
      BY <2>2 DEF NetworkType
    <3>2. id \notin s.subscriptions[n] \cup s.internal[n]
      BY <3>1, FreshHandleUnknown
    <3>3. s.subscriptions[n] \cup s.internal[n] \subseteq LinkIds
      BY <3>1 DEF NetworkType
    <3>4. \A l \in s.subscriptions[n] \cup s.internal[n] : t.name[l] = s.name[l]
      BY <2>2, <3>2, <3>3
    <3> QED
      BY <2>2, <3>1, <3>4 DEF Distinguishable
  <2>9. CreateLink(s, id, name) = Done(t)
    BY <1>2 DEF CreateLink, t
  <2> QED
    BY <2>3, <2>5, <2>6, <2>7, <2>8, <2>9 DEF Done
<1> QED
  BY <1>1, <1>2
=============================================================================
