--------------------------- MODULE TemplatesProofs ---------------------------
(***************************************************************************)
(* What is built on the templates: the templates themselves (Templates),   *)
(* the worlds behind the C ABI (Abi), and the window of the sandbox with   *)
(* the worlds its scenarios build (Scenarios, Sandbox, Panels).            *)
(***************************************************************************)
EXTENDS Abi, Panels, NetworkOpsProofs, FoldProofs, SequenceTheorems

-----------------------------------------------------------------------------
(* Worlds *)

(* The logics there are: an NPC's has a schedule it can follow.            *)
NpcLogics == {npc \in [kind: {"npc"}, spec: NpcSpecs, goal: Nat] : ValidNpc(npc.spec)}
Logics == [kind: LogicKinds] \cup NpcLogics

(* A world in order, whatever other fields it has.                         *)
IsWorld(w) ==
    /\ w = [x \in DOMAIN w |-> w[x]]
    /\ {"net", "logics", "hosts"} \subseteq DOMAIN w
    /\ InOrder(w.net)
    /\ w.logics \in [NodeIds -> Logics]
    /\ Vacant(w)

(* The fields the operations leave alone.                                  *)
Alike(w, v) ==
    /\ DOMAIN v = DOMAIN w
    /\ \A x \in DOMAIN w \ {"net", "logics", "hosts"} : v[x] = w[x]

(* Handles have been used up, and that is all.                             *)
OnlyIssued(w, v) ==
    /\ w.net.issued \subseteq v.net.issued
    /\ v = [w EXCEPT !.net = [w.net EXCEPT !.issued = v.net.issued]]

LEMMA WithNet ==
    ASSUME NEW w, IsWorld(w), NEW s, NEW v, v = [w EXCEPT !.net = s]
    PROVE  /\ v.net = s /\ v.logics = w.logics /\ v.hosts = w.hosts
           /\ Alike(w, v) /\ v = [x \in DOMAIN v |-> v[x]]
  BY DEF IsWorld, Alike

LEMMA WithLogics ==
    ASSUME NEW w, IsWorld(w), NEW g, NEW v, v = [w EXCEPT !.logics = g]
    PROVE  /\ v.net = w.net /\ v.logics = g /\ v.hosts = w.hosts
           /\ Alike(w, v) /\ v = [x \in DOMAIN v |-> v[x]]
  BY DEF IsWorld, Alike

LEMMA AlikeTransitive ==
    ASSUME NEW u, NEW v, NEW w, Alike(u, v), Alike(v, w)
    PROVE  Alike(u, w)
  BY DEF Alike

LEMMA SameWorld ==
    ASSUME NEW w, NEW v, Alike(w, v),
           w = [x \in DOMAIN w |-> w[x]], v = [x \in DOMAIN v |-> v[x]],
           v.net = w.net, v.logics = w.logics, v.hosts = w.hosts
    PROVE  v = w
<1>1. \A x \in DOMAIN w : v[x] = w[x]
  BY DEF Alike
<1> QED
  BY <1>1 DEF Alike

(* A network in order that has other handles issued is in order.           *)
LEMMA IssuedInOrder ==
    ASSUME NEW s, InOrder(s), NEW I \in SUBSET (NodeIds \cup LinkIds), s.issued \subseteq I
    PROVE  InOrder([s EXCEPT !.issued = I])
<1> DEFINE t == [s EXCEPT !.issued = I]
<1>1. t \in NetworkType
  BY DEF InOrder, NetworkType
<1>2. /\ t.nodes = s.nodes /\ t.links = s.links /\ t.name = s.name /\ t.parent = s.parent
      /\ t.children = s.children /\ t.internal = s.internal /\ t.owner = s.owner
      /\ t.subscriptions = s.subscriptions /\ t.subscribers = s.subscribers /\ t.issued = I
  BY DEF InOrder, NetworkType
<1> HIDE DEF t
<1>3. Resolved(t)
  BY <1>2 DEF InOrder, Resolved
<1>4. Paired(t) /\ Forest(t)
  BY <1>2 DEF InOrder, Paired, Forest
<1>5. Addressable(t) /\ Distinguishable(t)
  BY <1>2 DEF InOrder, Addressable, Distinguishable
<1>6. InOrder(t)
  BY <1>1, <1>3, <1>4, <1>5 DEF InOrder
<1> QED
  BY <1>6 DEF t

LEMMA OnlyIssuedIsWorld ==
    ASSUME NEW w, IsWorld(w), NEW v, OnlyIssued(w, v), v.net.issued \in SUBSET (NodeIds \cup LinkIds)
    PROVE  IsWorld(v) /\ Alike(w, v)
<1> DEFINE s == [w.net EXCEPT !.issued = v.net.issued]
<1>1. /\ v.net = s /\ v.logics = w.logics /\ v.hosts = w.hosts
      /\ Alike(w, v) /\ v = [x \in DOMAIN v |-> v[x]]
  <2>1. v = [w EXCEPT !.net = s]
    BY DEF OnlyIssued
  <2> HIDE DEF s
  <2> QED
    BY <2>1, WithNet
<1>2. InOrder(s)
  BY IssuedInOrder DEF IsWorld, OnlyIssued
<1>3. s.nodes = w.net.nodes /\ s.links = w.net.links /\ s.name = w.net.name
  BY DEF IsWorld, InOrder, NetworkType
<1>4. Vacant(v)
  BY <1>1, <1>3 DEF IsWorld, Vacant
<1> QED
  BY <1>1, <1>2, <1>4 DEF IsWorld, Alike

-----------------------------------------------------------------------------
(* remove_node undoes what was built *)

NewNodes(w, v) == v.net.nodes \ w.net.nodes
NewLinks(w, v) == v.net.links \ w.net.links

(* From w to v a node was built, with nodes nested in it and links of its  *)
(* own; it may have been nested, and may have joined links.                *)
Grown(w, v, root) ==
    LET N == NewNodes(w, v)
        K == NewLinks(w, v)
    IN  /\ Alike(w, v)
        /\ w.net.nodes \subseteq v.net.nodes /\ w.net.links \subseteq v.net.links
        /\ w.net.issued \subseteq v.net.issued
        /\ root \in N /\ (N \cup K) \cap w.net.issued = {}
        /\ \A n \in N : n = root \/ v.net.parent[n] = root
        /\ v.net.parent[root] \in w.net.nodes \cup {Nil}
        /\ \A n \in N : n = root \/ v.net.subscriptions[n] \subseteq K
        /\ \A l \in K : v.net.owner[l] = root
        /\ \A l \in w.net.links : v.net.owner[l] \notin N
        /\ \A n \in NodeIds \ N :
              /\ v.net.parent[n] = w.net.parent[n]
              /\ v.net.subscriptions[n] = w.net.subscriptions[n]
              /\ v.logics[n] = w.logics[n]
        /\ \A h \in (NodeIds \cup LinkIds) \ (N \cup K) : v.net.name[h] = w.net.name[h]
        /\ v.hosts = w.hosts

(* Nothing outside of it knows of it.                                      *)
Apart(w, v, root) ==
    /\ v.net.parent[root] = Nil
    /\ v.net.subscriptions[root] \subseteq NewLinks(w, v)
    /\ \A l \in LinkIds \ NewLinks(w, v) : v.net.owner[l] = w.net.owner[l]

LEMMA GrownSubtree ==
    ASSUME NEW w, IsWorld(w), NEW v, IsWorld(v), NEW root, Grown(w, v, root)
    PROVE  /\ root \in v.net.nodes \ {Root}
           /\ Subtree(v.net, root) = NewNodes(w, v)
           /\ {l \in v.net.links : \E m \in NewNodes(w, v) : l \in v.net.internal[m]} = NewLinks(w, v)
<1> DEFINE s == v.net
           N == NewNodes(w, v)
           K == NewLinks(w, v)
           D == Subtree(s, root)
<1>1. InOrder(s) /\ InOrder(w.net)
  BY DEF IsWorld
<1>2. root \in s.nodes \ {Root} /\ root \in N
  BY <1>1 DEF Grown, NewNodes, InOrder, Resolved
<1>3. s.nodes \subseteq NodeIds /\ N \subseteq NodeIds /\ s.links \subseteq LinkIds
  BY <1>1 DEF InOrder, NetworkType, NewNodes
<1>4. \A m, n \in NodeIds : n \in s.children[m] <=> s.parent[n] = m
  BY <1>1 DEF InOrder, Paired
<1>5. root \in D /\ ClosedDownward(s, D) /\ D \subseteq NodeIds
  BY <1>1, <1>2, <1>3, SubtreeFacts
<1>6. N \subseteq D
  <2> SUFFICES ASSUME NEW n \in N, n # root PROVE n \in D
    BY <1>5
  <2>1. s.parent[n] = root
    BY DEF Grown
  <2> QED
    BY <1>2, <1>3, <1>4, <1>5, <2>1 DEF ClosedDownward
<1>7. ClosedDownward(s, N)
  <2> SUFFICES ASSUME NEW m \in N, NEW n \in s.children[m], n \notin N PROVE FALSE
    BY DEF ClosedDownward
  <2>1. n \in NodeIds /\ s.parent[n] = m
    BY <1>1, <1>3, <1>4 DEF InOrder, NetworkType
  <2>2. w.net.parent[n] = m
    BY <2>1 DEF Grown
  <2>3. m \in w.net.nodes \cup {Nil}
    BY <1>1, <2>1, <2>2 DEF InOrder, Resolved
  <2> QED
    BY <1>3, <2>3, NetworkAssumption DEF NewNodes
<1>8. D \subseteq N
  BY <1>2, <1>3, <1>7 DEF Subtree
<1>9. \A l \in s.links : (\E m \in N : l \in s.internal[m]) <=> l \in K
  <2> TAKE l \in s.links
  <2>1. \A m \in N : l \in s.internal[m] <=> s.owner[l] = m
    BY <1>1, <1>3 DEF InOrder, Paired
  <2>2. l \in K => s.owner[l] = root
    BY DEF Grown
  <2>3. l \notin K => s.owner[l] \notin N
    BY DEF Grown, NewLinks
  <2> QED
    BY <1>2, <2>1, <2>2, <2>3
<1> QED
  BY <1>2, <1>6, <1>8, <1>9 DEF NewLinks

(* What remove_node leaves of what was built: the handles that were used   *)
(* up, and the owner a link it joined may have got.                        *)
Undone(w, v) ==
    [w EXCEPT !.net =
        [w.net EXCEPT !.issued = v.net.issued,
                      !.owner = [l \in LinkIds |-> IF l \in NewLinks(w, v) THEN Nil ELSE v.net.owner[l]],
                      !.internal = [n \in NodeIds |-> IF n \in NewNodes(w, v) THEN {} ELSE v.net.internal[n]]]]

LEMMA RemovalUndoes ==
    ASSUME NEW w, IsWorld(w), NEW v, IsWorld(v), NEW root, Grown(w, v, root)
    PROVE  RemoveWithLogic(v, root) = [ok |-> TRUE, node |-> Nil, world |-> Undone(w, v)]
<1> DEFINE s == v.net
           s0 == w.net
           N == NewNodes(w, v)
           K == NewLinks(w, v)
           a == WithoutLinks(s, K)
           b == WithoutNodes(a, N)
           t == RemoveNode(s, root).net
           Owner == [l \in LinkIds |-> IF l \in K THEN Nil ELSE s.owner[l]]
           Internal == [n \in NodeIds |-> IF n \in N THEN {} ELSE s.internal[n]]
           e == [s0 EXCEPT !.issued = s.issued, !.owner = Owner, !.internal = Internal]
<1>1. InOrder(s) /\ InOrder(s0) /\ s \in NetworkType /\ s0 \in NetworkType
  BY DEF IsWorld, InOrder
<1>2. /\ root \in s.nodes \ {Root} /\ root \in N /\ Subtree(s, root) = N
      /\ {l \in s.links : \E m \in N : l \in s.internal[m]} = K
  BY GrownSubtree DEF Grown
<1>3. N \subseteq NodeIds /\ K \subseteq LinkIds /\ N \cap K = {}
  BY <1>1, NetworkAssumption DEF NetworkType, NewNodes, NewLinks
<1>4. RemoveNode(s, root) =
        Done(IF s.parent[root] \in NodeIds \ N THEN [b EXCEPT !.children[s.parent[root]] = @ \ {root}] ELSE b)
  BY <1>2 DEF RemoveNode
<1>5. RemoveNode(s, root).ok /\ RemoveNode(s, root).net = t
  BY <1>4 DEF Done
<1>6. /\ \A m, n \in NodeIds : (n \in s.children[m] <=> s.parent[n] = m) /\ (n \in s0.children[m] <=> s0.parent[n] = m)
      /\ \A n \in NodeIds, l \in LinkIds :
            /\ (l \in s.internal[n] <=> s.owner[l] = n) /\ (l \in s0.internal[n] <=> s0.owner[l] = n)
            /\ (l \in s.subscriptions[n] <=> n \in s.subscribers[l])
            /\ (l \in s0.subscriptions[n] <=> n \in s0.subscribers[l])
  BY <1>1 DEF InOrder, Paired
<1>7. /\ \A n \in N : s0.parent[n] = Nil /\ s0.subscriptions[n] = {}
      /\ \A h \in N \cup K : s0.name[h] = Nil
      /\ \A l \in K : s0.owner[l] = Nil /\ s0.subscribers[l] = {}
      /\ \A n \in N : w.logics[n] = NoLogic
  <2>1. \A n \in N : n \in NodeIds \ s0.nodes
    BY <1>3 DEF NewNodes
  <2>2. \A l \in K : l \in LinkIds \ s0.links
    BY <1>3 DEF NewLinks
  <2>3. \A h \in N \cup K : h \in (NodeIds \cup LinkIds) \ (s0.nodes \cup s0.links)
    BY <1>1, <2>1, <2>2, NetworkAssumption DEF NetworkType
  <2> QED
    BY <1>1, <2>1, <2>2, <2>3 DEF InOrder, Resolved, IsWorld, Vacant
<1>8. t \in NetworkType /\ e \in NetworkType
  <2>1. InOrder(t)
    BY <1>1, <1>2, RemoveNodeInOrder DEF NetworkType
  <2>2. Owner \in [LinkIds -> NodeIds \cup {Nil}] /\ Internal \in [NodeIds -> SUBSET LinkIds]
    BY <1>1 DEF NetworkType
  <2>3. s.issued \in SUBSET (NodeIds \cup LinkIds)
    BY <1>1 DEF NetworkType
  <2> HIDE DEF Owner, Internal, t
  <2> QED
    BY <1>1, <2>1, <2>2, <2>3 DEF InOrder, NetworkType
<1> HIDE DEF Owner, Internal
<1>9. /\ e.nodes = s0.nodes /\ e.links = s0.links /\ e.issued = s.issued /\ e.name = s0.name
      /\ e.parent = s0.parent /\ e.children = s0.children /\ e.internal = Internal
      /\ e.subscriptions = s0.subscriptions /\ e.owner = Owner /\ e.subscribers = s0.subscribers
  BY <1>1 DEF NetworkType
<1>10. /\ a.nodes = s.nodes /\ a.links = s.links \ K /\ a.issued = s.issued
       /\ a.parent = s.parent /\ a.children = s.children
       /\ a.name = [h \in NodeIds \cup LinkIds |-> IF h \in K THEN Nil ELSE s.name[h]]
       /\ a.subscriptions = [n \in NodeIds |-> s.subscriptions[n] \ {l \in K : n \in s.subscribers[l]}]
       /\ a.internal = [n \in NodeIds |-> s.internal[n] \ {l \in K : n = s.owner[l]}]
       /\ a.owner = Owner
       /\ a.subscribers = [l \in LinkIds |-> IF l \in K THEN {} ELSE s.subscribers[l]]
  BY <1>1 DEF WithoutLinks, NetworkType, Owner
<1>11. a \in NetworkType
  <2>1. InOrder(a)
    BY <1>1, UnlinkedInOrder DEF NewLinks
  <2> QED
    BY <2>1 DEF InOrder
<1> HIDE DEF a
<1>12. /\ b.nodes = s.nodes \ N /\ b.links = s.links \ K /\ b.issued = s.issued
       /\ b.name = [h \in NodeIds \cup LinkIds |-> IF h \in N THEN Nil ELSE a.name[h]]
       /\ b.parent = [n \in NodeIds |-> IF n \in N THEN Nil ELSE s.parent[n]]
       /\ b.children = [n \in NodeIds |-> IF n \in N THEN {} ELSE s.children[n]]
       /\ b.internal = [n \in NodeIds |-> IF n \in N THEN {} ELSE a.internal[n]]
       /\ b.subscriptions = [n \in NodeIds |-> IF n \in N THEN {} ELSE a.subscriptions[n]]
       /\ b.owner = Owner
       /\ b.subscribers = [l \in LinkIds |-> a.subscribers[l] \ {n \in N : l \in a.subscriptions[n]}]
  BY <1>10, <1>11 DEF WithoutNodes, NetworkType
<1>13. DOMAIN b = {"nodes", "links", "issued", "name", "parent", "children", "internal",
                   "subscriptions", "owner", "subscribers"}
  BY <1>11 DEF WithoutNodes, NetworkType
<1>14. /\ t.nodes = b.nodes /\ t.links = b.links /\ t.issued = b.issued /\ t.name = b.name
       /\ t.parent = b.parent /\ t.internal = b.internal /\ t.subscriptions = b.subscriptions
       /\ t.owner = b.owner /\ t.subscribers = b.subscribers
       /\ \A n \in NodeIds : t.children[n] = IF n = s.parent[root] /\ n \notin N THEN b.children[n] \ {root} ELSE b.children[n]
  <2>1. \A n \in NodeIds : s.children[n] \subseteq NodeIds
    BY <1>1 DEF NetworkType
  <2>2. t = IF s.parent[root] \in NodeIds \ N THEN [b EXCEPT !.children[s.parent[root]] = @ \ {root}] ELSE b
    BY <1>4 DEF Done
  <2> HIDE DEF b, t
  <2>3. b.children \in [NodeIds -> SUBSET NodeIds] /\ "children" \in DOMAIN b
    BY <1>12, <1>13, <2>1
  <2>4. \A x \in DOMAIN b \ {"children"} : t[x] = b[x]
    BY <2>2
  <2> QED
    BY <1>13, <2>3, <2>2, <2>4
<1> HIDE DEF b, t, e
<1>15. \A h \in NodeIds \cup LinkIds : t.name[h] = IF h \in N THEN Nil ELSE a.name[h]
  BY <1>12, <1>14
<1>16. \A n \in NodeIds :
           /\ t.parent[n] = IF n \in N THEN Nil ELSE s.parent[n]
           /\ t.internal[n] = IF n \in N THEN {} ELSE a.internal[n]
           /\ t.subscriptions[n] = IF n \in N THEN {} ELSE a.subscriptions[n]
  <2> TAKE n \in NodeIds
  <2>1. t.parent[n] = IF n \in N THEN Nil ELSE s.parent[n]
    BY <1>12, <1>14
  <2>2. t.internal[n] = IF n \in N THEN {} ELSE a.internal[n]
    BY <1>12, <1>14
  <2>3. t.subscriptions[n] = IF n \in N THEN {} ELSE a.subscriptions[n]
    BY <1>12, <1>14
  <2> QED
    BY <2>1, <2>2, <2>3
<1>17. \A n \in NodeIds :
           t.children[n] = IF n \in N THEN {}
                           ELSE IF n = s.parent[root] THEN s.children[n] \ {root} ELSE s.children[n]
  <2> TAKE n \in NodeIds
  <2>1. b.children[n] = IF n \in N THEN {} ELSE s.children[n]
    BY <1>12
  <2>2. t.children[n] = IF n = s.parent[root] /\ n \notin N THEN b.children[n] \ {root} ELSE b.children[n]
    BY <1>14
  <2> QED
    BY <2>1, <2>2
<1>18. /\ \A h \in NodeIds \cup LinkIds : a.name[h] = IF h \in K THEN Nil ELSE s.name[h]
       /\ \A n \in NodeIds :
             /\ a.subscriptions[n] = s.subscriptions[n] \ {l \in K : n \in s.subscribers[l]}
             /\ a.internal[n] = s.internal[n] \ {l \in K : n = s.owner[l]}
  BY <1>10
<1>19. t.nodes = e.nodes /\ t.links = e.links /\ t.issued = e.issued /\ t.owner = e.owner
  BY <1>9, <1>12, <1>14, SMTT(30) DEF Grown, NewNodes, NewLinks
<1>20. t.name = e.name
  <2> SUFFICES \A h \in NodeIds \cup LinkIds : t.name[h] = s0.name[h]
    BY <1>8, <1>9 DEF NetworkType
  <2> TAKE h \in NodeIds \cup LinkIds
  <2>1. t.name[h] = IF h \in N \cup K THEN Nil ELSE s.name[h]
    BY <1>18, <1>15
  <2> QED
    BY <1>7, <2>1 DEF Grown
<1>21. t.parent = e.parent
  <2> SUFFICES \A n \in NodeIds : t.parent[n] = s0.parent[n]
    BY <1>8, <1>9 DEF NetworkType
  <2> TAKE n \in NodeIds
  <2>1. CASE n \in N
    BY <1>7, <1>16, <2>1
  <2>2. CASE n \notin N
    BY <1>16, <2>2 DEF Grown
  <2> QED
    BY <2>1, <2>2
<1>22. t.children = e.children
  <2> SUFFICES \A n \in NodeIds : t.children[n] = s0.children[n]
    BY <1>8, <1>9 DEF NetworkType
  <2> TAKE n \in NodeIds
  <2>1. t.children[n] \subseteq NodeIds /\ s0.children[n] \subseteq NodeIds
    BY <1>1, <1>8 DEF NetworkType
  <2>2. CASE n \in N
    <3>1. t.children[n] = {}
      BY <1>17, <2>2
    <3>2. ASSUME NEW m \in s0.children[n] PROVE FALSE
      <4>1. s0.parent[m] = n
        BY <1>6, <2>1, <3>2
      <4>2. n \in s0.nodes \cup {Nil}
        BY <1>1, <2>1, <4>1 DEF InOrder, Resolved
      <4> QED
        BY <1>3, <2>2, <4>2, NetworkAssumption DEF NewNodes
    <3> QED
      BY <3>1, <3>2
  <2>3. CASE n \notin N
    <3>1. \A m \in NodeIds : m \in t.children[n] <=> m \in s.children[n] /\ ~(n = s.parent[root] /\ m = root)
      BY <1>17, <2>3
    <3>2. ASSUME NEW m \in NodeIds PROVE m \in t.children[n] <=> m \in s0.children[n]
      <4>1. CASE m \notin N
        <5>1. s.parent[m] = s0.parent[m] /\ m # root
          BY <1>2, <4>1 DEF Grown
        <5> QED
          BY <1>6, <3>1, <5>1
      <4>2. CASE m \in N
        <5>1. m \notin s0.children[n]
          BY <1>6, <1>7, <4>2, NetworkAssumption
        <5>2. m # root => s.parent[m] = root
          BY <4>2 DEF Grown
        <5> QED
          BY <1>2, <1>6, <2>3, <3>1, <5>1, <5>2
      <4> QED
        BY <4>1, <4>2
    <3> QED
      BY <2>1, <3>2
  <2> QED
    BY <2>2, <2>3
<1>23. t.internal = e.internal
  <2> SUFFICES \A n \in NodeIds : t.internal[n] = Internal[n]
    BY <1>8, <1>9 DEF NetworkType
  <2> TAKE n \in NodeIds
  <2>1. CASE n \in N
    BY <1>16, <2>1 DEF Internal
  <2>2. CASE n \notin N
    <3>1. \A l \in K : s.owner[l] # n
      BY <1>2, <2>2 DEF Grown
    <3>2. Internal[n] = s.internal[n]
      BY <2>2 DEF Internal
    <3>3. t.internal[n] = s.internal[n] \ {l \in K : n = s.owner[l]}
      BY <1>18, <1>16, <2>2
    <3> QED
      BY <3>1, <3>2, <3>3
  <2> QED
    BY <2>1, <2>2
<1>24. t.subscriptions = e.subscriptions
  <2> SUFFICES \A n \in NodeIds : t.subscriptions[n] = s0.subscriptions[n]
    BY <1>8, <1>9 DEF NetworkType
  <2> TAKE n \in NodeIds
  <2>1. CASE n \in N
    BY <1>7, <1>16, <2>1
  <2>2. CASE n \notin N
    <3>1. s.subscriptions[n] = s0.subscriptions[n]
      BY <2>2 DEF Grown
    <3>2. \A l \in K : l \notin s0.subscriptions[n]
      BY <1>3, <1>6, <1>7
    <3>3. t.subscriptions[n] = s.subscriptions[n] \ {l \in K : n \in s.subscribers[l]}
      BY <1>18, <1>16, <2>2
    <3> QED
      BY <1>3, <1>6, <3>1, <3>2, <3>3
  <2> QED
    BY <2>1, <2>2
<1>25. t.subscribers = e.subscribers
  <2> SUFFICES \A l \in LinkIds : t.subscribers[l] = s0.subscribers[l]
    BY <1>8, <1>9 DEF NetworkType
  <2>1. InOrder(t)
    BY <1>1, <1>2, RemoveNodeInOrder DEF t, NetworkType
  <2>2. \A n \in NodeIds, l \in LinkIds : n \in t.subscribers[l] <=> l \in t.subscriptions[n]
    BY <2>1 DEF InOrder, Paired
  <2>3. \A l \in LinkIds : t.subscribers[l] \subseteq NodeIds /\ s0.subscribers[l] \subseteq NodeIds
    BY <1>1, <1>8 DEF NetworkType
  <2>4. t.subscriptions = s0.subscriptions
    BY <1>9, <1>24
  <2> TAKE l \in LinkIds
  <2>5. \A n \in NodeIds : n \in t.subscribers[l] <=> n \in s0.subscribers[l]
    BY <1>6, <2>2, <2>4
  <2> QED
    BY <2>3, <2>5
<1>26. t = e
  BY <1>8, <1>19, <1>20, <1>21, <1>22, <1>23, <1>24, <1>25 DEF NetworkType
<1> DEFINE gone == s.nodes \ t.nodes
           u == [v EXCEPT !.net = t, !.hosts = @ \ gone,
                          !.logics = [m \in NodeIds |-> IF m \in gone THEN NoLogic ELSE @[m]]]
<1>27. gone = N /\ N \cap w.net.nodes = {}
  BY <1>2, <1>3, <1>12, <1>14 DEF NewNodes
<1>28. RemoveWithLogic(v, root) = [ok |-> TRUE, node |-> Nil, world |-> u]
  <2>1. RemoveNode(s, root).ok = TRUE
    BY <1>4 DEF Done
  <2> QED
    BY <1>5, <2>1 DEF RemoveWithLogic
<1>29. /\ u.net = t /\ u.hosts = v.hosts \ N
       /\ u.logics = [m \in NodeIds |-> IF m \in N THEN NoLogic ELSE v.logics[m]]
       /\ DOMAIN u = DOMAIN v /\ \A x \in DOMAIN v \ {"net", "logics", "hosts"} : u[x] = v[x]
       /\ u = [x \in DOMAIN u |-> u[x]]
  BY <1>27 DEF IsWorld
<1> HIDE DEF u
<1>30. u.hosts = w.hosts
  BY <1>27, <1>29 DEF Grown, IsWorld, Vacant
<1>31. u.logics = w.logics
  <2>1. \A m \in NodeIds \ N : v.logics[m] = w.logics[m]
    BY DEF Grown
  <2>2. ASSUME NEW m \in NodeIds PROVE u.logics[m] = w.logics[m]
    <3>1. u.logics[m] = IF m \in N THEN NoLogic ELSE v.logics[m]
      BY <1>29
    <3> QED
      BY <1>7, <2>1, <3>1
  <2> QED
    BY <1>29, <2>2 DEF IsWorld
<1> DEFINE x == [w EXCEPT !.net = e]
<1>32. /\ x.net = e /\ x.logics = w.logics /\ x.hosts = w.hosts
       /\ Alike(w, x) /\ x = [y \in DOMAIN x |-> x[y]]
  BY WithNet
<1> HIDE DEF x
<1>33. u = x
  <2>1. Alike(x, u)
    BY <1>29, <1>32 DEF Grown, Alike
  <2> QED
    BY <1>26, <1>29, <1>30, <1>31, <1>32, <2>1, SameWorld
<1> QED
  BY <1>28, <1>33 DEF Undone, x, e, Owner, Internal

LEMMA RemovalLeavesIssued ==
    ASSUME NEW w, IsWorld(w), NEW v, IsWorld(v), NEW root, Grown(w, v, root), Apart(w, v, root)
    PROVE  LET r == RemoveWithLogic(v, root)
           IN  r.ok /\ OnlyIssued(w, r.world) /\ r.world.net.issued = v.net.issued
<1> DEFINE N == NewNodes(w, v)
           K == NewLinks(w, v)
           Owner == [l \in LinkIds |-> IF l \in K THEN Nil ELSE v.net.owner[l]]
           Internal == [n \in NodeIds |-> IF n \in N THEN {} ELSE v.net.internal[n]]
           r == RemoveWithLogic(v, root)
<1>1. InOrder(w.net) /\ InOrder(v.net) /\ w.net \in NetworkType /\ v.net \in NetworkType
  BY DEF IsWorld, InOrder
<1>2. r.ok /\ r.world = Undone(w, v)
  BY RemovalUndoes
<1>3. Owner = w.net.owner
  <2>1. \A l \in LinkIds : Owner[l] = w.net.owner[l]
    <3> TAKE l \in LinkIds
    <3>1. CASE l \in K
      BY <1>1, <3>1 DEF NewLinks, InOrder, Resolved
    <3>2. CASE l \notin K
      BY <3>2 DEF Apart
    <3> QED
      BY <3>1, <3>2
  <2> QED
    BY <1>1, <2>1 DEF NetworkType
<1>4. Internal = w.net.internal
  <2>1. ASSUME NEW n \in NodeIds PROVE Internal[n] = w.net.internal[n]
    <3>1. w.net.internal[n] \subseteq LinkIds /\ v.net.internal[n] \subseteq LinkIds
      BY <1>1 DEF NetworkType
    <3>2. \A l \in LinkIds : (l \in w.net.internal[n] <=> w.net.owner[l] = n)
                             /\ (l \in v.net.internal[n] <=> v.net.owner[l] = n)
      BY <1>1 DEF InOrder, Paired
    <3>3. CASE n \in N
      <4>1. n \notin w.net.nodes \cup {Nil}
        BY <3>3, NetworkAssumption DEF NewNodes
      <4>2. \A l \in LinkIds : w.net.owner[l] # n
        BY <1>1, <4>1 DEF InOrder, Resolved
      <4> QED
        BY <3>1, <3>2, <3>3, <4>2
    <3>4. CASE n \notin N
      <4>1. \A l \in LinkIds : v.net.owner[l] = n <=> w.net.owner[l] = n
        <5> TAKE l \in LinkIds
        <5>1. CASE l \in K
          <6>1. v.net.owner[l] = root /\ root \in N
            BY <5>1 DEF Grown
          <6>2. w.net.owner[l] = Nil
            BY <1>1, <5>1 DEF NewLinks, InOrder, Resolved
          <6> QED
            BY <3>4, <6>1, <6>2, NetworkAssumption
        <5>2. CASE l \notin K
          BY <5>2 DEF Apart
        <5> QED
          BY <5>1, <5>2
      <4>2. v.net.internal[n] = w.net.internal[n]
        BY <3>1, <3>2, <4>1
      <4> QED
        BY <3>4, <4>2
    <3> QED
      BY <3>3, <3>4
  <2> HIDE DEF Internal
  <2>2. Internal = [n \in NodeIds |-> Internal[n]]
    BY DEF Internal
  <2> QED
    BY <1>1, <2>1, <2>2 DEF NetworkType
<1> HIDE DEF Owner, Internal, r
<1> DEFINE e == [w.net EXCEPT !.issued = v.net.issued]
<1>5. [w.net EXCEPT !.issued = v.net.issued, !.owner = Owner, !.internal = Internal] = e
  BY <1>1, <1>3, <1>4 DEF NetworkType
<1>6. e.issued = v.net.issued
  BY <1>1 DEF NetworkType
<1> HIDE DEF e
<1>7. r.world = [w EXCEPT !.net = e]
  BY <1>2, <1>5 DEF Undone, Owner, Internal
<1>8. r.world.net = e
  BY <1>7, WithNet
<1>9. r.world = [w EXCEPT !.net = [w.net EXCEPT !.issued = r.world.net.issued]]
  BY <1>6, <1>7, <1>8 DEF e
<1> QED
  BY <1>2, <1>6, <1>8, <1>9 DEF OnlyIssued, Grown, r

-----------------------------------------------------------------------------
(* The operations on a network, as far as they matter here *)

(* Nothing but edges differ.                                               *)
SameThings(s, t) == t.nodes = s.nodes /\ t.links = s.links /\ t.issued = s.issued /\ t.name = s.name

LEMMA OwnerMakes ==
    ASSUME NEW s \in NetworkType, NEW o \in NodeIds, NEW l \in LinkIds
    PROVE  LET t == WithOwner(s, o, l)
           IN  /\ SameThings(s, t) /\ t.parent = s.parent /\ t.subscriptions = s.subscriptions
               /\ \A k \in LinkIds : t.owner[k] = IF k = l THEN o ELSE s.owner[k]
  BY DEF WithOwner, NetworkType, SameThings

LEMMA SubscriberMakes ==
    ASSUME NEW s \in NetworkType, NEW n \in NodeIds, NEW l \in LinkIds
    PROVE  LET t == WithSubscriber(s, n, l)
           IN  /\ SameThings(s, t) /\ t.parent = s.parent /\ t.owner = s.owner
               /\ \A m \in NodeIds : t.subscriptions[m] = IF m = n THEN s.subscriptions[m] \cup {l}
                                                          ELSE s.subscriptions[m]
  BY DEF WithSubscriber, NetworkType, SameThings

LEMMA ParentMakes ==
    ASSUME NEW s \in NetworkType, NEW p \in NodeIds, NEW n \in NodeIds
    PROVE  LET t == WithParent(s, p, n)
           IN  /\ SameThings(s, t) /\ t.owner = s.owner /\ t.subscriptions = s.subscriptions
               /\ \A m \in NodeIds : t.parent[m] = IF m = n THEN p ELSE s.parent[m]
  BY DEF WithParent, NetworkType, SameThings

Connected(s, t, p, n, l) ==
    /\ SameThings(s, t)
    /\ \A m \in NodeIds : t.parent[m] = IF m = n THEN p ELSE s.parent[m]
    /\ \A m \in NodeIds : t.subscriptions[m] = IF m = n THEN s.subscriptions[m] \cup ({l} \ {Nil})
                                               ELSE s.subscriptions[m]
    /\ \A k \in LinkIds : t.owner[k] = IF k = l THEN p ELSE s.owner[k]

LEMMA ConnectMakes ==
    ASSUME NEW s, InOrder(s), NEW p \in NodeIds, NEW n \in NodeIds, NEW l \in LinkIds \cup {Nil}
    PROVE  LET r == Connect(s, p, n, l)
               t == r.net
           IN  IF CanConnect(s, p, n, l)
               THEN r.ok = TRUE /\ InOrder(t) /\ Connected(s, t, p, n, l)
               ELSE r.ok = FALSE /\ t = s
<1> DEFINE u == IF s.parent[n] = Nil THEN WithParent(s, p, n) ELSE s
           o == WithOwner(u, p, l)
           t == WithSubscriber(o, n, l)
<1>1. CASE ~CanConnect(s, p, n, l)
  BY <1>1 DEF Connect, Rejected
<1>2. CASE CanConnect(s, p, n, l)
  <2>1. InOrder(u) /\ u \in NetworkType /\ s \in NetworkType
    BY <1>2, ParentInOrder DEF InOrder
  <2>2. /\ SameThings(s, u) /\ u.owner = s.owner /\ u.subscriptions = s.subscriptions
        /\ \A m \in NodeIds : u.parent[m] = IF m = n THEN p ELSE s.parent[m]
    <3>1. CASE s.parent[n] = Nil
      BY <2>1, <3>1, ParentMakes
    <3>2. CASE s.parent[n] # Nil
      <4>1. s.parent[n] = p
        BY <1>2, <3>2 DEF CanConnect
      <4> QED
        BY <3>2, <4>1 DEF SameThings
    <3> QED
      BY <3>1, <3>2
  <2> HIDE DEF u
  <2>3. CASE l = Nil
    <3>1. Connect(s, p, n, l) = [ok |-> TRUE, net |-> u]
      BY <1>2, <2>3 DEF Connect, Done, u
    <3>2. \A m \in NodeIds : s.subscriptions[m] \cup ({l} \ {Nil}) = s.subscriptions[m]
      BY <2>3
    <3>3. \A k \in LinkIds : k # l
      BY <2>3, NetworkAssumption
    <3>4. /\ Connect(s, p, n, l).ok = TRUE /\ Connect(s, p, n, l).net = u
      BY <3>1
    <3>5. \A m \in NodeIds : u.subscriptions[m] = IF m = n THEN s.subscriptions[m] \cup ({l} \ {Nil})
                                                   ELSE s.subscriptions[m]
      BY <2>2, <3>2
    <3>6. \A k \in LinkIds : u.owner[k] = IF k = l THEN p ELSE s.owner[k]
      BY <2>2, <3>3
    <3> QED
      BY <1>2, <2>1, <2>2, <3>4, <3>5, <3>6 DEF Connected
  <2>4. CASE l # Nil
    <3>1. l \in LinkIds
      BY <2>4
    <3>2. u = IF s.parent[n] = Nil THEN WithParent(s, p, n) ELSE s
      BY DEF u
    <3>3. CanAddInternalLink(u, p, l) /\ CanSubscribe(o, n, l)
      BY <1>2, <3>1, <3>2, ConnectOwns, ConnectSubscribes
    <3>4. InOrder(o) /\ o \in NetworkType
      BY <2>1, <3>1, <3>3, OwnerInOrder, OwnerTyped
    <3>5. /\ SameThings(u, o) /\ o.parent = u.parent /\ o.subscriptions = u.subscriptions
          /\ \A k \in LinkIds : o.owner[k] = IF k = l THEN p ELSE u.owner[k]
      BY <2>1, <3>1, OwnerMakes
    <3>6. AddInternalLink(u, p, l) = [ok |-> TRUE, net |-> o]
      BY <3>3 DEF AddInternalLink, Done
    <3> HIDE DEF o
    <3>7. Subscribe(o, n, l) = [ok |-> TRUE, net |-> t]
      BY <3>3 DEF Subscribe, Done
    <3>8. InOrder(t)
      BY <3>1, <3>3, <3>4, SubscriberInOrder
    <3>9. /\ SameThings(o, t) /\ t.parent = o.parent /\ t.owner = o.owner
          /\ \A m \in NodeIds : t.subscriptions[m] = IF m = n THEN o.subscriptions[m] \cup {l}
                                                     ELSE o.subscriptions[m]
      BY <3>1, <3>4, SubscriberMakes, ZenonT(60)
    <3> HIDE DEF t
    <3>10. Connect(s, p, n, l) = [ok |-> TRUE, net |-> t]
      <4>1. AddInternalLink(u, p, l).ok /\ AddInternalLink(u, p, l).net = o
        BY <3>6
      <4> QED
        BY <1>2, <2>4, <3>7, <4>1 DEF Connect, u
    <3>11. SameThings(s, t)
      BY <2>2, <3>5, <3>9 DEF SameThings
    <3>12. \A m \in NodeIds : t.subscriptions[m] = IF m = n THEN s.subscriptions[m] \cup ({l} \ {Nil})
                                                   ELSE s.subscriptions[m]
      BY <2>2, <2>4, <3>5, <3>9
    <3> QED
      BY <1>2, <2>2, <3>5, <3>8, <3>9, <3>10, <3>11, <3>12 DEF Connected
  <2> QED
    BY <2>3, <2>4
<1> QED
  BY <1>1, <1>2

(* A world whose network has other edges.                                  *)
LEMMA RewiredIsWorld ==
    ASSUME NEW w, IsWorld(w), NEW s, InOrder(s), SameThings(w.net, s), NEW v, v = [w EXCEPT !.net = s]
    PROVE  IsWorld(v) /\ Alike(w, v)
<1>1. /\ v.net = s /\ v.logics = w.logics /\ v.hosts = w.hosts
      /\ Alike(w, v) /\ v = [x \in DOMAIN v |-> v[x]]
  BY WithNet
<1>2. Vacant(v)
  BY <1>1 DEF IsWorld, Vacant, SameThings
<1> QED
  BY <1>1, <1>2 DEF IsWorld, Alike

LEMMA ConnectedIsWorld ==
    ASSUME NEW w, IsWorld(w), NEW p \in NodeIds, NEW n \in NodeIds, NEW l \in LinkIds \cup {Nil}
    PROVE  LET r == InNetwork(w, Connect(w.net, p, n, l))
           IN  /\ r = [ok |-> CanConnect(w.net, p, n, l), world |-> r.world, node |-> Nil]
               /\ IsWorld(r.world) /\ Alike(w, r.world)
               /\ r.world.net = Connect(w.net, p, n, l).net
               /\ r.world.logics = w.logics /\ r.world.hosts = w.hosts
               /\ ~r.ok => r.world = w
<1> DEFINE c == Connect(w.net, p, n, l)
           v == [w EXCEPT !.net = c.net]
<1>1. InOrder(w.net)
  BY DEF IsWorld
<1>2. c.ok = CanConnect(w.net, p, n, l) /\ InOrder(c.net) /\ SameThings(w.net, c.net) /\ (~c.ok => c.net = w.net)
  <2>1. CASE CanConnect(w.net, p, n, l)
    <3>1. c.ok = TRUE /\ InOrder(c.net) /\ SameThings(w.net, c.net)
      BY <1>1, <2>1, ConnectMakes DEF Connected
    <3> HIDE DEF c
    <3> QED
      BY <2>1, <3>1 DEF CanConnect
  <2>2. CASE ~CanConnect(w.net, p, n, l)
    <3>1. c.ok = FALSE /\ c.net = w.net
      BY <1>1, <2>2, ConnectMakes, ZenonT(60)
    <3> HIDE DEF c
    <3> QED
      BY <1>1, <2>2, <3>1 DEF CanConnect, SameThings
  <2> QED
    BY <2>1, <2>2
<1> HIDE DEF c
<1>3. IsWorld(v) /\ Alike(w, v)
  BY <1>2, RewiredIsWorld
<1>4. v.net = c.net /\ v.logics = w.logics /\ v.hosts = w.hosts
  BY WithNet
<1>5. ~c.ok => v = w
  BY <1>2 DEF IsWorld
<1> QED
  BY <1>2, <1>3, <1>4, <1>5 DEF InNetwork, c

NodeAdded(w, v, id, name) ==
    /\ v.net.nodes = w.net.nodes \cup {id} /\ v.net.links = w.net.links
    /\ v.net.name[id] = name /\ v.logics = w.logics
    /\ Grown(w, v, id) /\ Apart(w, v, id)
    /\ v.net.parent[id] = Nil /\ v.net.subscriptions[id] = {}

LinkAdded(w, v, id, name) ==
    /\ v.net.nodes = w.net.nodes /\ v.net.parent = w.net.parent
    /\ v.net.subscriptions = w.net.subscriptions /\ v.net.owner = w.net.owner
    /\ v.logics = w.logics /\ v.hosts = w.hosts
    /\ v.net.links = w.net.links \cup {id} /\ v.net.issued = w.net.issued \cup {id}
    /\ \A h \in NodeIds \cup LinkIds : v.net.name[h] = IF h = id THEN name ELSE w.net.name[h]
    /\ v.net.owner[id] = Nil /\ v.net.subscribers[id] = {}

LEMMA NewNodeInWorld ==
    ASSUME NEW w, IsWorld(w), NEW id \in NodeIds \ w.net.issued, NEW name \in Names
    PROVE  LET r == InNetwork(w, CreateNode(w.net, id, name))
               v == r.world
           IN  /\ r.ok \in BOOLEAN /\ (r.ok <=> name \notin Reserved)
               /\ r = [ok |-> r.ok, world |-> v, node |-> Nil]
               /\ ~r.ok => v = w
               /\ IsWorld(v) /\ Alike(w, v)
               /\ r.ok => NodeAdded(w, v, id, name)
<1> DEFINE c == CreateNode(w.net, id, name)
           s == c.net
           v == [w EXCEPT !.net = s]
<1>1. InOrder(w.net) /\ w.net \in NetworkType
  BY DEF IsWorld, InOrder
<1>2. InOrder(s) /\ s \in NetworkType
  BY <1>1, CreateNodeInOrder DEF InOrder
<1>3. CASE name \in Reserved
  <2>1. c = [ok |-> FALSE, net |-> w.net]
    BY <1>3 DEF CreateNode, ValidName, Rejected
  <2> HIDE DEF c
  <2>2. v = w
    BY <2>1 DEF IsWorld
  <2>3. InNetwork(w, c) = [ok |-> FALSE, world |-> w, node |-> Nil]
    BY <2>1, <2>2 DEF InNetwork
  <2> QED
    BY <1>3, <2>3 DEF Alike, c
<1>4. CASE name \notin Reserved
  <2>1. c = [ok |-> TRUE, net |-> [w.net EXCEPT !.nodes = @ \cup {id}, !.issued = @ \cup {id}, !.name[id] = name]]
    BY <1>4 DEF CreateNode, ValidName, Done
  <2>2. s = [w.net EXCEPT !.nodes = @ \cup {id}, !.issued = @ \cup {id}, !.name[id] = name]
    BY <2>1
  <2> HIDE DEF s
  <2>3. /\ s.nodes = w.net.nodes \cup {id} /\ s.links = w.net.links /\ s.issued = w.net.issued \cup {id}
        /\ s.parent = w.net.parent /\ s.subscriptions = w.net.subscriptions /\ s.owner = w.net.owner
        /\ \A h \in NodeIds \cup LinkIds : s.name[h] = IF h = id THEN name ELSE w.net.name[h]
    BY <1>1, <2>2 DEF NetworkType
  <2>4. InNetwork(w, c) = [ok |-> TRUE, world |-> v, node |-> Nil]
    BY <2>1 DEF InNetwork, s
  <2> HIDE DEF c
  <2>5. /\ v.net = s /\ v.logics = w.logics /\ v.hosts = w.hosts
        /\ Alike(w, v) /\ v = [x \in DOMAIN v |-> v[x]]
    BY WithNet
  <2> HIDE DEF v
  <2>6. /\ w.net.nodes \subseteq w.net.issued /\ w.net.links \subseteq w.net.issued
        /\ id \notin w.net.nodes /\ id \notin LinkIds
    BY <1>1, NetworkAssumption DEF InOrder, Resolved
  <2>7. w.net.parent[id] = Nil /\ w.net.subscriptions[id] = {} /\ \A l \in LinkIds : w.net.owner[l] # id
    BY <1>1, FreshHandleUnknown, <2>6 DEF InOrder, Resolved
  <2>8. Vacant(v)
    BY <2>3, <2>5 DEF IsWorld, Vacant
  <2>9. IsWorld(v)
    BY <1>2, <2>5, <2>8 DEF IsWorld, Alike
  <2>10. NewNodes(w, v) = {id} /\ NewLinks(w, v) = {}
    BY <2>3, <2>5, <2>6 DEF NewNodes, NewLinks
  <2>11. Grown(w, v, id)
    <3>1. w.net.links \subseteq LinkIds
      BY <1>1 DEF NetworkType
    <3> QED
      BY <2>3, <2>5, <2>6, <2>7, <2>10, <3>1 DEF Grown
  <2>12. Apart(w, v, id)
    BY <2>3, <2>5, <2>7, <2>10 DEF Apart
  <2>13. v.net.nodes = w.net.nodes \cup {id} /\ v.net.links = w.net.links /\ v.net.name[id] = name
         /\ v.net.parent[id] = Nil /\ v.net.subscriptions[id] = {}
    BY <2>3, <2>5, <2>7
  <2> QED
    BY <1>4, <2>4, <2>5, <2>9, <2>11, <2>12, <2>13 DEF NodeAdded, c
<1> QED
  BY <1>3, <1>4

LEMMA MadeNode ==
    ASSUME NEW w, IsWorld(w), NEW name \in Names
    PROVE  LET r == MakeNode(w, name)
               v == r.world
               id == r.node
           IN  /\ r.ok \in BOOLEAN /\ r = [ok |-> r.ok, world |-> v, node |-> id]
               /\ id \in NodeIds \cup {Nil}
               /\ ~r.ok => v = w
               /\ IsWorld(v) /\ Alike(w, v)
               /\ r.ok => id \in NodeIds \ w.net.issued /\ name \notin Reserved /\ NodeAdded(w, v, id, name)
<1>1. CASE NodeIds \subseteq w.net.issued
  <2>1. MakeNode(w, name) = [ok |-> FALSE, world |-> w, node |-> Nil]
    BY <1>1 DEF MakeNode, Failed
  <2> QED
    BY <2>1 DEF Alike
<1>2. CASE ~(NodeIds \subseteq w.net.issued)
  <2> DEFINE id == NewNodeId(w.net)
             r == InNetwork(w, CreateNode(w.net, id, name))
  <2>1. id \in NodeIds \ w.net.issued
    BY <1>2 DEF NewNodeId
  <2>2. MakeNode(w, name) = [r EXCEPT !.node = id]
    BY <1>2 DEF MakeNode
  <2> HIDE DEF id, r
  <2>3. /\ r.ok \in BOOLEAN /\ (r.ok <=> name \notin Reserved)
        /\ r = [ok |-> r.ok, world |-> r.world, node |-> Nil]
        /\ ~r.ok => r.world = w
        /\ IsWorld(r.world) /\ Alike(w, r.world)
        /\ r.ok => NodeAdded(w, r.world, id, name)
    BY <2>1, NewNodeInWorld DEF r
  <2>4. MakeNode(w, name) = [ok |-> r.ok, world |-> r.world, node |-> id]
    BY <2>2, <2>3
  <2> QED
    BY <2>1, <2>3, <2>4
<1> QED
  BY <1>1, <1>2

LEMMA NewLinkInWorld ==
    ASSUME NEW w, IsWorld(w), NEW id \in LinkIds \ w.net.issued, NEW name \in Names
    PROVE  LET r == InNetwork(w, CreateLink(w.net, id, name))
               v == r.world
           IN  /\ r.ok \in BOOLEAN /\ (r.ok <=> name \notin Reserved)
               /\ r = [ok |-> r.ok, world |-> v, node |-> Nil]
               /\ ~r.ok => v = w
               /\ IsWorld(v) /\ Alike(w, v)
               /\ r.ok => LinkAdded(w, v, id, name)
<1> DEFINE c == CreateLink(w.net, id, name)
           s == c.net
           v == [w EXCEPT !.net = s]
<1>1. InOrder(w.net) /\ w.net \in NetworkType
  BY DEF IsWorld, InOrder
<1>2. InOrder(s) /\ s \in NetworkType
  BY <1>1, CreateLinkInOrder DEF InOrder
<1>3. CASE name \in Reserved
  <2>1. c = [ok |-> FALSE, net |-> w.net]
    BY <1>3 DEF CreateLink, ValidName, Rejected
  <2> HIDE DEF c
  <2>2. v = w
    BY <2>1 DEF IsWorld
  <2>3. InNetwork(w, c) = [ok |-> FALSE, world |-> w, node |-> Nil]
    BY <2>1, <2>2 DEF InNetwork
  <2> QED
    BY <1>3, <2>3 DEF Alike, c
<1>4. CASE name \notin Reserved
  <2>1. c = [ok |-> TRUE, net |-> [w.net EXCEPT !.links = @ \cup {id}, !.issued = @ \cup {id}, !.name[id] = name]]
    BY <1>4 DEF CreateLink, ValidName, Done
  <2>2. s = [w.net EXCEPT !.links = @ \cup {id}, !.issued = @ \cup {id}, !.name[id] = name]
    BY <2>1
  <2> HIDE DEF s
  <2>3. /\ s.nodes = w.net.nodes /\ s.links = w.net.links \cup {id} /\ s.issued = w.net.issued \cup {id}
        /\ s.parent = w.net.parent /\ s.subscriptions = w.net.subscriptions /\ s.owner = w.net.owner
        /\ s.subscribers = w.net.subscribers
        /\ \A h \in NodeIds \cup LinkIds : s.name[h] = IF h = id THEN name ELSE w.net.name[h]
    BY <1>1, <2>2 DEF NetworkType
  <2>4. InNetwork(w, c) = [ok |-> TRUE, world |-> v, node |-> Nil]
    BY <2>1 DEF InNetwork, s
  <2> HIDE DEF c
  <2>5. /\ v.net = s /\ v.logics = w.logics /\ v.hosts = w.hosts
        /\ Alike(w, v) /\ v = [x \in DOMAIN v |-> v[x]]
    BY WithNet
  <2> HIDE DEF v
  <2>6. w.net.owner[id] = Nil /\ w.net.subscribers[id] = {}
    BY <1>1, FreshHandleUnknown
  <2>7. Vacant(v)
    BY <2>3, <2>5 DEF IsWorld, Vacant
  <2>8. IsWorld(v)
    BY <1>2, <2>5, <2>7 DEF IsWorld, Alike
  <2> QED
    BY <1>4, <2>3, <2>4, <2>5, <2>6, <2>8 DEF LinkAdded, c
<1> QED
  BY <1>3, <1>4

LEMMA MadeLink ==
    ASSUME NEW w, IsWorld(w), NEW name \in Names
    PROVE  LET r == MakeLink(w, name)
               v == r.world
               id == r.node
           IN  /\ r.ok \in BOOLEAN /\ r = [ok |-> r.ok, world |-> v, node |-> id]
               /\ id \in LinkIds \cup {Nil}
               /\ ~r.ok => v = w
               /\ IsWorld(v) /\ Alike(w, v)
               /\ r.ok => id \in LinkIds \ w.net.issued /\ LinkAdded(w, v, id, name)
<1>1. CASE LinkIds \subseteq w.net.issued
  <2>1. MakeLink(w, name) = [ok |-> FALSE, world |-> w, node |-> Nil]
    BY <1>1 DEF MakeLink, Failed
  <2> QED
    BY <2>1 DEF Alike
<1>2. CASE ~(LinkIds \subseteq w.net.issued)
  <2> DEFINE id == NewLinkId(w.net)
             r == InNetwork(w, CreateLink(w.net, id, name))
  <2>1. id \in LinkIds \ w.net.issued
    BY <1>2 DEF NewLinkId
  <2>2. MakeLink(w, name) = [r EXCEPT !.node = id]
    BY <1>2 DEF MakeLink
  <2> HIDE DEF id, r
  <2>3. /\ r.ok \in BOOLEAN
        /\ r = [ok |-> r.ok, world |-> r.world, node |-> Nil]
        /\ ~r.ok => r.world = w
        /\ IsWorld(r.world) /\ Alike(w, r.world)
        /\ r.ok => LinkAdded(w, r.world, id, name)
    BY <2>1, NewLinkInWorld DEF r
  <2>4. MakeLink(w, name) = [ok |-> r.ok, world |-> r.world, node |-> id]
    BY <2>2, <2>3
  <2> QED
    BY <2>1, <2>3, <2>4
<1> QED
  BY <1>1, <1>2

WithLogic(w, n, logic) == [w EXCEPT !.logics[n] = logic]

LEMMA LogicSet ==
    ASSUME NEW w, IsWorld(w), NEW n \in w.net.nodes, NEW logic \in Logics,
           NEW v, v = WithLogic(w, n, logic)
    PROVE  /\ IsWorld(v) /\ Alike(w, v) /\ v.net = w.net /\ v.hosts = w.hosts
           /\ \A m \in NodeIds : v.logics[m] = IF m = n THEN logic ELSE w.logics[m]
<1> DEFINE g == [w.logics EXCEPT ![n] = logic]
<1>1. n \in NodeIds
  BY DEF IsWorld, InOrder, NetworkType
<1>2. g \in [NodeIds -> Logics] /\ \A m \in NodeIds : g[m] = IF m = n THEN logic ELSE w.logics[m]
  BY <1>1 DEF IsWorld
<1> HIDE DEF g
<1>3. v = [w EXCEPT !.logics = g]
  BY DEF WithLogic, g
<1>4. /\ v.net = w.net /\ v.logics = g /\ v.hosts = w.hosts
      /\ Alike(w, v) /\ v = [x \in DOMAIN v |-> v[x]]
  BY <1>3, WithLogics
<1>5. Vacant(v)
  BY <1>2, <1>4 DEF IsWorld, Vacant
<1> QED
  BY <1>2, <1>4, <1>5 DEF IsWorld, Alike

-----------------------------------------------------------------------------
(* What grows goes on growing *)

LEMMA OnlyIssuedFields ==
    ASSUME NEW v, IsWorld(v), NEW x, OnlyIssued(v, x)
    PROVE  /\ x.net.nodes = v.net.nodes /\ x.net.links = v.net.links /\ x.net.name = v.net.name
           /\ x.net.parent = v.net.parent /\ x.net.subscriptions = v.net.subscriptions
           /\ x.net.owner = v.net.owner /\ x.net.internal = v.net.internal
           /\ x.logics = v.logics /\ x.hosts = v.hosts /\ Alike(v, x)
           /\ v.net.issued \subseteq x.net.issued
<1> DEFINE s == [v.net EXCEPT !.issued = x.net.issued]
<1>1. /\ s.nodes = v.net.nodes /\ s.links = v.net.links /\ s.name = v.net.name
      /\ s.parent = v.net.parent /\ s.subscriptions = v.net.subscriptions
      /\ s.owner = v.net.owner /\ s.internal = v.net.internal
  BY DEF IsWorld, InOrder, NetworkType
<1>2. x = [v EXCEPT !.net = s] /\ v.net.issued \subseteq x.net.issued
  BY DEF OnlyIssued
<1> HIDE DEF s
<1>3. x.net = s /\ x.logics = v.logics /\ x.hosts = v.hosts /\ Alike(v, x)
  BY <1>2, WithNet
<1> QED
  BY <1>1, <1>2, <1>3

LEMMA GrownThenIssued ==
    ASSUME NEW w, IsWorld(w), NEW v, IsWorld(v), NEW root, Grown(w, v, root),
           NEW x, OnlyIssued(v, x)
    PROVE  /\ Grown(w, x, root)
           /\ Apart(w, v, root) => Apart(w, x, root)
           /\ NewNodes(w, x) = NewNodes(w, v) /\ NewLinks(w, x) = NewLinks(w, v)
<1>1. /\ x.net.nodes = v.net.nodes /\ x.net.links = v.net.links /\ x.net.name = v.net.name
      /\ x.net.parent = v.net.parent /\ x.net.subscriptions = v.net.subscriptions
      /\ x.net.owner = v.net.owner
      /\ x.logics = v.logics /\ x.hosts = v.hosts /\ Alike(v, x)
      /\ v.net.issued \subseteq x.net.issued
  BY OnlyIssuedFields
<1>2. NewNodes(w, x) = NewNodes(w, v) /\ NewLinks(w, x) = NewLinks(w, v)
  BY <1>1 DEF NewNodes, NewLinks
<1>3. Alike(w, x)
  BY <1>1, AlikeTransitive DEF Grown
<1> QED
  BY <1>1, <1>2, <1>3 DEF Grown, Apart

PartTypes == [name: Names, logic: Logics]

(* From v to x the computer got a part.                                    *)
GotPart(w, v, x, root, ipc, part) ==
    /\ x.net.subscriptions[root] = v.net.subscriptions[root]
    /\ x.net.name[root] = v.net.name[root]
    /\ \E id \in NodeIds \ v.net.nodes :
          /\ NewNodes(w, x) = NewNodes(w, v) \cup {id}
          /\ x.net.name[id] = part.name /\ x.logics[id] = part.logic
          /\ x.net.subscriptions[id] = {ipc}
          /\ \A m \in NewNodes(w, v) :
                /\ x.net.name[m] = v.net.name[m] /\ x.logics[m] = v.logics[m]
                /\ x.net.subscriptions[m] = v.net.subscriptions[m]

LEMMA PartAdded ==
    ASSUME NEW w, IsWorld(w), NEW v, IsWorld(v), NEW root, Grown(w, v, root), Apart(w, v, root),
           NEW ipc \in NewLinks(w, v), NEW part \in PartTypes,
           NEW f, f.ok, f.world = v
    PROVE  LET r == AddPart(f, root, ipc, part)
               x == r.world
           IN  /\ r.ok \in BOOLEAN /\ r = [ok |-> r.ok, world |-> x, node |-> r.node]
               /\ r.node \in NodeIds \cup LinkIds \cup {Nil}
               /\ IsWorld(x) /\ Grown(w, x, root) /\ Apart(w, x, root)
               /\ NewLinks(w, x) = NewLinks(w, v)
               /\ r.ok => GotPart(w, v, x, root, ipc, part)
<1> DEFINE created == MakeNode(v, part.name)
           u == created.world
           id == created.node
           joined == InNetwork(u, Connect(u.net, root, id, ipc))
           y == joined.world
           r == AddPart(f, root, ipc, part)
<1>1. /\ InOrder(w.net) /\ InOrder(v.net) /\ w.net \in NetworkType /\ v.net \in NetworkType
      /\ root \in NodeIds /\ ipc \in LinkIds /\ root \in v.net.nodes
  BY DEF IsWorld, InOrder, NetworkType, Grown, NewNodes, NewLinks
<1>2. /\ created.ok \in BOOLEAN /\ created = [ok |-> created.ok, world |-> u, node |-> id]
      /\ id \in NodeIds \cup {Nil}
      /\ ~created.ok => u = v
      /\ IsWorld(u) /\ Alike(v, u)
      /\ created.ok => id \in NodeIds \ v.net.issued /\ NodeAdded(v, u, id, part.name)
  <2>1. part.name \in Names
    BY DEF PartTypes
  <2> QED
    BY <2>1, MadeNode
<1>3. CASE ~created.ok
  <2>1. r = created
    BY <1>3 DEF AddPart
  <2> HIDE DEF r, created
  <2> QED
    BY <1>2, <1>3, <2>1 DEF r
<1>4. CASE created.ok
  <2>1. /\ ~joined.ok => r = Failed(RemoveWithLogic(joined.world, id).world)
        /\ joined.ok => r = SetLogic(joined.world, id, part.logic)
    BY <1>4 DEF AddPart
  <2> HIDE DEF created
  <2>2. /\ joined = [ok |-> CanConnect(u.net, root, id, ipc), world |-> y, node |-> Nil]
        /\ IsWorld(y) /\ Alike(u, y) /\ y.net = Connect(u.net, root, id, ipc).net
        /\ y.logics = u.logics /\ y.hosts = u.hosts /\ (~joined.ok => y = u)
    BY <1>1, <1>2, <1>4, ConnectedIsWorld
  <2>3. CASE ~joined.ok
    <3> DEFINE x == RemoveWithLogic(u, id).world
    <3>1. r = [ok |-> FALSE, world |-> x, node |-> Nil]
      <4>1. r = Failed(RemoveWithLogic(joined.world, id).world)
        BY <2>1, <2>3
      <4> QED
        BY <2>2, <2>3, <4>1 DEF Failed
    <3>2. OnlyIssued(v, x) /\ x.net.issued = u.net.issued
      BY <1>2, <1>4, RemovalLeavesIssued DEF NodeAdded
    <3> HIDE DEF x, r
    <3>3. x.net.issued \in SUBSET (NodeIds \cup LinkIds)
      BY <1>2, <3>2 DEF IsWorld, InOrder, NetworkType
    <3>4. IsWorld(x)
      BY <3>2, <3>3, OnlyIssuedIsWorld
    <3>5. Grown(w, x, root) /\ Apart(w, x, root) /\ NewLinks(w, x) = NewLinks(w, v)
      BY <3>2, GrownThenIssued
    <3> QED
      BY <3>1, <3>4, <3>5 DEF r
  <2>4. CASE joined.ok
    <3> DEFINE z == WithLogic(y, id, part.logic)
    <3>1. CanConnect(u.net, root, id, ipc)
      BY <2>2, <2>4
    <3>2. InOrder(u.net)
      BY <1>2 DEF IsWorld
    <3>3. /\ SameThings(u.net, y.net)
          /\ \A m \in NodeIds : y.net.parent[m] = IF m = id THEN root ELSE u.net.parent[m]
          /\ \A m \in NodeIds : y.net.subscriptions[m] = IF m = id THEN u.net.subscriptions[m] \cup ({ipc} \ {Nil})
                                                         ELSE u.net.subscriptions[m]
          /\ \A k \in LinkIds : y.net.owner[k] = IF k = ipc THEN root ELSE u.net.owner[k]
      <4>1. id \in NodeIds /\ ipc \in LinkIds \cup {Nil} /\ root \in NodeIds
        BY <1>1, <1>2, <1>4
      <4>2. y.net = Connect(u.net, root, id, ipc).net
        BY <2>2
      <4>3. Connected(u.net, y.net, root, id, ipc)
        <5> HIDE DEF u, id, y
        <5> QED
          BY <3>1, <3>2, <4>1, <4>2, ConnectMakes
      <4> QED
        BY <4>3 DEF Connected
    <3>4. r = [ok |-> TRUE, world |-> z, node |-> id]
      <4>1. r = SetLogic(y, id, part.logic)
        BY <2>1, <2>4
      <4>2. id \in y.net.nodes
        BY <1>2, <1>4, <3>3 DEF NodeAdded, SameThings
      <4> QED
        BY <4>1, <4>2 DEF SetLogic, Built, WithLogic
    <3> HIDE DEF joined
    <3>5. /\ IsWorld(z) /\ Alike(y, z) /\ z.net = y.net /\ z.hosts = y.hosts
          /\ \A m \in NodeIds : z.logics[m] = IF m = id THEN part.logic ELSE y.logics[m]
      <4>1. id \in y.net.nodes
        BY <1>2, <1>4, <3>3 DEF NodeAdded, SameThings
      <4>2. part.logic \in Logics /\ IsWorld(y)
        BY <2>2 DEF PartTypes
      <4>3. z = WithLogic(y, id, part.logic)
        OBVIOUS
      <4> HIDE DEF y, id, z
      <4> QED
        BY <4>1, <4>2, <4>3, LogicSet
    <3> HIDE DEF z, r
    <3>6. NewNodes(v, u) = {id} /\ NewLinks(v, u) = {} /\ v.net.issued \subseteq u.net.issued
      BY <1>1, <1>2, <1>4, SMTT(30) DEF NodeAdded, NewNodes, NewLinks, InOrder, Resolved, Grown
    <3>7. /\ z.net.nodes = v.net.nodes \cup {id} /\ z.net.links = v.net.links
          /\ v.net.issued \subseteq z.net.issued
          /\ \A m \in NodeIds \ {id} : /\ z.net.parent[m] = v.net.parent[m]
                                       /\ z.net.subscriptions[m] = v.net.subscriptions[m]
                                       /\ z.logics[m] = v.logics[m]
          /\ z.net.parent[id] = root /\ z.net.subscriptions[id] = {ipc}
          /\ z.net.name[id] = part.name /\ z.logics[id] = part.logic
          /\ \A h \in (NodeIds \cup LinkIds) \ {id} : z.net.name[h] = v.net.name[h]
          /\ z.hosts = v.hosts
      <4>1. {ipc} \ {Nil} = {ipc}
        BY <1>1, NetworkAssumption
      <4>2. /\ \A m \in NodeIds \ {id} : /\ u.net.parent[m] = v.net.parent[m]
                                         /\ u.net.subscriptions[m] = v.net.subscriptions[m]
                                         /\ u.logics[m] = v.logics[m]
            /\ \A h \in (NodeIds \cup LinkIds) \ {id} : u.net.name[h] = v.net.name[h]
            /\ u.hosts = v.hosts
        BY <1>2, <1>4, <3>6 DEF NodeAdded, Grown
      <4>3. /\ u.net.nodes = v.net.nodes \cup {id} /\ u.net.links = v.net.links
            /\ u.net.name[id] = part.name /\ u.net.subscriptions[id] = {} /\ id \in NodeIds
            /\ v.net.issued \subseteq u.net.issued
        BY <1>2, <1>4, <3>6 DEF NodeAdded
      <4>4. /\ z.net.nodes = u.net.nodes /\ z.net.links = u.net.links /\ z.net.issued = u.net.issued
            /\ z.net.name = u.net.name /\ z.net = y.net /\ z.hosts = u.hosts
        BY <2>2, <3>3, <3>5 DEF SameThings
      <4>5. \A m \in NodeIds \ {id} : /\ z.net.parent[m] = v.net.parent[m]
                                       /\ z.net.subscriptions[m] = v.net.subscriptions[m]
                                       /\ z.logics[m] = v.logics[m]
        <5> TAKE m \in NodeIds \ {id}
        <5>1. z.net.parent[m] = v.net.parent[m]
          BY <3>3, <4>2, <4>4
        <5>2. z.net.subscriptions[m] = v.net.subscriptions[m]
          <6>1. y.net.subscriptions[m] = u.net.subscriptions[m]
            BY <3>3
          <6> QED
            BY <4>2, <4>4, <6>1
        <5>3. z.logics[m] = v.logics[m]
          BY <2>2, <3>5, <4>2
        <5> QED
          BY <5>1, <5>2, <5>3
      <4>6. z.net.parent[id] = root /\ z.net.subscriptions[id] = {ipc} /\ z.logics[id] = part.logic
        BY <3>3, <3>5, <4>1, <4>3, <4>4, ZenonT(60)
      <4> QED
        BY <4>2, <4>3, <4>4, <4>5, <4>6, SMTT(30)
    <3>8. \A k \in LinkIds : z.net.owner[k] = v.net.owner[k]
      <4>1. \A k \in LinkIds : u.net.owner[k] = v.net.owner[k]
        BY <1>2, <1>4, <3>6 DEF NodeAdded, Apart
      <4>2. v.net.owner[ipc] = root
        BY DEF Grown
      <4> QED
        BY <3>3, <3>5, <4>1, <4>2
    <3>9. Alike(w, z)
      BY <1>2, <2>2, <3>5, AlikeTransitive DEF Grown
    <3>10. NewNodes(w, z) = NewNodes(w, v) \cup {id} /\ NewLinks(w, z) = NewLinks(w, v)
           /\ id \notin v.net.issued /\ id \in NodeIds /\ id \notin v.net.nodes /\ id # root /\ id \notin w.net.issued
           /\ id \notin w.net.nodes
      BY <1>1, <1>2, <1>4, <3>7, SMTT(30) DEF NewNodes, NewLinks, Grown, InOrder, Resolved
    <3>11. Grown(w, z, root)
      <4> HIDE DEF id, u, y
      <4> DEFINE N == NewNodes(w, z)
                 K == NewLinks(w, z)
      <4>1. N = NewNodes(w, v) \cup {id} /\ K = NewLinks(w, v) /\ id # root /\ id \in NodeIds
        BY <3>10
      <4> HIDE DEF N, K
      <4>2. /\ w.net.nodes \subseteq z.net.nodes /\ w.net.links \subseteq z.net.links
            /\ w.net.issued \subseteq z.net.issued
            /\ root \in N /\ (N \cup K) \cap w.net.issued = {}
            /\ z.hosts = w.hosts
        BY <3>7, <3>10, <4>1 DEF Grown
      <4>3. \A n \in N : n \in NodeIds
        BY <1>1, <4>1 DEF NewNodes, NetworkType
      <4>4. \A n \in N : n = root \/ z.net.parent[n] = root
        <5> TAKE n \in N
        <5>1. n # id => n = root \/ v.net.parent[n] = root
          BY <4>1 DEF Grown
        <5> QED
          BY <3>7, <4>3, <5>1
      <4>5. z.net.parent[root] \in w.net.nodes \cup {Nil}
        BY <1>1, <3>7, <4>1 DEF Grown
      <4>6. \A n \in N : n = root \/ z.net.subscriptions[n] \subseteq K
        <5> TAKE n \in N
        <5>1. n # id => n = root \/ v.net.subscriptions[n] \subseteq K
          BY <4>1 DEF Grown
        <5>2. ipc \in K
          BY <4>1
        <5> QED
          BY <3>7, <4>3, <5>1, <5>2
      <4>7. \A l \in K : z.net.owner[l] = root
        BY <1>1, <3>8, <4>1 DEF Grown, NewLinks, NetworkType
      <4>8. \A l \in w.net.links : z.net.owner[l] \notin N
        <5> TAKE l \in w.net.links
        <5>1. l \in LinkIds
          BY <1>1 DEF NetworkType
        <5>2. v.net.owner[l] \notin NewNodes(w, v)
          BY DEF Grown
        <5>3. v.net.owner[l] \in v.net.nodes \cup {Nil}
          BY <1>1, <5>1 DEF InOrder, Resolved
        <5>4. v.net.owner[l] # id
          BY <3>10, <5>3, NetworkAssumption
        <5> QED
          BY <3>8, <4>1, <5>1, <5>2, <5>4
      <4>9. \A n \in NodeIds \ N :
              /\ z.net.parent[n] = w.net.parent[n]
              /\ z.net.subscriptions[n] = w.net.subscriptions[n]
              /\ z.logics[n] = w.logics[n]
        <5> TAKE n \in NodeIds \ N
        <5>1. /\ v.net.parent[n] = w.net.parent[n] /\ v.net.subscriptions[n] = w.net.subscriptions[n]
              /\ v.logics[n] = w.logics[n]
          BY <4>1 DEF Grown
        <5> QED
          BY <3>7, <4>1, <5>1
      <4>10. \A h \in (NodeIds \cup LinkIds) \ (N \cup K) : z.net.name[h] = w.net.name[h]
        BY <3>7, <4>1 DEF Grown
      <4> QED
        BY <3>9, <4>2, <4>4, <4>5, <4>6, <4>7, <4>8, <4>9, <4>10 DEF Grown, N, K
    <3>12. Apart(w, z, root)
      BY <1>1, <3>7, <3>8, <3>10 DEF Apart
    <3>13. \A m \in NewNodes(w, v) : m \in NodeIds \ {id}
      BY <1>1, <3>10 DEF NewNodes, NetworkType
    <3>14. GotPart(w, v, z, root, ipc, part)
      <4> HIDE DEF u, y, id
      <4>1. id \in NodeIds \ v.net.nodes /\ root \in NodeIds \ {id}
        BY <1>1, <3>10
      <4>2. \A m \in NewNodes(w, v) :
               /\ z.net.name[m] = v.net.name[m] /\ z.logics[m] = v.logics[m]
               /\ z.net.subscriptions[m] = v.net.subscriptions[m]
        BY <3>7, <3>13
      <4>3. z.net.subscriptions[root] = v.net.subscriptions[root] /\ z.net.name[root] = v.net.name[root]
        BY <3>7, <4>1
      <4> QED
        BY <3>7, <3>10, <4>1, <4>2, <4>3 DEF GotPart
    <3> QED
      BY <1>1, <3>4, <3>5, <3>10, <3>11, <3>12, <3>14 DEF r
  <2> QED
    BY <2>2, <2>3, <2>4
<1> QED
  BY <1>2, <1>3, <1>4

-----------------------------------------------------------------------------
(* Computers *)

(* The worlds a world can become, and the answers of the operations on it. *)
Become(w, s, g, h) == [w EXCEPT !.net = s, !.logics = g, !.hosts = h]
Like(w) == {Become(w, s, g, h) : s \in NetworkType, g \in [NodeIds -> Logics], h \in SUBSET NodeIds}
Answers(w) == [ok: BOOLEAN, world: Like(w), node: NodeIds \cup LinkIds \cup {Nil}]

LEMMA AlikeIsLike ==
    ASSUME NEW w, IsWorld(w), NEW v, IsWorld(v), Alike(w, v)
    PROVE  v \in Like(w)
<1> DEFINE x == Become(w, v.net, v.logics, v.hosts)
<1>1. v.net \in NetworkType /\ v.logics \in [NodeIds -> Logics] /\ v.hosts \in SUBSET NodeIds
  BY DEF IsWorld, InOrder, Vacant, NetworkType
<1>2. x \in Like(w)
  BY <1>1 DEF Like
<1>3. /\ x.net = v.net /\ x.logics = v.logics /\ x.hosts = v.hosts
      /\ DOMAIN x = DOMAIN w /\ x = [y \in DOMAIN x |-> x[y]]
      /\ \A y \in DOMAIN w \ {"net", "logics", "hosts"} : x[y] = w[y]
  BY DEF IsWorld, Become
<1> HIDE DEF x
<1>4. Alike(v, x)
  BY <1>3 DEF Alike
<1>5. v = x
  BY <1>3, <1>4, SameWorld DEF IsWorld
<1> QED
  BY <1>2, <1>5

(* So much of a computer's parts is there.                                 *)
Partly(w, x, root, name, ipc, parts, s) ==
    LET inner == NewNodes(w, x) \ {root}
    IN  /\ NewLinks(w, x) = {ipc}
        /\ x.net.name[root] = name /\ x.net.subscriptions[root] = {}
        /\ IsFiniteSet(inner) /\ Cardinality(inner) = Cardinality(s)
        /\ \A i \in s : \E n \in inner : /\ x.net.name[n] = parts[i].name
                                         /\ x.logics[n] = parts[i].logic
                                         /\ x.net.subscriptions[n] = {ipc}

Growing(w, root, ipc) ==
    {a \in Answers(w) : /\ IsWorld(a.world) /\ Grown(w, a.world, root) /\ Apart(w, a.world, root)
                        /\ NewLinks(w, a.world) = {ipc}}

LEMMA PartAddedToAnswer ==
    ASSUME NEW w, IsWorld(w), NEW root, NEW ipc, NEW f \in Growing(w, root, ipc),
           NEW part \in PartTypes
    PROVE  LET r == AddPart(f, root, ipc, part)
               x == r.world
           IN  /\ r \in Growing(w, root, ipc)
               /\ ~f.ok => r = f
               /\ f.ok /\ r.ok => GotPart(w, f.world, x, root, ipc, part)
<1> DEFINE r == AddPart(f, root, ipc, part)
           x == r.world
           v == f.world
<1>1. CASE ~f.ok
  <2>1. r = f
    BY <1>1 DEF AddPart
  <2> QED
    BY <1>1, <2>1
<1>2. CASE f.ok
  <2>1. IsWorld(v) /\ Grown(w, v, root) /\ Apart(w, v, root) /\ NewLinks(w, v) = {ipc} /\ ipc \in NewLinks(w, v)
    BY DEF Growing
  <2>2. /\ r.ok \in BOOLEAN /\ r = [ok |-> r.ok, world |-> x, node |-> r.node]
        /\ r.node \in NodeIds \cup LinkIds \cup {Nil}
        /\ IsWorld(x) /\ Grown(w, x, root) /\ Apart(w, x, root)
        /\ NewLinks(w, x) = NewLinks(w, v)
        /\ r.ok => GotPart(w, v, x, root, ipc, part)
    BY <1>2, <2>1, PartAdded
  <2> HIDE DEF r
  <2>3. x \in Like(w)
    BY <2>2, AlikeIsLike DEF Grown
  <2>4. r \in Answers(w)
    <3> HIDE DEF x
    <3> QED
      BY <2>2, <2>3 DEF Answers
  <2>5. r \in Growing(w, root, ipc)
    BY <2>1, <2>2, <2>4 DEF Growing
  <2> QED
    BY <1>2, <2>2, <2>5 DEF r
<1> QED
  BY <1>1, <1>2

LEMMA MorePartly ==
    ASSUME NEW w, IsWorld(w), NEW root, NEW ipc, NEW name, NEW parts \in Seq(PartTypes),
           NEW s \in SUBSET DOMAIN parts, NEW i \in s, IsFiniteSet(s),
           NEW f \in Growing(w, root, ipc), f.ok => Partly(w, f.world, root, name, ipc, parts, s \ {i}),
           NEW r, r = AddPart(f, root, ipc, parts[i]), r.ok
    PROVE  Partly(w, r.world, root, name, ipc, parts, s)
<1> DEFINE v == f.world
           x == r.world
           inner == NewNodes(w, v) \ {root}
           wider == NewNodes(w, x) \ {root}
<1>1. parts[i] \in PartTypes
  BY ElementOfSeq, LenProperties
<1>2. /\ r \in Growing(w, root, ipc)
      /\ ~f.ok => r = f
      /\ f.ok /\ r.ok => GotPart(w, v, x, root, ipc, parts[i])
  BY <1>1, PartAddedToAnswer
<1>3. f.ok
  BY <1>2
<1>4. PICK id \in NodeIds \ v.net.nodes :
         /\ NewNodes(w, x) = NewNodes(w, v) \cup {id}
         /\ x.net.name[id] = parts[i].name /\ x.logics[id] = parts[i].logic
         /\ x.net.subscriptions[id] = {ipc}
         /\ \A m \in NewNodes(w, v) :
               /\ x.net.name[m] = v.net.name[m] /\ x.logics[m] = v.logics[m]
               /\ x.net.subscriptions[m] = v.net.subscriptions[m]
  BY <1>2, <1>3 DEF GotPart
<1>5. root \in v.net.nodes /\ root \in NewNodes(w, v) /\ NewNodes(w, v) \subseteq v.net.nodes
  BY DEF Growing, Grown, NewNodes
<1>6. wider = inner \cup {id} /\ id \notin inner
  BY <1>4, <1>5
<1>7. Partly(w, v, root, name, ipc, parts, s \ {i})
  BY <1>3
<1> HIDE DEF v, x
<1>8. /\ IsFiniteSet(inner) /\ Cardinality(inner) = Cardinality(s \ {i})
      /\ \A j \in s \ {i} : \E n \in inner : /\ v.net.name[n] = parts[j].name
                                             /\ v.logics[n] = parts[j].logic
                                             /\ v.net.subscriptions[n] = {ipc}
      /\ v.net.name[root] = name /\ v.net.subscriptions[root] = {}
  BY <1>7 DEF Partly
<1>9. IsFiniteSet(wider) /\ Cardinality(wider) = Cardinality(s)
  <2> HIDE DEF wider, inner
  <2>1. Cardinality(wider) = Cardinality(inner) + 1 /\ IsFiniteSet(wider)
    BY <1>6, <1>8, FS_AddElement
  <2>2. Cardinality(s \ {i}) = Cardinality(s) - 1 /\ Cardinality(s) \in Nat
    BY FS_RemoveElement, FS_CardinalityType
  <2> QED
    BY <1>8, <2>1, <2>2
<1>10. ASSUME NEW j \in s
       PROVE  \E n \in wider : /\ x.net.name[n] = parts[j].name
                               /\ x.logics[n] = parts[j].logic
                               /\ x.net.subscriptions[n] = {ipc}
  <2>1. CASE j = i
    BY <1>4, <1>6, <2>1
  <2>2. CASE j # i
    <3>1. PICK n \in inner : /\ v.net.name[n] = parts[j].name
                             /\ v.logics[n] = parts[j].logic
                             /\ v.net.subscriptions[n] = {ipc}
      BY <1>8, <2>2
    <3>2. n \in wider /\ n \in NewNodes(w, v)
      BY <1>6, <3>1
    <3> QED
      BY <1>4, <3>1, <3>2
  <2> QED
    BY <2>1, <2>2
<1>11. NewLinks(w, x) = {ipc}
  BY <1>2 DEF Growing, x
<1> QED
  BY <1>2, <1>3, <1>8, <1>9, <1>10, <1>11 DEF Partly, GotPart, x, v

LEMMA PartsAdded ==
    ASSUME NEW w, IsWorld(w), NEW root, NEW ipc, NEW name, NEW parts \in Seq(PartTypes),
           NEW owned \in Growing(w, root, ipc), Partly(w, owned.world, root, name, ipc, parts, {})
    PROVE  LET filled == AddParts(owned, root, ipc, parts)
           IN  /\ filled \in Growing(w, root, ipc)
               /\ filled.ok => Partly(w, filled.world, root, name, ipc, parts, DOMAIN parts)
<1> DEFINE S == DOMAIN parts
           V == Growing(w, root, ipc)
           LastIn(s) == CHOOSE x \in s : \A y \in s : x >= y
           pick == [s \in SUBSET S |-> LastIn(s)]
           step == [c \in S \X V |-> AddPart(c[2], root, ipc, parts[c[1]])]
           Fold(g) == [s \in SUBSET S |->
                         IF s = {} THEN owned ELSE AddPart(g[s \ {LastIn(s)}], root, ipc, parts[LastIn(s)])]
           fold == CHOOSE g : g = Fold(g)
           F == [s \in SUBSET S |-> {a \in V : a.ok => Partly(w, a.world, root, name, ipc, parts, s)}]
<1>1. AddParts(owned, root, ipc, parts) = fold[S]
  BY DEF AddParts, FoldLeft, MapThenFoldSet, Max
<1>2. S = 1..Len(parts) /\ Len(parts) \in Nat /\ IsFiniteSet(S)
  BY LenProperties, FS_Interval
<1>3. \A s \in SUBSET S : s # {} => pick[s] = LastIn(s) /\ pick[s] \in s
  BY <1>2, LastIndex
<1>4. ASSUME NEW x \in S, NEW v \in V
      PROVE  step[<<x, v>>] = AddPart(v, root, ipc, parts[x]) /\ step[<<x, v>>] \in V
  <2>1. parts[x] \in PartTypes
    BY ElementOfSeq, LenProperties
  <2>2. step[<<x, v>>] = AddPart(v, root, ipc, parts[x])
    OBVIOUS
  <2> HIDE DEF step
  <2> QED
    BY <2>1, <2>2, PartAddedToAnswer
<1> HIDE DEF S, V, step, pick
<1>5. Steps(S, V, owned, pick, step)
  BY <1>2, <1>3, <1>4 DEF Steps, V
<1>6. PICK g \in [SUBSET S -> V] : IsFold(S, owned, pick, step, g)
  BY <1>5, FoldExists
<1>7. g = Fold(g)
  <2>1. \A s \in SUBSET S : g[s] = Fold(g)[s]
    <3> TAKE s \in SUBSET S
    <3>1. CASE s = {}
      BY <1>6, <3>1 DEF IsFold
    <3>2. CASE s # {}
      <4>1. pick[s] \in S /\ pick[s] = LastIn(s) /\ g[s \ {pick[s]}] \in V
        BY <1>3, <1>6, <3>2
      <4>2. g[s] = AddPart(g[s \ {pick[s]}], root, ipc, parts[pick[s]])
        BY <1>4, <1>6, <3>2, <4>1 DEF IsFold
      <4> QED
        BY <3>2, <4>1, <4>2
    <3> QED
      BY <3>1, <3>2
  <2> QED
    BY <1>6, <2>1
<1>8. fold = Fold(fold)
  BY <1>7
<1> HIDE DEF fold
<1>9. IsFoldWithin(S, V, owned, pick, step, fold)
  <2>1. fold[{}] = owned
    BY <1>8
  <2>2. \A s \in SUBSET S : s # {} /\ fold[s \ {pick[s]}] \in V =>
           fold[s] = step[<<pick[s], fold[s \ {pick[s]}]>>]
    <3> TAKE s \in SUBSET S
    <3> SUFFICES ASSUME s # {}, fold[s \ {pick[s]}] \in V
                 PROVE  fold[s] = step[<<pick[s], fold[s \ {pick[s]}]>>]
      OBVIOUS
    <3>1. pick[s] \in S /\ pick[s] = LastIn(s)
      BY <1>3
    <3>2. fold[s] = AddPart(fold[s \ {LastIn(s)}], root, ipc, parts[LastIn(s)])
      BY <1>8
    <3> HIDE DEF LastIn
    <3> QED
      BY <1>4, <3>1, <3>2
  <2> QED
    BY <2>1, <2>2 DEF IsFoldWithin
<1>10. owned \in F[{}]
  BY DEF V
<1>11. ASSUME NEW s \in SUBSET S, s # {}, NEW v \in V, v \in F[s \ {pick[s]}]
       PROVE  step[<<pick[s], v>>] \in F[s]
  <2> DEFINE i == pick[s]
             r == step[<<i, v>>]
  <2>1. i \in s /\ i \in S /\ s \ {i} \in SUBSET S /\ IsFiniteSet(s)
    BY <1>2, <1>3, <1>11, FS_Subset
  <2>2. r = AddPart(v, root, ipc, parts[i]) /\ r \in V
    BY <1>4, <2>1
  <2>3. v.ok => Partly(w, v.world, root, name, ipc, parts, s \ {i})
    BY <1>11, <2>1
  <2> HIDE DEF i, r
  <2>4. r.ok => Partly(w, r.world, root, name, ipc, parts, s)
    BY <2>1, <2>2, <2>3, MorePartly DEF S, V
  <2> QED
    BY <2>2, <2>4 DEF i, r
<1> HIDE DEF F
<1>12. fold[S] \in V /\ fold[S] \in F[S]
  <2>1. \A s \in SUBSET S : s # {} =>
           \A v \in V : v \in F[s \ {pick[s]}] => step[<<pick[s], v>>] \in F[s]
    BY <1>11
  <2>2. ASSUME NEW b, b = owned PROVE fold[S] \in V /\ fold[S] \in F[S]
    <3>1. Steps(S, V, b, pick, step) /\ IsFoldWithin(S, V, b, pick, step, fold) /\ b \in F[{}]
      BY <1>5, <1>9, <1>10, <2>2
    <3> QED
      BY <2>1, <3>1, FoldFollows, SMTT(30)
  <2> QED
    BY <2>2
<1>13. fold[S].ok => Partly(w, fold[S].world, root, name, ipc, parts, S)
  <2>1. F[S] = {a \in V : a.ok => Partly(w, a.world, root, name, ipc, parts, S)}
    BY Zenon DEF F
  <2> QED
    BY <1>12, <2>1
<1> QED
  BY <1>1, <1>12, <1>13 DEF S, V

LEMMA KindsAreLogics ==
    ASSUME NEW kind \in LogicKinds
    PROVE  Kind(kind) \in Logics
<1>1. Kind(kind) \in [kind: LogicKinds]
  BY DEF Kind
<1> QED
  BY <1>1 DEF Logics

LEMMA PartsTyped ==
    ASSUME NEW spec \in ComputerSpecs
    PROVE  Parts(spec) \in Seq(PartTypes)
<1> DEFINE services == [i \in DOMAIN spec.services |-> [name |-> spec.services[i], logic |-> Kind("responder")]]
           apps == [i \in DOMAIN spec.apps |-> [name |-> spec.apps[i], logic |-> AppLogic(spec.apps[i])]]
<1>1. spec.services \in Seq(Names) /\ spec.apps \in Seq(Names)
  BY DEF ComputerSpecs
<1>2. Kind("responder") \in Logics /\ \A worker : AppLogic(worker) \in Logics
  <2>1. Kind("responder") \in Logics /\ Kind("scanner") \in Logics
    BY KindsAreLogics DEF LogicKinds
  <2>2. ASSUME NEW worker PROVE AppLogic(worker) \in Logics
    <3>1. AppLogic(worker) = Kind("scanner") \/ AppLogic(worker) = Kind("responder")
      BY DEF AppLogic
    <3> QED
      BY <2>1, <3>1
  <2> QED
    BY <2>1, <2>2
<1>3. services \in Seq(PartTypes)
  <2>1. DOMAIN spec.services = 1..Len(spec.services) /\ Len(spec.services) \in Nat
    BY <1>1, LenProperties
  <2>2. \A i \in DOMAIN spec.services : [name |-> spec.services[i], logic |-> Kind("responder")] \in PartTypes
    BY <1>1, <1>2, <2>1, ElementOfSeq DEF PartTypes
  <2> QED
    BY <2>1, <2>2, SeqDef
<1>4. apps \in Seq(PartTypes)
  <2>1. DOMAIN spec.apps = 1..Len(spec.apps) /\ Len(spec.apps) \in Nat
    BY <1>1, LenProperties
  <2>2. \A i \in DOMAIN spec.apps : [name |-> spec.apps[i], logic |-> AppLogic(spec.apps[i])] \in PartTypes
    BY <1>1, <1>2, <2>1, ElementOfSeq DEF PartTypes
  <2> QED
    BY <2>1, <2>2, SeqDef
<1> HIDE DEF services, apps
<1>5. services \o apps \in Seq(PartTypes)
  BY <1>3, <1>4, ConcatProperties
<1> QED
  BY <1>5 DEF Parts, services, apps

(* set_logic on the root of what was built.                                *)
LEMMA RootGetsLogic ==
    ASSUME NEW w, IsWorld(w), NEW f, IsWorld(f), NEW root, Grown(w, f, root), NEW logic \in Logics
    PROVE  LET r == SetLogic(f, root, logic)
               z == r.world
           IN  /\ r = [ok |-> TRUE, world |-> z, node |-> root]
               /\ IsWorld(z) /\ Grown(w, z, root)
               /\ Apart(w, f, root) => Apart(w, z, root)
               /\ z.net = f.net /\ NewNodes(w, z) = NewNodes(w, f) /\ NewLinks(w, z) = NewLinks(w, f)
               /\ z.logics[root] = logic
               /\ \A n \in NewNodes(w, f) \ {root} : z.logics[n] = f.logics[n]
<1> DEFINE z == WithLogic(f, root, logic)
<1>1. root \in f.net.nodes /\ NewNodes(w, f) \subseteq NodeIds
  BY DEF Grown, NewNodes, IsWorld, InOrder, NetworkType
<1>2. SetLogic(f, root, logic) = [ok |-> TRUE, world |-> z, node |-> root]
  BY <1>1 DEF SetLogic, Built, WithLogic
<1>3. /\ IsWorld(z) /\ Alike(f, z) /\ z.net = f.net /\ z.hosts = f.hosts
      /\ \A m \in NodeIds : z.logics[m] = IF m = root THEN logic ELSE f.logics[m]
  BY <1>1, LogicSet
<1> HIDE DEF z
<1>4. NewNodes(w, z) = NewNodes(w, f) /\ NewLinks(w, z) = NewLinks(w, f)
  BY <1>3 DEF NewNodes, NewLinks
<1>5. Grown(w, z, root)
  <2>1. \A n \in NodeIds \ NewNodes(w, z) : z.logics[n] = w.logics[n]
    BY <1>3, <1>4 DEF Grown
  <2>2. Alike(w, z)
    BY <1>3, AlikeTransitive DEF Grown
  <2> QED
    BY <1>3, <1>4, <2>1, <2>2 DEF Grown
<1>6. Apart(w, f, root) => Apart(w, z, root)
  BY <1>3, <1>4 DEF Apart
<1>7. z.logics[root] = logic /\ \A n \in NewNodes(w, f) \ {root} : z.logics[n] = f.logics[n]
  <2>1. root \in NodeIds
    BY <1>1 DEF Grown
  <2> QED
    BY <1>1, <1>3, <2>1
<1> DEFINE r == SetLogic(f, root, logic)
<1>8. r = [ok |-> TRUE, world |-> z, node |-> root] /\ r.world = z
  BY <1>2
<1> HIDE DEF r
<1> QED
  BY <1>3, <1>4, <1>5, <1>6, <1>7, <1>8 DEF r

(* What is left of filling a computer that failed, and what there is when  *)
(* it did not.                                                             *)
LEMMA ComputerFilled ==
    ASSUME NEW w, IsWorld(w), NEW v, IsWorld(v), NEW root \in NodeIds \ w.net.issued, NEW name,
           NodeAdded(w, v, root, name), NEW spec \in ComputerSpecs, Ipc \in Names
    PROVE  LET r == FillComputer(v, root, spec)
               x == r.world
           IN  /\ r.ok \in BOOLEAN
               /\ IsWorld(x) /\ Grown(w, x, root) /\ Apart(w, x, root)
               /\ r.ok => /\ \E ipc \in LinkIds : Partly(w, x, root, name, ipc, Parts(spec), DOMAIN Parts(spec))
                          /\ x.logics[root] = Kind("kernel")
<1> DEFINE created == MakeLink(v, Ipc)
           u == created.world
           ipc == created.node
           owned == InNetwork(u, AddInternalLink(u.net, root, ipc))
           filled == AddParts(owned, root, ipc, Parts(spec))
           r == FillComputer(v, root, spec)
<1>1. /\ InOrder(w.net) /\ InOrder(v.net) /\ w.net \in NetworkType /\ v.net \in NetworkType
      /\ Grown(w, v, root) /\ Apart(w, v, root)
  BY DEF IsWorld, InOrder, NodeAdded
<1>2. /\ created.ok \in BOOLEAN /\ created = [ok |-> created.ok, world |-> u, node |-> ipc]
      /\ ~created.ok => u = v
      /\ IsWorld(u) /\ Alike(v, u)
      /\ created.ok => ipc \in LinkIds \ v.net.issued /\ LinkAdded(v, u, ipc, Ipc)
  BY MadeLink
<1>3. CASE ~created.ok
  <2>1. r = created
    BY <1>3 DEF FillComputer
  <2> HIDE DEF created
  <2> QED
    BY <1>1, <1>2, <1>3, <2>1
<1>4. CASE created.ok
  <2>1. r = IF ~owned.ok THEN Failed([owned.world EXCEPT !.net = RemoveLink(@, ipc).net])
            ELSE IF ~filled.ok THEN filled
            ELSE SetLogic(filled.world, root, Kind("kernel"))
    BY <1>4 DEF FillComputer
  <2> HIDE DEF created, r
  <2>2. /\ InOrder(u.net) /\ u.net \in NetworkType /\ ipc \in LinkIds /\ ipc \notin v.net.issued
        /\ LinkAdded(v, u, ipc, Ipc)
    BY <1>2, <1>4 DEF IsWorld, InOrder
  <2>3. /\ v.net.nodes = w.net.nodes \cup {root} /\ v.net.links = w.net.links
        /\ w.net.nodes \cup w.net.links \subseteq w.net.issued
        /\ v.net.nodes \cup v.net.links \subseteq v.net.issued
        /\ NewNodes(w, v) = {root} /\ NewLinks(w, v) = {} /\ w.net.issued \subseteq v.net.issued
    BY <1>1, SMTT(30) DEF NodeAdded, InOrder, Resolved, NewNodes, NewLinks, Grown
  <2>4. \A l \in LinkIds : u.net.owner[l] # root
    <3>1. \A l \in LinkIds : w.net.owner[l] # root
      BY <1>1, FreshHandleUnknown
    <3>2. \A l \in LinkIds : v.net.owner[l] = w.net.owner[l]
      BY <1>1, <2>3 DEF Apart
    <3> QED
      BY <2>2, <3>1, <3>2 DEF LinkAdded
  <2>5. CanAddInternalLink(u.net, root, ipc)
    <3>1. u.net.internal[root] = {}
      <4>1. u.net.internal[root] \subseteq LinkIds
        BY <2>2 DEF NetworkType
      <4> QED
        BY <2>2, <2>4, <4>1 DEF InOrder, Paired
    <3>2. Audience(u.net, ipc) = {}
      BY <2>2 DEF Audience, LinkAdded
    <3> QED
      BY <2>2, <2>3, <3>1, <3>2 DEF CanAddInternalLink, LinkNameFree, NodeNameFree, LinkAdded
  <2> DEFINE s == WithOwner(u.net, root, ipc)
             y == [u EXCEPT !.net = s]
  <2>6. owned = [ok |-> TRUE, world |-> y, node |-> Nil]
    <3>1. AddInternalLink(u.net, root, ipc) = [ok |-> TRUE, net |-> s]
      BY <2>5 DEF AddInternalLink, Done
    <3> QED
      BY <3>1 DEF InNetwork
  <2>7. InOrder(s)
    BY <2>2, <2>5, OwnerInOrder
  <2>8. /\ SameThings(u.net, s) /\ s.parent = u.net.parent /\ s.subscriptions = u.net.subscriptions
        /\ \A k \in LinkIds : s.owner[k] = IF k = ipc THEN root ELSE u.net.owner[k]
    BY <2>2, OwnerMakes
  <2> HIDE DEF owned, s
  <2>9. IsWorld(y) /\ Alike(u, y)
    BY <1>2, <2>7, <2>8, RewiredIsWorld
  <2>10. y.net = s /\ y.logics = u.logics /\ y.hosts = u.hosts
    BY <1>2, WithNet
  <2> HIDE DEF y
  <2>11. /\ y.net.nodes = v.net.nodes /\ y.net.links = v.net.links \cup {ipc}
         /\ y.net.issued = v.net.issued \cup {ipc}
         /\ y.net.parent = v.net.parent /\ y.net.subscriptions = v.net.subscriptions
         /\ \A k \in LinkIds : y.net.owner[k] = IF k = ipc THEN root ELSE v.net.owner[k]
         /\ \A h \in NodeIds \cup LinkIds : y.net.name[h] = IF h = ipc THEN Ipc ELSE v.net.name[h]
         /\ y.logics = v.logics /\ y.hosts = v.hosts
    BY <2>2, <2>8, <2>10 DEF LinkAdded, SameThings
  <2>12. NewNodes(w, y) = {root} /\ NewLinks(w, y) = {ipc}
    BY <2>2, <2>3, <2>11 DEF NewNodes, NewLinks
  <2>13. Alike(w, y)
    BY <1>1, <1>2, <2>9, AlikeTransitive DEF Grown
  <2>14. ipc \notin w.net.issued /\ ipc \notin NodeIds /\ w.net.links \subseteq LinkIds /\ ipc \notin w.net.links
    BY <1>1, <2>2, <2>3, NetworkAssumption DEF NetworkType
  <2>15. Grown(w, y, root)
    <3>1. \A l \in w.net.links : y.net.owner[l] # root
      BY <1>1, <2>3, <2>11, <2>14 DEF Grown
    <3>2. \A h \in (NodeIds \cup LinkIds) \ ({root} \cup {ipc}) : y.net.name[h] = w.net.name[h]
      BY <1>1, <2>3, <2>11 DEF Grown
    <3> QED
      BY <1>1, <2>2, <2>3, <2>11, <2>12, <2>13, <2>14, <3>1, <3>2 DEF Grown
  <2>16. Apart(w, y, root)
    BY <1>1, <2>3, <2>11, <2>12 DEF Apart, NodeAdded
  <2>17. owned \in Growing(w, root, ipc)
    <3>1. y \in Like(w)
      BY <2>9, <2>13, AlikeIsLike
    <3>2. owned \in Answers(w)
      BY <2>6, <3>1 DEF Answers
    <3> QED
      BY <2>6, <2>9, <2>12, <2>15, <2>16, <3>2 DEF Growing
  <2>18. Partly(w, owned.world, root, name, ipc, Parts(spec), {})
    <3>1. NewNodes(w, y) \ {root} = {} /\ IsFiniteSet({}) /\ Cardinality({}) = 0
      BY <2>12, FS_EmptySet
    <3>2. y.net.name[root] = name /\ y.net.subscriptions[root] = {}
      BY <2>11, <2>14 DEF NodeAdded
    <3>3. owned.world = y
      BY <2>6
    <3> QED
      BY <2>12, <3>1, <3>2, <3>3 DEF Partly
  <2>19. /\ filled \in Growing(w, root, ipc)
         /\ filled.ok => Partly(w, filled.world, root, name, ipc, Parts(spec), DOMAIN Parts(spec))
    <3>1. Parts(spec) \in Seq(PartTypes)
      BY PartsTyped
    <3>2. ASSUME NEW b, b = owned, NEW parts, parts = Parts(spec)
          PROVE  LET f == AddParts(b, root, ipc, parts)
                 IN  /\ f \in Growing(w, root, ipc)
                     /\ f.ok => Partly(w, f.world, root, name, ipc, parts, DOMAIN parts)
      BY <2>17, <2>18, <3>1, <3>2, PartsAdded
    <3> QED
      BY <3>2
  <2>20. owned.ok
    BY <2>6
  <2> HIDE DEF filled
  <2>21. CASE ~filled.ok
    <3>1. r = filled
      BY <2>1, <2>20, <2>21
    <3> QED
      BY <2>19, <2>21, <3>1 DEF Growing, Answers, r
  <2>22. CASE filled.ok
    <3> DEFINE f == filled.world
               z == r.world
    <3>1. IsWorld(f) /\ Grown(w, f, root) /\ Apart(w, f, root)
      BY <2>19 DEF Growing
    <3>2. r = SetLogic(f, root, Kind("kernel"))
      BY <2>1, <2>20, <2>22
    <3>3. Kind("kernel") \in Logics
      BY KindsAreLogics DEF LogicKinds
    <3>4. Partly(w, f, root, name, ipc, Parts(spec), DOMAIN Parts(spec))
      BY <2>19, <2>22
    <3> HIDE DEF f
    <3>5. /\ r.ok = TRUE /\ IsWorld(z) /\ Grown(w, z, root) /\ Apart(w, z, root)
          /\ z.net = f.net /\ NewNodes(w, z) = NewNodes(w, f) /\ NewLinks(w, z) = NewLinks(w, f)
          /\ z.logics[root] = Kind("kernel")
          /\ \A n \in NewNodes(w, f) \ {root} : z.logics[n] = f.logics[n]
      BY <3>1, <3>2, <3>3, RootGetsLogic
    <3> HIDE DEF z
    <3>6. Partly(w, z, root, name, ipc, Parts(spec), DOMAIN Parts(spec))
      BY <3>4, <3>5 DEF Partly
    <3> QED
      BY <2>2, <3>5, <3>6 DEF z, r
  <2> QED
    BY <2>21, <2>22
<1> QED
  BY <1>2, <1>3, <1>4

-----------------------------------------------------------------------------
(* Builds *)

(* What was built has the name and the parts that were asked for, and is   *)
(* on the links it was to join.                                            *)
Whole(w, x, root, name, parts, buses, joined) ==
    LET inner == NewNodes(w, x) \ {root}
    IN  /\ x.net.name[root] = name /\ x.net.subscriptions[root] = joined
        /\ Cardinality(inner) = Len(parts)
        /\ \A i \in DOMAIN parts : \E n \in inner : /\ x.net.name[n] = parts[i].name
                                                    /\ x.logics[n] = parts[i].logic
                                                    /\ x.net.subscriptions[n] = NewLinks(w, x)
        /\ Cardinality(NewLinks(w, x)) = buses
        /\ x.logics[root] # NoLogic

(* What a build answers: a build that failed has only used up handles.     *)
Outcome(w, r) ==
    /\ r.ok \in BOOLEAN /\ r = [ok |-> r.ok, world |-> r.world, node |-> r.node]
    /\ IsWorld(r.world) /\ Alike(w, r.world)
    /\ ~r.ok => OnlyIssued(w, r.world)
    /\ r.ok => Grown(w, r.world, r.node)

LEMMA NothingIssued ==
    ASSUME NEW w, IsWorld(w)
    PROVE  OnlyIssued(w, w)
<1>1. w.net = [w.net EXCEPT !.issued = w.net.issued]
  BY DEF IsWorld, InOrder, NetworkType
<1>2. w = [w EXCEPT !.net = w.net]
  BY DEF IsWorld
<1> QED
  BY <1>1, <1>2 DEF OnlyIssued

(* or_remove after a failure.                                              *)
LEMMA FailureUndone ==
    ASSUME NEW w, IsWorld(w), NEW x, IsWorld(x), NEW root, Grown(w, x, root), Apart(w, x, root),
           NEW f, f.ok = FALSE, f.world = x
    PROVE  LET r == OrRemove(f, root)
           IN  Outcome(w, r) /\ r.ok = FALSE
<1> DEFINE u == RemoveWithLogic(x, root).world
           r == OrRemove(f, root)
<1>1. r = [ok |-> FALSE, world |-> u, node |-> Nil]
  BY DEF OrRemove, Failed
<1>2. OnlyIssued(w, u) /\ u.net.issued = x.net.issued
  BY RemovalLeavesIssued
<1> HIDE DEF u, r
<1>3. IsWorld(u) /\ Alike(w, u)
  <2>1. u.net.issued \in SUBSET (NodeIds \cup LinkIds)
    BY <1>2 DEF IsWorld, InOrder, NetworkType
  <2> QED
    BY <1>2, <2>1, OnlyIssuedIsWorld
<1>4. r.ok = FALSE /\ r.world = u /\ r.node = Nil
  BY <1>1
<1> QED
  BY <1>1, <1>2, <1>3, <1>4 DEF Outcome, r

LEMMA ComputerBuilt ==
    ASSUME NEW w, IsWorld(w), NEW name \in Names, NEW spec \in ComputerSpecs, Ipc \in Names
    PROVE  LET r == BuildComputer(w, name, spec)
           IN  /\ Outcome(w, r)
               /\ r.ok => /\ Apart(w, r.world, r.node)
                          /\ Whole(w, r.world, r.node, name, Parts(spec), 1, {})
<1> DEFINE created == MakeNode(w, name)
           root == created.node
           filled == FillComputer(created.world, root, spec)
           r == BuildComputer(w, name, spec)
<1>1. /\ created.ok \in BOOLEAN /\ created = [ok |-> created.ok, world |-> created.world, node |-> root]
      /\ ~created.ok => created.world = w
      /\ IsWorld(created.world)
      /\ created.ok => root \in NodeIds \ w.net.issued /\ NodeAdded(w, created.world, root, name)
  BY MadeNode
<1>2. r = IF ~ValidComputer(name, spec) THEN Failed(w)
          ELSE IF ~created.ok THEN created ELSE OrRemove(filled, root)
  BY DEF BuildComputer
<1>3. OnlyIssued(w, w) /\ Alike(w, w)
  BY NothingIssued DEF Alike
<1> HIDE DEF created, r
<1>4. CASE ~ValidComputer(name, spec)
  <2>1. r = [ok |-> FALSE, world |-> w, node |-> Nil]
    BY <1>2, <1>4 DEF Failed
  <2>2. r.ok = FALSE /\ r.world = w /\ r.node = Nil
    BY <2>1
  <2> QED
    BY <1>3, <2>1, <2>2 DEF Outcome, r
<1>5. CASE ValidComputer(name, spec) /\ ~created.ok
  <2>1. r = created
    BY <1>2, <1>5
  <2> QED
    BY <1>1, <1>3, <1>5, <2>1 DEF Outcome, r
<1>6. CASE ValidComputer(name, spec) /\ created.ok
  <2>1. r = OrRemove(filled, root)
    BY <1>2, <1>6
  <2> DEFINE x == filled.world
  <2>2. /\ filled.ok \in BOOLEAN
        /\ IsWorld(x) /\ Grown(w, x, root) /\ Apart(w, x, root)
        /\ filled.ok => /\ \E ipc \in LinkIds : Partly(w, x, root, name, ipc, Parts(spec), DOMAIN Parts(spec))
                        /\ x.logics[root] = Kind("kernel")
    BY <1>1, <1>6, ComputerFilled
  <2> HIDE DEF filled, root
  <2>3. CASE ~filled.ok
    BY <2>1, <2>2, <2>3, FailureUndone, ZenonT(60) DEF r
  <2>4. CASE filled.ok
    <3> HIDE DEF x
    <3>1. r = [ok |-> TRUE, world |-> x, node |-> root]
      BY <2>1, <2>4 DEF OrRemove, Built, x
    <3>2. r.ok = TRUE /\ r.world = x /\ r.node = root
      BY <3>1
    <3>3. Outcome(w, r)
      BY <2>2, <3>1, <3>2 DEF Outcome, Grown
    <3>4. Whole(w, x, root, name, Parts(spec), 1, {})
      <4>1. PICK ipc \in LinkIds : Partly(w, x, root, name, ipc, Parts(spec), DOMAIN Parts(spec))
        BY <2>2, <2>4
      <4>2. Cardinality(DOMAIN Parts(spec)) = Len(Parts(spec))
        <5>1. DOMAIN Parts(spec) = 1..Len(Parts(spec)) /\ Len(Parts(spec)) \in Nat
          BY PartsTyped, LenProperties
        <5>2. Cardinality(1..Len(Parts(spec))) = Len(Parts(spec))
          <6>1. \A n \in Nat : Cardinality(1..n) = n
            <7> TAKE n \in Nat
            <7>1. Cardinality(1..n) = IF 1 > n THEN 0 ELSE n - 1 + 1
              BY FS_Interval
            <7> QED
              BY <7>1
          <6> QED
            BY <5>1, <6>1
        <5> QED
          BY <5>1, <5>2
      <4>3. Cardinality(NewLinks(w, x)) = 1
        BY <4>1, FS_Singleton DEF Partly
      <4>4. x.logics[root] # NoLogic
        BY <2>2, <2>4 DEF Kind, NoLogic
      <4> QED
        BY <4>1, <4>2, <4>3, <4>4 DEF Partly, Whole
    <3> QED
      BY <2>2, <3>2, <3>3, <3>4 DEF r
  <2> QED
    BY <2>2, <2>3, <2>4
<1> QED
  BY <1>1, <1>4, <1>5, <1>6

LEMMA NewNpcIsLogic ==
    ASSUME NEW spec \in NpcSpecs, ValidNpc(spec)
    PROVE  NewNpc(spec) \in Logics /\ NewNpc(spec) # NoLogic
<1>1. NewNpc(spec) \in [kind: {"npc"}, spec: NpcSpecs, goal: Nat] /\ NewNpc(spec).spec = spec
  BY DEF NewNpc
<1>2. NewNpc(spec).kind # NoLogic.kind
  BY DEF NewNpc, NoLogic, Kind
<1> QED
  BY <1>1, <1>2 DEF Logics, NpcLogics

LEMMA NpcBuilt ==
    ASSUME NEW w, IsWorld(w), NEW name \in Names, NEW spec \in NpcSpecs
    PROVE  LET r == BuildNpc(w, name, spec)
           IN  /\ Outcome(w, r)
               /\ r.ok => /\ Apart(w, r.world, r.node)
                          /\ Whole(w, r.world, r.node, name, <<>>, 0, {})
<1> DEFINE created == MakeNode(w, name)
           root == created.node
           v == created.world
           set == SetLogic(v, root, NewNpc(spec))
           r == BuildNpc(w, name, spec)
<1>1. /\ created.ok \in BOOLEAN /\ created = [ok |-> created.ok, world |-> v, node |-> root]
      /\ ~created.ok => v = w
      /\ IsWorld(v)
      /\ created.ok => root \in NodeIds \ w.net.issued /\ NodeAdded(w, v, root, name)
  BY MadeNode
<1>2. r = IF ~(ValidName(name) /\ ValidNpc(spec)) THEN Failed(w)
          ELSE IF ~created.ok THEN created ELSE OrRemove(set, root)
  BY DEF BuildNpc
<1>3. OnlyIssued(w, w) /\ Alike(w, w)
  BY NothingIssued DEF Alike
<1> HIDE DEF created, r
<1>4. CASE ~(ValidName(name) /\ ValidNpc(spec))
  <2>1. r = [ok |-> FALSE, world |-> w, node |-> Nil]
    BY <1>2, <1>4 DEF Failed
  <2>2. r.ok = FALSE /\ r.world = w /\ r.node = Nil
    BY <2>1
  <2> QED
    BY <1>3, <2>1, <2>2 DEF Outcome, r
<1>5. CASE ValidName(name) /\ ValidNpc(spec) /\ ~created.ok
  <2>1. r = created
    BY <1>2, <1>5
  <2> QED
    BY <1>1, <1>3, <1>5, <2>1 DEF Outcome, r
<1>6. CASE ValidName(name) /\ ValidNpc(spec) /\ created.ok
  <2>1. r = OrRemove(set, root)
    BY <1>2, <1>6
  <2> HIDE DEF v, root
  <2>2. NodeAdded(w, v, root, name) /\ Grown(w, v, root) /\ Apart(w, v, root)
    BY <1>1, <1>6 DEF NodeAdded
  <2>3. NewNpc(spec) \in Logics /\ NewNpc(spec) # NoLogic
    BY <1>6, NewNpcIsLogic
  <2> DEFINE z == set.world
  <2>4. /\ set = [ok |-> TRUE, world |-> z, node |-> root]
        /\ IsWorld(z) /\ Grown(w, z, root) /\ Apart(w, z, root)
        /\ z.net = v.net /\ NewNodes(w, z) = NewNodes(w, v) /\ NewLinks(w, z) = NewLinks(w, v)
        /\ z.logics[root] = NewNpc(spec)
    BY <1>1, <2>2, <2>3, RootGetsLogic
  <2> HIDE DEF set
  <2>5. set.ok = TRUE
    BY <2>4
  <2> HIDE DEF z
  <2>6. r = [ok |-> TRUE, world |-> z, node |-> root]
    BY <2>1, <2>5 DEF OrRemove, Built, z
  <2>7. r.ok = TRUE /\ r.world = z /\ r.node = root
    BY <2>6
  <2>8. Outcome(w, r)
    BY <2>4, <2>6, <2>7 DEF Outcome, Grown
  <2>9. Whole(w, z, root, name, <<>>, 0, {})
    <3>1. NewNodes(w, z) \ {root} = {} /\ NewLinks(w, z) = {}
      BY <2>2, <2>4 DEF NodeAdded, NewNodes, NewLinks
    <3>2. Cardinality({}) = 0
      BY FS_EmptySet
    <3>3. z.net.name[root] = name /\ z.net.subscriptions[root] = {}
      BY <2>2, <2>4 DEF NodeAdded
    <3>4. Len(<<>>) = 0 /\ DOMAIN <<>> = {}
      OBVIOUS
    <3> QED
      BY <2>3, <2>4, <3>1, <3>2, <3>3, <3>4 DEF Whole
  <2> QED
    BY <2>4, <2>7, <2>8, <2>9 DEF r
<1> QED
  BY <1>1, <1>4, <1>5, <1>6

(* connect takes what was built to where it was to go.                     *)
LEMMA GrownConnects ==
    ASSUME NEW w, IsWorld(w), NEW x, IsWorld(x), NEW root \in NodeIds, Grown(w, x, root), Apart(w, x, root),
           NEW p \in NodeIds, NEW l \in LinkIds \cup {Nil}, CanConnect(x.net, p, root, l),
           NEW y, IsWorld(y), Alike(x, y), y.logics = x.logics, y.hosts = x.hosts,
           Connected(x.net, y.net, p, root, l)
    PROVE  /\ Grown(w, y, root)
           /\ NewNodes(w, y) = NewNodes(w, x) /\ NewLinks(w, y) = NewLinks(w, x)
           /\ y.net.name = x.net.name
           /\ y.net.parent[root] = p
           /\ y.net.subscriptions[root] = x.net.subscriptions[root] \cup ({l} \ {Nil})
           /\ \A n \in NodeIds \ {root} : y.net.subscriptions[n] = x.net.subscriptions[n]
<1> DEFINE N == NewNodes(w, x)
           K == NewLinks(w, x)
<1>1. /\ y.net.nodes = x.net.nodes /\ y.net.links = x.net.links /\ y.net.issued = x.net.issued
      /\ y.net.name = x.net.name
      /\ \A m \in NodeIds : y.net.parent[m] = IF m = root THEN p ELSE x.net.parent[m]
      /\ \A m \in NodeIds : y.net.subscriptions[m] = IF m = root THEN x.net.subscriptions[m] \cup ({l} \ {Nil})
                                                     ELSE x.net.subscriptions[m]
      /\ \A k \in LinkIds : y.net.owner[k] = IF k = l THEN p ELSE x.net.owner[k]
  BY DEF Connected, SameThings
<1>2. NewNodes(w, y) = N /\ NewLinks(w, y) = K
  BY <1>1 DEF NewNodes, NewLinks
<1>3. x.net \in NetworkType /\ N \subseteq NodeIds /\ K \subseteq LinkIds /\ root \in N
  BY DEF IsWorld, InOrder, NetworkType, NewNodes, NewLinks, Grown
<1>4. p \in w.net.nodes
  <2>1. p \in x.net.nodes /\ root \notin AncestorsAndSelf(x.net, p)
    BY DEF CanConnect
  <2>2. p \in AncestorsAndSelf(x.net, p) /\ x.net.parent[p] \in AncestorsAndSelf(x.net, p) \cup {Nil}
    BY <1>3, AncestorsClosed DEF ClosedUpward
  <2>3. root # Nil
    BY NetworkAssumption
  <2>4. p # root /\ x.net.parent[p] # root
    BY <2>1, <2>2, <2>3
  <2>5. p \notin N
    BY <2>4 DEF Grown
  <2> QED
    BY <2>1, <2>5 DEF NewNodes
<1>5. p \notin N /\ p # root
  BY <1>3, <1>4 DEF NewNodes
<1>6. l \notin K
  <2>1. SUFFICES ASSUME l \in K PROVE FALSE
    OBVIOUS
  <2>2. l \in LinkIds /\ l # Nil /\ x.net.owner[l] = root
    BY <1>3, <2>1, NetworkAssumption DEF Grown
  <2>3. x.net.owner[l] \in {Nil, p}
    BY <2>2 DEF CanConnect, CanConnectLink, CanAddInternalLink
  <2> QED
    BY <1>5, <2>2, <2>3, NetworkAssumption
<1>7. Alike(w, y)
  BY AlikeTransitive DEF Grown
<1>8. \A n \in N : n = root \/ (y.net.parent[n] = root /\ y.net.subscriptions[n] \subseteq K)
  BY <1>1, <1>3, ZenonT(60) DEF Grown
<1>9. \A k \in K : y.net.owner[k] = root
  BY <1>1, <1>3, <1>6 DEF Grown
<1>10. \A k \in w.net.links : y.net.owner[k] \notin N
  <2>1. w.net.links \subseteq LinkIds
    BY DEF IsWorld, InOrder, NetworkType
  <2> QED
    BY <1>1, <1>5, <2>1 DEF Grown
<1>11. \A n \in NodeIds \ N :
          /\ y.net.parent[n] = w.net.parent[n]
          /\ y.net.subscriptions[n] = w.net.subscriptions[n]
          /\ y.logics[n] = w.logics[n]
  BY <1>1, <1>3, ZenonT(60) DEF Grown
<1>12. y.net.parent[root] = p
  BY <1>1
<1> HIDE DEF N, K
<1>13. Grown(w, y, root)
  BY <1>1, <1>2, <1>3, <1>4, <1>7, <1>8, <1>9, <1>10, <1>11, <1>12 DEF Grown, N, K
<1> QED
  BY <1>1, <1>2, <1>12, <1>13 DEF N, K

Placements == [parent: NodeIds, link: LinkIds \cup {Nil}]

(* attach_or_remove, on what was built a moment ago.                       *)
LEMMA AttachedOrRemoved ==
    ASSUME NEW w, IsWorld(w), NEW x, IsWorld(x), NEW root, Grown(w, x, root), Apart(w, x, root),
           NEW name, NEW parts, NEW buses, Whole(w, x, root, name, parts, buses, {}),
           NEW at \in Placements
    PROVE  LET r == AttachOrRemove(x, root, at)
           IN  /\ Outcome(w, r)
               /\ r.ok => /\ r.world.net.parent[r.node] = at.parent
                          /\ Whole(w, r.world, r.node, name, parts, buses, {at.link} \ {Nil})
<1> DEFINE p == at.parent
           l == at.link
           joined == InNetwork(x, Connect(x.net, p, root, l))
           y == joined.world
           r == AttachOrRemove(x, root, at)
<1>1. p \in NodeIds /\ l \in LinkIds \cup {Nil} /\ root \in NodeIds
  <2>1. root \in x.net.nodes /\ x.net.nodes \subseteq NodeIds
    BY DEF Grown, NewNodes, IsWorld, InOrder, NetworkType
  <2> QED
    BY <2>1 DEF Placements
<1>2. r = OrRemove(joined, root)
  BY DEF AttachOrRemove
<1> HIDE DEF r, p, l
<1>3. /\ joined = [ok |-> CanConnect(x.net, p, root, l), world |-> y, node |-> Nil]
      /\ IsWorld(y) /\ Alike(x, y)
      /\ y.net = Connect(x.net, p, root, l).net
      /\ y.logics = x.logics /\ y.hosts = x.hosts
      /\ ~joined.ok => y = x
  BY <1>1, ConnectedIsWorld
<1>4. CanConnect(x.net, p, root, l) => joined.ok = TRUE /\ Connected(x.net, y.net, p, root, l)
  <2>1. InOrder(x.net)
    BY DEF IsWorld
  <2>2. joined.ok = CanConnect(x.net, p, root, l)
    BY <1>3
  <2> HIDE DEF joined
  <2>3. CanConnect(x.net, p, root, l) => Connected(x.net, Connect(x.net, p, root, l).net, p, root, l)
    BY <1>1, <2>1, ConnectMakes
  <2> QED
    BY <1>3, <2>2, <2>3
<1>5. ~CanConnect(x.net, p, root, l) => joined.ok = FALSE
  BY <1>3
<1> HIDE DEF joined
<1>6. CASE ~CanConnect(x.net, p, root, l)
  <2>1. joined.ok = FALSE /\ y = x
    BY <1>3, <1>5, <1>6
  <2> QED
    BY <1>2, <2>1, FailureUndone, ZenonT(60) DEF r
<1>7. CASE CanConnect(x.net, p, root, l)
  <2> HIDE DEF y
  <2>1. r = [ok |-> TRUE, world |-> y, node |-> root]
    BY <1>2, <1>4, <1>7 DEF OrRemove, Built, y
  <2>2. r.ok = TRUE /\ r.world = y /\ r.node = root
    BY <2>1
  <2>3. /\ Grown(w, y, root)
        /\ NewNodes(w, y) = NewNodes(w, x) /\ NewLinks(w, y) = NewLinks(w, x)
        /\ y.net.name = x.net.name
        /\ y.net.parent[root] = p
        /\ y.net.subscriptions[root] = x.net.subscriptions[root] \cup ({l} \ {Nil})
        /\ \A n \in NodeIds \ {root} : y.net.subscriptions[n] = x.net.subscriptions[n]
    BY <1>1, <1>3, <1>4, <1>7, GrownConnects
  <2>4. Outcome(w, r)
    BY <1>3, <2>1, <2>2, <2>3 DEF Outcome, Grown
  <2>5. Whole(w, y, root, name, parts, buses, {l} \ {Nil})
    <3>1. NewNodes(w, x) \subseteq NodeIds
      BY <1>3 DEF NewNodes, IsWorld, InOrder, NetworkType
    <3>2. \A i \in DOMAIN parts : \E n \in NewNodes(w, y) \ {root} :
              /\ y.net.name[n] = parts[i].name /\ y.logics[n] = parts[i].logic
              /\ y.net.subscriptions[n] = NewLinks(w, y)
      BY <1>3, <2>3, <3>1 DEF Whole
    <3> QED
      BY <1>3, <2>3, <3>2 DEF Whole
  <2> QED
    BY <2>2, <2>3, <2>4, <2>5 DEF r, p, l
<1> QED
  BY <1>6, <1>7

(* What build_computer_at and build_npc_at do with it.                     *)
LEMMA BuiltAtOutcome ==
    ASSUME NEW w, IsWorld(w), NEW b, Outcome(w, b), NEW at \in Placements, NEW name, NEW parts, NEW buses,
           b.ok => /\ Apart(w, b.world, b.node)
                   /\ Whole(w, b.world, b.node, name, parts, buses, {})
    PROVE  LET r == BuiltAt(b, at)
           IN  /\ Outcome(w, r)
               /\ r.ok => /\ r.world.net.parent[r.node] = at.parent
                          /\ Whole(w, r.world, r.node, name, parts, buses, {at.link} \ {Nil})
<1>1. CASE ~b.ok
  BY <1>1 DEF BuiltAt
<1>2. CASE b.ok
  <2>1. BuiltAt(b, at) = AttachOrRemove(b.world, b.node, at)
    BY <1>2 DEF BuiltAt
  <2> DEFINE x == b.world
             root == b.node
  <2>2. IsWorld(x) /\ Grown(w, x, root) /\ Apart(w, x, root) /\ Whole(w, x, root, name, parts, buses, {})
    BY <1>2 DEF Outcome
  <2> HIDE DEF x, root
  <2>3. LET r == AttachOrRemove(x, root, at)
        IN  /\ Outcome(w, r)
            /\ r.ok => /\ r.world.net.parent[r.node] = at.parent
                       /\ Whole(w, r.world, r.node, name, parts, buses, {at.link} \ {Nil})
    BY <2>2, AttachedOrRemoved
  <2> QED
    BY <2>1, <2>3 DEF x, root
<1> QED
  BY <1>1, <1>2

LEMMA AppLogicIsLogic ==
    ASSUME NEW worker
    PROVE  AppLogic(worker) \in Logics /\ AppLogic(worker) # NoLogic
<1>1. AppLogic(worker) = Kind("scanner") \/ AppLogic(worker) = Kind("responder")
  BY DEF AppLogic
<1>2. Kind("scanner") \in Logics /\ Kind("responder") \in Logics
  BY KindsAreLogics DEF LogicKinds
<1>3. Kind("scanner") # NoLogic /\ Kind("responder") # NoLogic
  BY DEF Kind, NoLogic
<1> QED
  BY <1>1, <1>2, <1>3

LEMMA AppInstalled ==
    ASSUME NEW w, IsWorld(w), NEW computer \in NodeIds, NEW worker, NEW name \in Names
    PROVE  LET r == InstallApp(w, computer, worker, name)
           IN  /\ Outcome(w, r)
               /\ r.ok => /\ r.world.net.parent[r.node] = computer
                          /\ \E joined : Whole(w, r.world, r.node, name, <<>>, 0, joined)
<1> DEFINE created == MakeNode(w, name)
           root == created.node
           v == created.world
           ipc == CHOOSE l \in IpcLinks(w.net, computer) : TRUE
           joined == InNetwork(v, Connect(v.net, computer, root, ipc))
           y == joined.world
           set == SetLogic(y, root, AppLogic(worker))
           r == InstallApp(w, computer, worker, name)
<1>1. /\ created.ok \in BOOLEAN /\ created = [ok |-> created.ok, world |-> v, node |-> root]
      /\ ~created.ok => v = w
      /\ IsWorld(v)
      /\ created.ok => root \in NodeIds \ w.net.issued /\ NodeAdded(w, v, root, name)
  BY MadeNode
<1>2. r = IF computer \notin w.net.nodes \/ IpcLinks(w.net, computer) = {} THEN Failed(w)
          ELSE IF ~created.ok THEN created
          ELSE IF ~joined.ok THEN OrRemove(joined, root)
          ELSE OrRemove(set, root)
  BY DEF InstallApp
<1>3. OnlyIssued(w, w) /\ Alike(w, w)
  BY NothingIssued DEF Alike
<1> HIDE DEF created, r
<1>4. CASE computer \notin w.net.nodes \/ IpcLinks(w.net, computer) = {}
  <2>1. r = [ok |-> FALSE, world |-> w, node |-> Nil]
    BY <1>2, <1>4 DEF Failed
  <2>2. r.ok = FALSE /\ r.world = w /\ r.node = Nil
    BY <2>1
  <2> QED
    BY <1>3, <2>1, <2>2 DEF Outcome, r
<1>5. CASE ~(computer \notin w.net.nodes \/ IpcLinks(w.net, computer) = {}) /\ ~created.ok
  <2>1. r = created
    BY <1>2, <1>5
  <2> QED
    BY <1>1, <1>3, <1>5, <2>1 DEF Outcome, r
<1>6. CASE ~(computer \notin w.net.nodes \/ IpcLinks(w.net, computer) = {}) /\ created.ok
  <2>1. r = IF ~joined.ok THEN OrRemove(joined, root) ELSE OrRemove(set, root)
    BY <1>2, <1>6
  <2>2. ipc \in LinkIds
    <3>1. IpcLinks(w.net, computer) \subseteq LinkIds
      BY DEF IpcLinks, IsWorld, InOrder, NetworkType
    <3> QED
      BY <1>6, <3>1
  <2>3. root \in NodeIds /\ NodeAdded(w, v, root, name) /\ Grown(w, v, root) /\ Apart(w, v, root)
    BY <1>1, <1>6 DEF NodeAdded
  <2> HIDE DEF v, root, ipc
  <2>4. /\ joined = [ok |-> CanConnect(v.net, computer, root, ipc), world |-> y, node |-> Nil]
        /\ IsWorld(y) /\ Alike(v, y)
        /\ y.net = Connect(v.net, computer, root, ipc).net
        /\ y.logics = v.logics /\ y.hosts = v.hosts
        /\ ~joined.ok => y = v
    BY <1>1, <2>2, <2>3, ConnectedIsWorld
  <2>5. joined.ok = CanConnect(v.net, computer, root, ipc)
    BY <2>4
  <2> HIDE DEF joined
  <2>6. CASE ~CanConnect(v.net, computer, root, ipc)
    <3>1. joined.ok = FALSE /\ y = v
      BY <2>4, <2>5, <2>6
    <3>2. r = OrRemove(joined, root)
      BY <2>1, <3>1
    <3>3. IsWorld(v)
      BY <1>1
    <3>4. Outcome(w, OrRemove(joined, root)) /\ OrRemove(joined, root).ok = FALSE
      BY <2>3, <3>1, <3>3, FailureUndone
    <3> QED
      BY <3>2, <3>4 DEF r
  <2>7. CASE CanConnect(v.net, computer, root, ipc)
    <3>1. joined.ok = TRUE /\ r = OrRemove(set, root)
      BY <2>1, <2>5, <2>7
    <3>2. Connected(v.net, y.net, computer, root, ipc)
      <4>1. InOrder(v.net)
        BY <1>1 DEF IsWorld
      <4>2. Connected(v.net, Connect(v.net, computer, root, ipc).net, computer, root, ipc)
        BY <2>2, <2>3, <2>7, <4>1, ConnectMakes
      <4> QED
        BY <2>4, <4>2
    <3> HIDE DEF y
    <3>3. /\ Grown(w, y, root)
          /\ NewNodes(w, y) = NewNodes(w, v) /\ NewLinks(w, y) = NewLinks(w, v)
          /\ y.net.name = v.net.name
          /\ y.net.parent[root] = computer
      BY <1>1, <2>2, <2>3, <2>4, <2>7, <3>2, GrownConnects DEF y
    <3> DEFINE z == set.world
    <3>4. /\ set = [ok |-> TRUE, world |-> z, node |-> root]
          /\ IsWorld(z) /\ Grown(w, z, root)
          /\ z.net = y.net /\ NewNodes(w, z) = NewNodes(w, y) /\ NewLinks(w, z) = NewLinks(w, y)
          /\ z.logics[root] = AppLogic(worker)
      BY <2>4, <3>3, AppLogicIsLogic, RootGetsLogic DEF y
    <3> HIDE DEF set
    <3>5. set.ok = TRUE
      BY <3>4
    <3> HIDE DEF z
    <3>6. r = [ok |-> TRUE, world |-> z, node |-> root]
      BY <3>1, <3>5 DEF OrRemove, Built, z
    <3>7. r.ok = TRUE /\ r.world = z /\ r.node = root
      BY <3>6
    <3>8. Outcome(w, r)
      BY <3>4, <3>6, <3>7 DEF Outcome, Grown
    <3>9. Whole(w, z, root, name, <<>>, 0, z.net.subscriptions[root])
      <4>1. NewNodes(w, z) \ {root} = {} /\ NewLinks(w, z) = {}
        BY <2>3, <3>3, <3>4 DEF NodeAdded, NewNodes, NewLinks
      <4>2. Cardinality({}) = 0
        BY FS_EmptySet
      <4>3. z.net.name[root] = name
        BY <2>3, <3>3, <3>4 DEF NodeAdded
      <4>4. Len(<<>>) = 0 /\ DOMAIN <<>> = {}
        OBVIOUS
      <4> QED
        BY <3>4, <4>1, <4>2, <4>3, <4>4, AppLogicIsLogic DEF Whole
    <3> QED
      BY <3>3, <3>4, <3>7, <3>8, <3>9 DEF r
  <2> QED
    BY <2>6, <2>7
<1> QED
  BY <1>1, <1>4, <1>5, <1>6

-----------------------------------------------------------------------------
(* The rest of a network's operations, on the network of a world *)

(* What a checked operation answers.                                       *)
Kept(w, r) ==
    /\ r.ok \in BOOLEAN
    /\ IsWorld(r.world) /\ Alike(w, r.world)
    /\ ~r.ok => r.world = w

(* No name is left where nothing is.                                       *)
Unnamed(s) == \A h \in (NodeIds \cup LinkIds) \ (s.nodes \cup s.links) : s.name[h] = Nil

LEMMA InNetworkKept ==
    ASSUME NEW w, IsWorld(w), NEW q, q.ok \in BOOLEAN, InOrder(q.net), q.ok \/ q.net = w.net,
           q.net.nodes = w.net.nodes, Unnamed(q.net)
    PROVE  LET r == InNetwork(w, q)
           IN  /\ Kept(w, r) /\ r.ok = q.ok /\ r.world.net = q.net
               /\ r.world.logics = w.logics /\ r.world.hosts = w.hosts
<1> DEFINE v == [w EXCEPT !.net = q.net]
           r == InNetwork(w, q)
<1>1. r.ok = q.ok /\ r.world = v
  BY DEF InNetwork
<1>2. /\ v.net = q.net /\ v.logics = w.logics /\ v.hosts = w.hosts
      /\ Alike(w, v) /\ v = [x \in DOMAIN v |-> v[x]]
  BY WithNet
<1>3. q.net = w.net => v = w
  BY DEF IsWorld
<1> HIDE DEF v, r
<1>4. Vacant(v)
  BY <1>2 DEF Vacant, IsWorld, Unnamed
<1>5. DOMAIN v = DOMAIN w
  BY <1>2 DEF Alike
<1>6. IsWorld(v)
  BY <1>2, <1>4, <1>5 DEF IsWorld
<1> QED
  BY <1>1, <1>2, <1>3, <1>6 DEF Kept, r

LEMMA SameThingsUnnamed ==
    ASSUME NEW w, IsWorld(w), NEW s, SameThings(w.net, s)
    PROVE  s.nodes = w.net.nodes /\ Unnamed(s)
BY DEF SameThings, Unnamed, IsWorld, Vacant

LEMMA OwnedInWorld ==
    ASSUME NEW w, IsWorld(w), NEW o \in NodeIds, NEW l \in LinkIds
    PROVE  LET r == InNetwork(w, AddInternalLink(w.net, o, l))
           IN  /\ Kept(w, r) /\ r.world.logics = w.logics /\ r.world.hosts = w.hosts
               /\ r.ok <=> CanAddInternalLink(w.net, o, l)
               /\ r.ok => r.world.net = WithOwner(w.net, o, l)
<1> DEFINE q == AddInternalLink(w.net, o, l)
<1>1. w.net \in NetworkType /\ InOrder(w.net)
  BY DEF IsWorld, InOrder
<1>2. CASE CanAddInternalLink(w.net, o, l)
  <2>1. q = [ok |-> TRUE, net |-> WithOwner(w.net, o, l)]
    BY <1>2 DEF AddInternalLink, Done
  <2>2. InOrder(WithOwner(w.net, o, l))
    BY <1>1, <1>2, OwnerInOrder
  <2>3. SameThings(w.net, WithOwner(w.net, o, l))
    BY <1>1, OwnerMakes
  <2>4. q.ok = TRUE /\ q.net = WithOwner(w.net, o, l)
    BY <2>1
  <2> HIDE DEF q
  <2>5. q.net.nodes = w.net.nodes /\ Unnamed(q.net)
    BY <2>3, <2>4, SameThingsUnnamed
  <2>6. q.ok \in BOOLEAN /\ InOrder(q.net) /\ (q.ok \/ q.net = w.net)
    BY <2>2, <2>4
  <2>7. LET r == InNetwork(w, q)
        IN  Kept(w, r) /\ r.ok = q.ok /\ r.world.net = q.net /\ r.world.logics = w.logics /\ r.world.hosts = w.hosts
    BY <2>5, <2>6, InNetworkKept
  <2> QED
    BY <1>2, <2>4, <2>7 DEF q
<1>3. CASE ~CanAddInternalLink(w.net, o, l)
  <2>1. q.ok = FALSE /\ q.net = w.net
    BY <1>3 DEF AddInternalLink, Rejected
  <2> HIDE DEF q
  <2>2. q.net.nodes = w.net.nodes /\ Unnamed(q.net)
    BY <2>1 DEF IsWorld, Vacant, Unnamed
  <2>3. q.ok \in BOOLEAN /\ InOrder(q.net) /\ (q.ok \/ q.net = w.net)
    BY <1>1, <2>1
  <2>4. LET r == InNetwork(w, q)
        IN  Kept(w, r) /\ r.ok = q.ok /\ r.world.net = q.net /\ r.world.logics = w.logics /\ r.world.hosts = w.hosts
    BY <2>2, <2>3, InNetworkKept
  <2> QED
    BY <1>3, <2>1, <2>4 DEF q
<1> QED
  BY <1>2, <1>3

LEMMA SubscribedInWorld ==
    ASSUME NEW w, IsWorld(w), NEW n \in NodeIds, NEW l \in LinkIds
    PROVE  LET r == InNetwork(w, Subscribe(w.net, n, l))
           IN  /\ Kept(w, r) /\ r.world.logics = w.logics /\ r.world.hosts = w.hosts
               /\ r.world.net \in {w.net, WithSubscriber(w.net, n, l)}
<1> DEFINE q == Subscribe(w.net, n, l)
<1>1. w.net \in NetworkType /\ InOrder(w.net)
  BY DEF IsWorld, InOrder
<1>2. CASE CanSubscribe(w.net, n, l)
  <2>1. q.ok = TRUE /\ q.net = WithSubscriber(w.net, n, l)
    BY <1>2 DEF Subscribe, Done
  <2>2. InOrder(WithSubscriber(w.net, n, l))
    BY <1>1, <1>2, SubscriberInOrder
  <2>3. SameThings(w.net, WithSubscriber(w.net, n, l))
    BY <1>1, SubscriberMakes
  <2> HIDE DEF q
  <2>4. q.net.nodes = w.net.nodes /\ Unnamed(q.net)
    BY <2>1, <2>3, SameThingsUnnamed
  <2>5. q.ok \in BOOLEAN /\ InOrder(q.net) /\ (q.ok \/ q.net = w.net)
    BY <2>1, <2>2
  <2>6. LET r == InNetwork(w, q)
        IN  Kept(w, r) /\ r.world.net = q.net /\ r.world.logics = w.logics /\ r.world.hosts = w.hosts
    BY <2>4, <2>5, InNetworkKept
  <2> QED
    BY <2>1, <2>6 DEF q
<1>3. CASE ~CanSubscribe(w.net, n, l)
  <2>1. q.ok = FALSE /\ q.net = w.net
    BY <1>3 DEF Subscribe, Rejected
  <2> HIDE DEF q
  <2>2. q.net.nodes = w.net.nodes /\ Unnamed(q.net)
    BY <2>1 DEF IsWorld, Vacant, Unnamed
  <2>3. q.ok \in BOOLEAN /\ InOrder(q.net) /\ (q.ok \/ q.net = w.net)
    BY <1>1, <2>1
  <2>4. LET r == InNetwork(w, q)
        IN  Kept(w, r) /\ r.world.net = q.net /\ r.world.logics = w.logics /\ r.world.hosts = w.hosts
    BY <2>2, <2>3, InNetworkKept
  <2> QED
    BY <2>1, <2>4 DEF q
<1> QED
  BY <1>2, <1>3

LEMMA ConnectedKept ==
    ASSUME NEW w, IsWorld(w), NEW p \in NodeIds, NEW n \in NodeIds, NEW l \in LinkIds \cup {Nil}
    PROVE  Kept(w, InNetwork(w, Connect(w.net, p, n, l)))
<1>1. CanConnect(w.net, p, n, l) \in BOOLEAN
  BY DEF CanConnect
<1> DEFINE r == InNetwork(w, Connect(w.net, p, n, l))
<1>2. /\ r = [ok |-> CanConnect(w.net, p, n, l), world |-> r.world, node |-> Nil]
      /\ IsWorld(r.world) /\ Alike(w, r.world)
      /\ ~r.ok => r.world = w
  BY ConnectedIsWorld
<1>3. r.ok \in BOOLEAN
  BY <1>1, <1>2
<1> HIDE DEF r
<1> QED
  BY <1>2, <1>3 DEF Kept, r

LEMMA UnsubscribedInWorld ==
    ASSUME NEW w, IsWorld(w), NEW n \in NodeIds, NEW l \in LinkIds
    PROVE  Kept(w, InNetwork(w, Unsubscribe(w.net, n, l)))
<1> DEFINE q == Unsubscribe(w.net, n, l)
           s == WithoutSubscriber(w.net, n, {l})
<1>1. w.net \in NetworkType /\ InOrder(w.net)
  BY DEF IsWorld, InOrder
<1>2. InOrder(s)
  BY <1>1, UnsubscribedInOrder
<1>3. SameThings(w.net, s)
  BY <1>1 DEF SameThings, WithoutSubscriber, NetworkType
<1>4. (q.ok = TRUE /\ q.net = s) \/ (q.ok = FALSE /\ q.net = w.net)
  BY DEF Unsubscribe, Done, Rejected
<1> HIDE DEF q, s
<1>5. q.net.nodes = w.net.nodes /\ Unnamed(q.net)
  <2>1. SameThings(w.net, w.net)
    BY DEF SameThings
  <2> QED
    BY <1>3, <1>4, <2>1, SameThingsUnnamed
<1>6. q.ok \in BOOLEAN /\ InOrder(q.net) /\ (q.ok \/ q.net = w.net)
  BY <1>1, <1>2, <1>4
<1> QED
  BY <1>5, <1>6, InNetworkKept DEF q

LEMMA DisconnectedInWorld ==
    ASSUME NEW w, IsWorld(w), NEW p \in NodeIds, NEW n \in NodeIds
    PROVE  Kept(w, InNetwork(w, Disconnect(w.net, p, n)))
<1> DEFINE q == Disconnect(w.net, p, n)
           s == WithoutSubscriber(w.net, n, w.net.internal[p] \cap w.net.links)
           t == WithoutParent(s, p, n)
<1>1. w.net \in NetworkType /\ InOrder(w.net)
  BY DEF IsWorld, InOrder
<1>2. InOrder(q.net) /\ (q.ok \/ q.net = w.net) /\ q.ok \in BOOLEAN
  BY <1>1, DisconnectAllOrNothing
<1>3. SameThings(w.net, s) /\ SameThings(w.net, t)
  <2>1. SameThings(w.net, s)
    BY <1>1 DEF SameThings, WithoutSubscriber, NetworkType
  <2>2. s \in NetworkType
    <3>1. w.net.internal[p] \cap w.net.links \in SUBSET LinkIds
      BY <1>1 DEF NetworkType
    <3> QED
      BY <1>1, <3>1, UnsubscribedInOrder DEF InOrder
  <2>3. SameThings(s, t)
    <3> HIDE DEF s
    <3> QED
      BY <2>2 DEF SameThings, WithoutParent, NetworkType
  <2> QED
    BY <2>1, <2>3 DEF SameThings
<1>4. q.net \in {w.net, s, t}
  BY DEF Disconnect, Done, Rejected
<1> HIDE DEF q, s, t
<1>5. q.net.nodes = w.net.nodes /\ Unnamed(q.net)
  <2>1. SameThings(w.net, w.net)
    BY DEF SameThings
  <2> QED
    BY <1>3, <1>4, <2>1, SameThingsUnnamed
<1> QED
  BY <1>2, <1>5, InNetworkKept DEF q

LEMMA LinkRemovedInWorld ==
    ASSUME NEW w, IsWorld(w), NEW l \in LinkIds
    PROVE  Kept(w, InNetwork(w, RemoveLink(w.net, l)))
<1> DEFINE q == RemoveLink(w.net, l)
           s == WithoutLinks(w.net, {l})
<1>1. w.net \in NetworkType /\ InOrder(w.net)
  BY DEF IsWorld, InOrder
<1>2. InOrder(q.net) /\ (q.ok \/ q.net = w.net) /\ q.ok \in BOOLEAN
  BY <1>1, RemoveLinkInOrder
<1>3. /\ s.nodes = w.net.nodes /\ s.links = w.net.links \ {l}
      /\ \A h \in NodeIds \cup LinkIds : s.name[h] = IF h = l THEN Nil ELSE w.net.name[h]
  BY <1>1 DEF WithoutLinks, NetworkType
<1>4. q.net \in {w.net, s}
  BY DEF RemoveLink, Done, Rejected
<1> HIDE DEF q, s
<1>5. q.net.nodes = w.net.nodes /\ Unnamed(q.net)
  <2>1. Unnamed(w.net) /\ Unnamed(s)
    BY <1>3 DEF IsWorld, Vacant, Unnamed
  <2> QED
    BY <1>3, <1>4, <2>1
<1> QED
  BY <1>2, <1>5, InNetworkKept DEF q

(* remove_node: what is gone has lost its name and its logic.              *)
LEMMA NodeRemovedInWorld ==
    ASSUME NEW w, IsWorld(w), NEW n \in NodeIds
    PROVE  LET r == RemoveWithLogic(w, n)
           IN  /\ Kept(w, r) /\ r.world.net = RemoveNode(w.net, n).net
               /\ (r.ok <=> n \in w.net.nodes \ {Root})
<1> DEFINE q == RemoveNode(w.net, n)
           s == q.net
           gone == w.net.nodes \ s.nodes
           g == [m \in NodeIds |-> IF m \in gone THEN NoLogic ELSE w.logics[m]]
           v == [w EXCEPT !.net = s, !.hosts = w.hosts \ gone, !.logics = g]
           r == RemoveWithLogic(w, n)
<1>1. w.net \in NetworkType /\ InOrder(w.net) /\ w.logics \in [NodeIds -> Logics]
  BY DEF IsWorld, InOrder
<1>2. InOrder(s) /\ (q.ok \/ s = w.net) /\ q.ok \in BOOLEAN
  BY <1>1, RemoveNodeInOrder
<1>3. q.ok <=> n \in w.net.nodes \ {Root}
  <2>1. n \in w.net.nodes \ {Root} => q.ok = TRUE
    BY DEF RemoveNode, Done
  <2>2. n \notin w.net.nodes \ {Root} => q.ok = FALSE
    BY DEF RemoveNode, Rejected
  <2> QED
    BY <2>1, <2>2
<1>4. r = [ok |-> q.ok, node |-> Nil, world |-> v]
  BY DEF RemoveWithLogic, IsWorld
<1>5. s.nodes \subseteq w.net.nodes /\ s.links \subseteq w.net.links /\ Unnamed(s)
  <2>1. CASE n \notin w.net.nodes \ {Root}
    BY <2>1 DEF RemoveNode, Rejected, IsWorld, Vacant, Unnamed
  <2>2. CASE n \in w.net.nodes \ {Root}
    <3> DEFINE doomed == Subtree(w.net, n)
               orphaned == {l \in w.net.links : \E m \in doomed : l \in w.net.internal[m]}
               t == WithoutLinks(w.net, orphaned)
               u == WithoutNodes(t, doomed)
    <3>1. s = IF w.net.parent[n] \in NodeIds \ doomed
              THEN [u EXCEPT !.children[w.net.parent[n]] = @ \ {n}] ELSE u
      BY <2>2 DEF RemoveNode, Done
    <3>2. /\ t.nodes = w.net.nodes /\ t.links = w.net.links \ orphaned
          /\ t.name = [h \in NodeIds \cup LinkIds |-> IF h \in orphaned THEN Nil ELSE w.net.name[h]]
      BY <1>1 DEF WithoutLinks, NetworkType
    <3> HIDE DEF t, orphaned, doomed
    <3>3. /\ u.nodes = t.nodes \ doomed /\ u.links = t.links
          /\ u.name = [h \in NodeIds \cup LinkIds |-> IF h \in doomed THEN Nil ELSE t.name[h]]
      <4>1. w.net.nodes = w.net.nodes /\ DOMAIN t = DOMAIN w.net /\ t = [x \in DOMAIN t |-> t[x]]
        BY <1>1 DEF t, WithoutLinks, NetworkType
      <4>2. {"nodes", "links", "name"} \subseteq DOMAIN t
        BY <1>1, <4>1 DEF NetworkType
      <4> QED
        BY <4>1, <4>2 DEF WithoutNodes
    <3> HIDE DEF u
    <3>4. s.nodes = u.nodes /\ s.links = u.links /\ s.name = u.name
      BY <3>1
    <3>5. ASSUME NEW h \in (NodeIds \cup LinkIds) \ (s.nodes \cup s.links)
          PROVE  s.name[h] = Nil
      <4>1. h \in orphaned \/ h \in doomed \/ h \notin w.net.nodes \cup w.net.links
        BY <3>2, <3>3, <3>4
      <4>2. h \notin w.net.nodes \cup w.net.links => w.net.name[h] = Nil
        BY DEF IsWorld, Vacant
      <4>3. s.name[h] = IF h \in doomed \/ h \in orphaned THEN Nil ELSE w.net.name[h]
        BY <3>2, <3>3, <3>4, ZenonT(60)
      <4> QED
        BY <4>1, <4>2, <4>3
    <3> QED
      BY <3>2, <3>3, <3>4, <3>5 DEF Unnamed
  <2> HIDE DEF s
  <2> QED
    BY <2>1, <2>2
<1> HIDE DEF q, s
<1>6. /\ v.net = s /\ v.hosts = w.hosts \ gone /\ v.logics = g
      /\ Alike(w, v) /\ v = [x \in DOMAIN v |-> v[x]] /\ DOMAIN v = DOMAIN w
  BY DEF IsWorld, Alike
<1>7. NoLogic \in Logics
  BY KindsAreLogics DEF NoLogic, LogicKinds
<1>8. IsWorld(v)
  <2>1. Vacant(v)
    <3>1. \A m \in NodeIds \ s.nodes : g[m] = NoLogic
      BY DEF IsWorld, Vacant
    <3>2. w.hosts \ gone \subseteq s.nodes
      BY DEF IsWorld, Vacant
    <3> HIDE DEF g, v, gone
    <3> QED
      BY <1>5, <1>6, <3>1, <3>2 DEF Vacant, Unnamed
  <2>2. g \in [NodeIds -> Logics]
    BY <1>1, <1>7
  <2> HIDE DEF g, v, gone
  <2> QED
    BY <1>2, <1>6, <2>1, <2>2 DEF IsWorld
<1>9. ~q.ok => v = w
  <2> SUFFICES ASSUME ~q.ok PROVE v = w
    OBVIOUS
  <2>1. s = w.net /\ gone = {}
    BY <1>2
  <2>2. v.net = w.net /\ v.hosts = w.hosts /\ v.logics = w.logics
    BY <1>1, <1>6, <2>1
  <2> HIDE DEF v, gone, g
  <2> QED
    BY <1>6, <2>2, SameWorld DEF IsWorld
<1> HIDE DEF v, gone, g, r
<1>10. r.ok = q.ok /\ r.world = v
  BY <1>4
<1> QED
  BY <1>2, <1>3, <1>6, <1>8, <1>9, <1>10 DEF Kept, r, s, q

-----------------------------------------------------------------------------
(* The C ABI: what holds of the world and of the packets the host holds    *)

(* What is left of a budget, and what of it was used up.                   *)
Copies == {copy \in [ttl: Nat \ {0}, hops: Nat] : copy.hops + copy.ttl <= DefaultTtl}
Packets ==
    {p \in [sender: NodeIds, link: LinkIds, ttl: Nat \ {0}, hops: Nat] : p.hops + p.ttl <= DefaultTtl}

Worlds ==
    {w \in [net: NetworkType, logics: [NodeIds -> Logics], hosts: SUBSET NodeIds,
            pending: Seq(Packets), inbox: Seq(Copies), limits: Limits, tick: Nat,
            tripped: BOOLEAN, refused: BOOLEAN, panicked: {FALSE}] :
        InOrder(w.net) /\ Vacant(w)}

AbiInv == scene \in Scenes /\ world \in Worlds /\ held \in SUBSET Copies

LEMMA WorldsTyped ==
    ASSUME NEW w \in Worlds
    PROVE  /\ IsWorld(w)
           /\ w.pending \in Seq(Packets) /\ w.inbox \in Seq(Copies) /\ w.limits \in Limits
           /\ w.tick \in Nat /\ w.panicked = FALSE
BY DEF Worlds, IsWorld

LEMMA LikeWorlds ==
    ASSUME NEW w \in Worlds, NEW v, IsWorld(v), Alike(w, v)
    PROVE  v \in Worlds
<1>1. DOMAIN w = {"net", "logics", "hosts", "pending", "inbox", "limits", "tick", "tripped", "refused", "panicked"}
  BY DEF Worlds
<1>2. /\ v.pending = w.pending /\ v.inbox = w.inbox /\ v.limits = w.limits /\ v.tick = w.tick
      /\ v.tripped = w.tripped /\ v.refused = w.refused /\ v.panicked = w.panicked
  BY <1>1 DEF Alike
<1>3. /\ v = [x \in DOMAIN v |-> v[x]] /\ DOMAIN v = DOMAIN w
      /\ v.net \in NetworkType /\ v.logics \in [NodeIds -> Logics] /\ v.hosts \in SUBSET NodeIds
  BY DEF IsWorld, InOrder, Vacant, NetworkType, Alike
<1>4. v \in [net: NetworkType, logics: [NodeIds -> Logics], hosts: SUBSET NodeIds,
             pending: Seq(Packets), inbox: Seq(Copies), limits: Limits, tick: Nat,
             tripped: BOOLEAN, refused: BOOLEAN, panicked: {FALSE}]
  BY <1>1, <1>2, <1>3 DEF Worlds
<1> QED
  BY <1>4 DEF Worlds, IsWorld

(* A call that failed left no trace, and a call that is no build did not   *)
(* write of one.                                                           *)
NoTrace == status' = "Failed" => Visible(world') = Visible(world) /\ held' = held /\ wrote' = Nothing

StepOk == AbiInv' /\ NoTrace /\ wrote'.what # "built"

LEMMA FailOk ==
    ASSUME AbiInv, Fail
    PROVE  StepOk
BY DEF StepOk, AbiInv, NoTrace, Fail, Nothing

LEMMA SucceedOk ==
    ASSUME AbiInv, NEW w \in Worlds, NEW out \in {Nothing, Value}, Succeed(w, out)
    PROVE  StepOk
BY DEF StepOk, AbiInv, NoTrace, Succeed, Nothing, Value

LEMMA AnswerOk ==
    ASSUME AbiInv, NEW r, NEW out \in {Nothing, Value}, Answer(r, out),
           r.world \in Worlds, r.ok \/ Visible(r.world) = Visible(world)
    PROVE  StepOk
<1>1. CASE r.ok
  BY <1>1, SucceedOk DEF Answer
<1>2. CASE ~r.ok
  BY <1>2 DEF Answer, StepOk, AbiInv, NoTrace, Nothing
<1> QED
  BY <1>1, <1>2

LEMMA KeptOk ==
    ASSUME AbiInv, NEW r, NEW out \in {Nothing, Value}, Answer(r, out), Kept(world, r)
    PROVE  StepOk
<1>1. r.world \in Worlds
  BY LikeWorlds DEF AbiInv, Kept
<1>2. r.ok \/ Visible(r.world) = Visible(world)
  BY DEF Kept
<1> QED
  BY <1>1, <1>2, AnswerOk

LEMMA SceneTyped ==
    ASSUME AbiInv
    PROVE  /\ scene.nodes \subseteq NodeIds /\ scene.senders \subseteq NodeIds /\ scene.links \subseteq LinkIds
           /\ scene.names \subseteq Names
           /\ \A order \in scene.orders : order \in [template: STRING, name: Names \cup {Nil}, spec: Specs]
           /\ scene.npc \in NpcSpecs /\ ValidNpc(scene.npc) /\ scene.kinds \subseteq LogicKinds \cup {"npc"}
           /\ scene.limits \subseteq Limits /\ scene.ticks \in Nat
           /\ DefaultTtl \in Nat \ {0} /\ InboxLimit \in Nat \ {0} /\ Ipc \in Names
           /\ IsFiniteSet(NodeIds) /\ IsFiniteSet(LinkIds)
BY AbiAssumption DEF AbiInv

-----------------------------------------------------------------------------
(* Calls on the network *)

LEMMA CreateNodeOk ==
    ASSUME AbiInv, CreateNodeCall
    PROVE  StepOk
<1>1. PICK name \in scene.names \cup {Nil}, kind \in scene.names \cup {Nil}, out \in Pointer :
        LET id == NewNodeId(world.net)
        IN  /\ world.net.issued \cap NodeIds # NodeIds
            /\ IF ~out \/ Nil \in {name, kind} THEN Fail
               ELSE Answer(InNetwork(world, CreateNode(world.net, id, name)), Value)
  BY DEF CreateNodeCall
<1> DEFINE id == NewNodeId(world.net)
           r == InNetwork(world, CreateNode(world.net, id, name))
<1>2. IsWorld(world)
  BY WorldsTyped DEF AbiInv
<1>3. id \in NodeIds \ world.net.issued
  BY <1>1 DEF NewNodeId
<1>4. CASE ~out \/ Nil \in {name, kind}
  BY <1>1, <1>4, FailOk
<1>5. CASE ~(~out \/ Nil \in {name, kind})
  <2>1. Answer(r, Value)
    BY <1>1, <1>5
  <2>2. name \in Names
    BY <1>5, SceneTyped
  <2> HIDE DEF id
  <2>3. Kept(world, r)
    BY <1>2, <1>3, <2>2, NewNodeInWorld DEF Kept
  <2> HIDE DEF r
  <2> QED
    BY <2>1, <2>3, KeptOk
<1> QED
  BY <1>4, <1>5

LEMMA CreateLinkOk ==
    ASSUME AbiInv, CreateLinkCall
    PROVE  StepOk
<1>1. PICK name \in scene.names \cup {Nil}, out \in Pointer :
        LET id == NewLinkId(world.net)
        IN  /\ world.net.issued \cap LinkIds # LinkIds
            /\ IF ~out \/ name = Nil THEN Fail
               ELSE Answer(InNetwork(world, CreateLink(world.net, id, name)), Value)
  BY DEF CreateLinkCall
<1> DEFINE id == NewLinkId(world.net)
           r == InNetwork(world, CreateLink(world.net, id, name))
<1>2. IsWorld(world)
  BY WorldsTyped DEF AbiInv
<1>3. id \in LinkIds \ world.net.issued
  BY <1>1 DEF NewLinkId
<1>4. CASE ~out \/ name = Nil
  BY <1>1, <1>4, FailOk
<1>5. CASE ~(~out \/ name = Nil)
  <2>1. Answer(r, Value)
    BY <1>1, <1>5
  <2>2. name \in Names
    BY <1>5, SceneTyped
  <2> HIDE DEF id
  <2>3. Kept(world, r)
    BY <1>2, <1>3, <2>2, NewLinkInWorld DEF Kept
  <2> HIDE DEF r
  <2> QED
    BY <2>1, <2>3, KeptOk
<1> QED
  BY <1>4, <1>5

LEMMA WireOk ==
    ASSUME AbiInv, AddInternalLinkCall \/ ConnectCall \/ SubscribeCall \/ UnsubscribeCall \/ DisconnectCall
    PROVE  StepOk
<1>1. IsWorld(world) /\ scene.nodes \subseteq NodeIds /\ scene.links \subseteq LinkIds
  BY WorldsTyped, SceneTyped DEF AbiInv
<1>2. CASE AddInternalLinkCall
  <2>1. PICK n \in scene.nodes, l \in scene.links : Answer(InNetwork(world, AddInternalLink(world.net, n, l)), Nothing)
    BY <1>2 DEF AddInternalLinkCall
  <2>2. Kept(world, InNetwork(world, AddInternalLink(world.net, n, l)))
    BY <1>1, OwnedInWorld
  <2> QED
    BY <2>1, <2>2, KeptOk
<1>3. CASE ConnectCall
  <2>1. PICK p \in scene.nodes, n \in scene.nodes, l \in scene.links \cup {Nil} :
            Answer(InNetwork(world, Connect(world.net, p, n, l)), Nothing)
    BY <1>3 DEF ConnectCall
  <2>2. Kept(world, InNetwork(world, Connect(world.net, p, n, l)))
    BY <1>1, ConnectedKept
  <2> QED
    BY <2>1, <2>2, KeptOk
<1>4. CASE SubscribeCall
  <2>1. PICK n \in scene.nodes, l \in scene.links : Answer(InNetwork(world, Subscribe(world.net, n, l)), Nothing)
    BY <1>4 DEF SubscribeCall
  <2>2. Kept(world, InNetwork(world, Subscribe(world.net, n, l)))
    BY <1>1, SubscribedInWorld
  <2> QED
    BY <2>1, <2>2, KeptOk
<1>5. CASE UnsubscribeCall
  <2>1. PICK n \in scene.nodes, l \in scene.links : Answer(InNetwork(world, Unsubscribe(world.net, n, l)), Nothing)
    BY <1>5 DEF UnsubscribeCall
  <2>2. Kept(world, InNetwork(world, Unsubscribe(world.net, n, l)))
    BY <1>1, UnsubscribedInWorld
  <2> QED
    BY <2>1, <2>2, KeptOk
<1>6. CASE DisconnectCall
  <2>1. PICK p \in scene.nodes, n \in scene.nodes : Answer(InNetwork(world, Disconnect(world.net, p, n)), Nothing)
    BY <1>6 DEF DisconnectCall
  <2>2. Kept(world, InNetwork(world, Disconnect(world.net, p, n)))
    BY <1>1, DisconnectedInWorld
  <2> QED
    BY <2>1, <2>2, KeptOk
<1> QED
  BY <1>2, <1>3, <1>4, <1>5, <1>6

LEMMA RemoveOk ==
    ASSUME AbiInv, RemoveNodeCall \/ RemoveLinkCall
    PROVE  StepOk
<1>1. IsWorld(world) /\ scene.nodes \subseteq NodeIds /\ scene.links \subseteq LinkIds
  BY WorldsTyped, SceneTyped DEF AbiInv
<1>2. CASE RemoveNodeCall
  <2>1. PICK n \in scene.nodes : Answer(RemoveWithLogic(world, n), Nothing)
    BY <1>2 DEF RemoveNodeCall
  <2>2. Kept(world, RemoveWithLogic(world, n))
    BY <1>1, NodeRemovedInWorld
  <2> QED
    BY <2>1, <2>2, KeptOk
<1>3. CASE RemoveLinkCall
  <2>1. PICK l \in scene.links : Answer(InNetwork(world, RemoveLink(world.net, l)), Nothing)
    BY <1>3 DEF RemoveLinkCall
  <2>2. Kept(world, InNetwork(world, RemoveLink(world.net, l)))
    BY <1>1, LinkRemovedInWorld
  <2> QED
    BY <2>1, <2>2, KeptOk
<1> QED
  BY <1>2, <1>3

Asks ==
    \/ ParentOf \/ NodeName \/ LinkName \/ RootOf \/ TickCount
    \/ Snapshot \/ Health \/ FuseReport
    \/ Children \/ InternalLinks \/ Subscriptions \/ Subscribers

LEMMA AskOk ==
    ASSUME AbiInv, Asks
    PROVE  StepOk
<1>1. Fail \/ Succeed(world, Value)
  BY DEF Asks, ParentOf, NodeName, LinkName, RootOf, TickCount, Snapshot, Health, FuseReport,
         Children, InternalLinks, Subscriptions, Subscribers,
         NodeQuery, LinkQuery, WorldQuery, IdsOfNode, WriteIds
<1>2. world \in Worlds
  BY DEF AbiInv
<1> QED
  BY <1>1, <1>2, FailOk, SucceedOk

-----------------------------------------------------------------------------
(* Builds *)

LEMMA VisibleFields ==
    ASSUME NEW w, IsWorld(w), NEW v, IsWorld(v), Alike(w, v),
           v.logics = w.logics, v.hosts = w.hosts,
           [v.net EXCEPT !.issued = {}] = [w.net EXCEPT !.issued = {}]
    PROVE  Visible(v) = Visible(w)
<1> DEFINE s == [w.net EXCEPT !.issued = {}]
<1>1. Visible(w) = [w EXCEPT !.net = s, !.refused = FALSE]
  BY DEF Visible
<1>2. Visible(v) = [v EXCEPT !.net = s, !.refused = FALSE]
  BY DEF Visible
<1> HIDE DEF s
<1>3. \A x \in DOMAIN w \ {"net"} : v[x] = w[x]
  BY DEF Alike
<1>4. /\ DOMAIN v = DOMAIN w
      /\ w = [x \in DOMAIN w |-> w[x]] /\ v = [x \in DOMAIN v |-> v[x]]
  BY DEF IsWorld, Alike
<1>5. [v EXCEPT !.net = s, !.refused = FALSE] = [w EXCEPT !.net = s, !.refused = FALSE]
  BY <1>3, <1>4
<1> QED
  BY <1>1, <1>2, <1>5

LEMMA IssuedUnseen ==
    ASSUME NEW w \in Worlds, NEW v \in Worlds, OnlyIssued(w, v)
    PROVE  Visible(v) = Visible(w)
<1>1. IsWorld(w) /\ w.net \in NetworkType
  BY WorldsTyped DEF IsWorld, InOrder
<1>2. v.logics = w.logics /\ v.hosts = w.hosts /\ Alike(w, v)
  BY <1>1, OnlyIssuedFields
<1>3. v.net = [w.net EXCEPT !.issued = v.net.issued]
  <2>1. v = [w EXCEPT !.net = [w.net EXCEPT !.issued = v.net.issued]]
    BY DEF OnlyIssued
  <2> DEFINE s == [w.net EXCEPT !.issued = v.net.issued]
  <2> HIDE DEF s
  <2>2. v = [w EXCEPT !.net = s]
    BY <2>1 DEF s
  <2>3. v.net = s
    BY <2>2 DEF Worlds
  <2> QED
    BY <2>3 DEF s
<1>4. [v.net EXCEPT !.issued = {}] = [w.net EXCEPT !.issued = {}]
  <2>1. \A I : [[w.net EXCEPT !.issued = I] EXCEPT !.issued = {}] = [w.net EXCEPT !.issued = {}]
    BY <1>1 DEF NetworkType
  <2> QED
    BY <1>3, <2>1
<1> QED
  BY <1>1, <1>2, <1>4, WorldsTyped, VisibleFields

LEMMA SpecsDiffer ==
    ASSUME NEW spec \in Specs
    PROVE  /\ Parses("computer", spec) => spec \in ComputerSpecs
           /\ Parses("npc", spec) => spec \in NpcSpecs
           /\ \A template : Parses(template, spec) => template \in {"computer", "app", "npc"}
<1>1. \/ spec \in ComputerSpecs /\ DOMAIN spec = {"services", "apps"}
      \/ spec \in NpcSpecs /\ DOMAIN spec = {"day", "schedule", "lines"}
      \/ spec \in [app: Names] /\ DOMAIN spec = {"app"}
  BY DEF Specs, ComputerSpecs, NpcSpecs
<1>2. "services" \notin {"day", "schedule", "lines"} /\ "services" \notin {"app"}
      /\ "day" \notin {"services", "apps"} /\ "day" \notin {"app"}
  OBVIOUS
<1>3. Parses("computer", spec) => "services" \in DOMAIN spec
  BY DEF Parses
<1>4. Parses("npc", spec) => "day" \in DOMAIN spec
  BY DEF Parses
<1>5. ASSUME NEW template, Parses(template, spec) PROVE template \in {"computer", "app", "npc"}
  <2>1. DOMAIN spec # {}
    BY <1>1
  <2> QED
    BY <1>5, <2>1 DEF Parses
<1> QED
  BY <1>1, <1>2, <1>3, <1>4, <1>5

OrderTypes == [template: STRING, name: Names \cup {Nil}, spec: Specs]

(* Whatever is ordered, build_template builds it whole or not at all.      *)
LEMMA Ordered ==
    ASSUME AbiInv, NEW order \in OrderTypes, order.name # Nil, NEW at \in Placements \cup {Nil}
    PROVE  LET r == BuildTemplate(order, at)
               parts == IF order.template = "computer" THEN Parts(order.spec) ELSE <<>>
               buses == IF order.template = "computer" THEN 1 ELSE 0
           IN  /\ Outcome(world, r)
               /\ r.ok => /\ r.world.net.parent[r.node] = (IF at = Nil THEN Nil ELSE at.parent)
                          /\ \E joined : /\ Whole(world, r.world, r.node, order.name, parts, buses, joined)
                                         /\ at # Nil /\ order.template # "app" => joined = {at.link} \ {Nil}
<1> DEFINE name == order.name
           spec == order.spec
           r == BuildTemplate(order, at)
<1>1. IsWorld(world) /\ Ipc \in Names
  BY WorldsTyped, SceneTyped DEF AbiInv
<1>2. name \in Names /\ spec \in Specs
  BY DEF OrderTypes
<1>3. Outcome(world, Failed(world)) /\ Failed(world).ok = FALSE
  <2>1. Failed(world) = [ok |-> FALSE, world |-> world, node |-> Nil]
    BY DEF Failed
  <2>2. Failed(world).ok = FALSE /\ Failed(world).world = world /\ Failed(world).node = Nil
    BY <2>1
  <2>3. OnlyIssued(world, world) /\ Alike(world, world)
    BY <1>1, NothingIssued DEF Alike
  <2> QED
    BY <1>1, <2>1, <2>2, <2>3 DEF Outcome
<1>4. CASE ~Parses(order.template, spec)
  <2>1. r = Failed(world)
    BY <1>4 DEF BuildTemplate
  <2> QED
    BY <1>3, <2>1 DEF r
<1>5. CASE Parses(order.template, spec) /\ order.template = "computer"
  <2> DEFINE b == BuildComputer(world, name, spec)
  <2>1. spec \in ComputerSpecs
    BY <1>2, <1>5, SpecsDiffer
  <2>2. /\ Outcome(world, b)
        /\ b.ok => Apart(world, b.world, b.node) /\ Whole(world, b.world, b.node, name, Parts(spec), 1, {})
    BY <1>1, <1>2, <2>1, ComputerBuilt
  <2>3. r = IF at = Nil THEN b ELSE BuiltAt(b, at)
    BY <1>5 DEF BuildTemplate, BuildComputerAt
  <2>4. CASE at = Nil
    <3>1. b.ok => b.world.net.parent[b.node] = Nil
      BY <2>2 DEF Apart
    <3> HIDE DEF b
    <3> QED
      BY <1>5, <2>2, <2>3, <2>4, <3>1 DEF r, name, spec
  <2>5. CASE at # Nil
    <3> HIDE DEF b
    <3>1. at \in Placements
      BY <2>5
    <3> DEFINE q == BuiltAt(b, at)
    <3>2. /\ Outcome(world, q)
          /\ q.ok => /\ q.world.net.parent[q.node] = at.parent
                     /\ Whole(world, q.world, q.node, name, Parts(spec), 1, {at.link} \ {Nil})
      BY <1>1, <2>2, <3>1, BuiltAtOutcome
    <3>3. r = q
      BY <2>3, <2>5
    <3> HIDE DEF q
    <3> QED
      BY <1>5, <2>5, <3>2, <3>3 DEF r, name, spec
  <2> QED
    BY <2>4, <2>5
<1>6. CASE Parses(order.template, spec) /\ order.template = "npc"
  <2> DEFINE b == BuildNpc(world, name, spec)
  <2>1. spec \in NpcSpecs
    BY <1>2, <1>6, SpecsDiffer
  <2>2. /\ Outcome(world, b)
        /\ b.ok => Apart(world, b.world, b.node) /\ Whole(world, b.world, b.node, name, <<>>, 0, {})
    BY <1>1, <1>2, <2>1, NpcBuilt
  <2>3. r = IF at = Nil THEN b ELSE BuiltAt(b, at)
    BY <1>6 DEF BuildTemplate, BuildNpcAt
  <2>4. CASE at = Nil
    <3>1. b.ok => b.world.net.parent[b.node] = Nil
      BY <2>2 DEF Apart
    <3> HIDE DEF b
    <3> QED
      BY <1>6, <2>2, <2>3, <2>4, <3>1 DEF r, name, spec
  <2>5. CASE at # Nil
    <3> HIDE DEF b
    <3>1. at \in Placements
      BY <2>5
    <3> DEFINE q == BuiltAt(b, at)
    <3>2. /\ Outcome(world, q)
          /\ q.ok => /\ q.world.net.parent[q.node] = at.parent
                     /\ Whole(world, q.world, q.node, name, <<>>, 0, {at.link} \ {Nil})
      BY <1>1, <2>2, <3>1, BuiltAtOutcome
    <3>3. r = q
      BY <2>3, <2>5
    <3> HIDE DEF q
    <3> QED
      BY <1>6, <2>5, <3>2, <3>3 DEF r, name, spec
  <2> QED
    BY <2>4, <2>5
<1>7. CASE Parses(order.template, spec) /\ order.template = "app"
  <2>1. CASE at = Nil
    <3>1. r = Failed(world)
      BY <1>7, <2>1 DEF BuildTemplate
    <3> QED
      BY <1>3, <3>1 DEF r
  <2>2. CASE at # Nil
    <3> DEFINE q == InstallApp(world, at.parent, spec.app, name)
    <3>1. at.parent \in NodeIds
      BY <2>2 DEF Placements
    <3>2. /\ Outcome(world, q)
          /\ q.ok => /\ q.world.net.parent[q.node] = at.parent
                     /\ \E joined : Whole(world, q.world, q.node, name, <<>>, 0, joined)
      BY <1>1, <1>2, <3>1, AppInstalled
    <3>3. r = q
      BY <1>7, <2>2 DEF BuildTemplate
    <3> HIDE DEF q
    <3> QED
      BY <1>7, <2>2, <3>2, <3>3 DEF r, name
  <2> QED
    BY <2>1, <2>2
<1>8. Parses(order.template, spec) => order.template \in {"computer", "app", "npc"}
  BY <1>2, SpecsDiffer
<1> QED
  BY <1>4, <1>5, <1>6, <1>7, <1>8

(* The links of what was built are the root's, and hence its bus.          *)
LEMMA BusIsNew ==
    ASSUME NEW w, IsWorld(w), NEW v, IsWorld(v), NEW root, Grown(w, v, root)
    PROVE  v.net.internal[root] = NewLinks(w, v)
<1>1. /\ root \in NewNodes(w, v) /\ NewNodes(w, v) \subseteq NodeIds
      /\ \A l \in NewLinks(w, v) : v.net.owner[l] = root
  BY DEF Grown, NewNodes, IsWorld, InOrder, NetworkType
<1>2. {l \in v.net.links : \E m \in NewNodes(w, v) : l \in v.net.internal[m]} = NewLinks(w, v)
  BY GrownSubtree
<1>3. \A l \in LinkIds : l \in v.net.internal[root] <=> v.net.owner[l] = root
  BY <1>1 DEF IsWorld, InOrder, Paired
<1>4. v.net.internal[root] \subseteq LinkIds /\ NewLinks(w, v) \subseteq LinkIds
  BY <1>1 DEF IsWorld, InOrder, NetworkType, NewLinks
<1>5. root # Nil
  BY <1>1, NetworkAssumption
<1>6. \A l \in v.net.internal[root] : l \in v.net.links
  BY <1>3, <1>4, <1>5 DEF IsWorld, InOrder, Resolved
<1> QED
  BY <1>1, <1>2, <1>3, <1>4, <1>6

(* Taking out again what was built leaves the world as it was to be seen,  *)
(* but for the link its parent had to take on.                             *)
LEMMA UndoneUnseen ==
    ASSUME NEW w \in Worlds, NEW v, IsWorld(v), NEW root, Grown(w, v, root)
    PROVE  Visible([Undone(w, v) EXCEPT !.net.owner = w.net.owner, !.net.internal = w.net.internal]) = Visible(w)
<1>1. IsWorld(w) /\ w.net \in NetworkType
  BY WorldsTyped DEF IsWorld, InOrder
<1> DEFINE s == [w.net EXCEPT !.issued = v.net.issued]
           x == [w EXCEPT !.net = s]
           y == [Undone(w, v) EXCEPT !.net.owner = w.net.owner, !.net.internal = w.net.internal]
<1>2. y = x
  <2>1. \A O, I : [[w.net EXCEPT !.issued = v.net.issued, !.owner = O, !.internal = I]
                     EXCEPT !.owner = w.net.owner, !.internal = w.net.internal] = s
    BY <1>1 DEF NetworkType
  <2>2. \A t : [[w EXCEPT !.net = t] EXCEPT !.net.owner = w.net.owner, !.net.internal = w.net.internal]
               = [w EXCEPT !.net = [t EXCEPT !.owner = w.net.owner, !.internal = w.net.internal]]
    BY DEF Worlds
  <2> QED
    BY <2>1, <2>2, ZenonT(60) DEF Undone
<1> HIDE DEF y
<1>3. s.issued = v.net.issued
  BY <1>1 DEF NetworkType
<1> HIDE DEF s
<1>4. x.net = s
  BY <1>1, WithNet
<1>5. w.net.issued \subseteq v.net.issued /\ v.net.issued \in SUBSET (NodeIds \cup LinkIds)
  BY DEF Grown, IsWorld, InOrder, NetworkType
<1>6. OnlyIssued(w, x)
  BY <1>3, <1>4, <1>5 DEF OnlyIssued, s
<1> HIDE DEF x
<1>7. IsWorld(x) /\ Alike(w, x)
  BY <1>1, <1>3, <1>4, <1>5, <1>6, OnlyIssuedIsWorld
<1>8. x \in Worlds
  BY <1>7, LikeWorlds
<1> QED
  BY <1>2, <1>6, <1>8, IssuedUnseen DEF y

LEMMA WholeIsBuilt ==
    ASSUME AbiInv, NEW order, NEW at, NEW root, NEW joined, IsWorld(world'), Grown(world, world', root),
           world'.net.parent[root] = (IF at = Nil THEN Nil ELSE at.parent),
           Whole(world, world', root, order.name,
                 IF order.template = "computer" THEN Parts(order.spec) ELSE <<>>,
                 IF order.template = "computer" THEN 1 ELSE 0, joined),
           at # Nil /\ order.template # "app" => joined = {at.link} \ {Nil}
    PROVE  BuiltAsOrdered(root, order, at)
<1> DEFINE new == world'.net.nodes \ world.net.nodes
           bus == world'.net.internal[root]
           parts == IF order.template = "computer" THEN Parts(order.spec) ELSE <<>>
<1>1. world \in Worlds /\ IsWorld(world)
  BY WorldsTyped DEF AbiInv
<1>2. RemoveWithLogic(world', root).world = Undone(world, world')
  BY <1>1, RemovalUndoes
<1>3. Visible([RemoveWithLogic(world', root).world
                 EXCEPT !.net.owner = world.net.owner, !.net.internal = world.net.internal]) = Visible(world)
  BY <1>1, <1>2, UndoneUnseen
<1>4. new = NewNodes(world, world') /\ new = Subtree(world'.net, root)
  BY <1>1, GrownSubtree DEF NewNodes
<1>5. bus = NewLinks(world, world')
  BY <1>1, BusIsNew
<1>6. /\ world'.net.name[root] = order.name /\ world'.net.subscriptions[root] = joined
      /\ Cardinality(new \ {root}) = Len(parts)
      /\ \A i \in DOMAIN parts : \E n \in new \ {root} :
            /\ world'.net.name[n] = parts[i].name
            /\ world'.logics[n] = parts[i].logic
            /\ world'.net.subscriptions[n] = bus
      /\ Cardinality(bus) = (IF order.template = "computer" THEN 1 ELSE 0)
      /\ world'.logics[root] # NoLogic
  <2> HIDE DEF bus, new
  <2> QED
    BY <1>4, <1>5 DEF Whole
<1> QED
  BY <1>3, <1>4, <1>6 DEF BuiltAsOrdered

(* A build.                                                                *)
BuildStepOk ==
    AbiInv' /\ NoTrace /\ (wrote'.what = "built" => BuiltAsOrdered(wrote'.root, wrote'.order, wrote'.at))

LEMMA BuildOk ==
    ASSUME AbiInv, NEW at \in Placements \cup {Nil}, TemplateBuild(at)
    PROVE  BuildStepOk
<1>1. PICK order \in scene.orders, out \in Pointer :
        IF ~out \/ order.name = Nil THEN Fail
        ELSE Answer(BuildTemplate(order, at),
                    [what |-> "built", order |-> order, at |-> at, root |-> BuildTemplate(order, at).node])
  BY DEF TemplateBuild
<1>2. order \in OrderTypes
  BY SceneTyped DEF OrderTypes
<1>3. CASE ~out \/ order.name = Nil
  BY <1>1, <1>3, FailOk DEF StepOk, BuildStepOk
<1>4. CASE ~(~out \/ order.name = Nil)
  <2> DEFINE r == BuildTemplate(order, at)
             parts == IF order.template = "computer" THEN Parts(order.spec) ELSE <<>>
             buses == IF order.template = "computer" THEN 1 ELSE 0
             told == [what |-> "built", order |-> order, at |-> at, root |-> r.node]
  <2>1. /\ Outcome(world, r)
        /\ r.ok => /\ r.world.net.parent[r.node] = (IF at = Nil THEN Nil ELSE at.parent)
                   /\ \E joined : /\ Whole(world, r.world, r.node, order.name, parts, buses, joined)
                                  /\ at # Nil /\ order.template # "app" => joined = {at.link} \ {Nil}
    BY <1>2, <1>4, Ordered
  <2>2. Answer(r, told)
    BY <1>1, <1>4
  <2> HIDE DEF r, parts, buses
  <2>3. world \in Worlds /\ r.world \in Worlds /\ IsWorld(r.world)
    BY <2>1, LikeWorlds DEF AbiInv, Outcome
  <2>4. CASE r.ok
    <3>1. world' = r.world /\ wrote' = told /\ status' = "Ok" /\ UNCHANGED <<scene, held>>
      BY <2>2, <2>4 DEF Answer, Succeed
    <3>2. AbiInv' /\ NoTrace
      BY <2>3, <3>1 DEF AbiInv, NoTrace
    <3>3. PICK joined : /\ Whole(world, r.world, r.node, order.name, parts, buses, joined)
                        /\ at # Nil /\ order.template # "app" => joined = {at.link} \ {Nil}
      BY <2>1, <2>4
    <3>4. Grown(world, r.world, r.node)
      BY <2>1, <2>4 DEF Outcome
    <3>5. BuiltAsOrdered(r.node, order, at)
      BY <2>1, <2>3, <2>4, <3>1, <3>3, <3>4, WholeIsBuilt DEF parts, buses
    <3>6. wrote'.root = r.node /\ wrote'.order = order /\ wrote'.at = at
      BY <3>1
    <3> QED
      BY <3>2, <3>5, <3>6 DEF BuildStepOk
  <2>5. CASE ~r.ok
    <3>1. /\ world' = r.world /\ wrote' = Nothing /\ UNCHANGED <<scene, held>>
      BY <2>2, <2>5 DEF Answer
    <3>2. Visible(r.world) = Visible(world)
      BY <2>1, <2>3, <2>5, IssuedUnseen DEF Outcome
    <3> QED
      BY <2>3, <3>1, <3>2 DEF BuildStepOk, AbiInv, NoTrace, Nothing
  <2> QED
    BY <2>4, <2>5
<1> QED
  BY <1>3, <1>4

LEMMA BuildsOk ==
    ASSUME AbiInv, TemplateBuildDetached \/ TemplateBuildAt
    PROVE  BuildStepOk
<1>1. CASE TemplateBuildDetached
  BY <1>1, BuildOk DEF TemplateBuildDetached
<1>2. CASE TemplateBuildAt
  <2>1. PICK p \in scene.nodes, l \in scene.links \cup {Nil} : TemplateBuild([parent |-> p, link |-> l])
    BY <1>2 DEF TemplateBuildAt
  <2>2. [parent |-> p, link |-> l] \in Placements
    BY SceneTyped DEF Placements
  <2> QED
    BY <2>1, <2>2, BuildOk
<1> QED
  BY <1>1, <1>2

-----------------------------------------------------------------------------
(* Limits, logics, hosts                                                   *)

LEMMA LimitOk ==
    ASSUME AbiInv, SetLimits
    PROVE  StepOk
<1>1. PICK new \in scene.limits :
        Succeed([world EXCEPT !.limits = [transmissions |-> Pick(new.transmissions, @.transmissions),
                                          pending |-> Pick(new.pending, @.pending)]], Nothing)
  BY DEF SetLimits
<1> DEFINE limits == [transmissions |-> Pick(new.transmissions, world.limits.transmissions),
                      pending |-> Pick(new.pending, world.limits.pending)]
           w == [world EXCEPT !.limits = limits]
<1>2. limits \in Limits
  BY SceneTyped DEF AbiInv, Worlds, Limits, Pick
<1>3. Succeed(w, Nothing)
  BY <1>1
<1> HIDE DEF limits
<1>4. /\ w \in [net: NetworkType, logics: [NodeIds -> Logics], hosts: SUBSET NodeIds,
                pending: Seq(Packets), inbox: Seq(Copies), limits: Limits, tick: Nat,
                tripped: BOOLEAN, refused: BOOLEAN, panicked: {FALSE}]
      /\ w.net = world.net /\ w.logics = world.logics /\ w.hosts = world.hosts
  BY <1>2 DEF AbiInv, Worlds
<1> HIDE DEF w
<1>5. InOrder(world.net) /\ Vacant(world)
  BY DEF AbiInv, Worlds
<1>6. w \in Worlds
  BY <1>4, <1>5 DEF Worlds, Vacant
<1> QED
  BY <1>3, <1>6, SucceedOk

LEMMA LogicOk ==
    ASSUME AbiInv, SetLogicCall
    PROVE  StepOk
<1>1. PICK n \in scene.nodes, kind \in scene.kinds \cup {"unknown", Nil} :
        IF kind \in {"unknown", Nil} THEN Fail
         ELSE Answer(SetLogic(world, n, IF kind = "npc" THEN NewNpc(scene.npc) ELSE Kind(kind)), Nothing)
  BY DEF SetLogicCall
<1> DEFINE logic == IF kind = "npc" THEN NewNpc(scene.npc) ELSE Kind(kind)
           r == SetLogic(world, n, logic)
<1>2. CASE kind \in {"unknown", Nil}
  BY <1>1, <1>2, FailOk
<1>3. CASE kind \notin {"unknown", Nil}
  <2>1. Answer(r, Nothing)
    BY <1>1, <1>3
  <2>2. logic \in Logics
    <3>1. kind \in LogicKinds \cup {"npc"}
      BY <1>3, SceneTyped
    <3> QED
      BY <3>1, SceneTyped, KindsAreLogics, NewNpcIsLogic
  <2> HIDE DEF logic
  <2>3. IsWorld(world)
    BY WorldsTyped DEF AbiInv
  <2>4. CASE n \in world.net.nodes
    <3> DEFINE v == WithLogic(world, n, logic)
    <3>1. r = [ok |-> TRUE, world |-> v, node |-> n]
      BY <2>4 DEF SetLogic, Built, WithLogic
    <3> HIDE DEF v
    <3>2. IsWorld(v) /\ Alike(world, v)
      BY <2>2, <2>3, <2>4, LogicSet DEF v
    <3>3. Kept(world, r)
      BY <3>1, <3>2 DEF Kept
    <3> QED
      BY <2>1, <3>3, KeptOk DEF r
  <2>5. CASE n \notin world.net.nodes
    <3>1. r.ok = FALSE /\ r.world = world
      BY <2>5 DEF SetLogic, Failed
    <3>2. Alike(world, world)
      BY DEF Alike
    <3>3. Kept(world, r)
      BY <2>3, <3>1, <3>2 DEF Kept
    <3> QED
      BY <2>1, <3>3, KeptOk DEF r
  <2> QED
    BY <2>4, <2>5
<1> QED
  BY <1>2, <1>3

LEMMA HostOk ==
    ASSUME AbiInv, SetHost
    PROVE  StepOk
<1>1. PICK n \in scene.nodes, host \in BOOLEAN :
        IF n \notin world.net.nodes THEN Fail
        ELSE Succeed([world EXCEPT !.hosts = IF host THEN @ \cup {n} ELSE @ \ {n},
                                   !.logics[n] = IF host THEN NoLogic ELSE @], Nothing)
  BY DEF SetHost
<1>2. CASE n \notin world.net.nodes
  BY <1>1, <1>2, FailOk
<1>3. CASE n \in world.net.nodes
  <2> DEFINE hosts == IF host THEN world.hosts \cup {n} ELSE world.hosts \ {n}
             logics == [world.logics EXCEPT ![n] = IF host THEN NoLogic ELSE @]
             w == [world EXCEPT !.hosts = hosts, !.logics = logics]
  <2>1. Succeed(w, Nothing)
    BY <1>1, <1>3
  <2>2. n \in NodeIds
    BY SceneTyped
  <2>3. NoLogic \in Logics
    <3>1. "none" \in LogicKinds
      BY DEF LogicKinds
    <3> QED
      BY <3>1, KindsAreLogics DEF NoLogic
  <2>4. world.logics \in [NodeIds -> Logics] /\ world.hosts \subseteq world.net.nodes
        /\ world.net \in NetworkType
    BY DEF AbiInv, Worlds, Vacant
  <2>5. logics \in [NodeIds -> Logics] /\ hosts \subseteq world.net.nodes /\ hosts \in SUBSET NodeIds
    BY <1>3, <2>2, <2>3, <2>4 DEF NetworkType
  <2>6. \A m \in NodeIds \ world.net.nodes : logics[m] = world.logics[m]
    BY <1>3, <2>4
  <2> HIDE DEF hosts, logics
  <2>7. /\ w \in [net: NetworkType, logics: [NodeIds -> Logics], hosts: SUBSET NodeIds,
                  pending: Seq(Packets), inbox: Seq(Copies), limits: Limits, tick: Nat,
                  tripped: BOOLEAN, refused: BOOLEAN, panicked: {FALSE}]
        /\ w.net = world.net /\ w.logics = logics /\ w.hosts = hosts
    BY <2>5 DEF AbiInv, Worlds
  <2> HIDE DEF w
  <2>8. InOrder(world.net) /\ Vacant(world)
    BY DEF AbiInv, Worlds
  <2>9. w \in Worlds
    BY <2>5, <2>6, <2>7, <2>8 DEF Worlds, Vacant
  <2> QED
    BY <2>1, <2>9, SucceedOk
<1> QED
  BY <1>2, <1>3

-----------------------------------------------------------------------------
(* Traffic                                                                 *)

(* A world whose queues and flags alone were touched.                      *)
Carries(w, v) == v.net = w.net /\ v.logics = w.logics /\ v.hosts = w.hosts /\ v.limits = w.limits

LEMMA Queued ==
    ASSUME NEW w \in Worlds, NEW pending \in Seq(Packets), NEW inbox \in Seq(Copies),
           NEW tick \in Nat, NEW tripped \in BOOLEAN, NEW refused \in BOOLEAN
    PROVE  LET v == [w EXCEPT !.pending = pending, !.inbox = inbox, !.tick = tick,
                              !.tripped = tripped, !.refused = refused]
           IN  v \in Worlds /\ Carries(w, v)
<1> DEFINE v == [w EXCEPT !.pending = pending, !.inbox = inbox, !.tick = tick,
                          !.tripped = tripped, !.refused = refused]
<1>1. /\ v \in [net: NetworkType, logics: [NodeIds -> Logics], hosts: SUBSET NodeIds,
                pending: Seq(Packets), inbox: Seq(Copies), limits: Limits, tick: Nat,
                tripped: BOOLEAN, refused: BOOLEAN, panicked: {FALSE}]
      /\ v.net = w.net /\ v.logics = w.logics /\ v.hosts = w.hosts /\ v.limits = w.limits
  BY DEF Worlds
<1> HIDE DEF v
<1>2. InOrder(w.net) /\ Vacant(w)
  BY DEF Worlds
<1>3. v \in Worlds /\ Carries(w, v)
  BY <1>1, <1>2 DEF Worlds, Vacant, Carries
<1> QED
  BY <1>3 DEF v

(* SendQueue::push takes a packet or is full, and then only notes that.    *)
LEMMA Pushed ==
    ASSUME NEW w \in Worlds, NEW packet \in Packets
    PROVE  LET r == Push(w, packet)
           IN  /\ r.ok \in BOOLEAN /\ r.world \in Worlds /\ Carries(w, r.world)
               /\ r.ok \/ Visible(r.world) = Visible(w)
<1> DEFINE r == Push(w, packet)
           full == [w EXCEPT !.refused = TRUE]
           taken == [w EXCEPT !.pending = Append(w.pending, packet)]
<1>1. w.pending \in Seq(Packets) /\ w.inbox \in Seq(Copies) /\ w.tick \in Nat
      /\ w.tripped \in BOOLEAN /\ w.refused \in BOOLEAN
  BY DEF Worlds
<1>2. Append(w.pending, packet) \in Seq(Packets)
  BY <1>1
<1>3. full \in Worlds /\ Carries(w, full)
  <2>1. full = [w EXCEPT !.pending = w.pending, !.inbox = w.inbox, !.tick = w.tick,
                         !.tripped = w.tripped, !.refused = TRUE]
    BY DEF Worlds
  <2> HIDE DEF full
  <2> QED
    BY <1>1, <2>1, Queued
<1>4. taken \in Worlds /\ Carries(w, taken)
  <2>1. ASSUME NEW p \in Seq(Packets)
        PROVE  [w EXCEPT !.pending = p] \in Worlds /\ Carries(w, [w EXCEPT !.pending = p])
    <3> DEFINE v == [w EXCEPT !.pending = p]
    <3>1. v = [w EXCEPT !.pending = p, !.inbox = w.inbox, !.tick = w.tick,
                        !.tripped = w.tripped, !.refused = w.refused]
      BY DEF Worlds
    <3> HIDE DEF v
    <3>2. v \in Worlds /\ Carries(w, v)
      BY <1>1, <3>1, Queued, ZenonT(60)
    <3> QED
      BY <3>2 DEF v
  <2> QED
    BY <1>2, <2>1
<1>5. Visible(full) = Visible(w)
  BY DEF Visible, Worlds
<1>6. Carries(w, w)
  BY DEF Carries
<1>7. \/ r = [ok |-> FALSE, world |-> w, node |-> Nil]
      \/ r = [ok |-> FALSE, world |-> full, node |-> Nil]
      \/ r = [ok |-> TRUE, world |-> taken, node |-> Nil]
  BY DEF Push, Failed, Built
<1> HIDE DEF full, taken, r
<1>8. /\ r.ok \in BOOLEAN /\ r.world \in Worlds /\ Carries(w, r.world)
      /\ r.ok \/ Visible(r.world) = Visible(w)
  <2>1. CASE r = [ok |-> FALSE, world |-> w, node |-> Nil]
    BY <1>6, <2>1
  <2>2. CASE r = [ok |-> FALSE, world |-> full, node |-> Nil]
    BY <1>3, <1>5, <2>2
  <2>3. CASE r = [ok |-> TRUE, world |-> taken, node |-> Nil]
    BY <1>4, <2>3
  <2> QED
    BY <1>7, <2>1, <2>2, <2>3
<1> QED
  BY <1>8 DEF r

LEMMA SendOk ==
    ASSUME AbiInv, SendCall \/ HostSend
    PROVE  StepOk
<1>1. ASSUME NEW packet \in Packets, Answer(Push(world, packet), Nothing)
      PROVE  StepOk
  <2>1. world \in Worlds
    BY DEF AbiInv
  <2>2. Push(world, packet).world \in Worlds
        /\ (Push(world, packet).ok \/ Visible(Push(world, packet).world) = Visible(world))
    BY <2>1, Pushed
  <2> QED
    BY <1>1, <2>2, AnswerOk
<1>2. CASE SendCall
  <2>1. PICK n \in scene.senders, l \in scene.links, good \in BOOLEAN :
          IF ~good \/ n \notin world.net.nodes \/ ~CanUseLink(world.net, n, l) THEN Fail
          ELSE Answer(Push(world, Packet(n, l, DefaultTtl, 0)), Nothing)
    BY <1>2 DEF SendCall
  <2>2. Packet(n, l, DefaultTtl, 0) \in Packets
    BY SceneTyped DEF Packet, Packets
  <2> QED
    BY <1>1, <2>1, <2>2, FailOk
<1>3. CASE HostSend
  <2>1. PICK n \in scene.senders, l \in scene.links, p \in Outgoing, good \in BOOLEAN :
          IF ~good THEN Fail ELSE Answer(Push(world, Packet(n, l, Budget(p.ttl), p.hops)), Nothing)
    BY <1>3 DEF HostSend
  <2>2. Packet(n, l, Budget(p.ttl), p.hops) \in Packets
    BY SceneTyped DEF AbiInv, Packet, Packets, Outgoing, Copies, Budget
  <2> QED
    BY <1>1, <2>1, <2>2, FailOk
<1> QED
  BY <1>2, <1>3

LEMMA PushOk ==
    ASSUME AbiInv, HostPush
    PROVE  StepOk
<1>1. PICK n \in scene.senders, p \in Outgoing, good \in Pointer, out \in Pointer :
        LET left == Budget(p.ttl) - 1
        IN  IF ~good \/ ~out \/ n \notin world.net.nodes THEN Fail
            ELSE /\ status' = "Ok" /\ wrote' = Value
                 /\ held' = held \cup (IF left = 0 THEN {} ELSE {[ttl |-> left, hops |-> p.hops + 1]})
                 /\ UNCHANGED <<scene, world>>
  BY DEF HostPush
<1> DEFINE left == Budget(p.ttl) - 1
           copy == [ttl |-> left, hops |-> p.hops + 1]
<1>2. left = 0 \/ copy \in Copies
  BY SceneTyped DEF AbiInv, Outgoing, Copies, Budget
<1>3. CASE ~good \/ ~out \/ n \notin world.net.nodes
  BY <1>1, <1>3, FailOk
<1>4. CASE ~(~good \/ ~out \/ n \notin world.net.nodes)
  <2>1. /\ status' = "Ok" /\ wrote' = Value
        /\ held' = held \cup (IF left = 0 THEN {} ELSE {copy})
        /\ UNCHANGED <<scene, world>>
    BY <1>1, <1>4
  <2> HIDE DEF left, copy
  <2> QED
    BY <1>2, <2>1 DEF AbiInv, StepOk, NoTrace, Value
<1> QED
  BY <1>3, <1>4

LEMMA DrainOk ==
    ASSUME AbiInv, DrainHostDeliveries
    PROVE  StepOk
<1>1. PICK out \in Pointer : Drain(out)
  BY DEF DrainHostDeliveries
<1>2. CASE ~out
  BY <1>1, <1>2, FailOk DEF Drain
<1>3. CASE out
  <2> DEFINE w == [world EXCEPT !.inbox = <<>>]
  <2>1. /\ world' = w /\ held' = held \cup Range(world.inbox)
        /\ status' = "Ok" /\ wrote' = Value /\ UNCHANGED scene
    BY <1>1, <1>3 DEF Drain
  <2>2. w \in Worlds
    <3>1. /\ world \in Worlds /\ world.pending \in Seq(Packets) /\ world.tick \in Nat
          /\ world.tripped \in BOOLEAN /\ world.refused \in BOOLEAN
      BY DEF AbiInv, Worlds
    <3>2. w = [world EXCEPT !.pending = world.pending, !.inbox = <<>>, !.tick = world.tick,
                            !.tripped = world.tripped, !.refused = world.refused]
      BY <3>1 DEF Worlds
    <3>3. <<>> \in Seq(Copies)
      OBVIOUS
    <3> HIDE DEF w
    <3> QED
      BY <3>1, <3>2, <3>3, Queued
  <2>3. Range(world.inbox) \subseteq Copies
    BY DEF AbiInv, Worlds, Range
  <2> HIDE DEF w
  <2> QED
    BY <2>1, <2>2, <2>3 DEF AbiInv, StepOk, NoTrace, Value
<1> QED
  BY <1>2, <1>3

-----------------------------------------------------------------------------
(* The tick                                                                *)

(* An NPC with a schedule it can follow: something has always begun.       *)
LEMMA GoalBegun ==
    ASSUME NEW npc \in NpcLogics, NEW tick \in Nat
    PROVE  /\ GoalAt(npc, tick) \in Nat \ {0}
           /\ ~TickPanics(npc) /\ ~TalkPanics(npc)
<1> DEFINE schedule == npc.spec.schedule
           time == tick % npc.spec.day
           begun == {i \in DOMAIN schedule : schedule[i] <= time}
<1>1. /\ schedule \in Seq(Nat) /\ npc.spec.day \in Nat /\ npc.spec.lines \in Nat
      /\ npc.spec.day > 0 /\ npc.spec.lines > 0 /\ schedule # <<>> /\ schedule[1] = 0
  BY DEF NpcLogics, NpcSpecs, ValidNpc
<1>2. DOMAIN schedule = 1..Len(schedule) /\ Len(schedule) \in Nat /\ 1 \in DOMAIN schedule
  BY <1>1, LenProperties, EmptySeq
<1>3. time \in Nat
  BY <1>1
<1> HIDE DEF schedule, time
<1>4. 1 \in begun /\ begun \in SUBSET (1..Len(schedule))
  BY <1>1, <1>2, <1>3
<1>5. PICK i \in begun : \A j \in begun : i >= j
  BY <1>2, <1>4, LargestIndex
<1>6. i \in begun /\ \A j \in begun : j <= i
  BY <1>4, <1>5
<1> DEFINE last == CHOOSE k \in begun : \A j \in begun : j <= k
<1>7. last \in begun
  BY <1>6
<1>8. GoalAt(npc, tick) = IF begun = {} THEN npc.goal ELSE last
  BY DEF GoalAt, schedule, time
<1> HIDE DEF last, begun
<1>9. GoalAt(npc, tick) \in 1..Len(schedule)
  BY <1>4, <1>7, <1>8
<1> QED
  BY <1>1, <1>2, <1>9 DEF TickPanics, TalkPanics

(* What an NPC announces.                                                  *)
LEMMA Announced ==
    ASSUME NEW w \in Worlds, NEW n \in NodeIds, NEW links \in Seq(LinkIds), DefaultTtl \in Nat \ {0}
    PROVE  Announce(w, n, links) \in Worlds /\ Carries(w, Announce(w, n, links))
<1> DEFINE S == DOMAIN links
           V == {v \in Worlds : Carries(w, v)}
           Op(v, l) == Push(v, Packet(n, l, DefaultTtl, 0)).world
           step == [c \in S \X V |-> Op(c[2], links[c[1]])]
           Fold(g) == [s \in SUBSET S |-> IF s = {} THEN w ELSE Op(g[s \ {LastOf(s)}], links[LastOf(s)])]
           fold == CHOOSE g : g = Fold(g)
<1>1. Announce(w, n, links) = fold[S]
  BY DEF Announce, FoldLeft, MapThenFoldSet, Max, LastOf
<1>2. S = 1..Len(links) /\ Len(links) \in Nat
  BY LenProperties
<1>3. ASSUME NEW x \in S, NEW v \in V PROVE step[<<x, v>>] = Op(v, links[x]) /\ step[<<x, v>>] \in V
  <2>1. links[x] \in LinkIds
    BY ElementOfSeq, LenProperties
  <2>2. step[<<x, v>>] = Op(v, links[x])
    OBVIOUS
  <2>3. Packet(n, links[x], DefaultTtl, 0) \in Packets
    BY <2>1 DEF Packet, Packets
  <2>4. Op(v, links[x]) \in Worlds /\ Carries(v, Op(v, links[x]))
    BY <2>3, Pushed
  <2>5. Carries(w, Op(v, links[x]))
    BY <2>4 DEF Carries
  <2> HIDE DEF step, Op
  <2> QED
    BY <2>2, <2>4, <2>5
<1>4. w \in V
  BY DEF Carries
<1> HIDE DEF V, step
<1>5. Loop(Len(links), S, V, w, step)
  BY <1>2, <1>3, <1>4 DEF Loop
<1>6. PICK g \in [SUBSET S -> V] : LoopValues(S, w, step, g)
  BY <1>5, LoopExists
<1>7. \A s \in SUBSET S : s # {} => LastOf(s) \in s
  BY <1>2, LastIndex DEF LastOf
<1> HIDE DEF S, Op
<1>8. g = Fold(g)
  <2>1. \A s \in SUBSET S : g[s] = Fold(g)[s]
    <3> TAKE s \in SUBSET S
    <3>1. CASE s = {}
      BY <1>6, <3>1 DEF LoopValues
    <3>2. CASE s # {}
      <4>1. LastOf(s) \in S /\ g[s \ {LastOf(s)}] \in V
        BY <1>6, <1>7, <3>2
      <4> QED
        BY <1>3, <1>6, <3>2, <4>1 DEF LoopValues
    <3> QED
      BY <3>1, <3>2
  <2> QED
    BY <1>6, <2>1
<1>9. fold = Fold(fold)
  BY <1>8
<1> HIDE DEF fold
<1>10. LoopWithin(S, V, w, step, fold)
  <2>1. fold[{}] = w
    BY <1>9
  <2>2. \A s \in SUBSET S : s # {} /\ fold[s \ {LastOf(s)}] \in V =>
           fold[s] = step[<<LastOf(s), fold[s \ {LastOf(s)}]>>]
    <3> TAKE s \in SUBSET S
    <3> SUFFICES ASSUME s # {}, fold[s \ {LastOf(s)}] \in V
                 PROVE  fold[s] = step[<<LastOf(s), fold[s \ {LastOf(s)}]>>]
      OBVIOUS
    <3>1. fold[s] = Op(fold[s \ {LastOf(s)}], links[LastOf(s)])
      BY <1>9
    <3>2. LastOf(s) \in S
      BY <1>7
    <3> QED
      BY <1>3, <3>1, <3>2
  <2> QED
    BY <2>1, <2>2 DEF LoopWithin
<1>11. fold[S] \in V
  BY <1>5, <1>10, LoopStays
<1> QED
  BY <1>1, <1>11 DEF V

(* What a tick may do to the world as far as NPCs are concerned.           *)
Turned(w, v) == v.net = w.net /\ \A m \in NodeIds : v.logics[m].kind = w.logics[m].kind

LEMMA NpcsTyped ==
    ASSUME NEW w \in Worlds, NEW n \in NodeIds, w.logics[n].kind = "npc"
    PROVE  w.logics[n] \in NpcLogics /\ n \in w.net.nodes
<1>1. w.logics[n] \in [kind: LogicKinds] \cup NpcLogics
  BY DEF Worlds, Logics
<1>2. "npc" \notin LogicKinds
  BY DEF LogicKinds
<1>3. w.logics[n] \in NpcLogics
  BY <1>1, <1>2
<1>4. NoLogic.kind = "none"
  BY DEF NoLogic, Kind
<1>5. w.logics[n] # NoLogic
  BY <1>4
<1>6. Vacant(w)
  BY DEF Worlds
<1> QED
  BY <1>3, <1>5, <1>6 DEF Vacant

LEMMA Ticked ==
    ASSUME NEW w \in Worlds, NEW n \in NodeIds, w.logics[n].kind = "npc", NEW tick \in Nat,
           DefaultTtl \in Nat \ {0}, IsFiniteSet(LinkIds)
    PROVE  OnTick(w, n, tick) \in Worlds /\ Turned(w, OnTick(w, n, tick))
<1> DEFINE npc == w.logics[n]
           goal == GoalAt(npc, tick)
           logic == [npc EXCEPT !.goal = goal]
           x == [w EXCEPT !.logics[n].goal = goal]
           links == SetToSeq(w.net.subscriptions[n])
           v == Announce(x, n, links)
<1>1. npc \in NpcLogics /\ n \in w.net.nodes
  BY NpcsTyped
<1>2. goal \in Nat /\ ~TickPanics(npc)
  BY <1>1, GoalBegun
<1>3. OnTick(w, n, tick) = IF goal = npc.goal THEN w ELSE v
  BY <1>2 DEF OnTick
<1> HIDE DEF goal
<1>4. logic \in NpcLogics /\ logic.kind = npc.kind
  BY <1>1, <1>2 DEF NpcLogics
<1>5. logic \in Logics
  BY <1>4 DEF Logics
<1>6. x = WithLogic(w, n, logic)
  BY DEF Worlds, WithLogic
<1> HIDE DEF npc, logic, x
<1>7. IsWorld(w)
  BY WorldsTyped
<1>8. /\ IsWorld(x) /\ Alike(w, x) /\ x.net = w.net
      /\ \A m \in NodeIds : x.logics[m] = IF m = n THEN logic ELSE w.logics[m]
  BY <1>1, <1>5, <1>6, <1>7, LogicSet
<1>9. x \in Worlds
  BY <1>8, LikeWorlds
<1>10. Turned(w, x)
  BY <1>4, <1>8 DEF Turned, npc
<1>11. links \in Seq(LinkIds)
  <2>1. w.net.subscriptions[n] \subseteq LinkIds
    BY DEF Worlds, NetworkType
  <2>2. IsFiniteSet(w.net.subscriptions[n])
    BY <2>1, FS_Subset
  <2>3. links \in Seq(w.net.subscriptions[n])
    BY <2>2, Enumerated
  <2> HIDE DEF links
  <2> QED
    BY <2>1, <2>3
<1> HIDE DEF links
<1>12. v \in Worlds /\ Carries(x, v)
  BY <1>9, <1>11, Announced
<1>13. Turned(w, v)
  BY <1>10, <1>12 DEF Turned, Carries
<1>14. Turned(w, w)
  BY DEF Turned
<1> HIDE DEF v
<1> QED
  BY <1>3, <1>12, <1>13, <1>14

(* The NPCs' turns.                                                        *)
LEMMA EachTicked ==
    ASSUME NEW w \in Worlds, NEW tick \in Nat, NEW npcs \in Seq({n \in NodeIds : w.logics[n].kind = "npc"}),
           DefaultTtl \in Nat \ {0}, IsFiniteSet(LinkIds)
    PROVE  TickEach(w, tick, npcs) \in Worlds /\ Turned(w, TickEach(w, tick, npcs))
<1> DEFINE S == DOMAIN npcs
           V == {v \in Worlds : Turned(w, v)}
           Op(v, n) == OnTick(v, n, tick)
           step == [c \in S \X V |-> Op(c[2], npcs[c[1]])]
           Fold(g) == [s \in SUBSET S |-> IF s = {} THEN w ELSE Op(g[s \ {LastOf(s)}], npcs[LastOf(s)])]
           fold == CHOOSE g : g = Fold(g)
<1>1. TickEach(w, tick, npcs) = fold[S]
  BY DEF TickEach, FoldLeft, MapThenFoldSet, Max, LastOf
<1>2. S = 1..Len(npcs) /\ Len(npcs) \in Nat
  BY LenProperties
<1>3. ASSUME NEW x \in S, NEW v \in V PROVE step[<<x, v>>] = Op(v, npcs[x]) /\ step[<<x, v>>] \in V
  <2>1. npcs[x] \in NodeIds /\ w.logics[npcs[x]].kind = "npc"
    BY ElementOfSeq, LenProperties
  <2>2. step[<<x, v>>] = Op(v, npcs[x])
    OBVIOUS
  <2>3. v.logics[npcs[x]].kind = "npc"
    BY <2>1 DEF Turned
  <2>4. Op(v, npcs[x]) \in Worlds /\ Turned(v, Op(v, npcs[x]))
    BY <2>1, <2>3, Ticked
  <2>5. Turned(w, Op(v, npcs[x]))
    BY <2>4 DEF Turned
  <2> HIDE DEF step, Op
  <2> QED
    BY <2>2, <2>4, <2>5
<1>4. w \in V
  BY DEF Turned
<1> HIDE DEF V, step
<1>5. Loop(Len(npcs), S, V, w, step)
  BY <1>2, <1>3, <1>4 DEF Loop
<1>6. PICK g \in [SUBSET S -> V] : LoopValues(S, w, step, g)
  BY <1>5, LoopExists
<1>7. \A s \in SUBSET S : s # {} => LastOf(s) \in s
  BY <1>2, LastIndex DEF LastOf
<1> HIDE DEF S, Op
<1>8. g = Fold(g)
  <2>1. \A s \in SUBSET S : g[s] = Fold(g)[s]
    <3> TAKE s \in SUBSET S
    <3>1. CASE s = {}
      BY <1>6, <3>1 DEF LoopValues
    <3>2. CASE s # {}
      <4>1. LastOf(s) \in S /\ g[s \ {LastOf(s)}] \in V
        BY <1>6, <1>7, <3>2
      <4> QED
        BY <1>3, <1>6, <3>2, <4>1 DEF LoopValues
    <3> QED
      BY <3>1, <3>2
  <2> QED
    BY <1>6, <2>1
<1>9. fold = Fold(fold)
  BY <1>8
<1> HIDE DEF fold
<1>10. LoopWithin(S, V, w, step, fold)
  <2>1. fold[{}] = w
    BY <1>9
  <2>2. \A s \in SUBSET S : s # {} /\ fold[s \ {LastOf(s)}] \in V =>
           fold[s] = step[<<LastOf(s), fold[s \ {LastOf(s)}]>>]
    <3> TAKE s \in SUBSET S
    <3> SUFFICES ASSUME s # {}, fold[s \ {LastOf(s)}] \in V
                 PROVE  fold[s] = step[<<LastOf(s), fold[s \ {LastOf(s)}]>>]
      OBVIOUS
    <3>1. fold[s] = Op(fold[s \ {LastOf(s)}], npcs[LastOf(s)])
      BY <1>9
    <3>2. LastOf(s) \in S
      BY <1>7
    <3> QED
      BY <1>3, <3>1, <3>2
  <2> QED
    BY <2>1, <2>2 DEF LoopWithin
<1>11. fold[S] \in V
  BY <1>5, <1>10, LoopStays
<1> QED
  BY <1>1, <1>11 DEF V

(* A copy handed to a host has something left.                             *)
LEMMA Handed ==
    ASSUME NEW w \in Worlds, NEW packet \in Packets, InboxLimit \in Nat \ {0}, DefaultTtl \in Nat
    PROVE  HandToHost(w, packet) \in Worlds /\ Carries(w, HandToHost(w, packet))
<1> DEFINE copy == [ttl |-> packet.ttl - 1, hops |-> packet.hops + 1]
           room == IF Len(w.inbox) >= InboxLimit THEN Tail(w.inbox) ELSE w.inbox
           inbox == Append(room, copy)
           v == [w EXCEPT !.inbox = inbox]
<1>1. HandToHost(w, packet) = IF Arrives(packet) THEN v ELSE w
  BY DEF HandToHost
<1>2. CASE Arrives(packet)
  <2>1. copy \in Copies
    BY <1>2 DEF Packets, Copies, Arrives
  <2>2. w.inbox \in Seq(Copies)
    BY WorldsTyped
  <2>3. Len(w.inbox) >= InboxLimit => w.inbox # <<>>
    BY <2>2, LenProperties
  <2>4. room \in Seq(Copies)
    BY <2>2, <2>3, HeadTailProperties
  <2> HIDE DEF copy, room
  <2>5. inbox \in Seq(Copies)
    BY <2>1, <2>4, AppendProperties
  <2> HIDE DEF inbox
  <2>6. /\ w.pending \in Seq(Packets) /\ w.tick \in Nat
        /\ w.tripped \in BOOLEAN /\ w.refused \in BOOLEAN
    BY DEF Worlds
  <2>7. v = [w EXCEPT !.pending = w.pending, !.inbox = inbox, !.tick = w.tick,
                      !.tripped = w.tripped, !.refused = w.refused]
    BY <2>6 DEF Worlds
  <2> HIDE DEF v
  <2>8. v \in Worlds /\ Carries(w, v)
    BY <2>5, <2>6, <2>7, Queued, ZenonT(60)
  <2> QED
    BY <1>1, <1>2, <2>8
<1>3. CASE ~Arrives(packet)
  BY <1>1, <1>3 DEF Carries
<1> QED
  BY <1>2, <1>3

LEMMA EachHanded ==
    ASSUME NEW w \in Worlds, NEW packet \in Packets, NEW hosts \in Seq(NodeIds),
           InboxLimit \in Nat \ {0}, DefaultTtl \in Nat
    PROVE  HandToHosts(w, packet, hosts) \in Worlds
<1> DEFINE S == DOMAIN hosts
           V == Worlds
           Op(v, n) == HandToHost(v, packet)
           step == [c \in S \X V |-> Op(c[2], hosts[c[1]])]
           Fold(g) == [s \in SUBSET S |-> IF s = {} THEN w ELSE Op(g[s \ {LastOf(s)}], hosts[LastOf(s)])]
           fold == CHOOSE g : g = Fold(g)
<1>1. HandToHosts(w, packet, hosts) = fold[S]
  BY DEF HandToHosts, FoldLeft, MapThenFoldSet, Max, LastOf
<1>2. S = 1..Len(hosts) /\ Len(hosts) \in Nat
  BY LenProperties
<1>3. ASSUME NEW x \in S, NEW v \in V PROVE step[<<x, v>>] = Op(v, hosts[x]) /\ step[<<x, v>>] \in V
  <2>1. step[<<x, v>>] = Op(v, hosts[x])
    OBVIOUS
  <2>2. Op(v, hosts[x]) \in Worlds
    BY Handed
  <2> HIDE DEF step, Op
  <2> QED
    BY <2>1, <2>2
<1>4. w \in V
  OBVIOUS
<1> HIDE DEF V, step
<1>5. Loop(Len(hosts), S, V, w, step)
  BY <1>2, <1>3, <1>4 DEF Loop
<1>6. PICK g \in [SUBSET S -> V] : LoopValues(S, w, step, g)
  BY <1>5, LoopExists
<1>7. \A s \in SUBSET S : s # {} => LastOf(s) \in s
  BY <1>2, LastIndex DEF LastOf
<1> HIDE DEF S, Op
<1>8. g = Fold(g)
  <2>1. \A s \in SUBSET S : g[s] = Fold(g)[s]
    <3> TAKE s \in SUBSET S
    <3>1. CASE s = {}
      BY <1>6, <3>1 DEF LoopValues
    <3>2. CASE s # {}
      <4>1. LastOf(s) \in S /\ g[s \ {LastOf(s)}] \in V
        BY <1>6, <1>7, <3>2
      <4> QED
        BY <1>3, <1>6, <3>2, <4>1 DEF LoopValues
    <3> QED
      BY <3>1, <3>2
  <2> QED
    BY <1>6, <2>1
<1>9. fold = Fold(fold)
  BY <1>8
<1> HIDE DEF fold
<1>10. LoopWithin(S, V, w, step, fold)
  <2>1. fold[{}] = w
    BY <1>9
  <2>2. \A s \in SUBSET S : s # {} /\ fold[s \ {LastOf(s)}] \in V =>
           fold[s] = step[<<LastOf(s), fold[s \ {LastOf(s)}]>>]
    <3> TAKE s \in SUBSET S
    <3> SUFFICES ASSUME s # {}, fold[s \ {LastOf(s)}] \in V
                 PROVE  fold[s] = step[<<LastOf(s), fold[s \ {LastOf(s)}]>>]
      OBVIOUS
    <3>1. fold[s] = Op(fold[s \ {LastOf(s)}], hosts[LastOf(s)])
      BY <1>9
    <3>2. LastOf(s) \in S
      BY <1>7
    <3> QED
      BY <1>3, <3>1, <3>2
  <2> QED
    BY <2>1, <2>2 DEF LoopWithin
<1>11. fold[S] \in V
  BY <1>5, <1>10, LoopStays
<1> QED
  BY <1>1, <1>11 DEF V

(* A packet that goes out: whoever may be talked to has something to say.  *)
LEMMA Transmitted ==
    ASSUME NEW w \in Worlds, NEW packet \in Packets, InboxLimit \in Nat \ {0}, DefaultTtl \in Nat,
           IsFiniteSet(NodeIds)
    PROVE  Transmit(w, packet) \in Worlds
<1> DEFINE hosts == (w.net.subscribers[packet.link] \cap w.hosts) \ {packet.sender, Root}
           talked == {n \in Audience(w.net, packet.link) \ {packet.sender, Root} :
                         w.logics[n].kind = "npc" /\ TalkPanics(w.logics[n])}
           x == [w EXCEPT !.logics = [n \in NodeIds |-> IF n \in talked THEN NoLogic ELSE @[n]],
                          !.panicked = @ \/ talked # {}]
<1>1. Transmit(w, packet) = IF ~Sendable(w, packet) THEN w ELSE HandToHosts(x, packet, SetToSeq(hosts))
  BY DEF Transmit
<1>2. talked = {}
  <2>1. packet.link \in LinkIds
    BY DEF Packets
  <2>2. Audience(w.net, packet.link) \subseteq NodeIds
    BY <2>1 DEF Audience, Worlds, NetworkType
  <2>3. ASSUME NEW n \in talked PROVE FALSE
    <3>1. w.logics[n] \in NpcLogics
      BY <2>2, <2>3, NpcsTyped
    <3> QED
      BY <2>3, <3>1, GoalBegun
  <2> QED
    BY <2>3
<1> HIDE DEF talked
<1>3. x = w
  <2> DEFINE g == [n \in NodeIds |-> IF n \in talked THEN NoLogic ELSE w.logics[n]]
  <2>1. g = w.logics
    BY <1>2 DEF Worlds
  <2>2. (w.panicked \/ talked # {}) = w.panicked
    BY <1>2 DEF Worlds
  <2> HIDE DEF g
  <2>3. x = [w EXCEPT !.logics = g, !.panicked = w.panicked \/ talked # {}]
    BY DEF g
  <2>4. [w EXCEPT !.logics = w.logics, !.panicked = w.panicked] = w
    BY DEF Worlds
  <2> QED
    BY <2>1, <2>2, <2>3, <2>4
<1>4. SetToSeq(hosts) \in Seq(NodeIds)
  <2>1. hosts \subseteq NodeIds
    BY DEF Worlds
  <2>2. IsFiniteSet(hosts)
    BY <2>1, FS_Subset
  <2> HIDE DEF hosts
  <2>3. SetToSeq(hosts) \in Seq(hosts)
    BY <2>2, Enumerated
  <2> QED
    BY <2>1, <2>3
<1> HIDE DEF x, hosts
<1> QED
  BY <1>1, <1>3, <1>4, EachHanded

LEMMA AllTransmitted ==
    ASSUME NEW w \in Worlds, NEW packets \in Seq(Packets), InboxLimit \in Nat \ {0}, DefaultTtl \in Nat,
           IsFiniteSet(NodeIds)
    PROVE  TransmitAll(w, packets) \in Worlds
<1> DEFINE S == DOMAIN packets
           V == Worlds
           Op(v, packet) == Transmit(v, packet)
           step == [c \in S \X V |-> Op(c[2], packets[c[1]])]
           Fold(g) == [s \in SUBSET S |-> IF s = {} THEN w ELSE Op(g[s \ {LastOf(s)}], packets[LastOf(s)])]
           fold == CHOOSE g : g = Fold(g)
<1>1. TransmitAll(w, packets) = fold[S]
  BY DEF TransmitAll, FoldLeft, MapThenFoldSet, Max, LastOf
<1>2. S = 1..Len(packets) /\ Len(packets) \in Nat
  BY LenProperties
<1>3. ASSUME NEW x \in S, NEW v \in V PROVE step[<<x, v>>] = Op(v, packets[x]) /\ step[<<x, v>>] \in V
  <2>1. packets[x] \in Packets
    BY ElementOfSeq, LenProperties
  <2>2. step[<<x, v>>] = Op(v, packets[x])
    OBVIOUS
  <2>3. Op(v, packets[x]) \in Worlds
    BY <2>1, Transmitted
  <2> HIDE DEF step, Op
  <2> QED
    BY <2>2, <2>3
<1>4. w \in V
  OBVIOUS
<1> HIDE DEF V, step
<1>5. Loop(Len(packets), S, V, w, step)
  BY <1>2, <1>3, <1>4 DEF Loop
<1>6. PICK g \in [SUBSET S -> V] : LoopValues(S, w, step, g)
  BY <1>5, LoopExists
<1>7. \A s \in SUBSET S : s # {} => LastOf(s) \in s
  BY <1>2, LastIndex DEF LastOf
<1> HIDE DEF S, Op
<1>8. g = Fold(g)
  <2>1. \A s \in SUBSET S : g[s] = Fold(g)[s]
    <3> TAKE s \in SUBSET S
    <3>1. CASE s = {}
      BY <1>6, <3>1 DEF LoopValues
    <3>2. CASE s # {}
      <4>1. LastOf(s) \in S /\ g[s \ {LastOf(s)}] \in V
        BY <1>6, <1>7, <3>2
      <4> QED
        BY <1>3, <1>6, <3>2, <4>1 DEF LoopValues
    <3> QED
      BY <3>1, <3>2
  <2> QED
    BY <1>6, <2>1
<1>9. fold = Fold(fold)
  BY <1>8
<1> HIDE DEF fold
<1>10. LoopWithin(S, V, w, step, fold)
  <2>1. fold[{}] = w
    BY <1>9
  <2>2. \A s \in SUBSET S : s # {} /\ fold[s \ {LastOf(s)}] \in V =>
           fold[s] = step[<<LastOf(s), fold[s \ {LastOf(s)}]>>]
    <3> TAKE s \in SUBSET S
    <3> SUFFICES ASSUME s # {}, fold[s \ {LastOf(s)}] \in V
                 PROVE  fold[s] = step[<<LastOf(s), fold[s \ {LastOf(s)}]>>]
      OBVIOUS
    <3>1. fold[s] = Op(fold[s \ {LastOf(s)}], packets[LastOf(s)])
      BY <1>9
    <3>2. LastOf(s) \in S
      BY <1>7
    <3> QED
      BY <1>3, <3>1, <3>2
  <2> QED
    BY <2>1, <2>2 DEF LoopWithin
<1>11. fold[S] \in V
  BY <1>5, <1>10, LoopStays
<1> QED
  BY <1>1, <1>11 DEF V

LEMMA TickOk ==
    ASSUME AbiInv, TickCall
    PROVE  StepOk
<1> DEFINE started == TickLogics(world.tick + 1)
           batch == started.pending
           rest(k) == SubSeq(batch, k + 1, Len(batch))
           first(k) == SubSeq(batch, 1, k)
           done(k) == TransmitAll([started EXCEPT !.pending = rest(k)], first(k))
           tripped(k) == rest(k) # <<>> \/ started.refused
<1>1. PICK k \in 0..Len(batch) :
        /\ world' = [done(k) EXCEPT !.tick = @ + 1, !.tripped = tripped(k), !.refused = FALSE]
        /\ status' = IF tripped(k) THEN "FuseTripped" ELSE "Ok"
        /\ wrote' = Nothing
        /\ UNCHANGED <<scene, held>>
  BY DEF TickCall
<1>2. world \in Worlds /\ world.tick + 1 \in Nat
  <2>1. world \in Worlds
    BY DEF AbiInv
  <2>2. world.tick \in Nat
    BY <2>1, WorldsTyped
  <2> QED
    BY <2>1, <2>2
<1>3. /\ IsFiniteSet(NodeIds) /\ IsFiniteSet(LinkIds)
      /\ DefaultTtl \in Nat \ {0} /\ InboxLimit \in Nat \ {0} /\ DefaultTtl \in Nat
  BY SceneTyped
<1>4. SetToSeq(Npcs) \in Seq({n \in NodeIds : world.logics[n].kind = "npc"})
  <2>1. Npcs = {n \in NodeIds : world.logics[n].kind = "npc"}
    BY DEF Npcs
  <2>2. IsFiniteSet(Npcs)
    BY <1>3, <2>1, FS_Subset
  <2> QED
    BY <2>1, <2>2, Enumerated
<1>5. started \in Worlds
  BY <1>2, <1>3, <1>4, EachTicked DEF TickLogics
<1> HIDE DEF started
<1>6. batch \in Seq(Packets)
  BY <1>5, WorldsTyped
<1> HIDE DEF batch
<1>7. rest(k) \in Seq(Packets) /\ first(k) \in Seq(Packets)
  BY <1>1, <1>6, SubSeqProperties
<1>8. tripped(k) \in BOOLEAN
  OBVIOUS
<1> DEFINE waiting == [started EXCEPT !.pending = rest(k)]
<1>9. waiting \in Worlds
  <2>1. /\ started.inbox \in Seq(Copies) /\ started.tick \in Nat
        /\ started.tripped \in BOOLEAN /\ started.refused \in BOOLEAN
    BY <1>5 DEF Worlds
  <2> HIDE DEF rest
  <2>2. waiting = [started EXCEPT !.pending = rest(k), !.inbox = started.inbox, !.tick = started.tick,
                                  !.tripped = started.tripped, !.refused = started.refused]
    BY <1>5, <2>1 DEF Worlds
  <2> HIDE DEF waiting
  <2> QED
    BY <1>5, <1>7, <2>1, <2>2, Queued
<1>10. done(k) = TransmitAll(waiting, first(k))
  OBVIOUS
<1> HIDE DEF rest, first, tripped, waiting, done
<1>11. done(k) \in Worlds
  BY <1>3, <1>7, <1>9, <1>10, AllTransmitted
<1> DEFINE d == done(k)
           next == [d EXCEPT !.tick = @ + 1, !.tripped = tripped(k), !.refused = FALSE]
<1>12. next \in Worlds
  <2>1. d \in Worlds
    BY <1>11
  <2> HIDE DEF d
  <2>2. d.pending \in Seq(Packets) /\ d.inbox \in Seq(Copies) /\ d.tick + 1 \in Nat
    BY <2>1 DEF Worlds
  <2>3. next = [d EXCEPT !.pending = d.pending, !.inbox = d.inbox, !.tick = d.tick + 1,
                         !.tripped = tripped(k), !.refused = FALSE]
    BY <2>1, <2>2 DEF Worlds
  <2> HIDE DEF next
  <2> QED
    BY <1>8, <2>1, <2>2, <2>3, Queued
<1>13. world' = next /\ status' # "Failed" /\ wrote' = Nothing /\ UNCHANGED <<scene, held>>
  BY <1>1
<1> HIDE DEF next
<1> QED
  BY <1>12, <1>13 DEF StepOk, AbiInv, NoTrace, Nothing

-----------------------------------------------------------------------------
(* The theorems                                                            *)

LEMMA AbiStart ==
    ASSUME Init
    PROVE  AbiInv
<1>1. scene \in Scenes /\ world = scene.world /\ held = {}
  BY DEF Init
<1> DEFINE net == world.net
           limits == world.limits
<1>2. /\ world = NewWorld(net, limits)
      /\ InOrder(net) /\ Vacant(world) /\ limits \in Limits
  BY <1>1, AbiAssumption
<1> HIDE DEF net, limits
<1>3. net \in NetworkType
  BY <1>2 DEF InOrder
<1>4. NoLogic \in Logics
  <2>1. "none" \in LogicKinds
    BY DEF LogicKinds
  <2> QED
    BY <2>1, KindsAreLogics DEF NoLogic
<1>5. NewWorld(net, limits) \in Worlds
  <2> DEFINE w == NewWorld(net, limits)
  <2>1. w \in [net: NetworkType, logics: [NodeIds -> Logics], hosts: SUBSET NodeIds,
               pending: Seq(Packets), inbox: Seq(Copies), limits: Limits, tick: Nat,
               tripped: BOOLEAN, refused: BOOLEAN, panicked: {FALSE}]
    BY <1>2, <1>3, <1>4 DEF NewWorld
  <2>2. w.net = net /\ Vacant(w)
    BY <1>2 DEF NewWorld
  <2> HIDE DEF w
  <2>3. w \in Worlds
    BY <1>2, <2>1, <2>2 DEF Worlds
  <2> QED
    BY <2>3 DEF w
<1> QED
  BY <1>1, <1>2, <1>5 DEF AbiInv

LEMMA AbiStep ==
    ASSUME AbiInv, [Next]_vars
    PROVE  /\ AbiInv'
           /\ UNCHANGED vars \/ BuildStepOk
<1>1. CASE UNCHANGED vars
  BY <1>1 DEF AbiInv, vars
<1>2. CASE StepOk
  BY <1>2 DEF StepOk, BuildStepOk
<1>3. CASE BuildStepOk
  BY <1>3 DEF BuildStepOk
<1>4. CASE Next
  <2>1. CASE CreateNodeCall
    BY <1>2, <2>1, CreateNodeOk
  <2>2. CASE CreateLinkCall
    BY <1>2, <2>2, CreateLinkOk
  <2>3. CASE AddInternalLinkCall \/ ConnectCall \/ SubscribeCall \/ UnsubscribeCall \/ DisconnectCall
    BY <1>2, <2>3, WireOk
  <2>4. CASE RemoveNodeCall \/ RemoveLinkCall
    BY <1>2, <2>4, RemoveOk
  <2>5. CASE Asks
    BY <1>2, <2>5, AskOk
  <2>6. CASE TemplateBuildDetached \/ TemplateBuildAt
    BY <1>3, <2>6, BuildsOk
  <2>7. CASE SetLimits
    BY <1>2, <2>7, LimitOk
  <2>8. CASE SetLogicCall
    BY <1>2, <2>8, LogicOk
  <2>9. CASE SetHost
    BY <1>2, <2>9, HostOk
  <2>10. CASE HostPush
    BY <1>2, <2>10, PushOk
  <2>11. CASE DrainHostDeliveries
    BY <1>2, <2>11, DrainOk
  <2>12. CASE SendCall \/ HostSend
    BY <1>2, <2>12, SendOk
  <2>13. CASE TickCall
    BY <1>2, <2>13, TickOk
  <2> QED
    BY <1>4, <2>1, <2>2, <2>3, <2>4, <2>5, <2>6, <2>7, <2>8, <2>9, <2>10, <2>11, <2>12, <2>13 DEF Next, Asks
<1> QED
  BY <1>1, <1>4

(* The world behind the ABI is one whatever is called: the network is in   *)
(* order, what does not resolve has no logic, every NPC has a schedule it  *)
(* can follow, and no packet has more than its budget.                     *)
THEOREM AbiInvariant == Spec => []AbiInv
<1>1. Init => AbiInv
  BY AbiStart
<1>2. AbiInv /\ [Next]_vars => AbiInv'
  BY AbiStep
<1> QED
  BY <1>1, <1>2, PTL DEF Spec

(* RelaysRunOut, for every Scenes and budget (lib.rs:1323, world.rs:779).  *)
THEOREM HostRelaysRunOut == Spec => []RelaysRunOut
<1>1. AbiInv => RelaysRunOut
  <2> SUFFICES ASSUME AbiInv, NEW p \in Range(world.pending) \cup Range(world.inbox) \cup held
               PROVE  p.hops + p.ttl <= DefaultTtl
    BY DEF RelaysRunOut
  <2>1. world.pending \in Seq(Packets) /\ world.inbox \in Seq(Copies) /\ held \subseteq Copies
    BY WorldsTyped DEF AbiInv
  <2>2. p \in Packets \cup Copies
    BY <2>1 DEF Range
  <2> QED
    BY <2>2 DEF Packets, Copies
<1> QED
  BY <1>1, AbiInvariant, PTL

(* NpcsKeepGoing, for every schedule ValidNpc lets through (npc.rs:54).    *)
THEOREM NpcsAlwaysKeepGoing == Spec => []NpcsKeepGoing
<1>1. AbiInv => NpcsKeepGoing
  <2> SUFFICES ASSUME AbiInv PROVE NpcsKeepGoing
    OBVIOUS
  <2>1. world \in Worlds /\ world.panicked = FALSE /\ world.tick \in Nat
    BY WorldsTyped DEF AbiInv
  <2>2. ASSUME NEW n \in Npcs PROVE GoalAt(world.logics[n], world.tick) # 0
    <3>1. world.logics[n] \in NpcLogics
      BY <2>1, <2>2, NpcsTyped DEF Npcs
    <3> QED
      BY <2>1, <3>1, GoalBegun
  <2> QED
    BY <2>1, <2>2 DEF NpcsKeepGoing
<1> QED
  BY <1>1, AbiInvariant, PTL

(* A call that fails leaves no trace (lib.rs:15), whatever it had done by  *)
(* then.                                                                   *)
THEOREM FailuresChangeNothing == Spec => FailureChangesNothing
<1>1. AbiInv /\ [Next]_vars =>
        [status' = "Failed" => Visible(world') = Visible(world) /\ held' = held /\ wrote' = Nothing]_vars
  BY AbiStep DEF BuildStepOk, NoTrace
<1> QED
  BY <1>1, AbiInvariant, PTL DEF Spec, FailureChangesNothing

(* What a build that succeeds has built is what was ordered, all of it,    *)
(* and could be taken out again (computer.rs:224).                         *)
THEOREM BuildsAreWhole == Spec => BuiltWhole
<1>1. AbiInv /\ [Next]_vars =>
        [wrote' # wrote /\ wrote'.what = "built" => BuiltAsOrdered(wrote'.root, wrote'.order, wrote'.at)]_vars
  BY AbiStep DEF BuildStepOk
<1> QED
  BY <1>1, AbiInvariant, PTL DEF Spec, BuiltWhole

-----------------------------------------------------------------------------
(* The sandbox's worlds: every link is some node's own *)

OwnedLinks(s) == \A l \in s.links : s.owner[l] # Nil

Tidy(w) == IsWorld(w) /\ OwnedLinks(w.net)

(* The answers of the Builder's operations on a world.                     *)
Results(w) ==
    {a \in Answers(w) : /\ IsWorld(a.world) /\ Alike(w, a.world)
                        /\ a.ok => OwnedLinks(a.world.net)}

LEMMA ResultsTyped ==
    ASSUME NEW w, IsWorld(w), NEW r \in Results(w)
    PROVE  /\ r.ok \in BOOLEAN /\ r = [ok |-> r.ok, world |-> r.world, node |-> r.node]
           /\ r.node \in NodeIds \cup LinkIds \cup {Nil}
           /\ IsWorld(r.world) /\ Alike(w, r.world) /\ (r.ok => Tidy(r.world))
  BY DEF Results, Answers, Tidy

LEMMA IsResult ==
    ASSUME NEW w, IsWorld(w), NEW ok \in BOOLEAN, NEW v, NEW n \in NodeIds \cup LinkIds \cup {Nil},
           IsWorld(v), Alike(w, v), ok => OwnedLinks(v.net)
    PROVE  [ok |-> ok, world |-> v, node |-> n] \in Results(w)
<1>1. v \in Like(w)
  BY AlikeIsLike
<1> QED
  BY <1>1 DEF Results, Answers

LEMMA LaterResults ==
    ASSUME NEW w, IsWorld(w), NEW v, IsWorld(v), Alike(w, v), NEW r \in Results(v)
    PROVE  r \in Results(w)
<1>1. /\ r.ok \in BOOLEAN /\ r = [ok |-> r.ok, world |-> r.world, node |-> r.node]
      /\ r.node \in NodeIds \cup LinkIds \cup {Nil}
      /\ IsWorld(r.world) /\ Alike(v, r.world) /\ (r.ok => OwnedLinks(r.world.net))
  BY ResultsTyped DEF Tidy
<1>2. Alike(w, r.world)
  BY <1>1, AlikeTransitive
<1>3. [ok |-> r.ok, world |-> r.world, node |-> r.node] \in Results(w)
  BY <1>1, <1>2, IsResult
<1> QED
  BY <1>1, <1>3

LEMMA OtherNode ==
    ASSUME NEW w, IsWorld(w), NEW r \in Results(w), NEW n \in NodeIds \cup LinkIds \cup {Nil}
    PROVE  [r EXCEPT !.node = n] \in Results(w)
<1>1. /\ r.ok \in BOOLEAN /\ r = [ok |-> r.ok, world |-> r.world, node |-> r.node]
      /\ IsWorld(r.world) /\ Alike(w, r.world) /\ (r.ok => OwnedLinks(r.world.net))
  BY ResultsTyped DEF Tidy
<1>2. [r EXCEPT !.node = n] = [ok |-> r.ok, world |-> r.world, node |-> n]
  BY <1>1
<1> QED
  BY <1>1, <1>2, IsResult

(* An operation that was turned down has changed nothing.                  *)
LEMMA TurnedDown ==
    ASSUME NEW w, Tidy(w)
    PROVE  /\ InNetwork(w, Rejected(w.net)) = Failed(w)
           /\ Failed(w) \in Results(w)
<1>1. [w EXCEPT !.net = w.net] = w
  BY DEF Tidy, IsWorld
<1>2. Alike(w, w)
  BY DEF Alike
<1>3. [ok |-> FALSE, world |-> w, node |-> Nil] \in Results(w)
  BY <1>2, IsResult DEF Tidy
<1> QED
  BY <1>1, <1>3 DEF InNetwork, Rejected, Failed

LEMMA ConnectedResult ==
    ASSUME NEW w, Tidy(w), NEW p, NEW n, NEW l
    PROVE  LET r == ConnectNode(w, p, n, l)
           IN  /\ r \in Results(w)
               /\ r.ok => /\ p \in w.net.nodes /\ n \in w.net.nodes /\ l \in LinkIds \cup {Nil}
                          /\ Connected(w.net, r.world.net, p, n, l)
                          /\ r.world.logics = w.logics /\ r.world.hosts = w.hosts
<1> DEFINE r == ConnectNode(w, p, n, l)
<1>1. IsWorld(w) /\ w.net \in NetworkType /\ InOrder(w.net)
  BY DEF Tidy, IsWorld, InOrder
<1>2. CASE CanConnect(w.net, p, n, l)
  <2>1. p \in w.net.nodes /\ n \in w.net.nodes /\ p \in NodeIds /\ n \in NodeIds /\ l \in LinkIds \cup {Nil}
    BY <1>1, <1>2 DEF CanConnect, CanConnectLink, CanAddInternalLink, NetworkType
  <2>2. /\ r = [ok |-> CanConnect(w.net, p, n, l), world |-> r.world, node |-> Nil]
        /\ IsWorld(r.world) /\ Alike(w, r.world) /\ r.world.net = Connect(w.net, p, n, l).net
        /\ r.world.logics = w.logics /\ r.world.hosts = w.hosts
    BY <1>1, <2>1, ConnectedIsWorld DEF ConnectNode
  <2>3. Connected(w.net, r.world.net, p, n, l)
    BY <1>1, <1>2, <2>1, <2>2, ConnectMakes
  <2> HIDE DEF r
  <2>4. r = [ok |-> TRUE, world |-> r.world, node |-> Nil]
    BY <1>2, <2>2
  <2>5. OwnedLinks(r.world.net)
    <3>1. w.net.links \subseteq LinkIds /\ p # Nil
      BY <1>1, <2>1, NetworkAssumption DEF NetworkType
    <3> QED
      BY <2>3, <3>1 DEF Connected, SameThings, Tidy, OwnedLinks
  <2>6. [ok |-> TRUE, world |-> r.world, node |-> Nil] \in Results(w)
    BY <1>1, <2>2, <2>5, IsResult
  <2> QED
    BY <2>1, <2>2, <2>3, <2>4, <2>6 DEF r
<1>3. CASE ~CanConnect(w.net, p, n, l)
  <2>1. r = Failed(w)
    BY <1>3, TurnedDown DEF ConnectNode, Connect
  <2> QED
    BY <2>1, TurnedDown DEF Failed
<1> QED
  BY <1>2, <1>3

LEMMA SubscribedResult ==
    ASSUME NEW w, Tidy(w), NEW n, NEW l
    PROVE  SubscribeNode(w, n, l) \in Results(w)
<1> DEFINE r == SubscribeNode(w, n, l)
<1>1. IsWorld(w) /\ w.net \in NetworkType
  BY DEF Tidy, IsWorld, InOrder
<1>2. CASE CanSubscribe(w.net, n, l)
  <2>1. n \in NodeIds /\ l \in LinkIds
    BY <1>1, <1>2 DEF CanSubscribe, NetworkType
  <2>2. /\ Kept(w, r) /\ r.world.net \in {w.net, WithSubscriber(w.net, n, l)}
    BY <1>1, <2>1, SubscribedInWorld DEF SubscribeNode
  <2>3. r = [ok |-> r.ok, world |-> r.world, node |-> Nil]
    BY DEF SubscribeNode, InNetwork
  <2> HIDE DEF r
  <2>4. OwnedLinks(WithSubscriber(w.net, n, l))
    BY <1>1, <2>1, SubscriberMakes DEF SameThings, Tidy, OwnedLinks
  <2>5. OwnedLinks(r.world.net)
    BY <2>2, <2>4 DEF Tidy
  <2>6. [ok |-> r.ok, world |-> r.world, node |-> Nil] \in Results(w)
    BY <1>1, <2>2, <2>5, IsResult DEF Kept
  <2> QED
    BY <2>3, <2>6 DEF r
<1>3. CASE ~CanSubscribe(w.net, n, l)
  BY <1>3, TurnedDown DEF SubscribeNode, Subscribe
<1> QED
  BY <1>2, <1>3

(* Joining one link after the other.                                       *)
LEMMA JoinedResult ==
    ASSUME NEW w, Tidy(w), NEW b \in Results(w), NEW node, NEW T, NEW links \in Seq(T)
    PROVE  Joined(b, node, links) \in Results(w)
<1> DEFINE S == DOMAIN links
           V == Results(w)
           Op(v, l) == (IF v.ok THEN SubscribeNode(v.world, node, l) ELSE v)
           step == [c \in S \X V |-> Op(c[2], links[c[1]])]
           Fold(g) == [s \in SUBSET S |-> IF s = {} THEN b ELSE Op(g[s \ {LastOf(s)}], links[LastOf(s)])]
           fold == CHOOSE g : g = Fold(g)
<1>1. Joined(b, node, links) = fold[S]
  BY DEF Joined, FoldLeft, MapThenFoldSet, Max, LastOf
<1>2. S = 1..Len(links) /\ Len(links) \in Nat
  BY LenProperties
<1>3. ASSUME NEW x \in S, NEW v \in V PROVE step[<<x, v>>] = Op(v, links[x]) /\ step[<<x, v>>] \in V
  <2>1. step[<<x, v>>] = Op(v, links[x])
    OBVIOUS
  <2>2. CASE v.ok
    <3>1. Tidy(v.world) /\ Alike(w, v.world)
      BY <2>2, ResultsTyped DEF Tidy
    <3>2. SubscribeNode(v.world, node, links[x]) \in Results(v.world)
      BY <3>1, SubscribedResult
    <3>3. SubscribeNode(v.world, node, links[x]) \in Results(w)
      BY <3>1, <3>2, LaterResults DEF Tidy
    <3> QED
      BY <2>1, <2>2, <3>3
  <2>3. CASE ~v.ok
    BY <2>1, <2>3
  <2> QED
    BY <2>2, <2>3
<1>4. b \in V
  OBVIOUS
<1> HIDE DEF V, step
<1>5. Loop(Len(links), S, V, b, step)
  BY <1>2, <1>3, <1>4 DEF Loop
<1>6. PICK g \in [SUBSET S -> V] : LoopValues(S, b, step, g)
  BY <1>5, LoopExists
<1>7. \A s \in SUBSET S : s # {} => LastOf(s) \in s
  BY <1>2, LastIndex DEF LastOf
<1> HIDE DEF S, Op
<1>8. g = Fold(g)
  <2>1. \A s \in SUBSET S : g[s] = Fold(g)[s]
    <3> TAKE s \in SUBSET S
    <3>1. CASE s = {}
      BY <1>6, <3>1 DEF LoopValues
    <3>2. CASE s # {}
      <4>1. LastOf(s) \in S /\ g[s \ {LastOf(s)}] \in V
        BY <1>6, <1>7, <3>2
      <4> QED
        BY <1>3, <1>6, <3>2, <4>1 DEF LoopValues
    <3> QED
      BY <3>1, <3>2
  <2> QED
    BY <1>6, <2>1
<1>9. fold = Fold(fold)
  BY <1>8
<1> HIDE DEF fold
<1>10. LoopWithin(S, V, b, step, fold)
  <2>1. fold[{}] = b
    BY <1>9
  <2>2. \A s \in SUBSET S : s # {} /\ fold[s \ {LastOf(s)}] \in V =>
           fold[s] = step[<<LastOf(s), fold[s \ {LastOf(s)}]>>]
    <3> TAKE s \in SUBSET S
    <3> SUFFICES ASSUME s # {}, fold[s \ {LastOf(s)}] \in V
                 PROVE  fold[s] = step[<<LastOf(s), fold[s \ {LastOf(s)}]>>]
      OBVIOUS
    <3>1. fold[s] = Op(fold[s \ {LastOf(s)}], links[LastOf(s)])
      BY <1>9
    <3>2. LastOf(s) \in S
      BY <1>7
    <3> QED
      BY <1>3, <3>1, <3>2
  <2> QED
    BY <2>1, <2>2 DEF LoopWithin
<1>11. fold[S] \in V
  BY <1>5, <1>10, LoopStays
<1> QED
  BY <1>1, <1>11 DEF V

LEMMA AttachedResult ==
    ASSUME NEW w, Tidy(w), NEW p, NEW node \in NodeIds, NEW T, NEW links \in Seq(T)
    PROVE  Attached(w, p, node, links) \in Results(w)
<1> DEFINE connected == ConnectNode(w, p, node, IF links = <<>> THEN Nil ELSE Head(links))
           rest == IF links = <<>> THEN <<>> ELSE Tail(links)
<1>1. connected \in Results(w)
  BY ConnectedResult
<1>2. rest \in Seq(T)
  BY HeadTailProperties
<1> HIDE DEF connected, rest
<1>3. Joined(connected, node, rest) \in Results(w)
  BY <1>1, <1>2, JoinedResult
<1>4. [Joined(connected, node, rest) EXCEPT !.node = node] \in Results(w)
  BY <1>3, OtherNode DEF Tidy
<1> QED
  BY <1>4 DEF Attached, connected, rest

LEMMA MadeNodeResult ==
    ASSUME NEW w, Tidy(w), NEW name \in Names
    PROVE  LET r == MakeNode(w, name)
           IN  /\ r \in Results(w) /\ (r.ok => Tidy(r.world) /\ r.node \in NodeIds)
<1> DEFINE r == MakeNode(w, name)
<1>1. /\ r.ok \in BOOLEAN /\ r = [ok |-> r.ok, world |-> r.world, node |-> r.node]
      /\ r.node \in NodeIds \cup {Nil}
      /\ ~r.ok => r.world = w
      /\ IsWorld(r.world) /\ Alike(w, r.world)
      /\ r.ok => r.node \in NodeIds /\ NodeAdded(w, r.world, r.node, name)
  BY MadeNode DEF Tidy
<1> HIDE DEF r
<1>2. ASSUME r.ok PROVE OwnedLinks(r.world.net)
  <2>1. w.net.links \subseteq LinkIds
    BY DEF Tidy, IsWorld, InOrder, NetworkType
  <2>2. r.world.net.links = w.net.links /\ Apart(w, r.world, r.node)
    BY <1>1, <1>2 DEF NodeAdded
  <2>3. \A l \in LinkIds : r.world.net.owner[l] = w.net.owner[l]
    BY <2>2 DEF Apart, NewLinks
  <2> QED
    BY <2>1, <2>2, <2>3 DEF Tidy, OwnedLinks
<1>3. r \in Results(w)
  <2>1. [ok |-> r.ok, world |-> r.world, node |-> r.node] \in Results(w)
    BY <1>1, <1>2, IsResult DEF Tidy
  <2> QED
    BY <1>1, <2>1
<1> QED
  BY <1>1, <1>2, <1>3 DEF r, Tidy

(* What was built by itself has links of its own only.                     *)
LEMMA BuiltIsTidy ==
    ASSUME NEW w, Tidy(w), NEW x, IsWorld(x), NEW root, Grown(w, x, root), Apart(w, x, root)
    PROVE  Tidy(x)
<1>1. x.net.links \subseteq LinkIds
  BY DEF IsWorld, InOrder, NetworkType
<1>2. root \in NodeIds
  BY DEF Grown, NewNodes, IsWorld, InOrder, NetworkType
<1>3. ASSUME NEW l \in x.net.links PROVE x.net.owner[l] # Nil
  <2>1. CASE l \in w.net.links
    BY <1>1, <2>1 DEF Apart, NewLinks, Tidy, OwnedLinks
  <2>2. CASE l \notin w.net.links
    <3>1. l \in NewLinks(w, x)
      BY <2>2 DEF NewLinks
    <3>2. x.net.owner[l] = root
      BY <3>1 DEF Grown
    <3> QED
      BY <1>2, <3>2, NetworkAssumption
  <2> QED
    BY <2>1, <2>2
<1> QED
  BY <1>3 DEF Tidy, OwnedLinks

LEMMA BuiltResult ==
    ASSUME NEW w, Tidy(w), NEW r, Outcome(w, r), r.ok => Apart(w, r.world, r.node),
           r.node \in NodeIds \cup {Nil}
    PROVE  r \in Results(w) /\ (r.ok => Tidy(r.world) /\ r.node \in NodeIds)
<1>1. r.ok => Tidy(r.world) /\ r.node \in NodeIds
  BY BuiltIsTidy DEF Outcome, Grown, NewNodes, IsWorld, InOrder, NetworkType
<1>2. r.node \in NodeIds \cup LinkIds \cup {Nil}
  BY <1>1
<1>3. [ok |-> r.ok, world |-> r.world, node |-> r.node] \in Results(w)
  BY <1>1, <1>2, IsResult DEF Outcome, Tidy
<1> QED
  BY <1>1, <1>3 DEF Outcome

LEMMA NodeOfBuild ==
    ASSUME NEW w, IsWorld(w), NEW name \in Names, NEW spec
    PROVE  /\ BuildComputer(w, name, spec).node \in NodeIds \cup {Nil}
           /\ BuildNpc(w, name, spec).node \in NodeIds \cup {Nil}
<1> DEFINE created == MakeNode(w, name)
<1>1. created.node \in NodeIds \cup {Nil}
  BY MadeNode
<1> HIDE DEF created
<1>2. \A f : OrRemove(f, created.node).node \in NodeIds \cup {Nil}
  BY <1>1 DEF OrRemove, Built, Failed
<1>3. Failed(w).node \in NodeIds \cup {Nil}
  BY DEF Failed
<1>4. BuildComputer(w, name, spec).node \in NodeIds \cup {Nil}
  <2>1. BuildComputer(w, name, spec) =
           IF ~ValidComputer(name, spec) THEN Failed(w)
           ELSE IF ~created.ok THEN created
           ELSE OrRemove(FillComputer(created.world, created.node, spec), created.node)
    BY DEF BuildComputer, created
  <2> QED
    BY <1>1, <1>2, <1>3, <2>1
<1>5. BuildNpc(w, name, spec).node \in NodeIds \cup {Nil}
  <2>1. BuildNpc(w, name, spec) =
           IF ~(ValidName(name) /\ ValidNpc(spec)) THEN Failed(w)
           ELSE IF ~created.ok THEN created
           ELSE OrRemove(SetLogic(created.world, created.node, NewNpc(spec)), created.node)
    BY DEF BuildNpc, created
  <2> QED
    BY <1>1, <1>2, <1>3, <2>1
<1> QED
  BY <1>4, <1>5

LEMMA TemplateResult ==
    ASSUME NEW w, Tidy(w), NEW name \in Names
    PROVE  /\ \A spec \in ComputerSpecs :
                 LET r == BuildComputer(w, name, spec)
                 IN  r \in Results(w) /\ (r.ok => Tidy(r.world) /\ r.node \in NodeIds)
           /\ \A spec \in NpcSpecs :
                 LET r == BuildNpc(w, name, spec)
                 IN  r \in Results(w) /\ (r.ok => Tidy(r.world) /\ r.node \in NodeIds)
<1>1. IsWorld(w) /\ Ipc \in Names
  BY SandboxAssumption DEF Tidy
<1>2. ASSUME NEW spec \in ComputerSpecs
      PROVE  LET r == BuildComputer(w, name, spec)
             IN  r \in Results(w) /\ (r.ok => Tidy(r.world) /\ r.node \in NodeIds)
  <2> DEFINE r == BuildComputer(w, name, spec)
  <2>1. Outcome(w, r) /\ (r.ok => Apart(w, r.world, r.node))
    BY <1>1, ComputerBuilt
  <2>2. r.node \in NodeIds \cup {Nil}
    BY <1>1, NodeOfBuild
  <2> HIDE DEF r
  <2> QED
    BY <2>1, <2>2, BuiltResult DEF r
<1>3. ASSUME NEW spec \in NpcSpecs
      PROVE  LET r == BuildNpc(w, name, spec)
             IN  r \in Results(w) /\ (r.ok => Tidy(r.world) /\ r.node \in NodeIds)
  <2> DEFINE r == BuildNpc(w, name, spec)
  <2>1. Outcome(w, r) /\ (r.ok => Apart(w, r.world, r.node))
    BY <1>1, NpcBuilt
  <2>2. r.node \in NodeIds \cup {Nil}
    BY <1>1, NodeOfBuild
  <2> HIDE DEF r
  <2> QED
    BY <2>1, <2>2, BuiltResult DEF r
<1> QED
  BY <1>2, <1>3

LEMMA SetLogicResult ==
    ASSUME NEW w, Tidy(w), NEW n \in NodeIds \cup LinkIds \cup {Nil}, NEW logic \in Logics
    PROVE  LET r == SetLogic(w, n, logic)
           IN  r \in Results(w) /\ (r.ok => r.world.net = w.net /\ Tidy(r.world))
<1>1. CASE n \in w.net.nodes
  <2> DEFINE v == WithLogic(w, n, logic)
  <2>1. IsWorld(v) /\ Alike(w, v) /\ v.net = w.net
    BY <1>1, LogicSet DEF Tidy
  <2>2. SetLogic(w, n, logic) = [ok |-> TRUE, world |-> v, node |-> n]
    BY <1>1 DEF SetLogic, Built, WithLogic
  <2> HIDE DEF v
  <2>3. OwnedLinks(v.net)
    BY <2>1 DEF Tidy
  <2>4. [ok |-> TRUE, world |-> v, node |-> n] \in Results(w)
    BY <2>1, <2>3, IsResult DEF Tidy
  <2> QED
    BY <2>1, <2>2, <2>3, <2>4 DEF Tidy
<1>2. CASE n \notin w.net.nodes
  <2>1. SetLogic(w, n, logic) = Failed(w)
    BY <1>2 DEF SetLogic
  <2> QED
    BY <2>1, TurnedDown DEF Failed
<1> QED
  BY <1>1, <1>2

LEMMA InternalLinkResult ==
    ASSUME NEW w, Tidy(w), NEW o, NEW name \in Names
    PROVE  InternalLink(w, o, name) \in Results(w)
<1> DEFINE made == MakeLink(w, name)
           v == made.world
           l == made.node
           r == OwnLink(v, o, l)
<1>1. /\ made.ok \in BOOLEAN /\ made = [ok |-> made.ok, world |-> v, node |-> l]
      /\ l \in LinkIds \cup {Nil}
      /\ ~made.ok => v = w
      /\ IsWorld(v) /\ Alike(w, v)
      /\ made.ok => l \in LinkIds \ w.net.issued /\ LinkAdded(w, v, l, name)
  BY MadeLink DEF Tidy
<1>2. InternalLink(w, o, name) = IF made.ok THEN [r EXCEPT !.node = l] ELSE made
  BY DEF InternalLink
<1> HIDE DEF made, v, l
<1>3. CASE ~made.ok
  <2>1. [ok |-> made.ok, world |-> v, node |-> l] \in Results(w)
    BY <1>1, <1>3, IsResult DEF Tidy
  <2> QED
    BY <1>1, <1>2, <1>3, <2>1
<1>4. CASE made.ok
  <2> DEFINE x == r.world
  <2>1. InOrder(v.net) /\ v.net \in NetworkType /\ v = [y \in DOMAIN v |-> v[y]] /\ "net" \in DOMAIN v
    BY <1>1 DEF IsWorld, InOrder
  <2>2. /\ r.ok \in BOOLEAN /\ IsWorld(x) /\ Alike(v, x) /\ (r.ok => OwnedLinks(x.net))
    <3>1. CASE CanAddInternalLink(v.net, o, l)
      <4>1. o \in NodeIds /\ l \in LinkIds
        BY <2>1, <3>1 DEF CanAddInternalLink, NetworkType
      <4>2. Kept(v, r) /\ x.net = WithOwner(v.net, o, l)
        BY <1>1, <3>1, <4>1, OwnedInWorld DEF OwnLink
      <4> HIDE DEF r
      <4>3. OwnedLinks(x.net)
        <5>1. /\ x.net.links = v.net.links
              /\ \A k \in LinkIds : x.net.owner[k] = IF k = l THEN o ELSE v.net.owner[k]
          BY <2>1, <4>1, <4>2, OwnerMakes DEF SameThings
        <5>2. v.net.links = w.net.links \cup {l} /\ v.net.owner = w.net.owner
          BY <1>1, <1>4 DEF LinkAdded
        <5>3. o # Nil /\ v.net.links \subseteq LinkIds
          BY <2>1, <4>1, NetworkAssumption DEF NetworkType
        <5> QED
          BY <5>1, <5>2, <5>3 DEF OwnedLinks, Tidy
      <4> QED
        BY <4>2, <4>3 DEF Kept
    <3>2. CASE ~CanAddInternalLink(v.net, o, l)
      <4>1. r.ok = FALSE /\ x = [v EXCEPT !.net = v.net]
        BY <3>2 DEF OwnLink, InNetwork, AddInternalLink, Rejected
      <4>2. x = v
        BY <2>1, <4>1
      <4> HIDE DEF r
      <4> QED
        BY <1>1, <4>1, <4>2 DEF Alike
    <3> QED
      BY <3>1, <3>2
  <2>3. [r EXCEPT !.node = l] = [ok |-> r.ok, world |-> x, node |-> l]
    BY DEF OwnLink, InNetwork
  <2> HIDE DEF r
  <2>4. Alike(w, x)
    BY <1>1, <2>2, AlikeTransitive
  <2>5. [ok |-> r.ok, world |-> x, node |-> l] \in Results(w)
    BY <1>1, <2>2, <2>4, IsResult DEF Tidy
  <2> QED
    BY <1>2, <1>4, <2>3, <2>5
<1> QED
  BY <1>3, <1>4

(* An operation on what another left behind.                               *)
LEMMA ThenResult ==
    ASSUME NEW w, Tidy(w), NEW r \in Results(w), NEW q, r.ok => q \in Results(r.world)
    PROVE  (IF r.ok THEN q ELSE r) \in Results(w)
<1>1. r.ok => IsWorld(r.world) /\ Alike(w, r.world)
  BY ResultsTyped DEF Tidy
<1> QED
  BY <1>1, LaterResults DEF Tidy

LEMMA BuilderResult ==
    ASSUME NEW w, Tidy(w), NEW p, NEW name \in Names, NEW T, NEW links \in Seq(T)
    PROVE  /\ \A kind \in LogicKinds : Device(w, p, name, links, kind) \in Results(w)
           /\ \A spec \in ComputerSpecs : Computer(w, p, name, links, spec) \in Results(w)
           /\ \A spec \in NpcSpecs : Npc(w, name, links, spec) \in Results(w)
<1>1. ASSUME NEW kind \in LogicKinds PROVE Device(w, p, name, links, kind) \in Results(w)
  <2> DEFINE made == MakeNode(w, name)
             attached == Attached(made.world, p, made.node, links)
             placed == NodeOn(w, p, name, links)
             set == SetLogic(placed.world, placed.node, Kind(kind))
  <2>1. made \in Results(w) /\ (made.ok => Tidy(made.world) /\ made.node \in NodeIds)
    BY MadeNodeResult
  <2>2. placed = IF made.ok THEN attached ELSE made
    BY DEF NodeOn
  <2>3. made.ok => attached \in Results(made.world)
    BY <2>1, AttachedResult
  <2> HIDE DEF made, attached, placed
  <2>4. placed \in Results(w)
    BY <2>1, <2>2, <2>3, ThenResult
  <2>5. placed.node \in NodeIds \cup LinkIds \cup {Nil} /\ (placed.ok => Tidy(placed.world))
    BY <2>4, ResultsTyped DEF Tidy
  <2>6. placed.ok => set \in Results(placed.world)
    BY <2>5, KindsAreLogics, SetLogicResult
  <2>7. Device(w, p, name, links, kind) = IF placed.ok THEN set ELSE placed
    BY DEF Device, placed
  <2> HIDE DEF set
  <2> QED
    BY <2>4, <2>6, <2>7, ThenResult
<1>2. ASSUME NEW spec \in ComputerSpecs PROVE Computer(w, p, name, links, spec) \in Results(w)
  <2> DEFINE built == BuildComputer(w, name, spec)
             attached == Attached(built.world, p, built.node, links)
  <2>1. built \in Results(w) /\ (built.ok => Tidy(built.world) /\ built.node \in NodeIds)
    BY TemplateResult
  <2>2. Computer(w, p, name, links, spec) = IF built.ok THEN attached ELSE built
    BY DEF Computer
  <2>3. built.ok => attached \in Results(built.world)
    BY <2>1, AttachedResult
  <2> HIDE DEF built, attached
  <2> QED
    BY <2>1, <2>2, <2>3, ThenResult
<1>3. ASSUME NEW spec \in NpcSpecs PROVE Npc(w, name, links, spec) \in Results(w)
  <2> DEFINE built == BuildNpc(w, name, spec)
             attached == Attached(built.world, Root, built.node, links)
  <2>1. built \in Results(w) /\ (built.ok => Tidy(built.world) /\ built.node \in NodeIds)
    BY TemplateResult
  <2>2. Npc(w, name, links, spec) = IF built.ok THEN attached ELSE built
    BY DEF Npc
  <2>3. built.ok => attached \in Results(built.world)
    BY <2>1, AttachedResult
  <2> HIDE DEF built, attached
  <2> QED
    BY <2>1, <2>2, <2>3, ThenResult
<1> QED
  BY <1>1, <1>2, <1>3

-----------------------------------------------------------------------------
(* Plans *)

LEMMA CallResult ==
    ASSUME NEW w, Tidy(w), NEW b \in Results(w), NEW call \in BuilderCalls
    PROVE  Call(b, call) \in Results(w)
<1> DEFINE v == b.world
           at == NodeCalled(v, call.at)
           links == [i \in DOMAIN call.links |-> LinkCalled(v, at, call.links[i])]
           T == {LinkCalled(v, at, call.links[i]) : i \in DOMAIN call.links}
<1>1. CASE ~b.ok
  BY <1>1 DEF Call
<1>2. CASE b.ok
  <2>1. Tidy(v) /\ IsWorld(v) /\ Alike(w, v)
    BY <1>2, ResultsTyped DEF Tidy
  <2>2. call.name \in Names /\ call.links \in Seq(Names)
    BY DEF BuilderCalls
  <2>3. links \in Seq(T)
    <3>1. DOMAIN call.links = 1..Len(call.links) /\ Len(call.links) \in Nat
      BY <2>2, LenProperties
    <3>2. links \in [1..Len(call.links) -> T]
      BY <3>1
    <3> HIDE DEF links, T
    <3> QED
      BY <3>1, <3>2
  <2>4. /\ call.is \in {"link", "device", "computer", "npc"}
        /\ call.is = "device" => call.kind \in LogicKinds
        /\ call.is = "computer" => call.spec \in ComputerSpecs
        /\ call.is = "npc" => call.spec \in NpcSpecs
    BY DEF BuilderCalls
  <2>5. Call(b, call) =
           IF call.is = "link" THEN InternalLink(v, at, call.name)
           ELSE IF call.is = "device" THEN Device(v, at, call.name, links, call.kind)
           ELSE IF call.is = "computer" THEN Computer(v, at, call.name, links, call.spec)
           ELSE Npc(v, call.name, links, call.spec)
    BY <1>2 DEF Call
  <2> HIDE DEF v, at, links, T
  <2>6. Call(b, call) \in Results(v)
    <3>1. CASE call.is = "link"
      BY <2>1, <2>2, <2>5, <3>1, InternalLinkResult
    <3>2. CASE call.is = "device"
      BY <2>1, <2>2, <2>3, <2>4, <2>5, <3>2, BuilderResult
    <3>3. CASE call.is = "computer"
      BY <2>1, <2>2, <2>3, <2>4, <2>5, <3>3, BuilderResult
    <3>4. CASE call.is = "npc"
      BY <2>1, <2>2, <2>3, <2>4, <2>5, <3>4, BuilderResult
    <3> QED
      BY <2>4, <3>1, <3>2, <3>3, <3>4
  <2> QED
    BY <2>1, <2>6, LaterResults DEF Tidy
<1> QED
  BY <1>1, <1>2

LEMMA FreshIsTidy == Tidy(FreshWorld)
<1> DEFINE w == FreshWorld
<1>1. /\ w = [x \in DOMAIN w |-> w[x]] /\ {"net", "logics", "hosts"} \subseteq DOMAIN w
      /\ w.net = NewNetwork /\ w.logics = [n \in NodeIds |-> NoLogic] /\ w.hosts = {}
  BY DEF FreshWorld
<1> HIDE DEF w
<1>2. NoLogic \in Logics
  BY KindsAreLogics DEF NoLogic, LogicKinds
<1>3. Vacant(w)
  <2>1. \A h \in NodeIds \cup LinkIds : h # Root => NewNetwork.name[h] = Nil
    BY DEF NewNetwork
  <2>2. NewNetwork.nodes = {Root}
    BY DEF NewNetwork
  <2> QED
    BY <1>1, <2>1, <2>2 DEF Vacant
<1>4. OwnedLinks(w.net)
  BY <1>1 DEF OwnedLinks, NewNetwork
<1> QED
  BY <1>1, <1>2, <1>3, <1>4, NewNetworkInOrder DEF Tidy, IsWorld, w

LEMMA CarriedResult ==
    ASSUME NEW plan \in Seq(BuilderCalls)
    PROVE  Carried(plan) \in Results(FreshWorld)
<1> DEFINE S == DOMAIN plan
           V == Results(FreshWorld)
           Op(v, call) == Call(v, call)
           step == [c \in S \X V |-> Op(c[2], plan[c[1]])]
           Fold(g) == [s \in SUBSET S |-> IF s = {} THEN Built(FreshWorld, Root) ELSE Op(g[s \ {LastOf(s)}], plan[LastOf(s)])]
           fold == CHOOSE g : g = Fold(g)
<1>1. Carried(plan) = fold[S]
  BY DEF Carried, FoldLeft, MapThenFoldSet, Max, LastOf
<1>2. S = 1..Len(plan) /\ Len(plan) \in Nat
  BY LenProperties
<1>3. ASSUME NEW x \in S, NEW v \in V PROVE step[<<x, v>>] = Op(v, plan[x]) /\ step[<<x, v>>] \in V
  <2>1. step[<<x, v>>] = Op(v, plan[x])
    OBVIOUS
  <2>2. plan[x] \in BuilderCalls
    BY ElementOfSeq, LenProperties
  <2>3. Op(v, plan[x]) \in Results(FreshWorld)
    BY <2>2, FreshIsTidy, CallResult
  <2> HIDE DEF step, Op
  <2> QED
    BY <2>1, <2>3
<1>4. Built(FreshWorld, Root) \in V
  <2>1. IsWorld(FreshWorld) /\ Alike(FreshWorld, FreshWorld) /\ OwnedLinks(FreshWorld.net)
    BY FreshIsTidy DEF Tidy, Alike
  <2>2. [ok |-> TRUE, world |-> FreshWorld, node |-> Root] \in Results(FreshWorld)
    BY <2>1, IsResult, NetworkAssumption
  <2> QED
    BY <2>2 DEF Built
<1> HIDE DEF V, step
<1>5. Loop(Len(plan), S, V, Built(FreshWorld, Root), step)
  BY <1>2, <1>3, <1>4 DEF Loop
<1>6. PICK g \in [SUBSET S -> V] : LoopValues(S, Built(FreshWorld, Root), step, g)
  BY <1>5, LoopExists
<1>7. \A s \in SUBSET S : s # {} => LastOf(s) \in s
  BY <1>2, LastIndex DEF LastOf
<1> HIDE DEF S, Op
<1>8. g = Fold(g)
  <2>1. \A s \in SUBSET S : g[s] = Fold(g)[s]
    <3> TAKE s \in SUBSET S
    <3>1. CASE s = {}
      BY <1>6, <3>1 DEF LoopValues
    <3>2. CASE s # {}
      <4>1. LastOf(s) \in S /\ g[s \ {LastOf(s)}] \in V
        BY <1>6, <1>7, <3>2
      <4> QED
        BY <1>3, <1>6, <3>2, <4>1 DEF LoopValues
    <3> QED
      BY <3>1, <3>2
  <2> QED
    BY <1>6, <2>1
<1>9. fold = Fold(fold)
  BY <1>8
<1> HIDE DEF fold
<1>10. LoopWithin(S, V, Built(FreshWorld, Root), step, fold)
  <2>1. fold[{}] = Built(FreshWorld, Root)
    BY <1>9
  <2>2. \A s \in SUBSET S : s # {} /\ fold[s \ {LastOf(s)}] \in V =>
           fold[s] = step[<<LastOf(s), fold[s \ {LastOf(s)}]>>]
    <3> TAKE s \in SUBSET S
    <3> SUFFICES ASSUME s # {}, fold[s \ {LastOf(s)}] \in V
                 PROVE  fold[s] = step[<<LastOf(s), fold[s \ {LastOf(s)}]>>]
      OBVIOUS
    <3>1. fold[s] = Op(fold[s \ {LastOf(s)}], plan[LastOf(s)])
      BY <1>9
    <3>2. LastOf(s) \in S
      BY <1>7
    <3> QED
      BY <1>3, <3>1, <3>2
  <2> QED
    BY <2>1, <2>2 DEF LoopWithin
<1>11. fold[S] \in V
  BY <1>5, <1>10, LoopStays
<1> QED
  BY <1>1, <1>11 DEF V

(* The worlds the sandbox starts with.                                     *)
LEMMA PlansAreTidy ==
    ASSUME NEW plan \in Plans \cup StressTests
    PROVE  LET w == Carried(plan).world
           IN  Tidy(w) /\ "tick" \in DOMAIN w /\ w.tick = 0
<1>1. Carried(plan) \in Results(FreshWorld) /\ Carried(plan).ok
  BY CarriedResult, SandboxAssumption
<1>2. Tidy(Carried(plan).world) /\ Alike(FreshWorld, Carried(plan).world)
  BY <1>1, ResultsTyped, FreshIsTidy DEF Tidy
<1>3. "tick" \in DOMAIN FreshWorld /\ FreshWorld.tick = 0
  BY DEF FreshWorld
<1> QED
  BY <1>2, <1>3 DEF Alike

-----------------------------------------------------------------------------
(* What the window does to its world *)

(* The edges decide a network: it is recorded at both of its ends.         *)
LEMMA EdgesDecide ==
    ASSUME NEW s, InOrder(s), NEW t, InOrder(t),
           t.nodes = s.nodes, t.links = s.links, t.name = s.name, t.parent = s.parent,
           t.subscriptions = s.subscriptions, t.owner = s.owner
    PROVE  [t EXCEPT !.issued = {}] = [s EXCEPT !.issued = {}]
<1>1. s \in NetworkType /\ t \in NetworkType /\ Paired(s) /\ Paired(t)
  BY DEF InOrder
<1>2. t.children = s.children
  <2>1. ASSUME NEW m \in NodeIds, NEW n \in NodeIds PROVE n \in t.children[m] <=> n \in s.children[m]
    <3>1. n \in t.children[m] <=> t.parent[n] = m
      BY <1>1 DEF Paired
    <3>2. n \in s.children[m] <=> s.parent[n] = m
      BY <1>1 DEF Paired
    <3> QED
      BY <3>1, <3>2
  <2>2. s.children \in [NodeIds -> SUBSET NodeIds] /\ t.children \in [NodeIds -> SUBSET NodeIds]
    BY <1>1 DEF NetworkType
  <2>3. \A m \in NodeIds : t.children[m] = s.children[m]
    BY <2>1, <2>2
  <2> QED
    BY <2>2, <2>3
<1>3. t.internal = s.internal
  <2>1. \A m \in NodeIds, l \in LinkIds : l \in t.internal[m] <=> l \in s.internal[m]
    BY <1>1 DEF Paired
  <2>2. s.internal \in [NodeIds -> SUBSET LinkIds] /\ t.internal \in [NodeIds -> SUBSET LinkIds]
    BY <1>1 DEF NetworkType
  <2>3. \A m \in NodeIds : t.internal[m] = s.internal[m]
    BY <2>1, <2>2
  <2> QED
    BY <2>2, <2>3
<1>4. t.subscribers = s.subscribers
  <2>1. \A l \in LinkIds, m \in NodeIds : m \in t.subscribers[l] <=> m \in s.subscribers[l]
    BY <1>1 DEF Paired
  <2>2. s.subscribers \in [LinkIds -> SUBSET NodeIds] /\ t.subscribers \in [LinkIds -> SUBSET NodeIds]
    BY <1>1 DEF NetworkType
  <2>3. \A l \in LinkIds : t.subscribers[l] = s.subscribers[l]
    BY <2>1, <2>2
  <2> QED
    BY <2>2, <2>3
<1> QED
  BY <1>1, <1>2, <1>3, <1>4 DEF NetworkType

(* A link that was made for a build that failed leaves no trace.           *)
LEMMA LinkUndone ==
    ASSUME NEW w, Tidy(w), NEW name \in Names, NEW l \in LinkIds, l \notin w.net.issued,
           NEW v, IsWorld(v), LinkAdded(w, v, l, name), Alike(w, v),
           NEW z, IsWorld(z), OnlyIssued(v, z)
    PROVE  LET x == [z EXCEPT !.net = RemoveLink(z.net, l).net]
           IN  Tidy(x) /\ Alike(w, x) /\ Picture(x) = Picture(w) /\ x.net.nodes = w.net.nodes
<1> DEFINE s == WithoutLinks(z.net, {l})
           x == [z EXCEPT !.net = RemoveLink(z.net, l).net]
<1>1. /\ z.net.nodes = v.net.nodes /\ z.net.links = v.net.links /\ z.net.name = v.net.name
      /\ z.net.parent = v.net.parent /\ z.net.subscriptions = v.net.subscriptions
      /\ z.net.owner = v.net.owner /\ z.logics = v.logics /\ z.hosts = v.hosts /\ Alike(v, z)
  BY OnlyIssuedFields
<1>2. z.net \in NetworkType /\ InOrder(z.net) /\ InOrder(w.net) /\ w.net \in NetworkType
  BY DEF Tidy, IsWorld, InOrder
<1>3. l \in z.net.links /\ l \notin w.net.links
  BY <1>1, <1>2 DEF LinkAdded, InOrder, Resolved
<1>4. RemoveLink(z.net, l).net = s
  BY <1>3 DEF RemoveLink, Done
<1>5. /\ s.nodes = z.net.nodes /\ s.links = z.net.links \ {l} /\ s.parent = z.net.parent
      /\ s.name = [h \in NodeIds \cup LinkIds |-> IF h = l THEN Nil ELSE z.net.name[h]]
      /\ s.owner = [k \in LinkIds |-> IF k = l THEN Nil ELSE z.net.owner[k]]
      /\ s.subscriptions = [n \in NodeIds |-> z.net.subscriptions[n] \ {k \in {l} : n \in z.net.subscribers[k]}]
  BY <1>2 DEF WithoutLinks, NetworkType
<1>6. InOrder(s)
  BY <1>2, <1>4, RemoveLinkInOrder
<1> HIDE DEF s
<1>7. w.net.owner[l] = Nil /\ w.net.name[l] = Nil /\ \A n \in NodeIds : l \notin w.net.subscriptions[n]
  <2>1. w.net.name[l] = Nil
    <3>1. l \notin w.net.nodes
      BY <1>2, NetworkAssumption DEF NetworkType
    <3> QED
      BY <1>3, <3>1 DEF Tidy, IsWorld, Vacant
  <2> QED
    BY <1>2, <2>1, FreshHandleUnknown
<1>8. s.name = w.net.name
  <2>1. \A h \in NodeIds \cup LinkIds : s.name[h] = w.net.name[h]
    BY <1>1, <1>5, <1>7 DEF LinkAdded
  <2>2. s.name \in [NodeIds \cup LinkIds -> (Names \ Reserved) \cup {RootName, Nil}]
    BY <1>6 DEF InOrder, NetworkType
  <2>3. w.net.name \in [NodeIds \cup LinkIds -> (Names \ Reserved) \cup {RootName, Nil}]
    BY <1>2 DEF NetworkType
  <2> QED
    BY <2>1, <2>2, <2>3
<1>9. s.owner = w.net.owner
  <2>1. w.net.owner \in [LinkIds -> NodeIds \cup {Nil}]
    BY <1>2 DEF NetworkType
  <2> QED
    BY <1>1, <1>5, <1>7, <2>1 DEF LinkAdded
<1>10. s.subscriptions = w.net.subscriptions
  <2>1. w.net.subscriptions \in [NodeIds -> SUBSET LinkIds]
    BY <1>2 DEF NetworkType
  <2>2. z.net.subscriptions = w.net.subscriptions
    BY <1>1 DEF LinkAdded
  <2>3. ASSUME NEW n \in NodeIds PROVE s.subscriptions[n] = w.net.subscriptions[n]
    <3>1. s.subscriptions[n] = w.net.subscriptions[n] \ {k \in {l} : n \in z.net.subscribers[k]}
      BY <1>5, <2>2
    <3>2. l \notin w.net.subscriptions[n]
      BY <1>7
    <3> QED
      BY <3>1, <3>2
  <2>4. s.subscriptions \in [NodeIds -> SUBSET LinkIds]
    BY <1>6 DEF InOrder, NetworkType
  <2> QED
    BY <2>1, <2>3, <2>4
<1>11. s.nodes = w.net.nodes /\ s.links = w.net.links /\ s.parent = w.net.parent
  BY <1>1, <1>3, <1>5 DEF LinkAdded
<1>12. [s EXCEPT !.issued = {}] = [w.net EXCEPT !.issued = {}]
  BY <1>2, <1>6, <1>8, <1>9, <1>10, <1>11, EdgesDecide
<1>13. x.net = s /\ x.logics = z.logics /\ x.hosts = z.hosts /\ Alike(z, x) /\ x = [y \in DOMAIN x |-> x[y]]
  <2>1. x = [z EXCEPT !.net = s]
    BY <1>4
  <2> HIDE DEF x
  <2> QED
    BY <2>1, WithNet
<1> HIDE DEF x
<1>14. x.logics = w.logics /\ x.hosts = w.hosts /\ Alike(w, x)
  <2>1. Alike(w, z)
    BY <1>1, AlikeTransitive
  <2> QED
    BY <1>1, <1>13, <2>1, AlikeTransitive DEF LinkAdded
<1>15. IsWorld(x)
  <2>1. Vacant(x)
    BY <1>8, <1>11, <1>13, <1>14 DEF Tidy, IsWorld, Vacant
  <2> QED
    BY <1>6, <1>13, <1>14, <2>1 DEF Tidy, IsWorld, Alike
<1>16. OwnedLinks(x.net)
  BY <1>9, <1>11, <1>13 DEF Tidy, OwnedLinks
<1> QED
  BY <1>11, <1>12, <1>13, <1>14, <1>15, <1>16 DEF Tidy, Picture, x

LEMMA RemovedIsTidy ==
    ASSUME NEW w, Tidy(w), NEW n \in NodeIds
    PROVE  LET r == RemoveWithLogic(w, n)
           IN  r.ok \in BOOLEAN /\ Tidy(r.world) /\ Alike(w, r.world)
<1> DEFINE r == RemoveWithLogic(w, n)
           s == w.net
<1>1. Kept(w, r) /\ r.world.net = RemoveNode(s, n).net
  BY NodeRemovedInWorld DEF Tidy
<1>2. s \in NetworkType
  BY DEF Tidy, IsWorld, InOrder
<1>3. OwnedLinks(RemoveNode(s, n).net)
  <2>1. CASE n \notin s.nodes \ {Root}
    BY <2>1 DEF RemoveNode, Rejected, Tidy
  <2>2. CASE n \in s.nodes \ {Root}
    <3> DEFINE doomed == Subtree(s, n)
               orphaned == {l \in s.links : \E m \in doomed : l \in s.internal[m]}
               t == WithoutLinks(s, orphaned)
               u == WithoutNodes(t, doomed)
               x == RemoveNode(s, n).net
    <3>1. x = IF s.parent[n] \in NodeIds \ doomed
              THEN [u EXCEPT !.children[s.parent[n]] = @ \ {n}] ELSE u
      BY <2>2 DEF RemoveNode, Done
    <3>2. /\ t.links = s.links \ orphaned
          /\ t.owner = [l \in LinkIds |-> IF l \in orphaned THEN Nil ELSE s.owner[l]]
          /\ DOMAIN t = DOMAIN s /\ t = [y \in DOMAIN t |-> t[y]]
      BY <1>2 DEF WithoutLinks, NetworkType
    <3>3. {"links", "owner"} \subseteq DOMAIN t
      BY <1>2, <3>2 DEF NetworkType
    <3>4. s.links \subseteq LinkIds
      BY <1>2 DEF NetworkType
    <3> HIDE DEF t, orphaned, doomed
    <3>5. u.links = t.links /\ u.owner = t.owner
      BY <3>2, <3>3 DEF WithoutNodes
    <3> HIDE DEF u
    <3>6. x.links = u.links /\ x.owner = u.owner
      BY <3>1
    <3> HIDE DEF x
    <3>7. OwnedLinks(x)
      BY <3>2, <3>4, <3>5, <3>6 DEF OwnedLinks, Tidy
    <3> QED
      BY <3>7 DEF x
  <2> QED
    BY <2>1, <2>2
<1> HIDE DEF r
<1> QED
  BY <1>1, <1>3 DEF Kept, Tidy, r

(* A build that was placed owns its links, and the one it was placed on.   *)
LEMMA PlacedOwned ==
    ASSUME NEW v, IsWorld(v), NEW b, Outcome(v, b), b.ok => Apart(v, b.world, b.node),
           NEW at \in Placements, \A l \in v.net.links : v.net.owner[l] # Nil \/ l = at.link,
           BuiltAt(b, at).ok
    PROVE  OwnedLinks(BuiltAt(b, at).world.net) /\ BuiltAt(b, at).node \in NodeIds
<1> DEFINE x == b.world
           root == b.node
           c == InNetwork(x, Connect(x.net, at.parent, root, at.link))
           r == BuiltAt(b, at)
<1>1. b.ok
  BY DEF BuiltAt
<1>2. IsWorld(x) /\ Grown(v, x, root) /\ Apart(v, x, root) /\ InOrder(x.net) /\ x.net.links \subseteq LinkIds
  BY <1>1 DEF Outcome, IsWorld, InOrder, NetworkType
<1>3. root \in NodeIds
  BY <1>2 DEF Grown, NewNodes, IsWorld, InOrder, NetworkType
<1>4. at.parent \in NodeIds /\ at.link \in LinkIds \cup {Nil}
  BY DEF Placements
<1>5. c.ok /\ r.world = c.world /\ r.node = root
  <2>1. r = OrRemove(c, root)
    BY <1>1 DEF BuiltAt, AttachOrRemove
  <2> HIDE DEF c, r
  <2>2. r.ok
    BY DEF r
  <2> QED
    BY <2>1, <2>2 DEF OrRemove, Built, Failed
<1>6. Connected(x.net, c.world.net, at.parent, root, at.link)
  <2> HIDE DEF x, root
  <2>1. /\ c = [ok |-> CanConnect(x.net, at.parent, root, at.link), world |-> c.world, node |-> Nil]
        /\ c.world.net = Connect(x.net, at.parent, root, at.link).net
    <3> DEFINE p == at.parent
               l == at.link
    <3>1. IsWorld(x) /\ p \in NodeIds /\ l \in LinkIds \cup {Nil}
      BY <1>2, <1>4
    <3> HIDE DEF p, l
    <3>2. LET q == InNetwork(x, Connect(x.net, p, root, l))
          IN  /\ q = [ok |-> CanConnect(x.net, p, root, l), world |-> q.world, node |-> Nil]
              /\ q.world.net = Connect(x.net, p, root, l).net
      BY <1>3, <3>1, ConnectedIsWorld
    <3> QED
      BY <3>2 DEF p, l
  <2> HIDE DEF c
  <2>2. CanConnect(x.net, at.parent, root, at.link)
    BY <1>5, <2>1
  <2> QED
    BY <1>2, <1>3, <1>4, <2>1, <2>2, ConnectMakes
<1> HIDE DEF c, r
<1>7. ASSUME NEW l \in c.world.net.links PROVE c.world.net.owner[l] # Nil
  <2>1. l \in x.net.links /\ l \in LinkIds
    BY <1>2, <1>6 DEF Connected, SameThings
  <2>2. CASE l = at.link
    BY <1>4, <1>6, <2>1, <2>2, NetworkAssumption DEF Connected
  <2>3. CASE l # at.link
    <3>1. c.world.net.owner[l] = x.net.owner[l]
      BY <1>6, <2>1, <2>3 DEF Connected
    <3>2. CASE l \in NewLinks(v, x)
      <4>1. x.net.owner[l] = root
        BY <1>2, <3>2 DEF Grown
      <4> QED
        BY <1>3, <3>1, <4>1, NetworkAssumption
    <3>3. CASE l \notin NewLinks(v, x)
      <4>1. x.net.owner[l] = v.net.owner[l]
        BY <1>2, <2>1, <3>3 DEF Apart
      <4>2. l \in v.net.links
        BY <2>1, <3>3 DEF NewLinks
      <4> QED
        BY <2>3, <3>1, <4>1, <4>2
    <3> QED
      BY <3>2, <3>3
  <2> QED
    BY <2>2, <2>3
<1> QED
  BY <1>3, <1>5, <1>7 DEF OwnedLinks, r

PanelOrders ==
    [template: {"npc"}, spec: NpcSpecs] \cup [template: {"computer"}, spec: ComputerSpecs]

LEMMA TemplatePlaced ==
    ASSUME NEW v, IsWorld(v), NEW order \in PanelOrders, NEW name \in Names, NEW at \in Placements,
           \A l \in v.net.links : v.net.owner[l] # Nil \/ l = at.link
    PROVE  LET r == BuildTemplateAt(v, order, name, at)
           IN  /\ Outcome(v, r)
               /\ r.ok => /\ r.world.net.parent[r.node] = at.parent /\ r.node \in NodeIds
                          /\ OwnedLinks(r.world.net)
<1>1. Ipc \in Names
  BY SandboxAssumption
<1>2. CASE order.template = "npc"
  <2> DEFINE b == BuildNpc(v, name, order.spec)
  <2>1. order.spec \in NpcSpecs
    BY <1>2 DEF PanelOrders
  <2>2. Outcome(v, b) /\ (b.ok => Apart(v, b.world, b.node)
                                  /\ Whole(v, b.world, b.node, name, <<>>, 0, {}))
    BY <2>1, NpcBuilt
  <2>3. BuildTemplateAt(v, order, name, at) = BuiltAt(b, at)
    BY <1>2 DEF BuildTemplateAt, BuildNpcAt
  <2> HIDE DEF b
  <2>4. Outcome(v, BuiltAt(b, at)) /\ (BuiltAt(b, at).ok => BuiltAt(b, at).world.net.parent[BuiltAt(b, at).node] = at.parent)
    BY <2>2, BuiltAtOutcome
  <2>5. BuiltAt(b, at).ok => OwnedLinks(BuiltAt(b, at).world.net) /\ BuiltAt(b, at).node \in NodeIds
    BY <2>2, PlacedOwned
  <2> QED
    BY <2>3, <2>4, <2>5
<1>3. CASE order.template # "npc"
  <2> DEFINE b == BuildComputer(v, name, order.spec)
  <2>1. order.spec \in ComputerSpecs
    BY <1>3 DEF PanelOrders
  <2>2. Outcome(v, b) /\ (b.ok => Apart(v, b.world, b.node)
                                  /\ Whole(v, b.world, b.node, name, Parts(order.spec), 1, {}))
    BY <1>1, <2>1, ComputerBuilt
  <2>3. BuildTemplateAt(v, order, name, at) = BuiltAt(b, at)
    BY <1>3 DEF BuildTemplateAt, BuildComputerAt
  <2> HIDE DEF b
  <2>4. Outcome(v, BuiltAt(b, at)) /\ (BuiltAt(b, at).ok => BuiltAt(b, at).world.net.parent[BuiltAt(b, at).node] = at.parent)
    BY <2>2, BuiltAtOutcome
  <2>5. BuiltAt(b, at).ok => OwnedLinks(BuiltAt(b, at).world.net) /\ BuiltAt(b, at).node \in NodeIds
    BY <2>2, PlacedOwned
  <2> QED
    BY <2>3, <2>4, <2>5
<1> QED
  BY <1>2, <1>3

-----------------------------------------------------------------------------
(* What the window shows *)

InView(u) ==
    /\ Tidy(u.world) /\ "tick" \in DOMAIN u.world /\ u.world.tick \in Nat
    /\ u.snapshot = Picture(u.world) /\ u.scope \in u.world.net.nodes

Shown(u) ==
    /\ u = [scenario |-> u.scenario, watching |-> u.watching, world |-> u.world, snapshot |-> u.snapshot,
            scope |-> u.scope, selection |-> u.selection, playing |-> u.playing, step |-> u.step,
            fuse |-> u.fuse, adding |-> u.adding]
    /\ u.scenario \in Plans /\ u.watching \in StressTests \cup {Nil} /\ u.playing \in BOOLEAN
    /\ u.world # Nil => InView(u)

(* The level shows the selection, if any level does.                       *)
Seen(u) ==
    \/ u.selection \in Scene(u.snapshot.net, u.scope) \cup {Nil}
    \/ \A n \in u.snapshot.net.nodes : u.selection \notin Scene(u.snapshot.net, n)

(* What a panel does that neither builds a world nor runs its ticks.       *)
Worked(u, v) ==
    /\ Shown(v) /\ InView(v) /\ v.playing = u.playing /\ v.world.tick = u.world.tick
    /\ v.scope # u.scope /\ v.selection # u.selection => Seen(v)

(* The window that adds nodes looks at its link.                           *)
Settled(u, v) ==
    /\ v.scenario = u.scenario /\ v.watching = u.watching /\ v.world = u.world
    /\ v.snapshot = u.snapshot /\ v.scope = u.scope /\ v.selection = u.selection
    /\ v.playing = u.playing /\ v.step = u.step /\ v.fuse = u.fuse

LEMMA LinkSettled ==
    ASSUME NEW u, Shown(u), NEW link
    PROVE  LET v == [u EXCEPT !.adding.link = link] IN Settled(u, v) /\ Shown(v)
<1> DEFINE v == [u EXCEPT !.adding.link = link]
           a == [u.adding EXCEPT !.link = link]
<1>1. v = [scenario |-> u.scenario, watching |-> u.watching, world |-> u.world, snapshot |-> u.snapshot,
           scope |-> u.scope, selection |-> u.selection, playing |-> u.playing, step |-> u.step,
           fuse |-> u.fuse, adding |-> a]
  BY DEF Shown
<1> HIDE DEF a, v
<1>2. Settled(u, v)
  BY <1>1 DEF Settled
<1>3. Shown(v)
  BY <1>1 DEF Shown, InView
<1> QED
  BY <1>2, <1>3 DEF v

LEMMA WorkedThenSettled ==
    ASSUME NEW u, NEW v, Worked(u, v), NEW x, Settled(v, x), Shown(x)
    PROVE  Worked(u, x)
BY DEF Worked, Settled, InView, Seen

LEMMA PictureFields ==
    ASSUME NEW w, IsWorld(w)
    PROVE  LET s == Picture(w).net
           IN  /\ s.nodes = w.net.nodes /\ s.links = w.net.links /\ s.parent = w.net.parent
               /\ s.children = w.net.children /\ s.internal = w.net.internal
               /\ s.subscriptions = w.net.subscriptions /\ s.owner = w.net.owner
               /\ s.subscribers = w.net.subscribers
BY DEF Picture, IsWorld, InOrder, NetworkType

(* The level a panel takes one to shows the item, if any level does.       *)
LEMMA ContainerShows ==
    ASSUME NEW s, InOrder(s), OwnedLinks(s), NEW item \in NodeIds \cup LinkIds
    PROVE  /\ ContainerOf(s, item) \in s.nodes
           /\ \/ item \in Scene(s, ContainerOf(s, item))
              \/ \A n \in s.nodes : item \notin Scene(s, n)
<1>1. /\ s \in NetworkType /\ Paired(s) /\ Root \in s.nodes
      /\ \A n \in NodeIds : s.parent[n] \in s.nodes \cup {Nil}
      /\ \A l \in LinkIds : s.owner[l] \in s.nodes \cup {Nil}
  BY DEF InOrder, Resolved
<1>2. /\ s.nodes \subseteq NodeIds /\ Nil \notin NodeIds
      /\ s.children \in [NodeIds -> SUBSET NodeIds] /\ s.internal \in [NodeIds -> SUBSET LinkIds]
      /\ s.subscriptions \in [NodeIds -> SUBSET LinkIds]
  BY <1>1, NetworkAssumption DEF NetworkType
<1>3. CASE item \in NodeIds
  <2>1. item \notin LinkIds
    BY <1>3, NetworkAssumption
  <2>2. CASE s.parent[item] = Nil
    <3>1. ASSUME NEW n \in NodeIds PROVE item \notin s.children[n]
      <4>1. item \in s.children[n] <=> s.parent[item] = n
        BY <1>1, <1>3 DEF Paired
      <4> QED
        BY <1>2, <2>2, <4>1
    <3>2. \A n \in s.nodes : item \notin Scene(s, n)
      BY <1>2, <2>1, <3>1, ZenonT(60) DEF Scene
    <3> QED
      BY <1>1, <1>3, <2>2, <3>2 DEF ContainerOf
  <2>3. CASE s.parent[item] # Nil
    <3>1. ContainerOf(s, item) = s.parent[item] /\ s.parent[item] \in s.nodes
      BY <1>1, <1>3, <2>3 DEF ContainerOf
    <3>2. item \in s.children[s.parent[item]]
      BY <1>1, <1>2, <1>3, <3>1 DEF Paired
    <3> QED
      BY <3>1, <3>2 DEF Scene
  <2> QED
    BY <2>2, <2>3
<1>4. CASE item \notin NodeIds
  <2>1. item \in LinkIds
    BY <1>4
  <2>2. CASE s.owner[item] = Nil
    <3>1. item \notin s.links
      BY <2>2 DEF OwnedLinks
    <3>2. \A n \in NodeIds : item \notin s.internal[n]
      BY <1>1, <1>2, <2>1, <2>2 DEF Paired
    <3>3. s.subscribers[item] = {}
      BY <2>1, <3>1 DEF InOrder, Resolved
    <3>4. \A n \in NodeIds : item \notin s.subscriptions[n]
      BY <1>1, <2>1, <3>3 DEF Paired
    <3>5. ASSUME NEW n \in s.nodes PROVE item \notin Scene(s, n)
      <4>1. n \in NodeIds /\ s.children[n] \subseteq NodeIds
        BY <1>2
      <4> QED
        BY <1>4, <3>2, <3>4, <4>1 DEF Scene
    <3> QED
      BY <1>1, <1>4, <2>2, <3>5 DEF ContainerOf
  <2>3. CASE s.owner[item] # Nil
    <3>1. ContainerOf(s, item) = s.owner[item] /\ s.owner[item] \in s.nodes
      BY <1>1, <1>4, <2>1, <2>3 DEF ContainerOf
    <3>2. item \in s.internal[s.owner[item]]
      BY <1>1, <1>2, <2>1, <3>1 DEF Paired
    <3> QED
      BY <3>1, <3>2 DEF Scene
  <2> QED
    BY <2>2, <2>3
<1> QED
  BY <1>3, <1>4

(* Another level, another selection, another of both.                      *)
LEMMA Looked ==
    ASSUME NEW u, Shown(u), InView(u)
    PROVE  /\ \A n \in u.world.net.nodes : Worked(u, [u EXCEPT !.scope = n])
           /\ \A item : Worked(u, SelectOnCanvas(u, item))
           /\ \A item \in NodeIds \cup LinkIds : Worked(u, SelectInPanel(u, item))
<1>1. ASSUME NEW n \in u.world.net.nodes PROVE Worked(u, [u EXCEPT !.scope = n])
  <2> DEFINE v == [u EXCEPT !.scope = n]
  <2>1. v = [scenario |-> u.scenario, watching |-> u.watching, world |-> u.world, snapshot |-> u.snapshot,
             scope |-> n, selection |-> u.selection, playing |-> u.playing, step |-> u.step,
             fuse |-> u.fuse, adding |-> u.adding]
    BY DEF Shown
  <2> HIDE DEF v
  <2>2. Shown(v) /\ InView(v)
    BY <1>1, <2>1 DEF Shown, InView
  <2>3. Worked(u, v)
    BY <2>1, <2>2 DEF Worked
  <2> QED
    BY <2>3 DEF v
<1>2. ASSUME NEW item PROVE Worked(u, SelectOnCanvas(u, item))
  <2> DEFINE v == SelectOnCanvas(u, item)
  <2>1. v = [scenario |-> u.scenario, watching |-> u.watching, world |-> u.world, snapshot |-> u.snapshot,
             scope |-> u.scope, selection |-> item, playing |-> u.playing, step |-> u.step,
             fuse |-> u.fuse, adding |-> u.adding]
    BY DEF Shown, SelectOnCanvas
  <2> HIDE DEF v
  <2>2. Shown(v) /\ InView(v)
    BY <2>1 DEF Shown, InView
  <2>3. Worked(u, v)
    BY <2>1, <2>2 DEF Worked
  <2> QED
    BY <2>3 DEF v
<1>3. ASSUME NEW item \in NodeIds \cup LinkIds PROVE Worked(u, SelectInPanel(u, item))
  <2> DEFINE v == SelectInPanel(u, item)
             s == Picture(u.world).net
             t == u.world.net
             up == ContainerOf(s, item)
  <2>1. u.snapshot = Picture(u.world) /\ IsWorld(u.world) /\ InOrder(t) /\ OwnedLinks(t)
    BY DEF InView, Tidy, IsWorld
  <2>2. v = [scenario |-> u.scenario, watching |-> u.watching, world |-> u.world, snapshot |-> u.snapshot,
             scope |-> up, selection |-> item, playing |-> u.playing, step |-> u.step,
             fuse |-> u.fuse, adding |-> u.adding]
    <3>1. v = [u EXCEPT !.selection = item, !.scope = up]
      BY <2>1 DEF SelectInPanel
    <3> HIDE DEF v, up
    <3> QED
      BY <3>1 DEF Shown
  <2>3. /\ s.nodes = t.nodes /\ s.parent = t.parent /\ s.children = t.children /\ s.internal = t.internal
        /\ s.subscriptions = t.subscriptions /\ s.owner = t.owner
    BY <2>1, PictureFields
  <2>4. up = ContainerOf(t, item) /\ \A n : Scene(s, n) = Scene(t, n)
    BY <2>3 DEF ContainerOf, Scene
  <2>5. up \in t.nodes /\ (item \in Scene(t, up) \/ \A n \in t.nodes : item \notin Scene(t, n))
    BY <1>3, <2>1, <2>4, ContainerShows
  <2> HIDE DEF v, up
  <2>6. v.world = u.world /\ v.snapshot = u.snapshot /\ v.scope = up /\ v.selection = item /\ v.playing = u.playing
    BY <2>2
  <2>7. InView(v)
    BY <2>5, <2>6 DEF InView
  <2>8. Shown(v)
    BY <2>2, <2>7 DEF Shown
  <2>9. Seen(v)
    BY <2>1, <2>3, <2>4, <2>5, <2>6 DEF Seen
  <2>10. Worked(u, v)
    BY <2>6, <2>7, <2>8, <2>9 DEF Worked
  <2> QED
    BY <2>10 DEF v
<1> QED
  BY <1>1, <1>2, <1>3

(* Another world in place of the one that is shown, one of its own making. *)
LEMMA Reworked ==
    ASSUME NEW u, Shown(u), InView(u), NEW w, Tidy(w), Alike(u.world, w),
           NEW scope \in w.net.nodes, NEW selection,
           scope = u.scope \/ selection = u.selection \/ selection \in Scene(w.net, scope) \cup {Nil},
           NEW v, v = [u EXCEPT !.world = w, !.snapshot = Picture(w), !.scope = scope, !.selection = selection]
    PROVE  Worked(u, v)
<1>1. v = [scenario |-> u.scenario, watching |-> u.watching, world |-> w, snapshot |-> Picture(w),
           scope |-> scope, selection |-> selection, playing |-> u.playing, step |-> u.step,
           fuse |-> u.fuse, adding |-> u.adding]
  BY DEF Shown
<1>2. "tick" \in DOMAIN w /\ w.tick = u.world.tick
  BY DEF InView, Alike
<1>3. /\ v.world = w /\ v.snapshot = Picture(w) /\ v.scope = scope /\ v.selection = selection
      /\ v.playing = u.playing
  BY <1>1
<1>4. InView(v)
  BY <1>2, <1>3 DEF InView
<1>5. Shown(v)
  BY <1>1, <1>4 DEF Shown
<1>6. ASSUME selection \in Scene(w.net, scope) \cup {Nil} PROVE Seen(v)
  <2>1. Scene(Picture(w).net, scope) = Scene(w.net, scope)
    BY PictureFields DEF Scene, Tidy
  <2> QED
    BY <1>3, <1>6, <2>1 DEF Seen
<1> QED
  BY <1>2, <1>3, <1>4, <1>5, <1>6 DEF Worked

LEMMA Unworked ==
    ASSUME NEW u, Shown(u), InView(u)
    PROVE  Worked(u, u)
BY DEF Worked

LEMMA RemovedShown ==
    ASSUME NEW u, Shown(u), InView(u), NEW n \in NodeIds
    PROVE  Worked(u, RemoveShown(u, n))
<1> DEFINE removed == RemoveWithLogic(u.world, n)
           w == removed.world
           selection == IF u.selection = n THEN Nil ELSE u.selection
           left == Refreshed([u EXCEPT !.world = w, !.selection = selection])
           scope == IF u.scope \notin w.net.nodes THEN Root ELSE u.scope
           v == [u EXCEPT !.world = w, !.snapshot = Picture(w), !.scope = scope, !.selection = selection]
<1>1. Tidy(w) /\ Alike(u.world, w)
  BY RemovedIsTidy DEF InView
<1>2. RemoveShown(u, n) = IF removed.ok THEN BackIfGone(left) ELSE u
  BY DEF RemoveShown, Shown
<1> HIDE DEF removed, selection
<1>3. left = [u EXCEPT !.world = w, !.snapshot = Picture(w), !.selection = selection]
  BY DEF Refreshed, Shown
<1>4. Picture(w).net.nodes = w.net.nodes
  BY <1>1, PictureFields DEF Tidy
<1>5. left.scope = u.scope /\ left.snapshot.net.nodes = w.net.nodes
  BY <1>3, <1>4 DEF Shown
<1>6. BackIfGone(left) = v
  <2> HIDE DEF left
  <2>1. BackIfGone(left) = IF u.scope \notin w.net.nodes THEN [left EXCEPT !.scope = Root] ELSE left
    BY <1>5 DEF BackIfGone
  <2>2. CASE u.scope \notin w.net.nodes
    BY <1>3, <2>1, <2>2 DEF Shown
  <2>3. CASE u.scope \in w.net.nodes
    BY <1>3, <2>1, <2>3 DEF Shown
  <2> QED
    BY <2>2, <2>3
<1>7. Root \in w.net.nodes
  BY <1>1 DEF Tidy, IsWorld, InOrder, Resolved
<1>8. scope \in w.net.nodes /\ selection \in {u.selection, Nil}
  BY <1>7 DEF selection
<1> HIDE DEF left, scope, v
<1>9. Worked(u, v)
  BY <1>1, <1>8, Reworked DEF v
<1> QED
  BY <1>2, <1>6, <1>9, Unworked

LEMMA LogicShown ==
    ASSUME NEW u, Shown(u), InView(u), NEW n \in NodeIds, NEW kind \in LogicKinds
    PROVE  Worked(u, RunSetLogic(u, n, kind))
<1> DEFINE set == SetLogic(u.world, n, Kind(kind))
           w == set.world
           v == [u EXCEPT !.world = w, !.snapshot = Picture(w), !.scope = u.scope, !.selection = u.selection]
<1>1. Tidy(u.world) /\ Kind(kind) \in Logics
  BY KindsAreLogics DEF InView
<1>2. set \in Results(u.world) /\ (set.ok => w.net = u.world.net /\ Tidy(w))
  BY <1>1, SetLogicResult
<1>3. RunSetLogic(u, n, kind) = IF set.ok THEN Refreshed([u EXCEPT !.world = w]) ELSE u
  BY DEF RunSetLogic
<1> HIDE DEF set
<1>4. Alike(u.world, w)
  BY <1>1, <1>2, ResultsTyped DEF Tidy
<1>5. Refreshed([u EXCEPT !.world = w]) = v
  BY DEF Refreshed, Shown
<1>6. set.ok => u.scope \in w.net.nodes
  BY <1>2 DEF InView
<1> HIDE DEF v
<1>7. set.ok => Worked(u, v)
  BY <1>2, <1>4, <1>6, Reworked DEF v
<1> QED
  BY <1>3, <1>5, <1>7, Unworked

LEMMA AddedShown ==
    ASSUME NEW u, Shown(u), InView(u), NEW order \in PanelOrders, NEW name \in Names,
           NEW parent \in NodeIds, NEW onto, NEW added \in AddNode(u, order, name, parent, onto)
    PROVE  /\ added.ok \in BOOLEAN /\ Worked(u, added.app)
           /\ added.ok => Worked(u, [added.app EXCEPT !.scope = parent])
<1> DEFINE w == u.world
           linked == LinkFor(w, onto)
           v == linked.world
           l == linked.node
           at == [parent |-> parent, link |-> l]
           built == BuildTemplateAt(v, order, name, at)
           z == built.world
           left == [u EXCEPT !.world = z]
           made == IF onto \in Names THEN l ELSE Nil
<1>1. added = IF ~linked.ok THEN [ok |-> FALSE, app |-> u]
              ELSE IF ~built.ok THEN [ok |-> FALSE, app |-> UndoLink(left, made)]
              ELSE [ok |-> TRUE, app |-> SelectOnCanvas(Refreshed(left), built.node)]
  BY DEF AddNode
<1>2. Tidy(w) /\ IsWorld(w) /\ Alike(w, w)
  BY DEF InView, Tidy, Alike
<1>3. CASE ~linked.ok
  BY <1>1, <1>3, Unworked
<1>4. CASE linked.ok
  <2>1. /\ l \in LinkIds \cup {Nil} /\ IsWorld(v) /\ Alike(w, v)
        /\ \A k \in v.net.links : v.net.owner[k] # Nil \/ k = l
        /\ onto \in Names => l \in LinkIds \ w.net.issued /\ LinkAdded(w, v, l, onto)
        /\ onto \notin Names => v = w
    <3>1. CASE onto \in Names
      <4>1. linked = MakeLink(w, onto)
        BY <3>1 DEF LinkFor
      <4>2. l \in LinkIds \ w.net.issued /\ LinkAdded(w, v, l, onto) /\ IsWorld(v) /\ Alike(w, v)
        BY <1>2, <1>4, <3>1, <4>1, MadeLink
      <4> HIDE DEF linked
      <4>3. \A k \in v.net.links : v.net.owner[k] # Nil \/ k = l
        BY <1>2, <4>2 DEF LinkAdded, Tidy, OwnedLinks
      <4> QED
        BY <3>1, <4>2, <4>3
    <3>2. CASE onto \notin Names
      <4>1. linked = Built(w, IF onto \in LinkIds THEN onto ELSE Nil)
        BY <3>2 DEF LinkFor
      <4>2. v = w /\ l \in LinkIds \cup {Nil}
        BY <4>1 DEF Built
      <4> HIDE DEF linked
      <4> QED
        BY <1>2, <3>2, <4>2 DEF Tidy, OwnedLinks
    <3> QED
      BY <3>1, <3>2
  <2> HIDE DEF linked
  <2>2. at \in Placements /\ at.link = l /\ at.parent = parent
    BY <2>1 DEF Placements
  <2> HIDE DEF at
  <2>3. /\ Outcome(v, built)
        /\ built.ok => /\ z.net.parent[built.node] = parent /\ built.node \in NodeIds
                       /\ OwnedLinks(z.net)
    BY <2>1, <2>2, TemplatePlaced
  <2> HIDE DEF built
  <2>4. built.ok \in BOOLEAN /\ IsWorld(z) /\ Alike(v, z) /\ (~built.ok => OnlyIssued(v, z))
    BY <2>3 DEF Outcome
  <2>5. Alike(w, z)
    BY <2>1, <2>4, AlikeTransitive
  <2>6. CASE ~built.ok
    <3> DEFINE x == IF made = Nil THEN z ELSE [z EXCEPT !.net = RemoveLink(z.net, made).net]
               y == [u EXCEPT !.world = x, !.snapshot = Picture(x), !.scope = u.scope, !.selection = u.selection]
    <3>1. added = [ok |-> FALSE, app |-> UndoLink(left, made)]
      BY <1>1, <1>4, <2>6
    <3>2. UndoLink(left, made) = [u EXCEPT !.world = x]
      BY DEF UndoLink, Shown
    <3>3. Tidy(x) /\ Alike(w, x) /\ Picture(x) = Picture(w) /\ x.net.nodes = w.net.nodes
      <4>1. CASE onto \in Names
        <5>1. l \in LinkIds /\ l # Nil /\ made = l
          BY <2>1, <4>1, NetworkAssumption
        <5>2. x = [z EXCEPT !.net = RemoveLink(z.net, l).net]
          BY <5>1
        <5>3. /\ Tidy(w) /\ l \in LinkIds /\ l \notin w.net.issued /\ LinkAdded(w, v, l, onto) /\ Alike(w, v)
              /\ IsWorld(v) /\ IsWorld(z) /\ OnlyIssued(v, z)
          BY <1>2, <2>1, <2>4, <2>6, <4>1
        <5> HIDE DEF x, w, v, z, l
        <5> QED
          BY <4>1, <5>2, <5>3, LinkUndone
      <4>2. CASE onto \notin Names
        <5>1. x = z /\ v = w
          BY <2>1, <4>2
        <5> HIDE DEF x
        <5>2. OnlyIssued(w, z)
          BY <2>4, <2>6, <5>1
        <5>3. /\ z.net.nodes = w.net.nodes /\ z.net.links = w.net.links /\ z.net.name = w.net.name
              /\ z.net.parent = w.net.parent /\ z.net.subscriptions = w.net.subscriptions
              /\ z.net.owner = w.net.owner /\ z.logics = w.logics
          BY <1>2, <5>2, OnlyIssuedFields
        <5>4. InOrder(w.net) /\ InOrder(z.net)
          BY <1>2, <2>4 DEF IsWorld
        <5>5. [z.net EXCEPT !.issued = {}] = [w.net EXCEPT !.issued = {}]
          BY <5>3, <5>4, EdgesDecide
        <5>6. OwnedLinks(z.net)
          BY <1>2, <5>3 DEF Tidy, OwnedLinks
        <5> QED
          BY <2>4, <2>5, <5>1, <5>3, <5>5, <5>6 DEF Tidy, Picture
      <4> QED
        BY <4>1, <4>2
    <3> HIDE DEF x
    <3>4. u.snapshot = Picture(x) /\ u.scope \in x.net.nodes
      BY <3>3 DEF InView
    <3>5. [u EXCEPT !.world = x] = y
      BY <3>4 DEF Shown
    <3> HIDE DEF y
    <3>6. Worked(u, y)
      BY <3>3, <3>4, Reworked DEF y
    <3> QED
      BY <3>1, <3>2, <3>5, <3>6
  <2>7. CASE built.ok
    <3> DEFINE n == built.node
               y == [u EXCEPT !.world = z, !.snapshot = Picture(z), !.scope = u.scope, !.selection = n]
               there == [u EXCEPT !.world = z, !.snapshot = Picture(z), !.scope = parent, !.selection = n]
    <3>1. added = [ok |-> TRUE, app |-> SelectOnCanvas(Refreshed(left), n)]
      BY <1>1, <1>4, <2>7
    <3>2. SelectOnCanvas(Refreshed(left), n) = y /\ [y EXCEPT !.scope = parent] = there
      BY DEF SelectOnCanvas, Refreshed, Shown
    <3>3. Tidy(z)
      BY <2>3, <2>4, <2>7 DEF Tidy
    <3>4. InOrder(z.net) /\ z.net \in NetworkType
      BY <3>3 DEF Tidy, IsWorld, InOrder
    <3>5. n \in NodeIds /\ z.net.parent[n] = parent
      BY <2>3, <2>7
    <3>6. parent \in z.net.nodes
      <4>1. z.net.parent[n] \in z.net.nodes \cup {Nil}
        BY <3>4, <3>5 DEF InOrder, Resolved
      <4> QED
        BY <3>5, <4>1, NetworkAssumption
    <3>7. n \in Scene(z.net, parent)
      <4>1. n \in z.net.children[parent]
        BY <3>4, <3>5 DEF InOrder, Paired
      <4> QED
        BY <4>1 DEF Scene
    <3>8. u.scope \in z.net.nodes
      <4>1. w.net.nodes \subseteq v.net.nodes
        BY <2>1 DEF LinkAdded
      <4>2. v.net.nodes \subseteq z.net.nodes
        BY <2>3, <2>7 DEF Outcome, Grown
      <4> QED
        BY <4>1, <4>2 DEF InView
    <3> HIDE DEF n, y, there
    <3>9. Worked(u, y)
      BY <2>5, <3>3, <3>8, Reworked DEF y
    <3>10. Worked(u, there)
      BY <2>5, <3>3, <3>6, <3>7, Reworked DEF there
    <3> QED
      BY <3>1, <3>2, <3>9, <3>10
  <2> QED
    BY <2>4, <2>6, <2>7
<1> QED
  BY <1>3, <1>4

-----------------------------------------------------------------------------
(* Steps of the window *)

(* The clock plays only after it was asked to.                             *)
WindowInv ==
    /\ Shown(app) /\ asked \in BOOLEAN
    /\ app.playing => asked

StandsInStep ==
    Loaded /\ Loaded' /\ app'.world.tick > app.world.tick /\ ran'.by = "clock" => asked \/ app.step

ShownInStep ==
    Loaded /\ Loaded' /\ app'.scope # app.scope /\ app'.selection # app.selection
       => \/ app'.selection \in Scene(app'.snapshot.net, app'.scope) \cup {Nil}
          \/ \A n \in app'.snapshot.net.nodes : app'.selection \notin Scene(app'.snapshot.net, n)

WindowStep == WindowInv' /\ StandsInStep /\ ShownInStep

LEMMA Settles ==
    ASSUME NEW v, Shown(v), Early(v) \/ Late(v)
    PROVE  Settled(v, app') /\ Shown(app')
<1>1. PICK link : app' = [v EXCEPT !.adding.link = link]
  BY DEF Early, Late
<1> QED
  BY <1>1, LinkSettled

LEMMA PanelStep ==
    ASSUME WindowInv, Loaded, NEW v, Worked(app, v), Settled(v, app'), Shown(app'), UNCHANGED <<asked, ran>>
    PROVE  WindowStep
<1>1. Worked(app, app')
  BY WorkedThenSettled
<1>2. WindowInv'
  BY <1>1 DEF WindowInv, Worked
<1>3. app.world.tick \in Nat /\ app'.world.tick = app.world.tick
  BY <1>1 DEF WindowInv, Worked, Shown, InView, Loaded
<1>4. StandsInStep
  BY <1>3 DEF StandsInStep
<1>5. ShownInStep
  BY <1>1 DEF Worked, Seen, ShownInStep
<1> QED
  BY <1>2, <1>4, <1>5 DEF WindowStep

(* The buttons that change neither the world nor what is looked at.        *)
Adjusted(u, v) ==
    /\ Shown(v) /\ v.world = u.world /\ v.scope = u.scope /\ v.selection = u.selection

LEMMA AdjustedStep ==
    ASSUME WindowInv, NEW v, Adjusted(app, v), Settled(v, app'), Shown(app'),
           asked' \in BOOLEAN, v.playing => asked'
    PROVE  WindowStep
<1>1. /\ app'.world = app.world /\ app'.scope = app.scope /\ app'.selection = app.selection
      /\ app'.playing = v.playing
  BY DEF Adjusted, Settled
<1>2. WindowInv'
  BY <1>1 DEF WindowInv
<1>3. Loaded => app.world.tick \in Nat
  BY DEF WindowInv, Shown, InView, Loaded
<1>4. StandsInStep
  BY <1>1, <1>3 DEF StandsInStep
<1>5. ShownInStep
  BY <1>1 DEF ShownInStep
<1> QED
  BY <1>2, <1>4, <1>5 DEF WindowStep

LEMMA Adjustments ==
    ASSUME NEW u, Shown(u)
    PROVE  /\ \A a : LET v == [u EXCEPT !.adding = a] IN Adjusted(u, v) /\ v.playing = u.playing
           /\ \A open : LET v == [u EXCEPT !.adding.open = open] IN Adjusted(u, v) /\ v.playing = u.playing
           /\ \A link : LET v == [u EXCEPT !.adding.link = link] IN Adjusted(u, v) /\ v.playing = u.playing
           /\ \A step : LET v == [u EXCEPT !.step = step] IN Adjusted(u, v) /\ v.playing = u.playing
           /\ \A fuse : LET v == [u EXCEPT !.fuse = fuse] IN Adjusted(u, v) /\ v.playing = u.playing
           /\ \A playing \in BOOLEAN :
                 LET v == SetPlaying(u, playing) IN Adjusted(u, v) /\ v.playing = playing
<1> DEFINE Changed(playing, step, fuse, a) ==
              [scenario |-> u.scenario, watching |-> u.watching, world |-> u.world, snapshot |-> u.snapshot,
               scope |-> u.scope, selection |-> u.selection, playing |-> playing, step |-> step,
               fuse |-> fuse, adding |-> a]
<1>1. ASSUME NEW playing \in BOOLEAN, NEW step, NEW fuse, NEW a, NEW v, v = Changed(playing, step, fuse, a)
      PROVE  Adjusted(u, v) /\ v.playing = playing
  <2>1. Shown(v)
    BY <1>1 DEF Shown, InView
  <2> QED
    BY <1>1, <2>1 DEF Adjusted
<1>2. u = Changed(u.playing, u.step, u.fuse, u.adding) /\ u.playing \in BOOLEAN
  BY DEF Shown
<1>3. ASSUME NEW a PROVE LET v == [u EXCEPT !.adding = a] IN Adjusted(u, v) /\ v.playing = u.playing
  <2>1. [u EXCEPT !.adding = a] = Changed(u.playing, u.step, u.fuse, a)
    BY <1>2
  <2> QED
    BY <1>1, <1>2, <2>1
<1>4. ASSUME NEW open PROVE LET v == [u EXCEPT !.adding.open = open] IN Adjusted(u, v) /\ v.playing = u.playing
  <2>1. [u EXCEPT !.adding.open = open] = [u EXCEPT !.adding = [u.adding EXCEPT !.open = open]]
    BY <1>2
  <2> QED
    BY <1>3, <2>1
<1>5. ASSUME NEW link PROVE LET v == [u EXCEPT !.adding.link = link] IN Adjusted(u, v) /\ v.playing = u.playing
  <2>1. [u EXCEPT !.adding.link = link] = [u EXCEPT !.adding = [u.adding EXCEPT !.link = link]]
    BY <1>2
  <2> QED
    BY <1>3, <2>1
<1>6. ASSUME NEW step PROVE LET v == [u EXCEPT !.step = step] IN Adjusted(u, v) /\ v.playing = u.playing
  <2>1. [u EXCEPT !.step = step] = Changed(u.playing, step, u.fuse, u.adding)
    BY <1>2
  <2> QED
    BY <1>1, <1>2, <2>1
<1>7. ASSUME NEW fuse PROVE LET v == [u EXCEPT !.fuse = fuse] IN Adjusted(u, v) /\ v.playing = u.playing
  <2>1. [u EXCEPT !.fuse = fuse] = Changed(u.playing, u.step, fuse, u.adding)
    BY <1>2
  <2> QED
    BY <1>1, <1>2, <2>1
<1>8. ASSUME NEW playing \in BOOLEAN
      PROVE  LET v == SetPlaying(u, playing) IN Adjusted(u, v) /\ v.playing = playing
  <2>1. SetPlaying(u, playing) = Changed(playing, u.step, u.fuse, u.adding)
    BY <1>2 DEF SetPlaying
  <2> QED
    BY <1>1, <2>1
<1> QED
  BY <1>3, <1>4, <1>5, <1>6, <1>7, <1>8

(* What build leaves: nothing is selected, and a test waits to be played.  *)
LEMMA BuildShown ==
    ASSUME NEW u, Shown(u), NEW works \in BOOLEAN
    PROVE  LET v == Build(u, works)
           IN  /\ Shown(v) /\ v.selection = Nil
               /\ v.playing = (u.playing /\ u.watching = Nil)
               /\ works => InView(v) /\ v.world.tick = 0
               /\ ~works => v.world = Nil
<1> DEFINE plan == IF u.watching = Nil THEN u.scenario ELSE u.watching
           w == Carried(plan).world
           playing == u.playing /\ u.watching = Nil
           v == Build(u, works)
<1>1. Tidy(w) /\ "tick" \in DOMAIN w /\ w.tick = 0 /\ Root \in w.net.nodes
  <2>1. plan \in Plans \cup StressTests
    BY DEF Shown
  <2> HIDE DEF plan
  <2> QED
    BY <2>1, PlansAreTidy DEF Tidy, IsWorld, InOrder, Resolved
<1>2. v = [scenario |-> u.scenario, watching |-> u.watching, world |-> IF works THEN w ELSE Nil,
           snapshot |-> IF works THEN Picture(w) ELSE Nil, scope |-> IF works THEN Root ELSE Nil,
           selection |-> Nil, playing |-> playing, step |-> u.step, fuse |-> FALSE, adding |-> u.adding]
  BY DEF Build, Refreshed, Shown
<1> HIDE DEF w, v
<1>3. works => InView(v) /\ v.world.tick = 0
  BY <1>1, <1>2 DEF InView
<1>4. ~works => v.world = Nil
  BY <1>2
<1>5. Shown(v)
  BY <1>2, <1>3, <1>4 DEF Shown
<1> QED
  BY <1>2, <1>3, <1>4, <1>5 DEF v

LEMMA BuildStep ==
    ASSUME WindowInv, NEW u, Shown(u), u.playing = app.playing, NEW works \in BOOLEAN,
           Early(Build(u, works)), asked' = (asked /\ u.watching = Nil)
    PROVE  WindowStep
<1> DEFINE v == Build(u, works)
<1>1. /\ Shown(v) /\ v.selection = Nil
      /\ v.playing = (u.playing /\ u.watching = Nil)
      /\ works => v.world.tick = 0
      /\ ~works => v.world = Nil
  BY BuildShown
<1> HIDE DEF v
<1>2. Settled(v, app') /\ Shown(app')
  BY <1>1, Settles DEF v
<1>3. /\ app'.playing = (u.playing /\ u.watching = Nil) /\ app'.selection = Nil
      /\ app'.world = v.world
  BY <1>1, <1>2 DEF Settled
<1>4. WindowInv'
  BY <1>2, <1>3 DEF WindowInv
<1>5. Loaded => app.world.tick \in Nat
  BY DEF WindowInv, Shown, InView, Loaded
<1>6. Loaded' => app'.world.tick = 0
  BY <1>1, <1>3 DEF Loaded
<1>7. StandsInStep
  BY <1>5, <1>6 DEF StandsInStep
<1>8. ShownInStep
  BY <1>3 DEF ShownInStep
<1> QED
  BY <1>4, <1>7, <1>8 DEF WindowStep

(* Ticks: whatever stops them, the picture is that of the world.           *)
LEMMA RunStep ==
    ASSUME WindowInv, Loaded, NEW u, Adjusted(app, u), u.playing => asked, NEW steps \in Nat, NEW by,
           by = "clock" => asked \/ app.step, RunTicks(u, steps, by)
    PROVE  WindowStep
<1>1. PICK done \in 1..steps, outcome \in {"ok", "tripped", "failed"} :
        /\ Early(Stopped([u EXCEPT !.world.tick = @ + done], outcome))
        /\ ran' = [by |-> by, outcome |-> outcome]
        /\ asked' = (outcome = "ok" /\ u.playing)
  BY DEF RunTicks
<1> DEFINE w == u.world
           x == [w EXCEPT !.tick = @ + done]
           playing == outcome = "ok" /\ u.playing
           v == Stopped([u EXCEPT !.world.tick = @ + done], outcome)
<1>2. Shown(u) /\ InView(u) /\ u.playing \in BOOLEAN
  BY DEF Adjusted, Shown, Loaded
<1>3. Tidy(w) /\ "tick" \in DOMAIN w /\ w.tick \in Nat /\ w = [y \in DOMAIN w |-> w[y]]
  BY <1>2 DEF InView, Tidy, IsWorld
<1>4. /\ x.net = w.net /\ x.logics = w.logics /\ x.hosts = w.hosts /\ x.tick \in Nat
      /\ DOMAIN x = DOMAIN w /\ x = [y \in DOMAIN x |-> x[y]]
  BY <1>3 DEF Tidy, IsWorld
<1>5. [u EXCEPT !.world.tick = @ + done] = [u EXCEPT !.world = x]
  BY <1>2 DEF Shown
<1> HIDE DEF x, w
<1>6. Tidy(x) /\ Picture(x) = Picture(w) /\ "tick" \in DOMAIN x
  BY <1>3, <1>4 DEF Tidy, IsWorld, Vacant, Picture
<1>7. u.snapshot = Picture(x) /\ u.scope \in x.net.nodes
  BY <1>2, <1>4, <1>6 DEF InView, w
<1>8. v = [scenario |-> u.scenario, watching |-> u.watching, world |-> x, snapshot |-> Picture(x),
           scope |-> u.scope, selection |-> u.selection, playing |-> playing, step |-> u.step,
           fuse |-> v.fuse, adding |-> u.adding]
  <2>1. v = IF outcome = "ok" THEN Refreshed([u EXCEPT !.world = x])
            ELSE IF outcome = "tripped"
            THEN Refreshed([[u EXCEPT !.world = x] EXCEPT !.playing = FALSE, !.fuse = TRUE])
            ELSE [[u EXCEPT !.world = x] EXCEPT !.playing = FALSE]
    BY <1>1, <1>5 DEF Stopped
  <2> HIDE DEF v
  <2>2. CASE outcome = "ok"
    BY <1>2, <2>1, <2>2 DEF Refreshed, Shown
  <2>3. CASE outcome = "tripped"
    BY <1>2, <2>1, <2>3 DEF Refreshed, Shown
  <2>4. CASE outcome = "failed"
    BY <1>2, <1>7, <2>1, <2>4 DEF Refreshed, Shown
  <2> QED
    BY <1>1, <2>2, <2>3, <2>4
<1> HIDE DEF v
<1>9. Shown(v)
  <2>1. v.world = x /\ v.snapshot = Picture(x) /\ v.scope = u.scope
    BY <1>8
  <2>2. x.tick \in Nat
    BY <1>4
  <2>3. InView(v)
    BY <1>6, <1>7, <2>1, <2>2 DEF InView
  <2>4. playing \in BOOLEAN
    OBVIOUS
  <2> HIDE DEF playing
  <2> QED
    BY <1>2, <1>8, <2>3, <2>4 DEF Shown
<1>10. Settled(v, app') /\ Shown(app')
  BY <1>1, <1>9, Settles DEF v
<1>11. app'.playing = playing /\ app'.scope = app.scope
  BY <1>8, <1>10 DEF Settled, Adjusted
<1>12. WindowInv'
  BY <1>1, <1>10, <1>11 DEF WindowInv
<1>13. StandsInStep
  BY <1>1 DEF StandsInStep
<1>14. ShownInStep
  BY <1>11 DEF ShownInStep
<1> QED
  BY <1>12, <1>13, <1>14 DEF WindowStep

-----------------------------------------------------------------------------
(* The panels *)

LEMMA PanelUse ==
    ASSUME WindowInv, Loaded, NEW v, Worked(app, v), EarlyOnly(v) \/ LateOnly(v)
    PROVE  WindowStep
<1>1. Shown(v) /\ (Early(v) \/ Late(v)) /\ UNCHANGED <<asked, ran>>
  BY DEF Worked, EarlyOnly, LateOnly
<1>2. Settled(v, app') /\ Shown(app')
  BY <1>1, Settles
<1> QED
  BY <1>1, <1>2, PanelStep

LEMMA ButtonUse ==
    ASSUME WindowInv, NEW v, Adjusted(app, v), v.playing = app.playing, EarlyOnly(v) \/ LateOnly(v)
    PROVE  WindowStep
<1>1. Shown(v) /\ (Early(v) \/ Late(v)) /\ asked' = asked
  BY DEF Adjusted, EarlyOnly, LateOnly
<1>2. Settled(v, app') /\ Shown(app')
  BY <1>1, Settles
<1>3. asked' \in BOOLEAN /\ (v.playing => asked')
  BY <1>1 DEF WindowInv
<1> QED
  BY <1>2, <1>3, AdjustedStep

LEMMA ClockUse ==
    ASSUME WindowInv, NEW playing \in BOOLEAN, NEW v, Adjusted(app, v), v.playing = playing,
           Early(v) \/ Late(v), asked' = playing
    PROVE  WindowStep
<1>1. Settled(v, app') /\ Shown(app')
  BY Settles DEF Adjusted
<1>2. asked' \in BOOLEAN /\ (v.playing => asked')
  OBVIOUS
<1> QED
  BY <1>1, <1>2, AdjustedStep

LEMMA InLoaded ==
    ASSUME WindowInv, Loaded
    PROVE  /\ Shown(app) /\ InView(app)
           /\ LET s == app.world.net
              IN  /\ Net.nodes = s.nodes /\ Net.links = s.links /\ Net.parent = s.parent
                  /\ Net.children = s.children /\ Net.internal = s.internal
                  /\ Net.subscriptions = s.subscriptions /\ Net.owner = s.owner
                  /\ Net.subscribers = s.subscribers
                  /\ InOrder(s) /\ s \in NetworkType /\ s.nodes \subseteq NodeIds
                  /\ app.scope \in s.nodes
<1>1. Shown(app) /\ InView(app)
  BY DEF WindowInv, Shown, Loaded
<1>2. IsWorld(app.world) /\ InOrder(app.world.net) /\ app.world.net \in NetworkType
  BY <1>1 DEF InView, Tidy, IsWorld, InOrder
<1>3. app.world.net.nodes \subseteq NodeIds
  BY <1>2 DEF NetworkType
<1> QED
  BY <1>1, <1>2, <1>3, PictureFields DEF InView, Net

LEMMA RebuiltStep ==
    ASSUME WindowInv,
           NEW u \in {app} \cup {Loading(scenario) : scenario \in Plans} \cup {Watching(test) : test \in StressTests},
           Rebuilt(u)
    PROVE  WindowStep
<1>1. Shown(u) /\ u.playing = app.playing
  <2>1. CASE u = app
    BY <2>1 DEF WindowInv
  <2>2. CASE \E scenario \in Plans : u = Loading(scenario)
    <3>1. PICK scenario \in Plans : u = [app EXCEPT !.scenario = scenario, !.watching = Nil]
      BY <2>2 DEF Loading
    <3>2. Shown(app)
      BY DEF WindowInv
    <3>3. u = [scenario |-> scenario, watching |-> Nil, world |-> app.world, snapshot |-> app.snapshot,
               scope |-> app.scope, selection |-> app.selection, playing |-> app.playing, step |-> app.step,
               fuse |-> app.fuse, adding |-> app.adding]
      BY <3>1, <3>2 DEF Shown
    <3> QED
      BY <3>2, <3>3 DEF Shown, InView
  <2>3. CASE \E test \in StressTests : u = Watching(test)
    <3>1. PICK test \in StressTests : u = [app EXCEPT !.watching = test]
      BY <2>3 DEF Watching
    <3>2. Shown(app)
      BY DEF WindowInv
    <3>3. u = [scenario |-> app.scenario, watching |-> test, world |-> app.world, snapshot |-> app.snapshot,
               scope |-> app.scope, selection |-> app.selection, playing |-> app.playing, step |-> app.step,
               fuse |-> app.fuse, adding |-> app.adding]
      BY <3>1, <3>2 DEF Shown
    <3> QED
      BY <3>2, <3>3 DEF Shown, InView
  <2> QED
    BY <2>1, <2>2, <2>3
<1>2. PICK works \in BOOLEAN : Early(Build(u, works))
  BY DEF Rebuilt
<1>3. asked' = (asked /\ u.watching = Nil)
  BY DEF Rebuilt
<1> QED
  BY <1>1, <1>2, <1>3, BuildStep

LEMMA ToggleStep ==
    ASSUME WindowInv, Toggle
    PROVE  WindowStep
<1>1. Shown(app) /\ (~app.playing) \in BOOLEAN
  BY DEF WindowInv, Shown
<1> DEFINE v == SetPlaying(app, ~app.playing)
<1>2. Adjusted(app, v) /\ v.playing = ~app.playing
  BY <1>1, Adjustments
<1>3. Early(v) /\ asked' = ~app.playing
  BY DEF Toggle
<1> HIDE DEF v
<1> QED
  BY <1>1, <1>2, <1>3, ClockUse

(* Play, Pause and Resume, and what they do to the banner.                 *)
LEMMA PlayStep ==
    ASSUME WindowInv, NEW playing \in BOOLEAN, asked' = playing,
           \E v \in {SetPlaying(app, playing), [SetPlaying(app, playing) EXCEPT !.fuse = FALSE]} :
              Early(v) \/ Late(v)
    PROVE  WindowStep
<1> DEFINE u == SetPlaying(app, playing)
           x == [u EXCEPT !.fuse = FALSE]
<1>1. Adjusted(app, u) /\ u.playing = playing
  BY Adjustments DEF WindowInv
<1> HIDE DEF u
<1>2. Shown(u)
  BY <1>1 DEF Adjusted
<1>3. Adjusted(u, x) /\ x.playing = u.playing
  BY <1>2, Adjustments
<1> HIDE DEF x
<1>4. Adjusted(app, x) /\ x.playing = playing
  BY <1>1, <1>3 DEF Adjusted
<1>5. PICK v \in {u, x} : Early(v) \/ Late(v)
  BY DEF u, x
<1>6. Adjusted(app, v) /\ v.playing = playing
  BY <1>1, <1>4, <1>5
<1> QED
  BY <1>5, <1>6, ClockUse

LEMMA SpaceStep ==
    ASSUME WindowInv, Space
    PROVE  WindowStep
BY ToggleStep DEF Space

LEMMA ToolbarStep ==
    ASSUME WindowInv, Toolbar
    PROVE  WindowStep
<1>1. CASE \E u \in {app} \cup {Loading(scenario) : scenario \in Plans \ {app.scenario}} : Rebuilt(u)
  <2>1. PICK u \in {app} \cup {Loading(scenario) : scenario \in Plans \ {app.scenario}} : Rebuilt(u)
    BY <1>1
  <2> QED
    BY <2>1, RebuiltStep
<1>2. CASE Toggle
  BY <1>2, ToggleStep
<1>3. CASE EarlyOnly([app EXCEPT !.step = TRUE])
  <2> DEFINE v == [app EXCEPT !.step = TRUE]
  <2>1. Adjusted(app, v) /\ v.playing = app.playing
    BY Adjustments DEF WindowInv
  <2>2. EarlyOnly(v)
    BY <1>3
  <2> HIDE DEF v
  <2> QED
    BY <2>1, <2>2, ButtonUse
<1> QED
  BY <1>1, <1>2, <1>3 DEF Toolbar

LEMMA FrameStep ==
    ASSUME WindowInv, Frame
    PROVE  WindowStep
<1> DEFINE u == [app EXCEPT !.step = FALSE]
<1>1. Loaded /\ (app.step \/ app.playing)
  BY DEF Frame, Advance
<1>2. Adjusted(app, u) /\ u.playing = app.playing
  BY Adjustments DEF WindowInv
<1>3. PICK due \in IF app.playing THEN 0..2 ELSE {0} : RunTicks(u, due + IF app.step THEN 1 ELSE 0, "clock")
  BY DEF Frame, Advance
<1>4. due + (IF app.step THEN 1 ELSE 0) \in Nat
  OBVIOUS
<1>5. (u.playing => asked) /\ (asked \/ app.step)
  BY <1>1, <1>2 DEF WindowInv
<1> HIDE DEF u
<1> QED
  BY <1>1, <1>2, <1>3, <1>4, <1>5, RunStep

LEMMA AncestorsLive ==
    ASSUME NEW s, InOrder(s), NEW n \in s.nodes
    PROVE  AncestorsAndSelf(s, n) \subseteq s.nodes
<1>1. s.nodes \in SUBSET NodeIds /\ ClosedUpward(s, s.nodes)
  BY DEF InOrder, NetworkType, Resolved, ClosedUpward
<1> QED
  BY <1>1 DEF AncestorsAndSelf

LEMMA HierarchyStep ==
    ASSUME WindowInv, Hierarchy
    PROVE  WindowStep
<1>1. Loaded
  BY DEF Hierarchy
<1>2. PICK item \in TreeRows : EarlyOnly(SelectInPanel(app, item))
  BY DEF Hierarchy
<1>3. item \in NodeIds \cup LinkIds
  <2>1. /\ Net.nodes \subseteq NodeIds
        /\ \A n \in NodeIds : Net.internal[n] \subseteq LinkIds
    BY <1>1, InLoaded DEF NetworkType
  <2> QED
    BY <1>2, <2>1 DEF TreeRows
<1>4. Worked(app, SelectInPanel(app, item))
  BY <1>1, <1>3, InLoaded, Looked
<1> QED
  BY <1>1, <1>2, <1>4, PanelUse

LEMMA NodeInspected ==
    ASSUME WindowInv, Loaded, NEW n \in NodeIds, n \in Net.nodes, InspectorOfNode(n)
    PROVE  WindowStep
<1>1. Shown(app) /\ InView(app) /\ Net.nodes = app.world.net.nodes
  BY InLoaded
<1>2. CASE EarlyOnly([app EXCEPT !.scope = n])
  <2> DEFINE v == [app EXCEPT !.scope = n]
  <2>1. Worked(app, v)
    BY <1>1, Looked
  <2>2. EarlyOnly(v)
    BY <1>2
  <2> HIDE DEF v
  <2> QED
    BY <2>1, <2>2, PanelUse
<1>3. CASE EarlyOnly(RemoveShown(app, n))
  BY <1>1, <1>3, RemovedShown, PanelUse
<1>4. CASE \E kind \in Kinds : EarlyOnly(RunSetLogic(app, n, kind))
  <2>1. PICK kind \in Kinds : EarlyOnly(RunSetLogic(app, n, kind))
    BY <1>4
  <2>2. Worked(app, RunSetLogic(app, n, kind))
    BY <1>1, LogicShown, PanelsAssumption
  <2> QED
    BY <2>1, <2>2, PanelUse
<1> QED
  BY <1>2, <1>3, <1>4 DEF InspectorOfNode

LEMMA InspectorStep ==
    ASSUME WindowInv, Inspector
    PROVE  WindowStep
<1>1. Loaded /\ app.selection \in Net.nodes \cup Net.links
  BY DEF Inspector
<1>2. /\ Net.nodes \subseteq NodeIds /\ Net.links \subseteq LinkIds
      /\ \A n \in NodeIds : /\ Net.parent[n] \in NodeIds \cup {Nil} /\ Net.children[n] \subseteq NodeIds
                            /\ Net.internal[n] \subseteq LinkIds /\ Net.subscriptions[n] \subseteq LinkIds
      /\ \A l \in LinkIds : Net.owner[l] \in NodeIds \cup {Nil} /\ Net.subscribers[l] \subseteq NodeIds
  BY <1>1, InLoaded DEF NetworkType
<1>3. CASE \E item \in Neighbours(app.selection) : EarlyOnly(SelectInPanel(app, item))
  <2>1. PICK item \in Neighbours(app.selection) : EarlyOnly(SelectInPanel(app, item))
    BY <1>3
  <2>2. item \in NodeIds \cup LinkIds
    <3>1. CASE app.selection \in NodeIds
      BY <1>2, <2>1, <3>1 DEF Neighbours
    <3>2. CASE app.selection \notin NodeIds
      <4>1. app.selection \in LinkIds
        BY <1>1, <1>2, <3>2
      <4> QED
        BY <1>2, <2>1, <3>2, <4>1 DEF Neighbours
    <3> QED
      BY <3>1, <3>2
  <2>3. Worked(app, SelectInPanel(app, item))
    BY <1>1, <2>2, InLoaded, Looked
  <2> QED
    BY <1>1, <2>1, <2>3, PanelUse
<1>4. CASE app.selection \in NodeIds /\ InspectorOfNode(app.selection)
  <2>1. app.selection \in Net.nodes
    BY <1>1, <1>2, <1>4, NetworkAssumption
  <2> QED
    BY <1>1, <1>4, <2>1, NodeInspected
<1> QED
  BY <1>3, <1>4 DEF Inspector

(* Alerts, in their list and in the banner.                                *)
LEMMA AlertStep ==
    ASSUME WindowInv, Loaded, NEW item \in app.world.net.issued,
           EarlyOnly(SelectInPanel(app, item)) \/ LateOnly(SelectInPanel(app, item))
    PROVE  WindowStep
<1>1. item \in NodeIds \cup LinkIds
  BY InLoaded DEF NetworkType
<1>2. Worked(app, SelectInPanel(app, item))
  BY <1>1, InLoaded, Looked
<1> QED
  BY <1>2, PanelUse

LEMMA AlertsListStep ==
    ASSUME WindowInv, AlertsList
    PROVE  WindowStep
BY AlertStep DEF AlertsList

LEMMA TestsTabStep ==
    ASSUME WindowInv, TestsTab
    PROVE  WindowStep
<1>1. PICK test \in StressTests : Rebuilt(Watching(test))
  BY DEF TestsTab
<1> QED
  BY <1>1, RebuiltStep

LEMMA AddWindowStep ==
    ASSUME WindowInv, AddWindow
    PROVE  WindowStep
<1>1. Loaded
  BY DEF AddWindow
<1>2. Shown(app) /\ InView(app) /\ app.scope \in NodeIds
  BY <1>1, InLoaded
<1>3. PICK link \in LinkChoices(app) :
        \/ Placement
        \/ \E order \in Orders, name \in Names :
              \E onto : \E added \in AddNode(app, order, name, app.scope, onto) :
                 app' = [added.app EXCEPT !.adding.link = link] /\ UNCHANGED <<asked, ran>>
        \/ EarlyOnly([app EXCEPT !.adding = [open |-> FALSE, link |-> link]])
  BY DEF AddWindow
<1>4. CASE Placement
  <2>1. PICK choice : EarlyOnly([app EXCEPT !.adding.link = choice])
    BY <1>4 DEF Placement
  <2> DEFINE v == [app EXCEPT !.adding.link = choice]
  <2>2. Adjusted(app, v) /\ v.playing = app.playing
    BY <1>2, Adjustments
  <2>3. EarlyOnly(v)
    BY <2>1
  <2> HIDE DEF v
  <2> QED
    BY <2>2, <2>3, ButtonUse
<1>5. CASE \E order \in Orders, name \in Names :
              \E onto : \E added \in AddNode(app, order, name, app.scope, onto) :
                 app' = [added.app EXCEPT !.adding.link = link] /\ UNCHANGED <<asked, ran>>
  <2>1. PICK order \in Orders, name \in Names :
              \E onto : \E added \in AddNode(app, order, name, app.scope, onto) :
                 app' = [added.app EXCEPT !.adding.link = link] /\ UNCHANGED <<asked, ran>>
    BY <1>5
  <2>2. PICK onto : \E added \in AddNode(app, order, name, app.scope, onto) :
                 app' = [added.app EXCEPT !.adding.link = link] /\ UNCHANGED <<asked, ran>>
    BY <2>1
  <2>3. PICK added \in AddNode(app, order, name, app.scope, onto) :
                 app' = [added.app EXCEPT !.adding.link = link] /\ UNCHANGED <<asked, ran>>
    BY <2>2
  <2>4. order \in PanelOrders
    BY PanelsAssumption DEF PanelOrders
  <2>5. Worked(app, added.app)
    BY <1>2, <2>4, AddedShown
  <2>6. Settled(added.app, app') /\ Shown(app')
    BY <2>3, <2>5, LinkSettled DEF Worked
  <2> QED
    BY <1>1, <2>3, <2>5, <2>6, PanelStep
<1>6. CASE EarlyOnly([app EXCEPT !.adding = [open |-> FALSE, link |-> link]])
  <2> DEFINE a == [open |-> FALSE, link |-> link]
             v == [app EXCEPT !.adding = a]
  <2>1. EarlyOnly(v)
    BY <1>6
  <2> HIDE DEF a
  <2>2. Adjusted(app, v) /\ v.playing = app.playing
    BY <1>2, Adjustments
  <2> HIDE DEF v
  <2> QED
    BY <2>1, <2>2, ButtonUse
<1> QED
  BY <1>3, <1>4, <1>5, <1>6

(* Another level is viewed.                                                *)
LEMMA LevelStep ==
    ASSUME WindowInv, Loaded, NEW n \in app.world.net.nodes,
           EarlyOnly([app EXCEPT !.scope = n]) \/ LateOnly([app EXCEPT !.scope = n])
    PROVE  WindowStep
<1> DEFINE v == [app EXCEPT !.scope = n]
<1>1. Worked(app, v)
  BY InLoaded, Looked
<1>2. EarlyOnly(v) \/ LateOnly(v)
  OBVIOUS
<1> HIDE DEF v
<1> QED
  BY <1>1, <1>2, PanelUse

LEMMA BreadcrumbsStep ==
    ASSUME WindowInv, Breadcrumbs
    PROVE  WindowStep
<1>1. Loaded
  BY DEF Breadcrumbs
<1>2. CASE \E n \in AncestorsAndSelf(Net, app.scope) \ {app.scope} : LateOnly([app EXCEPT !.scope = n])
  <2>1. PICK n \in AncestorsAndSelf(Net, app.scope) : LateOnly([app EXCEPT !.scope = n])
    BY <1>2
  <2>2. AncestorsAndSelf(Net, app.scope) = AncestorsAndSelf(app.world.net, app.scope)
    BY <1>1, InLoaded DEF AncestorsAndSelf, ClosedUpward
  <2>3. n \in app.world.net.nodes
    BY <1>1, <2>1, <2>2, InLoaded, AncestorsLive
  <2> QED
    BY <1>1, <2>1, <2>3, LevelStep
<1>3. CASE LateOnly([app EXCEPT !.adding.open = TRUE])
  <2> DEFINE v == [app EXCEPT !.adding.open = TRUE]
  <2>1. Adjusted(app, v) /\ v.playing = app.playing
    BY Adjustments DEF WindowInv
  <2>2. LateOnly(v)
    BY <1>3
  <2> HIDE DEF v
  <2> QED
    BY <2>1, <2>2, ButtonUse
<1> QED
  BY <1>2, <1>3 DEF Breadcrumbs

LEMMA FuseBannerStep ==
    ASSUME WindowInv, FuseBanner
    PROVE  WindowStep
<1>1. Loaded
  BY DEF FuseBanner
<1>2. CASE \E item \in app.world.net.issued : LateOnly(SelectInPanel(app, item))
  BY <1>1, <1>2, AlertStep
<1>3. CASE Late([SetPlaying(app, TRUE) EXCEPT !.fuse = FALSE]) /\ asked' = TRUE
  BY <1>3, PlayStep
<1>4. CASE LateOnly([app EXCEPT !.fuse = FALSE])
  <2> DEFINE v == [app EXCEPT !.fuse = FALSE]
  <2>1. Adjusted(app, v) /\ v.playing = app.playing
    BY Adjustments DEF WindowInv
  <2>2. LateOnly(v)
    BY <1>4
  <2> HIDE DEF v
  <2> QED
    BY <2>1, <2>2, ButtonUse
<1> QED
  BY <1>2, <1>3, <1>4 DEF FuseBanner

(* A level above or below the one that is viewed is one there is.          *)
LEMMA LevelsLive ==
    ASSUME NEW s, InOrder(s), NEW n \in s.nodes
    PROVE  s.children[n] \subseteq s.nodes /\ (s.parent[n] # Nil => s.parent[n] \in s.nodes)
<1>1. /\ n \in NodeIds /\ Nil \notin NodeIds /\ s.children[n] \subseteq NodeIds
      /\ \A m \in NodeIds : m \in s.children[n] <=> s.parent[m] = n
      /\ \A m \in NodeIds : m \notin s.nodes => s.parent[m] = Nil
      /\ s.parent[n] \in s.nodes \cup {Nil}
  BY NetworkAssumption DEF InOrder, NetworkType, Paired, Resolved
<1> QED
  BY <1>1

LEMMA CanvasStep ==
    ASSUME WindowInv, Canvas
    PROVE  WindowStep
<1>1. Loaded
  BY DEF Canvas
<1>2. /\ Shown(app) /\ InView(app) /\ app.scope \in app.world.net.nodes
      /\ Net.children = app.world.net.children /\ Net.parent = app.world.net.parent
      /\ app.world.net.children[app.scope] \subseteq app.world.net.nodes
      /\ app.world.net.parent[app.scope] # Nil => app.world.net.parent[app.scope] \in app.world.net.nodes
  BY <1>1, InLoaded, LevelsLive
<1>3. CASE \E item : LateOnly(SelectOnCanvas(app, item))
  <2>1. PICK item : LateOnly(SelectOnCanvas(app, item))
    BY <1>3
  <2>2. Worked(app, SelectOnCanvas(app, item))
    BY <1>2, Looked
  <2> QED
    BY <1>1, <2>1, <2>2, PanelUse
<1>4. CASE \E n \in Net.children[app.scope] : LateOnly([app EXCEPT !.scope = n])
  BY <1>1, <1>2, <1>4, LevelStep
<1>5. CASE Net.parent[app.scope] # Nil /\ LateOnly([app EXCEPT !.scope = Net.parent[app.scope]])
  BY <1>1, <1>2, <1>5, LevelStep
<1> QED
  BY <1>3, <1>4, <1>5 DEF Canvas

-----------------------------------------------------------------------------
(* Requests *)

LEMMA RequestedTicks ==
    ASSUME WindowInv, RequestStep
    PROVE  WindowStep
<1> DEFINE u == SetPlaying(app, FALSE)
<1>1. Loaded
  BY DEF RequestStep
<1>2. PICK steps \in 1..2 : RunTicks(u, steps, "request")
  BY DEF RequestStep
<1>3. Adjusted(app, u) /\ u.playing = FALSE
  BY Adjustments DEF WindowInv
<1>4. "request" # "clock" /\ steps \in Nat
  OBVIOUS
<1> HIDE DEF u
<1> QED
  BY <1>1, <1>2, <1>3, <1>4, RunStep

LEMMA RequestAddStep ==
    ASSUME WindowInv, RequestAdd
    PROVE  WindowStep
<1>1. Loaded
  BY DEF RequestAdd
<1>2. Shown(app) /\ InView(app) /\ Net.nodes \subseteq NodeIds
  BY <1>1, InLoaded
<1>3. PICK order \in Orders, name \in Names, parent \in Net.nodes :
         \E onto : \E added \in AddNode(app, order, name, parent, onto) :
            EarlyOnly(IF added.ok THEN [added.app EXCEPT !.scope = parent] ELSE added.app)
  BY DEF RequestAdd
<1>4. PICK onto : \E added \in AddNode(app, order, name, parent, onto) :
            EarlyOnly(IF added.ok THEN [added.app EXCEPT !.scope = parent] ELSE added.app)
  BY <1>3
<1>5. PICK added \in AddNode(app, order, name, parent, onto) :
            EarlyOnly(IF added.ok THEN [added.app EXCEPT !.scope = parent] ELSE added.app)
  BY <1>4
<1>6. order \in PanelOrders /\ parent \in NodeIds
  BY <1>2, PanelsAssumption DEF PanelOrders
<1> DEFINE v == IF added.ok THEN [added.app EXCEPT !.scope = parent] ELSE added.app
<1>7. Worked(app, v)
  BY <1>2, <1>6, AddedShown
<1>8. EarlyOnly(v)
  BY <1>5
<1> HIDE DEF v
<1> QED
  BY <1>1, <1>7, <1>8, PanelUse

LEMMA AnyRequestStep ==
    ASSUME WindowInv, Request
    PROVE  WindowStep
<1>1. CASE RequestBuild
  <2>1. PICK u \in {app} \cup {Loading(scenario) : scenario \in Plans} \cup {Watching(test) : test \in StressTests} :
           Rebuilt(u)
    BY <1>1 DEF RequestBuild
  <2> QED
    BY <2>1, RebuiltStep
<1>2. CASE RequestPlay
  BY <1>2, PlayStep DEF RequestPlay
<1>3. CASE RequestPause
  BY <1>3, PlayStep DEF RequestPause
<1>4. CASE RequestStep
  BY <1>4, RequestedTicks
<1>5. CASE RequestOpen
  <2>1. Loaded /\ Net.nodes = app.world.net.nodes
    BY <1>5, InLoaded DEF RequestOpen
  <2> QED
    BY <1>5, <2>1, LevelStep DEF RequestOpen
<1>6. CASE RequestUp
  <2>1. Loaded /\ Net.parent[app.scope] # Nil /\ EarlyOnly([app EXCEPT !.scope = Net.parent[app.scope]])
    BY <1>6 DEF RequestUp
  <2>2. Net.parent[app.scope] \in app.world.net.nodes
    BY <2>1, InLoaded, LevelsLive
  <2> QED
    BY <2>1, <2>2, LevelStep
<1>7. CASE RequestSelect
  <2>1. Loaded
    BY <1>7 DEF RequestSelect
  <2>2. PICK n \in Net.nodes : EarlyOnly(SelectInPanel(app, n))
    BY <1>7 DEF RequestSelect
  <2>3. Worked(app, SelectInPanel(app, n))
    BY <2>1, <2>2, InLoaded, Looked
  <2> QED
    BY <2>1, <2>2, <2>3, PanelUse
<1>8. CASE RequestAdd
  BY <1>8, RequestAddStep
<1>9. CASE RequestRemove
  <2>1. Loaded
    BY <1>9 DEF RequestRemove
  <2>2. PICK n \in Net.nodes : EarlyOnly(RemoveShown(app, n))
    BY <1>9 DEF RequestRemove
  <2>3. Worked(app, RemoveShown(app, n))
    BY <2>1, <2>2, InLoaded, RemovedShown
  <2> QED
    BY <2>1, <2>2, <2>3, PanelUse
<1>10. CASE RequestLogic
  <2>1. Loaded
    BY <1>10 DEF RequestLogic
  <2>2. PICK n \in Net.nodes, kind \in Kinds : EarlyOnly(RunSetLogic(app, n, kind))
    BY <1>10 DEF RequestLogic
  <2>3. Worked(app, RunSetLogic(app, n, kind))
    BY <2>1, <2>2, InLoaded, LogicShown, PanelsAssumption
  <2> QED
    BY <2>1, <2>2, <2>3, PanelUse
<1> QED
  BY <1>1, <1>2, <1>3, <1>4, <1>5, <1>6, <1>7, <1>8, <1>9, <1>10 DEF Request

-----------------------------------------------------------------------------
(* What a window opens with, and each of its steps *)

LEMMA WindowStart ==
    ASSUME Start
    PROVE  WindowInv
<1> DEFINE First(scenario, watching, adding) ==
              [scenario |-> scenario, watching |-> watching, world |-> Nil, snapshot |-> Nil,
               scope |-> Nil, selection |-> Nil, playing |-> TRUE, step |-> FALSE, fuse |-> FALSE,
               adding |-> [open |-> adding, link |-> Nil]]
<1>1. PICK scenario \in Plans, watching \in StressTests \cup {Nil}, play \in BOOLEAN, works \in BOOLEAN,
           adding \in BOOLEAN :
              \E open \in IF works THEN Build(First(scenario, watching, adding), works).world.net.nodes ELSE {Nil} :
                 app = [Build(First(scenario, watching, adding), works) EXCEPT !.scope = open, !.playing = @ \/ play]
  BY DEF Start, NewApp
<1> DEFINE blank == First(scenario, watching, adding)
           u == Build(blank, works)
<1>2. Shown(blank)
  BY DEF Shown
<1> HIDE DEF First
<1>3. /\ Shown(u) /\ u.playing \in BOOLEAN
      /\ works => InView(u)
      /\ ~works => u.world = Nil
  BY <1>2, BuildShown DEF Shown
<1>4. PICK open \in IF works THEN u.world.net.nodes ELSE {Nil} :
         app = [u EXCEPT !.scope = open, !.playing = @ \/ play]
  BY <1>1
<1> HIDE DEF u
<1> DEFINE playing == u.playing \/ play
<1>5. playing \in BOOLEAN
  BY <1>1, <1>3
<1>6. app = [scenario |-> u.scenario, watching |-> u.watching, world |-> u.world, snapshot |-> u.snapshot,
             scope |-> open, selection |-> u.selection, playing |-> playing, step |-> u.step,
             fuse |-> u.fuse, adding |-> u.adding]
  BY <1>3, <1>4 DEF Shown
<1> HIDE DEF playing
<1>7. app.world # Nil => InView(app)
  BY <1>3, <1>4, <1>6 DEF InView
<1>8. Shown(app) /\ app.playing = playing
  BY <1>3, <1>5, <1>6, <1>7 DEF Shown
<1>9. asked = app.playing
  BY DEF Start, NewApp
<1> QED
  BY <1>5, <1>8, <1>9 DEF WindowInv

LEMMA WindowSteps ==
    ASSUME WindowInv, [Update]_windowVars
    PROVE  WindowStep
<1>1. CASE UNCHANGED windowVars
  <2>1. app' = app /\ asked' = asked
    BY <1>1 DEF windowVars, appVars
  <2>2. WindowInv'
    BY <2>1 DEF WindowInv
  <2>3. Loaded => app.world.tick \in Nat
    BY DEF WindowInv, Shown, InView, Loaded
  <2> QED
    BY <2>1, <2>2, <2>3 DEF WindowStep, StandsInStep, ShownInStep
<1>2. CASE Update
  <2>1. CASE Space
    BY <2>1, SpaceStep
  <2>2. CASE Request
    BY <2>2, AnyRequestStep
  <2>3. CASE Frame
    BY <2>3, FrameStep
  <2>4. CASE Toolbar
    BY <2>4, ToolbarStep
  <2>5. CASE Hierarchy
    BY <2>5, HierarchyStep
  <2>6. CASE Inspector
    BY <2>6, InspectorStep
  <2>7. CASE AlertsList
    BY <2>7, AlertsListStep
  <2>8. CASE TestsTab
    BY <2>8, TestsTabStep
  <2>9. CASE AddWindow
    BY <2>9, AddWindowStep
  <2>10. CASE Breadcrumbs
    BY <2>10, BreadcrumbsStep
  <2>11. CASE FuseBanner
    BY <2>11, FuseBannerStep
  <2>12. CASE Canvas
    BY <2>12, CanvasStep
  <2> QED
    BY <1>2, <2>1, <2>2, <2>3, <2>4, <2>5, <2>6, <2>7, <2>8, <2>9, <2>10, <2>11, <2>12 DEF Update
<1> QED
  BY <1>1, <1>2

(* Whatever is clicked or asked for, every world the window drives is one  *)
(* in order, each of its links some node's own, drawn as it is, and the    *)
(* clock plays only after it was asked to (main.rs:742).                   *)
THEOREM WindowInvariant == WindowSpec => []WindowInv
<1>1. Start => WindowInv
  BY WindowStart
<1>2. WindowInv /\ [Update]_windowVars => WindowInv'
  BY WindowSteps DEF WindowStep
<1> QED
  BY <1>1, <1>2, PTL DEF WindowSpec

(* PictureIsTrue, for every scenario, test, order and bound (main.rs:774). *)
THEOREM PictureStaysTrue == WindowSpec => []PictureIsTrue
<1>1. WindowInv => PictureIsTrue
  BY DEF WindowInv, Shown, InView, Loaded, PictureIsTrue
<1> QED
  BY <1>1, WindowInvariant, PTL

(* A clock that was stopped runs no tick before it is asked to             *)
(* (main.rs:422), whatever stopped it.                                     *)
THEOREM StoppedClocksStand == WindowSpec => StandsUntilAsked
<1>1. WindowInv /\ [Update]_windowVars =>
        [Loaded /\ Loaded' /\ app'.world.tick > app.world.tick /\ ran'.by = "clock" => asked \/ app.step]_windowVars
  BY WindowSteps DEF WindowStep, StandsInStep
<1> QED
  BY <1>1, WindowInvariant, PTL DEF WindowSpec, StandsUntilAsked

(* A change of level that brings a selection shows it, if any level does   *)
(* (main.rs:281), also when the level that was viewed has been removed.    *)
THEOREM LevelsShowTheSelection == WindowSpec => SelectionIsShown
<1>1. WindowInv /\ [Update]_windowVars =>
        [Loaded /\ Loaded' /\ app'.scope # app.scope /\ app'.selection # app.selection
           => \/ app'.selection \in Scene(app'.snapshot.net, app'.scope) \cup {Nil}
              \/ \A n \in app'.snapshot.net.nodes : app'.selection \notin Scene(app'.snapshot.net, n)]_windowVars
  BY WindowSteps DEF WindowStep, ShownInStep
<1> QED
  BY <1>1, WindowInvariant, PTL DEF WindowSpec, SelectionIsShown
=============================================================================
