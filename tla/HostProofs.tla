----------------------------- MODULE HostProofs ------------------------------
(***************************************************************************)
(* What the Unity host layer's structure keeps to for any number of C#     *)
(* nodes and links, whatever its callers do: a C# node never has more in   *)
(* the engine than its views show.  The invariant relates three things:    *)
(* the engine's network, which needs to be sound only as far as the host   *)
(* relies on it; the tables that tie C# nodes and links to the engine's;   *)
(* and the views.  On top of it, what holds of the traffic, for any number *)
(* of packets.                                                             *)
(***************************************************************************)
EXTENDS HostTraffic, FoldProofs, SequenceTheorems

(* A name may have a count appended, and then more.                        *)
AllNames == Names \cup {Append(name, i) : name \in Names, i \in Nat} \cup {RootName, Nil}

Networks ==
    [nodes: SUBSET NodeIds, links: SUBSET LinkIds,
     issued: SUBSET (NodeIds \cup LinkIds),
     name: [NodeIds \cup LinkIds -> AllNames],
     parent: [NodeIds -> NodeIds \cup {Nil}],
     children: [NodeIds -> SUBSET NodeIds],
     internal: [NodeIds -> SUBSET LinkIds],
     subscriptions: [NodeIds -> SUBSET LinkIds],
     owner: [LinkIds -> NodeIds \cup {Nil}],
     subscribers: [LinkIds -> SUBSET NodeIds]]

(* What the host relies on in the engine's network.                        *)
Sound(s) ==
    /\ s \in Networks
    /\ s.nodes \cup s.links \subseteq s.issued
    /\ Root \in s.nodes
    /\ \A n \in NodeIds : n \notin s.nodes => s.parent[n] = Nil /\ s.subscriptions[n] = {} /\ s.internal[n] = {}
    /\ \A n \in NodeIds : s.parent[n] \in s.nodes \cup {Nil} /\ s.parent[n] # n
    /\ \A n \in NodeIds : s.subscriptions[n] \cup s.internal[n] \subseteq s.links
    /\ \A m, n \in NodeIds : n \in s.children[m] <=> s.parent[n] = m
    /\ \A n \in NodeIds, l \in LinkIds : l \in s.subscriptions[n] <=> n \in s.subscribers[l]

LEMMA Handles ==
    /\ Root \in NodeIds /\ RootModel \in Models /\ NodeIds \cap LinkIds = {}
    /\ Nil \notin NodeIds /\ Nil \notin LinkIds /\ Nil \notin Models /\ Nil \notin Wires
BY HostAssumption

(* No reserved name has a count, and no name comes to be reserved by one.  *)
LEMMA CountedNames ==
    ASSUME NEW x \in Models \cup Wires, NEW i \in Nat
    PROVE  /\ IdOf[x] \in AllNames \ Reserved
           /\ Append(IdOf[x], i) \in AllNames \ Reserved
<1>1. IdOf[x] \in Names \ Reserved
  BY HostAssumption
<1>2. Append(IdOf[x], i) \in AllNames
  BY <1>1 DEF AllNames
<1> DEFINE S == {IdOf[x][j] : j \in DOMAIN IdOf[x]}
<1>3. IdOf[x] \in Seq(S) /\ IdOf[x] # <<>>
  BY <1>1, HostAssumption
<1> HIDE DEF S
<1>4. IdOf[x] \in Seq(S \cup {i})
  BY <1>3
<1>5. Len(IdOf[x]) # 0 /\ Len(IdOf[x]) \in Nat
  BY <1>3, EmptySeq
<1>6. Len(Append(IdOf[x], i)) = Len(IdOf[x]) + 1
  BY <1>4
<1>7. \A name \in Reserved : Len(name) = 1
  BY HostAssumption
<1>8. Append(IdOf[x], i) \notin Reserved
  <2>1. Append(IdOf[x], i) \in Reserved => Len(Append(IdOf[x], i)) = 1
    BY <1>7
  <2> QED
    BY <1>5, <1>6, <2>1
<1> QED
  BY <1>1, <1>2, <1>8 DEF AllNames

-----------------------------------------------------------------------------
(* The engine's operations that the host calls *)

LEMMA InOrderIsSound ==
    ASSUME NEW s, Engine!InOrder(s)
    PROVE  Sound(s)
<1> USE DEF Engine!InOrder
<1>1. s \in Networks
  BY DEF Engine!NetworkType, Networks, AllNames
<1>2. \A n \in NodeIds : n \notin s.nodes => s.parent[n] = Nil /\ s.subscriptions[n] = {} /\ s.internal[n] = {}
  BY Handles, <1>1 DEF Engine!Resolved, Engine!Paired, Networks
<1>3. \A n \in NodeIds : s.parent[n] \in s.nodes \cup {Nil} /\ s.parent[n] # n
  <2>1. ASSUME NEW n \in NodeIds PROVE s.parent[n] # n
    <3>1. \A S \in SUBSET NodeIds : S # {} => \E m \in S : s.parent[m] \notin S
      BY DEF Engine!Forest
    <3>2. {n} \in SUBSET NodeIds
      OBVIOUS
    <3>3. \E m \in {n} : s.parent[m] \notin {n}
      BY <3>1, <3>2
    <3> QED
      BY <3>3
  <2> QED
    BY <2>1 DEF Engine!Resolved
<1>4. \A n \in NodeIds : s.subscriptions[n] \cup s.internal[n] \subseteq s.links
  BY Handles, <1>1 DEF Engine!Resolved, Engine!Paired, Networks
<1> QED
  BY <1>1, <1>2, <1>3, <1>4 DEF Sound, Engine!Resolved, Engine!Paired

LEMMA NodeCreated ==
    ASSUME NEW s, Sound(s), NEW id \in NodeIds \ s.issued, NEW name \in AllNames \ Reserved
    PROVE  LET t == Engine!CreateNode(s, id, name).net
           IN  /\ Sound(t)
               /\ t.nodes = s.nodes \cup {id} /\ t.issued = s.issued \cup {id}
               /\ t.links = s.links /\ t.parent = s.parent /\ t.children = s.children
               /\ t.internal = s.internal /\ t.subscriptions = s.subscriptions
<1> DEFINE t == Engine!CreateNode(s, id, name).net
           A == [s.name EXCEPT ![id] = name]
           B == s.nodes \cup {id}
           C == s.issued \cup {id}
<1>1. t = [s EXCEPT !.nodes = B, !.issued = C, !.name = A]
  BY DEF Engine!CreateNode, Engine!ValidName, Engine!Done, Sound, Networks
<1> HIDE DEF t
<1>2. t \in Networks
  <2>1. A \in [NodeIds \cup LinkIds -> AllNames] /\ B \in SUBSET NodeIds /\ C \in SUBSET (NodeIds \cup LinkIds)
    BY DEF Sound, Networks
  <2> HIDE DEF A, B, C
  <2> QED
    BY <1>1, <2>1 DEF Sound, Networks
<1>3. /\ t.nodes = s.nodes \cup {id} /\ t.issued = s.issued \cup {id}
      /\ t.links = s.links /\ t.parent = s.parent /\ t.children = s.children
      /\ t.internal = s.internal /\ t.subscriptions = s.subscriptions
      /\ t.subscribers = s.subscribers
  BY <1>1 DEF Sound, Networks
<1>4. Sound(t)
  BY <1>2, <1>3 DEF Sound
<1> QED
  BY <1>3, <1>4 DEF t

LEMMA LinkCreated ==
    ASSUME NEW s, Sound(s), NEW id \in LinkIds \ s.issued, NEW name \in AllNames \ Reserved
    PROVE  LET t == Engine!CreateLink(s, id, name).net
           IN  /\ Sound(t)
               /\ t.links = s.links \cup {id} /\ t.issued = s.issued \cup {id}
               /\ t.nodes = s.nodes /\ t.parent = s.parent /\ t.children = s.children
               /\ t.internal = s.internal /\ t.subscriptions = s.subscriptions
<1> DEFINE t == Engine!CreateLink(s, id, name).net
           A == [s.name EXCEPT ![id] = name]
           B == s.links \cup {id}
           C == s.issued \cup {id}
<1>1. t = [s EXCEPT !.links = B, !.issued = C, !.name = A]
  BY DEF Engine!CreateLink, Engine!ValidName, Engine!Done, Sound, Networks
<1> HIDE DEF t
<1>2. t \in Networks
  <2>1. A \in [NodeIds \cup LinkIds -> AllNames] /\ B \in SUBSET LinkIds /\ C \in SUBSET (NodeIds \cup LinkIds)
    BY DEF Sound, Networks
  <2> HIDE DEF A, B, C
  <2> QED
    BY <1>1, <2>1 DEF Sound, Networks
<1>3. /\ t.links = s.links \cup {id} /\ t.issued = s.issued \cup {id}
      /\ t.nodes = s.nodes /\ t.parent = s.parent /\ t.children = s.children
      /\ t.internal = s.internal /\ t.subscriptions = s.subscriptions
      /\ t.subscribers = s.subscribers
  BY <1>1 DEF Sound, Networks
<1>4. Sound(t)
  BY <1>2, <1>3 DEF Sound
<1> QED
  BY <1>3, <1>4 DEF t

(* A node that is under another parent stays there.                        *)
LEMMA Nested ==
    ASSUME NEW s, Sound(s), NEW p \in NodeIds, NEW n \in NodeIds
    PROVE  LET t == Engine!Connect(s, p, n, Nil).net
           IN  /\ Sound(t)
               /\ t.nodes = s.nodes /\ t.links = s.links /\ t.issued = s.issued
               /\ t.internal = s.internal /\ t.subscriptions = s.subscriptions
               /\ \A m \in NodeIds \ {n} : t.parent[m] = s.parent[m]
               /\ t.parent[n] \in {s.parent[n], p}
<1> DEFINE t == Engine!Connect(s, p, n, Nil).net
           u == Engine!WithParent(s, p, n)
<1>1. CASE t = s
  BY <1>1 DEF Sound
<1>2. CASE t # s
  <2>1. Engine!CanConnect(s, p, n, Nil) /\ s.parent[n] = Nil /\ t = u
    BY <1>2 DEF Engine!Connect, Engine!Rejected, Engine!Done
  <2>2. n # p /\ p \in s.nodes /\ n \in s.nodes
    <3>1. p \in Engine!AncestorsAndSelf(s, p)
      BY DEF Engine!AncestorsAndSelf
    <3> QED
      BY <3>1, <2>1 DEF Engine!CanConnect
  <2>3. u = [s EXCEPT !.parent = [s.parent EXCEPT ![n] = p], !.children = [s.children EXCEPT ![p] = @ \cup {n}]]
    BY DEF Engine!WithParent, Sound, Networks
  <2> HIDE DEF u
  <2>4. u \in Networks
    <3>1. /\ [s.parent EXCEPT ![n] = p] \in [NodeIds -> NodeIds \cup {Nil}]
          /\ [s.children EXCEPT ![p] = @ \cup {n}] \in [NodeIds -> SUBSET NodeIds]
      BY DEF Sound, Networks
    <3> QED
      BY <2>3, <3>1 DEF Sound, Networks
  <2>5. /\ u.nodes = s.nodes /\ u.links = s.links /\ u.issued = s.issued
        /\ u.internal = s.internal /\ u.subscriptions = s.subscriptions
        /\ u.parent = [s.parent EXCEPT ![n] = p]
        /\ u.children = [s.children EXCEPT ![p] = @ \cup {n}]
        /\ u.subscribers = s.subscribers
    BY <2>3 DEF Sound, Networks
  <2>6. \A m \in NodeIds : u.parent[m] = IF m = n THEN p ELSE s.parent[m]
    BY <2>5 DEF Sound, Networks
  <2>7. \A m, o \in NodeIds : o \in u.children[m] <=> o \in s.children[m] \/ (m = p /\ o = n)
    BY <2>5 DEF Sound, Networks
  <2>8. \A m, o \in NodeIds : o \in u.children[m] <=> u.parent[o] = m
    BY <2>1, <2>6, <2>7, Handles DEF Sound
  <2>9. Sound(u)
    BY <2>2, <2>4, <2>5, <2>6, <2>8 DEF Sound
  <2> QED
    BY <2>1, <2>5, <2>6, <2>9
<1> QED
  BY <1>1, <1>2

LEMMA Unnested ==
    ASSUME NEW s, Sound(s), NEW p \in NodeIds, NEW n \in NodeIds, p \in s.nodes, n \in s.nodes
    PROVE  LET t == Engine!Disconnect(s, p, n).net
           IN  /\ Sound(t)
               /\ t.nodes = s.nodes /\ t.links = s.links /\ t.issued = s.issued /\ t.internal = s.internal
               /\ \A m \in NodeIds : t.subscriptions[m] \subseteq s.subscriptions[m]
               /\ \A m \in NodeIds \ {n} : t.parent[m] = s.parent[m]
               /\ t.parent[n] = IF s.parent[n] = p THEN Nil ELSE s.parent[n]
<1> DEFINE t == Engine!Disconnect(s, p, n).net
           L == s.internal[p] \cap s.links
           u == Engine!WithoutSubscriber(s, n, L)
           v == Engine!WithoutParent(u, p, n)
<1>1. CASE s.parent[n] # p
  <2>1. t = s
    BY <1>1 DEF Engine!Disconnect, Engine!Rejected, Sound
  <2>2. \A m \in NodeIds : s.subscriptions[m] \subseteq s.subscriptions[m]
    OBVIOUS
  <2> HIDE DEF t
  <2>3. t.parent[n] = IF s.parent[n] = p THEN Nil ELSE s.parent[n]
    BY <1>1, <2>1
  <2> QED
    BY <2>1, <2>2, <2>3 DEF t
<1>2. CASE s.parent[n] = p
  <2>1. t = v
    BY <1>2 DEF Engine!Disconnect, Engine!Done, Sound
  <2> HIDE DEF L
  <2> DEFINE B == [l \in LinkIds |-> IF l \in L THEN s.subscribers[l] \ {n} ELSE s.subscribers[l]]
             C == [s.subscriptions EXCEPT ![n] = @ \ L]
  <2>2. u = [s EXCEPT !.subscribers = B, !.subscriptions = C]
    BY DEF Engine!WithoutSubscriber, Sound, Networks
  <2>22. B \in [LinkIds -> SUBSET NodeIds] /\ C \in [NodeIds -> SUBSET LinkIds]
    BY DEF Sound, Networks
  <2>23. \A m \in NodeIds : C[m] \subseteq s.subscriptions[m]
    BY DEF Sound, Networks
  <2>24. \A m \in NodeIds, l \in LinkIds : l \in C[m] <=> m \in B[l]
    <3>1. \A m \in NodeIds, l \in LinkIds : l \in C[m] <=> l \in s.subscriptions[m] /\ ~(m = n /\ l \in L)
      BY DEF Sound, Networks
    <3>2. \A m \in NodeIds, l \in LinkIds : m \in B[l] <=> m \in s.subscribers[l] /\ ~(m = n /\ l \in L)
      BY DEF Sound, Networks
    <3> QED
      BY <3>1, <3>2 DEF Sound
  <2> HIDE DEF u, B, C
  <2>3. /\ u \in Networks
        /\ u.nodes = s.nodes /\ u.links = s.links /\ u.issued = s.issued /\ u.internal = s.internal
        /\ u.parent = s.parent /\ u.children = s.children
        /\ u.subscriptions = C /\ u.subscribers = B
        /\ \A m \in NodeIds : u.subscriptions[m] \subseteq s.subscriptions[m]
    BY <2>2, <2>22, <2>23 DEF Sound, Networks
  <2>4. v = [u EXCEPT !.parent = [u.parent EXCEPT ![n] = Nil], !.children = [u.children EXCEPT ![p] = @ \ {n}]]
    BY <2>3 DEF Engine!WithoutParent, Networks
  <2> HIDE DEF v
  <2>5. /\ v \in Networks
        /\ v.nodes = s.nodes /\ v.links = s.links /\ v.issued = s.issued /\ v.internal = s.internal
        /\ v.subscriptions = u.subscriptions /\ v.subscribers = u.subscribers
        /\ \A m \in NodeIds : v.parent[m] = IF m = n THEN Nil ELSE s.parent[m]
        /\ \A m, o \in NodeIds : o \in v.children[m] <=> o \in s.children[m] /\ ~(m = p /\ o = n)
    BY <2>3, <2>4 DEF Networks
  <2>6. \A m, o \in NodeIds : o \in v.children[m] <=> v.parent[o] = m
    BY <1>2, <2>5, Handles DEF Sound
  <2>7. \A m \in NodeIds : v.subscriptions[m] \subseteq s.subscriptions[m]
    BY <2>3, <2>5
  <2>8. Sound(v)
    <3>1. \A m \in NodeIds : m \notin v.nodes => v.parent[m] = Nil /\ v.subscriptions[m] = {} /\ v.internal[m] = {}
      BY <2>5, <2>7 DEF Sound
    <3>2. \A m \in NodeIds : v.parent[m] \in v.nodes \cup {Nil} /\ v.parent[m] # m
      BY <2>5, Handles DEF Sound
    <3>3. \A m \in NodeIds : v.subscriptions[m] \cup v.internal[m] \subseteq v.links
      BY <2>5, <2>7 DEF Sound
    <3>4. \A m \in NodeIds, l \in LinkIds : l \in v.subscriptions[m] <=> m \in v.subscribers[l]
      BY <2>24, <2>3, <2>5
    <3> QED
      BY <2>5, <2>6, <3>1, <3>2, <3>3, <3>4 DEF Sound
  <2> QED
    BY <1>2, <2>1, <2>5, <2>7, <2>8
<1> QED
  BY <1>1, <1>2

LEMMA Subscribed ==
    ASSUME NEW s, Sound(s), NEW n \in NodeIds, NEW l \in LinkIds
    PROVE  LET t == Engine!Subscribe(s, n, l).net
           IN  /\ Sound(t)
               /\ t.nodes = s.nodes /\ t.links = s.links /\ t.issued = s.issued
               /\ t.internal = s.internal /\ t.parent = s.parent
               /\ \A m \in NodeIds \ {n} : t.subscriptions[m] = s.subscriptions[m]
               /\ t.subscriptions[n] \subseteq s.subscriptions[n] \cup {l}
               /\ s.subscriptions[n] \subseteq t.subscriptions[n]
<1> DEFINE t == Engine!Subscribe(s, n, l).net
           u == Engine!WithSubscriber(s, n, l)
<1>1. CASE ~Engine!CanSubscribe(s, n, l)
  BY <1>1 DEF Engine!Subscribe, Engine!Rejected, Sound
<1>2. CASE Engine!CanSubscribe(s, n, l)
  <2>1. t = u /\ n \in s.nodes /\ l \in s.links
    BY <1>2 DEF Engine!Subscribe, Engine!Done, Engine!CanSubscribe
  <2> DEFINE B == [s.subscribers EXCEPT ![l] = @ \cup {n}]
             C == [s.subscriptions EXCEPT ![n] = @ \cup {l}]
  <2>2. u = [s EXCEPT !.subscribers = B, !.subscriptions = C]
    BY DEF Engine!WithSubscriber, Sound, Networks
  <2>3. B \in [LinkIds -> SUBSET NodeIds] /\ C \in [NodeIds -> SUBSET LinkIds]
    BY DEF Sound, Networks
  <2>4. \A m \in NodeIds, k \in LinkIds : k \in C[m] <=> k \in s.subscriptions[m] \/ (m = n /\ k = l)
    BY DEF Sound, Networks
  <2>41. \A m \in NodeIds, k \in LinkIds : m \in B[k] <=> m \in s.subscribers[k] \/ (m = n /\ k = l)
    BY DEF Sound, Networks
  <2> HIDE DEF u, B, C
  <2>5. u \in Networks /\ u.subscriptions = C /\ u.subscribers = B
    BY <2>2, <2>3 DEF Sound, Networks
  <2>6. /\ u.nodes = s.nodes /\ u.links = s.links /\ u.issued = s.issued
        /\ u.internal = s.internal /\ u.parent = s.parent /\ u.children = s.children
    BY <2>2 DEF Sound, Networks
  <2>7. \A m \in NodeIds, k \in LinkIds : k \in u.subscriptions[m] <=> k \in s.subscriptions[m] \/ (m = n /\ k = l)
    BY <2>4, <2>5
  <2>8. \A m \in NodeIds : u.subscriptions[m] \subseteq LinkIds /\ s.subscriptions[m] \subseteq LinkIds
    BY <2>5 DEF Sound, Networks
  <2>9. \A m \in NodeIds \ {n} : u.subscriptions[m] = s.subscriptions[m]
    BY <2>7, <2>8
  <2>10. \A m \in NodeIds : u.subscriptions[m] \subseteq s.subscriptions[m] \cup (IF m = n THEN {l} ELSE {})
    BY <2>7, <2>8
  <2>11. Sound(u)
    <3>1. \A m \in NodeIds : m \notin u.nodes => u.parent[m] = Nil /\ u.subscriptions[m] = {} /\ u.internal[m] = {}
      BY <2>1, <2>6, <2>9 DEF Sound
    <3>2. \A m \in NodeIds : u.subscriptions[m] \cup u.internal[m] \subseteq u.links
      BY <2>1, <2>6, <2>9, <2>10 DEF Sound
    <3>3. \A m \in NodeIds, k \in LinkIds : k \in u.subscriptions[m] <=> m \in u.subscribers[k]
      BY <2>41, <2>5, <2>7 DEF Sound
    <3> QED
      BY <2>5, <2>6, <3>1, <3>2, <3>3 DEF Sound
  <2> QED
    BY <2>1, <2>6, <2>7, <2>8, <2>9, <2>10, <2>11
<1> QED
  BY <1>1, <1>2

LEMMA Owned ==
    ASSUME NEW s, Sound(s), NEW o \in NodeIds, NEW l \in LinkIds
    PROVE  LET t == Engine!AddInternalLink(s, o, l).net
           IN  /\ Sound(t)
               /\ t.nodes = s.nodes /\ t.links = s.links /\ t.issued = s.issued
               /\ t.subscriptions = s.subscriptions /\ t.parent = s.parent
               /\ \A m \in NodeIds \ {o} : t.internal[m] = s.internal[m]
               /\ t.internal[o] \subseteq s.internal[o] \cup {l}
               /\ s.internal[o] \subseteq t.internal[o]
<1> DEFINE t == Engine!AddInternalLink(s, o, l).net
           u == Engine!WithOwner(s, o, l)
<1>1. CASE ~Engine!CanAddInternalLink(s, o, l)
  BY <1>1 DEF Engine!AddInternalLink, Engine!Rejected, Sound
<1>2. CASE Engine!CanAddInternalLink(s, o, l)
  <2>1. t = u /\ o \in s.nodes /\ l \in s.links
    BY <1>2 DEF Engine!AddInternalLink, Engine!Done, Engine!CanAddInternalLink
  <2> DEFINE B == [s.owner EXCEPT ![l] = o]
             C == [s.internal EXCEPT ![o] = @ \cup {l}]
  <2>2. u = [s EXCEPT !.owner = B, !.internal = C]
    BY DEF Engine!WithOwner, Sound, Networks
  <2>3. B \in [LinkIds -> NodeIds \cup {Nil}] /\ C \in [NodeIds -> SUBSET LinkIds]
    BY DEF Sound, Networks
  <2>4. \A m \in NodeIds, k \in LinkIds : k \in C[m] <=> k \in s.internal[m] \/ (m = o /\ k = l)
    BY DEF Sound, Networks
  <2> HIDE DEF u, B, C
  <2>5. u \in Networks /\ u.internal = C
    BY <2>2, <2>3 DEF Sound, Networks
  <2>6. /\ u.nodes = s.nodes /\ u.links = s.links /\ u.issued = s.issued
        /\ u.subscriptions = s.subscriptions /\ u.parent = s.parent /\ u.children = s.children
        /\ u.subscribers = s.subscribers
    BY <2>2 DEF Sound, Networks
  <2>7. \A m \in NodeIds, k \in LinkIds : k \in u.internal[m] <=> k \in s.internal[m] \/ (m = o /\ k = l)
    BY <2>4, <2>5
  <2>8. \A m \in NodeIds : u.internal[m] \subseteq LinkIds /\ s.internal[m] \subseteq LinkIds
    BY <2>5 DEF Sound, Networks
  <2>9. \A m \in NodeIds \ {o} : u.internal[m] = s.internal[m]
    BY <2>7, <2>8
  <2>10. \A m \in NodeIds : u.internal[m] \subseteq s.internal[m] \cup (IF m = o THEN {l} ELSE {})
    BY <2>7, <2>8
  <2>11. Sound(u)
    <3>1. \A m \in NodeIds : m \notin u.nodes => u.parent[m] = Nil /\ u.subscriptions[m] = {} /\ u.internal[m] = {}
      BY <2>1, <2>6, <2>9 DEF Sound
    <3>2. \A m \in NodeIds : u.subscriptions[m] \cup u.internal[m] \subseteq u.links
      BY <2>1, <2>6, <2>9, <2>10 DEF Sound
    <3> QED
      BY <2>5, <2>6, <3>1, <3>2 DEF Sound
  <2> QED
    BY <2>1, <2>6, <2>7, <2>8, <2>9, <2>10, <2>11
<1> QED
  BY <1>1, <1>2

-----------------------------------------------------------------------------
(* The invariant *)

Hosts ==
    [net: Networks, hosts: SUBSET NodeIds,
     nodeOf: [Models -> NodeIds \cup {Nil}], linkOf: [Wires -> LinkIds \cup {Nil}],
     used: [Names -> Nat],
     parent: [Models -> Models \cup {Nil}], inner: [Models -> SUBSET Models],
     owned: [Models -> SUBSET Wires], links: [Models -> SUBSET Wires],
     leaving: SUBSET (NodeIds \X LinkIds), unnesting: SUBSET (NodeIds \X NodeIds)]

(* What stands for what: a C# node for at most one of the engine's nodes   *)
(* and no two for one; the same for links, and every link the engine has   *)
(* has its C# link.                                                        *)
Tied(h) ==
    /\ \A m \in Models : h.nodeOf[m] \in h.net.nodes \cup {Nil}
    /\ \A m, n \in Models : m # n /\ h.nodeOf[m] = h.nodeOf[n] => h.nodeOf[m] = Nil
    /\ h.nodeOf[RootModel] = Root
    /\ \A k \in Wires : h.linkOf[k] \in h.net.links \cup {Nil}
    /\ \A j, k \in Wires : j # k /\ h.linkOf[j] = h.linkOf[k] => h.linkOf[j] = Nil
    /\ \A l \in h.net.links : \E k \in Wires : h.linkOf[k] = l
    /\ h.hosts = {h.nodeOf[m] : m \in Models} \ {Root, Nil}

OnLinks(h) ==
    \A m \in Models : h.nodeOf[m] # Nil =>
        \A l \in h.net.subscriptions[h.nodeOf[m]] :
            <<h.nodeOf[m], l>> \in h.leaving \/ \E k \in h.links[m] : h.linkOf[k] = l

OwnsLinks(h) ==
    \A m \in Models : h.nodeOf[m] # Nil =>
        \A l \in h.net.internal[h.nodeOf[m]] : \E k \in h.owned[m] : h.linkOf[k] = l

UnderParents(h) ==
    \A m, p \in Models : h.nodeOf[m] # Nil /\ h.nodeOf[p] # Nil /\ h.net.parent[h.nodeOf[m]] = h.nodeOf[p] =>
        h.parent[m] = p \/ <<h.nodeOf[p], h.nodeOf[m]>> \in h.unnesting

IInv(h) ==
    /\ h \in Hosts
    /\ Sound(h.net)
    /\ Tied(h)
    /\ OnLinks(h) /\ OwnsLinks(h) /\ UnderParents(h)

(* What an operation that only makes handles leaves alone.                 *)
SameViews(h, t) ==
    /\ t.parent = h.parent /\ t.inner = h.inner /\ t.owned = h.owned /\ t.links = h.links
    /\ t.leaving = h.leaving /\ t.unnesting = h.unnesting

(* What an operation that only adds leaves as it was: a node that was on a *)
(* link, or leaving it, still is.                                          *)
Grown(s, t) ==
    /\ s.nodes \subseteq t.nodes
    /\ \A n \in NodeIds : /\ s.subscriptions[n] \subseteq t.subscriptions[n]
                          /\ s.internal[n] \subseteq t.internal[n]

Follows(h, t) ==
    /\ \A m \in Models : h.nodeOf[m] # Nil => t.nodeOf[m] = h.nodeOf[m]
    /\ \A k \in Wires : h.linkOf[k] # Nil => t.linkOf[k] = h.linkOf[k]
    /\ \A m \in Models : h.links[m] \subseteq t.links[m]
    /\ \A m \in Models, k \in Wires :
          h.nodeOf[m] # Nil /\ h.linkOf[k] # Nil /\ <<h.nodeOf[m], h.linkOf[k]>> \in h.leaving =>
             k \in t.links[m] \/ <<t.nodeOf[m], t.linkOf[k]>> \in t.leaving
    /\ Grown(h.net, t.net)

LEMMA FollowsOn ==
    ASSUME NEW h, NEW t, NEW u, Follows(h, t), Follows(t, u)
    PROVE  Follows(h, u)
<1>1. /\ \A m \in Models : h.nodeOf[m] # Nil => t.nodeOf[m] = h.nodeOf[m] /\ u.nodeOf[m] = h.nodeOf[m]
      /\ \A k \in Wires : h.linkOf[k] # Nil => t.linkOf[k] = h.linkOf[k] /\ u.linkOf[k] = h.linkOf[k]
      /\ \A m \in Models : h.links[m] \subseteq t.links[m] /\ t.links[m] \subseteq u.links[m]
  BY DEF Follows
<1>2. ASSUME NEW m \in Models, NEW k \in Wires,
             h.nodeOf[m] # Nil, h.linkOf[k] # Nil, <<h.nodeOf[m], h.linkOf[k]>> \in h.leaving
      PROVE  k \in u.links[m] \/ <<u.nodeOf[m], u.linkOf[k]>> \in u.leaving
  <2>1. k \in t.links[m] \/ <<t.nodeOf[m], t.linkOf[k]>> \in t.leaving
    BY <1>2 DEF Follows
  <2> QED
    BY <1>1, <1>2, <2>1 DEF Follows
<1>3. Grown(h.net, u.net)
  BY DEF Follows, Grown
<1> QED
  BY <1>1, <1>2, <1>3 DEF Follows

-----------------------------------------------------------------------------
(* The views *)

(* A node that is in no parent's view comes into one.                      *)
LEMMA ViewNested ==
    ASSUME NEW h, IInv(h), NEW p \in Models, NEW n \in Models, h.parent[n] = Nil
    PROVE  LET t == NestChild(h, p, n)
           IN  IInv(t) /\ t.parent[n] = p /\ t.net = h.net /\ t.nodeOf = h.nodeOf /\ Follows(h, t)
<1> DEFINE t == NestChild(h, p, n)
           A == [h.inner EXCEPT ![p] = @ \cup {n}]
           B == [h.parent EXCEPT ![n] = p]
<1>1. t = [h EXCEPT !.inner = A, !.parent = B]
  BY DEF NestChild, IInv, Hosts
<1>2. A \in [Models -> SUBSET Models] /\ B \in [Models -> Models \cup {Nil}]
  BY DEF IInv, Hosts
<1>3. B[n] = p /\ \A m \in Models \ {n} : B[m] = h.parent[m]
  BY DEF IInv, Hosts
<1> HIDE DEF t, A, B
<1>4. /\ t \in Hosts /\ t.net = h.net /\ t.hosts = h.hosts /\ t.nodeOf = h.nodeOf /\ t.linkOf = h.linkOf
      /\ t.parent = B /\ t.owned = h.owned /\ t.links = h.links
      /\ t.leaving = h.leaving /\ t.unnesting = h.unnesting
  BY <1>1, <1>2 DEF IInv, Hosts
<1>5. UnderParents(t)
  BY <1>3, <1>4, Handles DEF IInv, UnderParents
<1>6. Tied(t) /\ OnLinks(t) /\ OwnsLinks(t)
  BY <1>4 DEF IInv, Tied, OnLinks, OwnsLinks
<1>7. Follows(h, t)
  BY <1>4 DEF Follows, Grown
<1> QED
  BY <1>3, <1>4, <1>5, <1>6, <1>7 DEF t, IInv

(* A node that leaves a parent's view must be leaving it in the engine, or *)
(* not be there.                                                           *)
LEMMA ViewUnnested ==
    ASSUME NEW h \in Hosts, NEW p \in Models, NEW n \in Models
    PROVE  LET t == UnnestChild(h, p, n)
           IN  /\ t \in Hosts /\ t.net = h.net /\ t.hosts = h.hosts
               /\ t.nodeOf = h.nodeOf /\ t.linkOf = h.linkOf /\ t.used = h.used
               /\ t.owned = h.owned /\ t.links = h.links
               /\ t.leaving = h.leaving /\ t.unnesting = h.unnesting
               /\ t.parent[n] = (IF h.parent[n] = p THEN Nil ELSE h.parent[n])
               /\ \A m \in Models \ {n} : t.parent[m] = h.parent[m]
<1> DEFINE t == UnnestChild(h, p, n)
           A == [h.inner EXCEPT ![p] = @ \ {n}]
           B == [h.parent EXCEPT ![n] = IF @ = p THEN Nil ELSE @]
<1>1. t = [h EXCEPT !.inner = A, !.parent = B]
  BY DEF UnnestChild, Hosts
<1>2. A \in [Models -> SUBSET Models] /\ B \in [Models -> Models \cup {Nil}]
  BY DEF Hosts
<1>3. B[n] = (IF h.parent[n] = p THEN Nil ELSE h.parent[n]) /\ \A m \in Models \ {n} : B[m] = h.parent[m]
  BY DEF Hosts
<1> HIDE DEF t, A, B
<1> QED
  BY <1>1, <1>2, <1>3 DEF t, Hosts

-----------------------------------------------------------------------------
(* Making handles *)

RoomFor(h, m) == h.nodeOf[m] = Nil => NodeIds \ h.net.issued # {}
RoomForWire(h, k) == h.linkOf[k] = Nil => LinkIds \ h.net.issued # {}

LEMMA NodeMade ==
    ASSUME NEW h, IInv(h), NEW m \in Models, RoomFor(h, m)
    PROVE  LET t == NodeIdOf(h, m)
           IN  /\ IInv(t) /\ SameViews(h, t) /\ t.linkOf = h.linkOf /\ Follows(h, t)
               /\ t.nodeOf[m] # Nil
               /\ \A x \in Models \ {m} : t.nodeOf[x] = h.nodeOf[x]
               /\ h.nodeOf[m] # Nil => t.nodeOf[m] = h.nodeOf[m] /\ t.net.issued = h.net.issued
               /\ h.net.issued \subseteq t.net.issued /\ t.net.issued \subseteq h.net.issued \cup {t.nodeOf[m]}
<1> DEFINE t == NodeIdOf(h, m)
           id == CHOOSE x \in NodeIds : x \notin h.net.issued
           name == UniqueName(h, IdOf[m])
<1>1. CASE h.nodeOf[m] # Nil
  BY <1>1 DEF NodeIdOf, Known, SameViews, Follows, Grown
<1>2. CASE h.nodeOf[m] = Nil
  <2> DEFINE net == Engine!CreateNode(h.net, id, name).net
             A == [h.used EXCEPT ![IdOf[m]] = @ + 1]
             B == [h.nodeOf EXCEPT ![m] = id]
             C == h.hosts \cup {id}
  <2>1. t = [h EXCEPT !.net = net, !.used = A, !.hosts = C, !.nodeOf = B]
    BY <1>2 DEF NodeIdOf, Known, IInv, Hosts
  <2>2. id \in NodeIds \ h.net.issued
    BY <1>2 DEF RoomFor
  <2>3. name \in AllNames \ Reserved
    <3>1. IdOf[m] \in Names
      BY HostAssumption
    <3>2. h.used[IdOf[m]] + 1 \in Nat
      BY <3>1 DEF IInv, Hosts
    <3> QED
      BY <3>2, CountedNames DEF UniqueName
  <2>4. A \in [Names -> Nat]
    <3>1. IdOf[m] \in Names /\ h.used \in [Names -> Nat]
      BY HostAssumption DEF IInv, Hosts
    <3> QED
      BY <3>1
  <2> HIDE DEF id, name
  <2>5. B \in [Models -> NodeIds \cup {Nil}] /\ C \in SUBSET NodeIds
    BY <2>2 DEF IInv, Hosts
  <2>6. B[m] = id /\ \A x \in Models \ {m} : B[x] = h.nodeOf[x]
    BY DEF IInv, Hosts
  <2>7. /\ Sound(net) /\ net.nodes = h.net.nodes \cup {id} /\ net.issued = h.net.issued \cup {id}
        /\ net.links = h.net.links /\ net.parent = h.net.parent
        /\ net.internal = h.net.internal /\ net.subscriptions = h.net.subscriptions
    BY <2>2, <2>3, NodeCreated DEF IInv
  <2> HIDE DEF t, net, A, B
  <2>8. /\ t \in Hosts /\ t.net = net /\ t.hosts = C /\ t.nodeOf = B /\ t.linkOf = h.linkOf
        /\ SameViews(h, t)
    BY <2>1, <2>4, <2>5, <2>7 DEF IInv, Hosts, Sound, SameViews
  <2>9. id # Nil /\ id # Root /\ id \notin h.net.nodes /\ m # RootModel
    BY <1>2, <2>2, Handles DEF IInv, Sound, Tied
  <2>10. Tied(t)
    <3>1. C = {B[x] : x \in Models} \ {Root, Nil}
      <4>1. h.hosts = {h.nodeOf[x] : x \in Models} \ {Root, Nil}
        BY DEF IInv, Tied
      <4> QED
        BY <1>2, <2>6, <2>9, <4>1
    <3>2. \A x, y \in Models : x # y /\ B[x] = B[y] => B[x] = Nil
      BY <2>6, <2>9, Handles DEF IInv, Tied
    <3> QED
      BY <2>6, <2>7, <2>8, <2>9, <3>1, <3>2, Handles DEF IInv, Tied
  <2>11. /\ h.net.subscriptions[id] = {} /\ h.net.internal[id] = {} /\ h.net.parent[id] = Nil
         /\ \A x \in NodeIds : h.net.parent[x] # id
    BY <2>2, <2>9 DEF IInv, Sound
  <2>12. OnLinks(t) /\ OwnsLinks(t)
    BY <2>6, <2>7, <2>8, <2>11 DEF IInv, OnLinks, OwnsLinks, SameViews
  <2>13. UnderParents(t)
    BY <2>6, <2>7, <2>8, <2>9, <2>11, SMTT(30) DEF IInv, UnderParents, SameViews, Hosts
  <2>14. Follows(h, t)
    BY <1>2, <2>6, <2>7, <2>8 DEF SameViews, Follows, Grown
  <2> QED
    BY <1>2, <2>6, <2>7, <2>8, <2>9, <2>10, <2>12, <2>13, <2>14 DEF IInv, t
<1> QED
  BY <1>1, <1>2

LEMMA LinkMade ==
    ASSUME NEW h, IInv(h), NEW k \in Wires, RoomForWire(h, k)
    PROVE  LET t == LinkIdOf(h, k)
           IN  /\ IInv(t) /\ SameViews(h, t) /\ t.nodeOf = h.nodeOf /\ Follows(h, t)
               /\ t.linkOf[k] # Nil
               /\ NodeIds \ t.net.issued = NodeIds \ h.net.issued
<1> DEFINE t == LinkIdOf(h, k)
           id == CHOOSE x \in LinkIds : x \notin h.net.issued
           name == UniqueName(h, IdOf[k])
<1>1. CASE h.linkOf[k] # Nil
  BY <1>1 DEF LinkIdOf, SameViews, Follows, Grown
<1>2. CASE h.linkOf[k] = Nil
  <2> DEFINE net == Engine!CreateLink(h.net, id, name).net
             A == [h.used EXCEPT ![IdOf[k]] = @ + 1]
             B == [h.linkOf EXCEPT ![k] = id]
  <2>1. t = [h EXCEPT !.net = net, !.used = A, !.linkOf = B]
    BY <1>2 DEF LinkIdOf, IInv, Hosts
  <2>2. id \in LinkIds \ h.net.issued
    BY <1>2 DEF RoomForWire
  <2>3. name \in AllNames \ Reserved
    <3>1. IdOf[k] \in Names
      BY HostAssumption
    <3>2. h.used[IdOf[k]] + 1 \in Nat
      BY <3>1 DEF IInv, Hosts
    <3> QED
      BY <3>2, CountedNames DEF UniqueName
  <2>4. A \in [Names -> Nat]
    <3>1. IdOf[k] \in Names /\ h.used \in [Names -> Nat]
      BY HostAssumption DEF IInv, Hosts
    <3> QED
      BY <3>1
  <2> HIDE DEF id, name
  <2>5. B \in [Wires -> LinkIds \cup {Nil}]
    BY <2>2 DEF IInv, Hosts
  <2>6. B[k] = id /\ \A x \in Wires \ {k} : B[x] = h.linkOf[x]
    BY DEF IInv, Hosts
  <2>7. /\ Sound(net) /\ net.links = h.net.links \cup {id} /\ net.issued = h.net.issued \cup {id}
        /\ net.nodes = h.net.nodes /\ net.parent = h.net.parent
        /\ net.internal = h.net.internal /\ net.subscriptions = h.net.subscriptions
    BY <2>2, <2>3, LinkCreated DEF IInv
  <2> HIDE DEF t, net, A, B
  <2>8. /\ t \in Hosts /\ t.net = net /\ t.hosts = h.hosts /\ t.nodeOf = h.nodeOf /\ t.linkOf = B
        /\ SameViews(h, t)
    BY <2>1, <2>4, <2>5, <2>7 DEF IInv, Hosts, Sound, SameViews
  <2>9. id # Nil /\ id \notin h.net.links /\ id \notin NodeIds
    BY <2>2, Handles DEF IInv, Sound
  <2>10. Tied(t)
    <3>1. \A x, y \in Wires : x # y /\ B[x] = B[y] => B[x] = Nil
      BY <2>6, <2>9 DEF IInv, Tied
    <3>2. \A l \in net.links : \E x \in Wires : B[x] = l
      <4>1. TAKE l \in net.links
      <4>2. CASE l = id
        BY <2>6, <4>2
      <4>3. CASE l # id
        <5>1. PICK x \in Wires : h.linkOf[x] = l
          BY <2>7, <4>3 DEF IInv, Tied
        <5>2. x # k
          BY <1>2, <2>7, <4>3, <5>1, Handles DEF IInv, Sound, Networks
        <5> QED
          BY <2>6, <5>1, <5>2
      <4> QED
        BY <4>2, <4>3
    <3> QED
      BY <2>6, <2>7, <2>8, <3>1, <3>2 DEF IInv, Tied
  <2>11. \A x \in Wires, l \in LinkIds : h.linkOf[x] = l => B[x] = l
    BY <1>2, <2>6, Handles
  <2>12. OnLinks(t) /\ OwnsLinks(t)
    <3>1. \A m \in Models : h.owned[m] \subseteq Wires /\ h.links[m] \subseteq Wires
      BY DEF IInv, Hosts
    <3>2. \A n \in NodeIds : h.net.subscriptions[n] \subseteq LinkIds /\ h.net.internal[n] \subseteq LinkIds
      BY DEF IInv, Sound, Networks
    <3>3. \A m \in Models : h.nodeOf[m] # Nil => h.nodeOf[m] \in NodeIds
      BY DEF IInv, Hosts
    <3>4. OnLinks(t)
      BY <2>7, <2>8, <2>11, <3>1, <3>2, <3>3 DEF IInv, OnLinks, SameViews
    <3>5. OwnsLinks(t)
      BY <2>7, <2>8, <2>11, <3>1, <3>2, <3>3 DEF IInv, OwnsLinks, SameViews
    <3> QED
      BY <3>4, <3>5
  <2>13. UnderParents(t)
    BY <2>7, <2>8 DEF IInv, UnderParents, SameViews
  <2>14. Follows(h, t)
    BY <1>2, <2>6, <2>7, <2>8 DEF SameViews, Follows, Grown
  <2> QED
    BY <2>6, <2>7, <2>8, <2>9, <2>10, <2>12, <2>13, <2>14 DEF IInv, t
<1> QED
  BY <1>1, <1>2

(* There are handles for two nodes.                                        *)
Room(h, p, n) ==
    /\ RoomFor(h, p) /\ RoomFor(h, n)
    /\ p # n /\ h.nodeOf[p] = Nil /\ h.nodeOf[n] = Nil =>
          \E i, j \in NodeIds \ h.net.issued : i # j

LEMMA RoomStays ==
    ASSUME NEW h, IInv(h), NEW p \in Models, NEW n \in Models, Room(h, p, n), NEW x \in {p, n}
    PROVE  Room(NodeIdOf(h, x), p, n)
<1> DEFINE t == NodeIdOf(h, x)
<1>1. /\ t.nodeOf[x] # Nil
      /\ \A y \in Models \ {x} : t.nodeOf[y] = h.nodeOf[y]
      /\ h.nodeOf[x] # Nil => t.nodeOf[x] = h.nodeOf[x] /\ t.net.issued = h.net.issued
      /\ t.net.issued \subseteq h.net.issued \cup {t.nodeOf[x]}
  BY NodeMade DEF Room
<1> HIDE DEF t
<1>2. CASE h.nodeOf[x] # Nil
  <2>1. t.nodeOf[p] = h.nodeOf[p] /\ t.nodeOf[n] = h.nodeOf[n] /\ t.net.issued = h.net.issued
    BY <1>1, <1>2
  <2> QED
    BY <2>1 DEF Room, RoomFor, t
<1>3. CASE h.nodeOf[x] = Nil
  <2>1. ASSUME NEW y \in {p, n}, t.nodeOf[y] = Nil
        PROVE  NodeIds \ t.net.issued # {}
    <3>1. x # y /\ h.nodeOf[y] = Nil
      BY <1>1, <2>1
    <3>2. PICK i, j \in NodeIds \ h.net.issued : i # j
      BY <1>3, <3>1 DEF Room
    <3> QED
      BY <1>1, <3>2
  <2>2. RoomFor(t, p) /\ RoomFor(t, n)
    BY <2>1 DEF RoomFor
  <2>3. t.nodeOf[p] # Nil \/ t.nodeOf[n] # Nil
    BY <1>1
  <2> QED
    BY <2>2, <2>3 DEF Room, t
<1> QED
  BY <1>2, <1>3 DEF t

-----------------------------------------------------------------------------
(* Nesting *)

LEMMA ChildAdded ==
    ASSUME NEW h, IInv(h), NEW p \in Models, NEW n \in Models, h.parent[n] = Nil, Room(h, p, n)
    PROVE  LET t == AddChild(h, p, n)
           IN  IInv(t) /\ t.nodeOf[p] # Nil /\ t.nodeOf[n] # Nil /\ LinkIds \ t.net.issued = LinkIds \ h.net.issued
               /\ t.linkOf = h.linkOf /\ Follows(h, t)
<1> DEFINE v == NestChild(h, p, n)
           w == NodeIdOf(v, p)
           t == NodeIdOf(w, n)
           A == t.unnesting \ {<<t.nodeOf[p], t.nodeOf[n]>>}
           N == Engine!Connect(t.net, t.nodeOf[p], t.nodeOf[n], Nil).net
           u == AddChild(h, p, n)
<1>1. /\ IInv(v) /\ v.parent[n] = p /\ Room(v, p, n)
      /\ v.net = h.net /\ v.nodeOf = h.nodeOf /\ v.linkOf = h.linkOf /\ Follows(h, v)
  <2>1. IInv(v) /\ v.parent[n] = p /\ v.net = h.net /\ v.nodeOf = h.nodeOf /\ Follows(h, v)
    BY ViewNested
  <2>2. v.linkOf = h.linkOf
    BY DEF NestChild, IInv, Hosts
  <2> QED
    BY <2>1, <2>2 DEF Room, RoomFor
<1> HIDE DEF v
<1>2. /\ IInv(w) /\ SameViews(v, w) /\ w.nodeOf[p] # Nil /\ Room(w, p, n) /\ w.linkOf = v.linkOf
      /\ LinkIds \ w.net.issued = LinkIds \ v.net.issued /\ Follows(v, w)
  <2>1. /\ IInv(w) /\ SameViews(v, w) /\ w.nodeOf[p] # Nil /\ w.linkOf = v.linkOf
        /\ w.net.issued \subseteq v.net.issued \cup {w.nodeOf[p]}
        /\ v.net.issued \subseteq w.net.issued /\ Follows(v, w)
    BY <1>1, NodeMade DEF Room
  <2>2. w.nodeOf[p] \in NodeIds
    BY <2>1 DEF IInv, Hosts
  <2>3. Room(w, p, n)
    BY <1>1, RoomStays
  <2> QED
    BY <2>1, <2>2, <2>3, Handles
<1> HIDE DEF w
<1>3. /\ IInv(t) /\ SameViews(w, t) /\ t.nodeOf[n] # Nil /\ t.nodeOf[p] # Nil /\ t.linkOf = w.linkOf
      /\ LinkIds \ t.net.issued = LinkIds \ w.net.issued /\ Follows(w, t)
  <2>1. /\ IInv(t) /\ SameViews(w, t) /\ t.nodeOf[n] # Nil /\ t.linkOf = w.linkOf
        /\ \A x \in Models \ {n} : t.nodeOf[x] = w.nodeOf[x]
        /\ t.net.issued \subseteq w.net.issued \cup {t.nodeOf[n]}
        /\ w.net.issued \subseteq t.net.issued /\ Follows(w, t)
    BY <1>2, NodeMade DEF Room
  <2>2. t.nodeOf[n] \in NodeIds
    BY <2>1 DEF IInv, Hosts
  <2> QED
    BY <1>2, <2>1, <2>2, Handles
<1>4. u = [t EXCEPT !.unnesting = A, !.net = N]
  BY DEF AddChild, v, w
<1> HIDE DEF t, u
<1>5. /\ t.nodeOf[p] \in NodeIds /\ t.nodeOf[n] \in NodeIds /\ t.parent[n] = p
  BY <1>1, <1>2, <1>3 DEF IInv, Hosts, SameViews
<1>6. /\ Sound(N)
      /\ N.nodes = t.net.nodes /\ N.links = t.net.links /\ N.issued = t.net.issued
      /\ N.internal = t.net.internal /\ N.subscriptions = t.net.subscriptions
      /\ \A m \in NodeIds \ {t.nodeOf[n]} : N.parent[m] = t.net.parent[m]
      /\ N.parent[t.nodeOf[n]] \in {t.net.parent[t.nodeOf[n]], t.nodeOf[p]}
  BY <1>3, <1>5, Nested DEF IInv
<1>7. A \in SUBSET (NodeIds \X NodeIds)
  BY <1>3 DEF IInv, Hosts
<1> HIDE DEF N
<1>8. /\ u \in Hosts /\ u.net = N /\ u.unnesting = A /\ u.hosts = t.hosts
      /\ u.nodeOf = t.nodeOf /\ u.linkOf = t.linkOf /\ u.parent = t.parent
      /\ u.owned = t.owned /\ u.links = t.links /\ u.leaving = t.leaving
  <2> HIDE DEF A
  <2> QED
    BY <1>3, <1>4, <1>6, <1>7, ZenonT(60) DEF IInv, Hosts, Sound
<1>9. Tied(u) /\ OnLinks(u) /\ OwnsLinks(u)
  <2>1. Tied(t) /\ OnLinks(t) /\ OwnsLinks(t)
    BY <1>3 DEF IInv
  <2> HIDE DEF A
  <2> QED
    BY <1>6, <1>8, <2>1, SMTT(30) DEF Tied, OnLinks, OwnsLinks
<1>10. UnderParents(u)
  <2> SUFFICES ASSUME NEW m \in Models, NEW q \in Models, t.nodeOf[m] # Nil, t.nodeOf[q] # Nil,
                      N.parent[t.nodeOf[m]] = t.nodeOf[q]
               PROVE  t.parent[m] = q \/ <<t.nodeOf[q], t.nodeOf[m]>> \in A
    BY <1>8 DEF UnderParents
  <2>1. \A x, y \in Models : t.nodeOf[x] # Nil /\ t.nodeOf[x] = t.nodeOf[y] => x = y
    BY <1>3 DEF IInv, Tied
  <2>2. CASE m = n /\ q = p
    BY <1>5, <2>2
  <2>3. CASE ~(m = n /\ q = p)
    <3>1. t.nodeOf[m] \in NodeIds
      BY <1>3 DEF IInv, Hosts
    <3>2. t.net.parent[t.nodeOf[m]] = t.nodeOf[q]
      BY <1>6, <2>1, <2>3, <3>1
    <3>3. t.parent[m] = q \/ <<t.nodeOf[q], t.nodeOf[m]>> \in t.unnesting
      BY <1>3, <3>2 DEF IInv, UnderParents
    <3> QED
      BY <2>1, <2>3, <3>3
  <2> QED
    BY <2>2, <2>3
<1>11. Follows(h, u)
  <2>1. Follows(t, u)
    BY <1>6, <1>8 DEF Follows, Grown
  <2> QED
    BY <1>1, <1>2, <1>3, <2>1, FollowsOn
<1> QED
  BY <1>1, <1>2, <1>3, <1>5, <1>6, <1>8, <1>9, <1>10, <1>11 DEF IInv, u

LEMMA ChildRemoved ==
    ASSUME NEW h, IInv(h), NEW p \in Models, NEW n \in Models, h.parent[n] = p
    PROVE  LET t == RemoveChild(h, p, n)
           IN  IInv(t) /\ t.parent[n] = Nil /\ t.nodeOf = h.nodeOf /\ t.net.issued = h.net.issued
<1> DEFINE t == UnnestChild(h, p, n)
           A == t.unnesting \ {<<h.nodeOf[p], h.nodeOf[n]>>}
           N == Engine!Disconnect(t.net, h.nodeOf[p], h.nodeOf[n]).net
           u == RemoveChild(h, p, n)
<1>1. /\ t \in Hosts /\ t.net = h.net /\ t.hosts = h.hosts
      /\ t.nodeOf = h.nodeOf /\ t.linkOf = h.linkOf
      /\ t.owned = h.owned /\ t.links = h.links
      /\ t.leaving = h.leaving /\ t.unnesting = h.unnesting
      /\ t.parent[n] = Nil
      /\ \A m \in Models \ {n} : t.parent[m] = h.parent[m]
  BY ViewUnnested DEF IInv
<1>2. \A x, y \in Models : h.nodeOf[x] # Nil /\ h.nodeOf[x] = h.nodeOf[y] => x = y
  BY DEF IInv, Tied
<1>3. CASE h.nodeOf[p] = Nil \/ h.nodeOf[n] = Nil
  <2>1. u = t
    BY <1>3 DEF RemoveChild, Known
  <2> HIDE DEF t, u
  <2>2. Tied(t) /\ OnLinks(t) /\ OwnsLinks(t)
    BY <1>1 DEF IInv, Tied, OnLinks, OwnsLinks
  <2>3. UnderParents(t)
    BY <1>1, <1>3 DEF IInv, UnderParents
  <2> QED
    BY <1>1, <2>1, <2>2, <2>3 DEF IInv, u
<1>4. CASE h.nodeOf[p] # Nil /\ h.nodeOf[n] # Nil
  <2>1. u = [t EXCEPT !.unnesting = A, !.net = N]
    BY <1>4 DEF RemoveChild, Known
  <2> HIDE DEF t, u
  <2>2. h.nodeOf[p] \in h.net.nodes /\ h.nodeOf[n] \in h.net.nodes /\ h.net.nodes \subseteq NodeIds
    BY <1>4 DEF IInv, Tied, Sound, Networks
  <2>3. /\ Sound(N)
        /\ N.nodes = h.net.nodes /\ N.links = h.net.links /\ N.issued = h.net.issued
        /\ N.internal = h.net.internal
        /\ \A m \in NodeIds : N.subscriptions[m] \subseteq h.net.subscriptions[m]
        /\ \A m \in NodeIds \ {h.nodeOf[n]} : N.parent[m] = h.net.parent[m]
        /\ N.parent[h.nodeOf[n]] =
              IF h.net.parent[h.nodeOf[n]] = h.nodeOf[p] THEN Nil ELSE h.net.parent[h.nodeOf[n]]
    BY <1>1, <2>2, Unnested, SMTT(30) DEF IInv
  <2>4. A \in SUBSET (NodeIds \X NodeIds)
    BY <1>1 DEF Hosts
  <2> HIDE DEF N
  <2>5. /\ u \in Hosts /\ u.net = N /\ u.unnesting = A /\ u.hosts = h.hosts
        /\ u.nodeOf = h.nodeOf /\ u.linkOf = h.linkOf /\ u.parent = t.parent
        /\ u.owned = h.owned /\ u.links = h.links /\ u.leaving = h.leaving
    <3> HIDE DEF A
    <3> QED
      BY <1>1, <2>1, <2>3, <2>4 DEF Hosts, Sound
  <2>6. \A m \in Models : h.nodeOf[m] # Nil => h.nodeOf[m] \in NodeIds
    BY DEF IInv, Hosts
  <2>7. Tied(u) /\ OnLinks(u) /\ OwnsLinks(u)
    BY <2>3, <2>5, <2>6, SMTT(30) DEF IInv, Tied, OnLinks, OwnsLinks
  <2>8. UnderParents(u)
    <3> SUFFICES ASSUME NEW m \in Models, NEW q \in Models, h.nodeOf[m] # Nil, h.nodeOf[q] # Nil,
                        N.parent[h.nodeOf[m]] = h.nodeOf[q]
                 PROVE  t.parent[m] = q \/ <<h.nodeOf[q], h.nodeOf[m]>> \in A
      BY <2>5 DEF UnderParents
    <3>1. h.net.parent[h.nodeOf[m]] = h.nodeOf[q] /\ ~(m = n /\ q = p)
      BY <1>2, <2>3, <2>6
    <3>2. h.parent[m] = q \/ <<h.nodeOf[q], h.nodeOf[m]>> \in h.unnesting
      BY <3>1 DEF IInv, UnderParents
    <3> QED
      BY <1>1, <1>2, <3>1, <3>2
  <2> QED
    BY <1>1, <2>3, <2>5, <2>7, <2>8 DEF IInv, u
<1> QED
  BY <1>3, <1>4

-----------------------------------------------------------------------------
(* Joining, owning and leaving links *)

LEMMA ViewJoined ==
    ASSUME NEW h, IInv(h), NEW n \in Models, NEW k \in Wires
    PROVE  LET t == [h EXCEPT !.links[n] = @ \cup {k}]
           IN  IInv(t) /\ k \in t.links[n] /\ t.nodeOf = h.nodeOf /\ t.linkOf = h.linkOf /\ t.net = h.net
               /\ Follows(h, t)
<1> DEFINE t == [h EXCEPT !.links[n] = @ \cup {k}]
           A == [h.links EXCEPT ![n] = @ \cup {k}]
<1>1. t = [h EXCEPT !.links = A]
  BY DEF IInv, Hosts
<1>2. A \in [Models -> SUBSET Wires] /\ k \in A[n] /\ \A m \in Models : h.links[m] \subseteq A[m]
  BY DEF IInv, Hosts
<1> HIDE DEF t, A
<1>3. /\ t \in Hosts /\ t.net = h.net /\ t.hosts = h.hosts /\ t.nodeOf = h.nodeOf /\ t.linkOf = h.linkOf
      /\ t.parent = h.parent /\ t.owned = h.owned /\ t.links = A
      /\ t.leaving = h.leaving /\ t.unnesting = h.unnesting
  BY <1>1, <1>2 DEF IInv, Hosts
<1>4. Tied(t) /\ OwnsLinks(t) /\ UnderParents(t)
  BY <1>3 DEF IInv, Tied, OwnsLinks, UnderParents
<1>5. OnLinks(t)
  BY <1>2, <1>3 DEF IInv, OnLinks
<1>6. Follows(h, t)
  BY <1>2, <1>3 DEF Follows, Grown
<1> QED
  BY <1>2, <1>3, <1>4, <1>5, <1>6 DEF IInv, t

LEMMA SubscriptionAdded ==
    ASSUME NEW h, IInv(h), NEW n \in Models, NEW k \in Wires, RoomFor(h, n), RoomForWire(h, k)
    PROVE  LET u == AddSubscription(h, n, k)
           IN  IInv(u) /\ Follows(h, u) /\ k \in u.links[n]
<1> DEFINE v == [h EXCEPT !.links[n] = @ \cup {k}]
           w == NodeIdOf(v, n)
           t == LinkIdOf(w, k)
           A == t.leaving \ {<<t.nodeOf[n], t.linkOf[k]>>}
           N == Engine!Subscribe(t.net, t.nodeOf[n], t.linkOf[k]).net
           u == AddSubscription(h, n, k)
<1>1. IInv(v) /\ k \in v.links[n] /\ RoomFor(v, n) /\ RoomForWire(v, k) /\ Follows(h, v)
  BY ViewJoined DEF RoomFor, RoomForWire
<1> HIDE DEF v
<1>2. IInv(w) /\ k \in w.links[n] /\ w.nodeOf[n] # Nil /\ RoomForWire(w, k) /\ Follows(v, w)
  <2>1. /\ IInv(w) /\ SameViews(v, w) /\ w.nodeOf[n] # Nil /\ w.linkOf = v.linkOf
        /\ w.net.issued \subseteq v.net.issued \cup {w.nodeOf[n]} /\ Follows(v, w)
    BY <1>1, NodeMade
  <2>2. w.nodeOf[n] \in NodeIds
    BY <2>1 DEF IInv, Hosts
  <2> QED
    BY <1>1, <2>1, <2>2, Handles DEF RoomForWire, SameViews
<1> HIDE DEF w
<1>3. IInv(t) /\ k \in t.links[n] /\ t.nodeOf[n] # Nil /\ t.linkOf[k] # Nil /\ Follows(w, t)
  BY <1>2, LinkMade DEF SameViews
<1>4. u = [t EXCEPT !.leaving = A, !.net = N]
  BY DEF AddSubscription, v, w
<1> HIDE DEF t, u
<1>5. t.nodeOf[n] \in NodeIds /\ t.linkOf[k] \in LinkIds
  BY <1>3 DEF IInv, Hosts
<1>6. /\ Sound(N)
      /\ N.nodes = t.net.nodes /\ N.links = t.net.links /\ N.issued = t.net.issued
      /\ N.internal = t.net.internal /\ N.parent = t.net.parent
      /\ \A m \in NodeIds \ {t.nodeOf[n]} : N.subscriptions[m] = t.net.subscriptions[m]
      /\ N.subscriptions[t.nodeOf[n]] \subseteq t.net.subscriptions[t.nodeOf[n]] \cup {t.linkOf[k]}
      /\ t.net.subscriptions[t.nodeOf[n]] \subseteq N.subscriptions[t.nodeOf[n]]
  BY <1>3, <1>5, Subscribed DEF IInv
<1>7. A \in SUBSET (NodeIds \X LinkIds)
  BY <1>3 DEF IInv, Hosts
<1> HIDE DEF N
<1>8. /\ u \in Hosts /\ u.net = N /\ u.leaving = A /\ u.hosts = t.hosts
      /\ u.nodeOf = t.nodeOf /\ u.linkOf = t.linkOf /\ u.parent = t.parent
      /\ u.owned = t.owned /\ u.links = t.links /\ u.unnesting = t.unnesting
  <2> HIDE DEF A
  <2> QED
    BY <1>3, <1>4, <1>6, <1>7, ZenonT(60) DEF IInv, Hosts, Sound
<1>9. Tied(u) /\ OwnsLinks(u) /\ UnderParents(u)
  <2>1. Tied(t) /\ OwnsLinks(t) /\ UnderParents(t)
    BY <1>3 DEF IInv
  <2> HIDE DEF A
  <2> QED
    BY <1>6, <1>8, <2>1, SMTT(30) DEF Tied, OwnsLinks, UnderParents
<1>10. OnLinks(u)
  <2> SUFFICES ASSUME NEW m \in Models, t.nodeOf[m] # Nil, NEW l \in N.subscriptions[t.nodeOf[m]]
               PROVE  <<t.nodeOf[m], l>> \in A \/ \E j \in t.links[m] : t.linkOf[j] = l
    BY <1>8 DEF OnLinks
  <2>1. \A x, y \in Models : t.nodeOf[x] # Nil /\ t.nodeOf[x] = t.nodeOf[y] => x = y
    BY <1>3 DEF IInv, Tied
  <2>2. CASE m = n /\ l = t.linkOf[k]
    BY <1>3, <2>2
  <2>3. CASE ~(m = n /\ l = t.linkOf[k])
    <3>1. t.nodeOf[m] \in NodeIds
      BY <1>3 DEF IInv, Hosts
    <3>2. l \in t.net.subscriptions[t.nodeOf[m]]
      BY <1>6, <2>1, <2>3, <3>1
    <3>3. <<t.nodeOf[m], l>> \in t.leaving \/ \E j \in t.links[m] : t.linkOf[j] = l
      BY <1>3, <3>2 DEF IInv, OnLinks
    <3> QED
      BY <2>1, <2>3, <3>3
  <2> QED
    BY <2>2, <2>3
<1>11. Follows(t, u)
  <2>1. ASSUME NEW m \in Models, NEW j \in Wires,
               t.nodeOf[m] # Nil, t.linkOf[j] # Nil, <<t.nodeOf[m], t.linkOf[j]>> \in t.leaving
        PROVE  j \in t.links[m] \/ <<t.nodeOf[m], t.linkOf[j]>> \in A
    <3>1. t.nodeOf[m] = t.nodeOf[n] => m = n
      BY <1>3, <2>1 DEF IInv, Tied
    <3>2. t.linkOf[j] = t.linkOf[k] => j = k
      BY <1>3, <2>1 DEF IInv, Tied
    <3> QED
      BY <1>3, <2>1, <3>1, <3>2
  <2>2. Grown(t.net, N)
    <3>1. \A m \in NodeIds : t.net.subscriptions[m] \subseteq N.subscriptions[m]
      BY <1>6
    <3> QED
      BY <1>6, <3>1 DEF Grown
  <2> HIDE DEF A
  <2> QED
    BY <1>8, <2>1, <2>2 DEF Follows
<1>12. Follows(h, u)
  <2>1. Follows(h, w)
    BY <1>1, <1>2, FollowsOn
  <2>2. Follows(h, t)
    BY <1>3, <2>1, FollowsOn
  <2> QED
    BY <1>11, <2>2, FollowsOn
<1> QED
  BY <1>3, <1>6, <1>8, <1>9, <1>10, <1>12 DEF IInv, u

LEMMA ViewOwned ==
    ASSUME NEW h, IInv(h), NEW o \in Models, NEW k \in Wires
    PROVE  LET t == [h EXCEPT !.owned[o] = @ \cup {k}]
           IN  IInv(t) /\ k \in t.owned[o] /\ t.nodeOf = h.nodeOf /\ t.linkOf = h.linkOf /\ t.net = h.net
               /\ Follows(h, t)
<1> DEFINE t == [h EXCEPT !.owned[o] = @ \cup {k}]
           A == [h.owned EXCEPT ![o] = @ \cup {k}]
<1>1. t = [h EXCEPT !.owned = A]
  BY DEF IInv, Hosts
<1>2. A \in [Models -> SUBSET Wires] /\ k \in A[o] /\ \A m \in Models : h.owned[m] \subseteq A[m]
  BY DEF IInv, Hosts
<1> HIDE DEF t, A
<1>3. /\ t \in Hosts /\ t.net = h.net /\ t.hosts = h.hosts /\ t.nodeOf = h.nodeOf /\ t.linkOf = h.linkOf
      /\ t.parent = h.parent /\ t.owned = A /\ t.links = h.links
      /\ t.leaving = h.leaving /\ t.unnesting = h.unnesting
  BY <1>1, <1>2 DEF IInv, Hosts
<1>4. Tied(t) /\ OnLinks(t) /\ UnderParents(t)
  BY <1>3 DEF IInv, Tied, OnLinks, UnderParents
<1>5. OwnsLinks(t)
  BY <1>2, <1>3 DEF IInv, OwnsLinks
<1>6. Follows(h, t)
  BY <1>2, <1>3 DEF Follows, Grown
<1> QED
  BY <1>2, <1>3, <1>4, <1>5, <1>6 DEF IInv, t

(* The owner's node may be the second of two that are made.                *)
LEMMA LinkOwned ==
    ASSUME NEW h, IInv(h), NEW o \in Models, NEW n \in Models, NEW k \in Wires,
           Room(h, o, n), RoomForWire(h, k)
    PROVE  LET u == Own(h, o, k)
           IN  IInv(u) /\ Room(u, o, n) /\ RoomForWire(u, k) /\ Follows(h, u)
<1> DEFINE v == [h EXCEPT !.owned[o] = @ \cup {k}]
           w == NodeIdOf(v, o)
           t == LinkIdOf(w, k)
           N == Engine!AddInternalLink(t.net, t.nodeOf[o], t.linkOf[k]).net
           u == Own(h, o, k)
<1>1. CASE k \in h.owned[o]
  BY <1>1 DEF Own, Follows, Grown
<1>2. CASE k \notin h.owned[o]
  <2>1. IInv(v) /\ k \in v.owned[o] /\ Room(v, o, n) /\ RoomForWire(v, k) /\ Follows(h, v)
    BY ViewOwned DEF Room, RoomFor, RoomForWire
  <2> HIDE DEF v
  <2>2. IInv(w) /\ k \in w.owned[o] /\ w.nodeOf[o] # Nil /\ Room(w, o, n) /\ RoomForWire(w, k)
        /\ Follows(v, w)
    <3>1. /\ IInv(w) /\ SameViews(v, w) /\ w.nodeOf[o] # Nil /\ w.linkOf = v.linkOf
          /\ w.net.issued \subseteq v.net.issued \cup {w.nodeOf[o]} /\ Follows(v, w)
      BY <2>1, NodeMade DEF Room
    <3>2. w.nodeOf[o] \in NodeIds
      BY <3>1 DEF IInv, Hosts
    <3>3. Room(w, o, n)
      BY <2>1, RoomStays
    <3> QED
      BY <2>1, <3>1, <3>2, <3>3, Handles DEF RoomForWire, SameViews
  <2> HIDE DEF w
  <2>3. IInv(t) /\ k \in t.owned[o] /\ t.nodeOf[o] # Nil /\ t.linkOf[k] # Nil /\ Room(t, o, n)
        /\ Follows(w, t)
    <3>1. /\ IInv(t) /\ SameViews(w, t) /\ t.nodeOf = w.nodeOf /\ t.linkOf[k] # Nil
          /\ NodeIds \ t.net.issued = NodeIds \ w.net.issued /\ Follows(w, t)
      BY <2>2, LinkMade
    <3> QED
      BY <2>2, <3>1 DEF SameViews, Room, RoomFor
  <2>4. u = [t EXCEPT !.net = N]
    BY <1>2 DEF Own, v, w
  <2> HIDE DEF t, u
  <2>5. t.nodeOf[o] \in NodeIds /\ t.linkOf[k] \in LinkIds
    BY <2>3 DEF IInv, Hosts
  <2>6. /\ Sound(N)
        /\ N.nodes = t.net.nodes /\ N.links = t.net.links /\ N.issued = t.net.issued
        /\ N.subscriptions = t.net.subscriptions /\ N.parent = t.net.parent
        /\ \A m \in NodeIds \ {t.nodeOf[o]} : N.internal[m] = t.net.internal[m]
        /\ N.internal[t.nodeOf[o]] \subseteq t.net.internal[t.nodeOf[o]] \cup {t.linkOf[k]}
        /\ t.net.internal[t.nodeOf[o]] \subseteq N.internal[t.nodeOf[o]]
    BY <2>3, <2>5, Owned DEF IInv
  <2> HIDE DEF N
  <2>7. /\ u \in Hosts /\ u.net = N /\ u.leaving = t.leaving /\ u.hosts = t.hosts
        /\ u.nodeOf = t.nodeOf /\ u.linkOf = t.linkOf /\ u.parent = t.parent
        /\ u.owned = t.owned /\ u.links = t.links /\ u.unnesting = t.unnesting
    BY <2>3, <2>4, <2>6 DEF IInv, Hosts, Sound
  <2>8. Tied(u) /\ OnLinks(u) /\ UnderParents(u)
    <3>1. Tied(t) /\ OnLinks(t) /\ UnderParents(t)
      BY <2>3 DEF IInv
    <3> QED
      BY <2>6, <2>7, <3>1, SMTT(30) DEF Tied, OnLinks, UnderParents
  <2>9. OwnsLinks(u)
    <3> SUFFICES ASSUME NEW m \in Models, t.nodeOf[m] # Nil, NEW l \in N.internal[t.nodeOf[m]]
                 PROVE  \E j \in t.owned[m] : t.linkOf[j] = l
      BY <2>7 DEF OwnsLinks
    <3>1. \A x, y \in Models : t.nodeOf[x] # Nil /\ t.nodeOf[x] = t.nodeOf[y] => x = y
      BY <2>3 DEF IInv, Tied
    <3>2. CASE m = o /\ l = t.linkOf[k]
      BY <2>3, <3>2
    <3>3. CASE ~(m = o /\ l = t.linkOf[k])
      <4>1. t.nodeOf[m] \in NodeIds
        BY <2>3 DEF IInv, Hosts
      <4>2. l \in t.net.internal[t.nodeOf[m]]
        BY <2>6, <3>1, <3>3, <4>1
      <4> QED
        BY <2>3, <4>2 DEF IInv, OwnsLinks
    <3> QED
      BY <3>2, <3>3
  <2>10. IInv(u) /\ Room(u, o, n) /\ RoomForWire(u, k)
    BY <2>3, <2>6, <2>7, <2>8, <2>9 DEF IInv, Room, RoomFor, RoomForWire
  <2>11. Follows(h, u)
    <3>1. \A m \in NodeIds : t.net.internal[m] \subseteq N.internal[m]
      BY <2>6
    <3>2. Follows(t, u)
      BY <2>6, <2>7, <3>1 DEF Follows, Grown
    <3>3. Follows(h, w)
      BY <2>1, <2>2, FollowsOn
    <3>4. Follows(h, t)
      BY <2>3, <3>3, FollowsOn
    <3> QED
      BY <3>2, <3>4, FollowsOn
  <2> QED
    BY <2>10, <2>11 DEF u
<1> QED
  BY <1>1, <1>2

LEMMA LinkLeft ==
    ASSUME NEW h, IInv(h), NEW p \in Models, NEW n \in Models, NEW k \in Wires
    PROVE  LET u == Leave(h, p, n, k)
           IN  /\ IInv(u) /\ u.net = h.net /\ u.nodeOf = h.nodeOf /\ u.linkOf = h.linkOf
               /\ \A m \in Models : u.links[m] = IF m = n THEN h.links[m] \ {k} ELSE h.links[m]
               /\ h.leaving \subseteq u.leaving
               /\ h.nodeOf[n] # Nil /\ h.linkOf[k] # Nil => <<h.nodeOf[n], h.linkOf[k]>> \in u.leaving
<1> DEFINE A == [h.links EXCEPT ![n] = @ \ {k}]
           v == [h EXCEPT !.links = A]
           t == UnnestChild(v, p, n)
           L == h.leaving \cup {<<h.nodeOf[n], l>> : l \in {h.linkOf[k]} \ {Nil}}
           P == h.unnesting \cup {<<id, h.nodeOf[n]>> : id \in {h.nodeOf[p]} \ {Nil}}
           u == Leave(h, p, n, k)
<1>1. A \in [Models -> SUBSET Wires] /\ \A m \in Models : A[m] = IF m = n THEN h.links[m] \ {k} ELSE h.links[m]
  BY DEF IInv, Hosts
<1>2. [h EXCEPT !.links[n] = @ \ {k}] = v
  BY DEF IInv, Hosts
<1> HIDE DEF A
<1>3. /\ v \in Hosts /\ v.net = h.net /\ v.hosts = h.hosts /\ v.nodeOf = h.nodeOf /\ v.linkOf = h.linkOf
      /\ v.parent = h.parent /\ v.owned = h.owned /\ v.links = A
      /\ v.leaving = h.leaving /\ v.unnesting = h.unnesting
  BY <1>1 DEF IInv, Hosts
<1> HIDE DEF v
<1>4. /\ t \in Hosts /\ t.net = h.net /\ t.hosts = h.hosts
      /\ t.nodeOf = h.nodeOf /\ t.linkOf = h.linkOf
      /\ t.owned = h.owned /\ t.links = A
      /\ t.leaving = h.leaving /\ t.unnesting = h.unnesting
      /\ t.parent[n] = (IF h.parent[n] = p THEN Nil ELSE h.parent[n])
      /\ \A m \in Models \ {n} : t.parent[m] = h.parent[m]
  <2>1. /\ t \in Hosts /\ t.net = v.net /\ t.hosts = v.hosts
        /\ t.nodeOf = v.nodeOf /\ t.linkOf = v.linkOf
        /\ t.owned = v.owned /\ t.links = v.links
        /\ t.leaving = v.leaving /\ t.unnesting = v.unnesting
        /\ t.parent[n] = (IF v.parent[n] = p THEN Nil ELSE v.parent[n])
        /\ \A m \in Models \ {n} : t.parent[m] = v.parent[m]
    <3>1. v \in Hosts
      BY <1>3
    <3> QED
      BY <3>1, ViewUnnested
  <2> HIDE DEF t
  <2> QED
    BY <1>3, <2>1
<1>5. \A x, y \in Models : h.nodeOf[x] # Nil /\ h.nodeOf[x] = h.nodeOf[y] => x = y
  BY DEF IInv, Tied
<1>6. CASE h.nodeOf[n] = Nil
  <2>1. u = t
    BY <1>2, <1>6 DEF Leave, Known
  <2> HIDE DEF t, u
  <2>2. Tied(t) /\ OnLinks(t) /\ OwnsLinks(t)
    BY <1>1, <1>4, <1>6 DEF IInv, Tied, OnLinks, OwnsLinks
  <2>3. UnderParents(t)
    BY <1>4, <1>6 DEF IInv, UnderParents
  <2> QED
    BY <1>1, <1>4, <1>6, <2>1, <2>2, <2>3 DEF IInv, u
<1>7. CASE h.nodeOf[n] # Nil
  <2>1. u = [t EXCEPT !.leaving = L, !.unnesting = P]
    BY <1>2, <1>4, <1>7 DEF Leave, Known
  <2> HIDE DEF t, u
  <2>2. L \in SUBSET (NodeIds \X LinkIds) /\ P \in SUBSET (NodeIds \X NodeIds)
    <3>1. /\ h.nodeOf[n] \in NodeIds /\ h.nodeOf[p] \in NodeIds \cup {Nil} /\ h.linkOf[k] \in LinkIds \cup {Nil}
          /\ h.leaving \in SUBSET (NodeIds \X LinkIds) /\ h.unnesting \in SUBSET (NodeIds \X NodeIds)
      BY <1>7 DEF IInv, Hosts
    <3> QED
      BY <3>1
  <2>3. h.leaving \subseteq L /\ h.unnesting \subseteq P
    OBVIOUS
  <2>4. h.linkOf[k] # Nil => <<h.nodeOf[n], h.linkOf[k]>> \in L
    OBVIOUS
  <2>5. h.nodeOf[p] # Nil => <<h.nodeOf[p], h.nodeOf[n]>> \in P
    OBVIOUS
  <2> HIDE DEF L, P
  <2>6. /\ u \in Hosts /\ u.net = h.net /\ u.hosts = h.hosts
        /\ u.nodeOf = h.nodeOf /\ u.linkOf = h.linkOf /\ u.parent = t.parent
        /\ u.owned = h.owned /\ u.links = A /\ u.leaving = L /\ u.unnesting = P
    BY <1>4, <2>1, <2>2 DEF Hosts
  <2>7. Tied(u) /\ OwnsLinks(u)
    BY <2>6 DEF IInv, Tied, OwnsLinks
  <2>8. OnLinks(u)
    <3> SUFFICES ASSUME NEW m \in Models, h.nodeOf[m] # Nil, NEW l \in h.net.subscriptions[h.nodeOf[m]]
                 PROVE  <<h.nodeOf[m], l>> \in L \/ \E j \in A[m] : h.linkOf[j] = l
      BY <2>6 DEF OnLinks
    <3>1. <<h.nodeOf[m], l>> \in h.leaving \/ \E j \in h.links[m] : h.linkOf[j] = l
      BY DEF IInv, OnLinks
    <3>2. l # Nil
      BY Handles DEF IInv, Hosts, Sound, Networks
    <3> QED
      BY <1>1, <2>3, <2>4, <3>1, <3>2
  <2>9. UnderParents(u)
    BY <1>4, <2>3, <2>5, <2>6 DEF IInv, UnderParents
  <2> QED
    BY <1>1, <2>3, <2>4, <2>6, <2>7, <2>8, <2>9 DEF IInv, u
<1> QED
  BY <1>6, <1>7

(* Those who were leaving have left; the views did so before.              *)
LEMMA LeavingFinished ==
    ASSUME NEW h, IInv(h)
    PROVE  LET u == FinishLeaving(h)
           IN  /\ IInv(u) /\ u.nodeOf = h.nodeOf /\ u.linkOf = h.linkOf /\ u.links = h.links
               /\ u.leaving = {}
<1> DEFINE s == h.net
           gone == {n \in NodeIds : <<s.parent[n], n>> \in h.unnesting}
           left(n) == {l \in LinkIds : <<n, l>> \in h.leaving}
                      \cup (IF n \in gone THEN s.internal[s.parent[n]] ELSE {})
           A == [n \in NodeIds |-> s.subscriptions[n] \ left(n)]
           B == [l \in LinkIds |-> s.subscribers[l] \ {n \in NodeIds : l \in left(n)}]
           C == [n \in NodeIds |-> IF n \in gone THEN Nil ELSE s.parent[n]]
           D == [m \in NodeIds |-> s.children[m] \ {n \in gone : s.parent[n] = m}]
           N == [s EXCEPT !.subscriptions = A, !.subscribers = B, !.parent = C, !.children = D]
           u == FinishLeaving(h)
<1>1. u = [h EXCEPT !.net = N, !.leaving = {}, !.unnesting = {}]
  BY DEF FinishLeaving
<1> HIDE DEF u
<1>2. /\ A \in [NodeIds -> SUBSET LinkIds] /\ B \in [LinkIds -> SUBSET NodeIds]
      /\ C \in [NodeIds -> NodeIds \cup {Nil}] /\ D \in [NodeIds -> SUBSET NodeIds]
  <2>1. /\ s.subscriptions \in [NodeIds -> SUBSET LinkIds] /\ s.subscribers \in [LinkIds -> SUBSET NodeIds]
        /\ s.parent \in [NodeIds -> NodeIds \cup {Nil}] /\ s.children \in [NodeIds -> SUBSET NodeIds]
    BY DEF IInv, Sound, Networks
  <2> HIDE DEF gone
  <2> QED
    BY <2>1
<1>3. \A n \in NodeIds : A[n] \subseteq s.subscriptions[n] /\ \A l \in A[n] : <<n, l>> \notin h.leaving
  BY DEF IInv, Sound, Networks
<1>4. \A n \in NodeIds : C[n] = IF <<s.parent[n], n>> \in h.unnesting THEN Nil ELSE s.parent[n]
  OBVIOUS
<1>5. \A m, n \in NodeIds : n \in D[m] <=> n \in s.children[m] /\ ~(<<s.parent[n], n>> \in h.unnesting /\ s.parent[n] = m)
  OBVIOUS
<1>51. \A n \in NodeIds, l \in LinkIds : l \in A[n] <=> n \in B[l]
  <2>1. \A n \in NodeIds, l \in LinkIds : l \in A[n] <=> l \in s.subscriptions[n] /\ l \notin left(n)
    BY DEF IInv, Sound, Networks
  <2>2. \A n \in NodeIds, l \in LinkIds : n \in B[l] <=> n \in s.subscribers[l] /\ l \notin left(n)
    BY DEF IInv, Sound, Networks
  <2>3. \A n \in NodeIds, l \in LinkIds : l \in s.subscriptions[n] <=> n \in s.subscribers[l]
    BY DEF IInv, Sound
  <2> HIDE DEF gone, A, B, C, D
  <2> QED
    BY <2>1, <2>2, <2>3
<1> HIDE DEF gone, A, B, C, D
<1>6. /\ N \in Networks
      /\ N.nodes = s.nodes /\ N.links = s.links /\ N.issued = s.issued /\ N.internal = s.internal
      /\ N.subscriptions = A /\ N.subscribers = B /\ N.parent = C /\ N.children = D
  BY <1>2 DEF IInv, Sound, Networks
<1> HIDE DEF N
<1>7. Sound(N)
  <2>1. \A m, n \in NodeIds : n \in N.children[m] <=> N.parent[n] = m
    <3>1. \A m, n \in NodeIds : n \in s.children[m] <=> s.parent[n] = m
      BY DEF IInv, Sound
    <3>2. \A m, n \in NodeIds : n \in D[m] <=> C[n] = m
      <4> TAKE m \in NodeIds, n \in NodeIds
      <4>1. CASE <<s.parent[n], n>> \in h.unnesting
        BY <1>4, <1>5, <3>1, <4>1, Handles
      <4>2. CASE <<s.parent[n], n>> \notin h.unnesting
        BY <1>4, <1>5, <3>1, <4>2
      <4> QED
        BY <4>1, <4>2
    <3> QED
      BY <1>6, <3>2
  <2>2. \A n \in NodeIds : n \notin N.nodes => N.parent[n] = Nil /\ N.subscriptions[n] = {} /\ N.internal[n] = {}
    <3>1. \A n \in NodeIds : n \notin s.nodes => s.parent[n] = Nil /\ s.subscriptions[n] = {} /\ s.internal[n] = {}
      BY DEF IInv, Sound
    <3>2. \A n \in NodeIds : C[n] \in {s.parent[n], Nil}
      BY <1>4
    <3>3. \A n \in NodeIds : s.subscriptions[n] = {} => A[n] = {}
      BY <1>3
    <3> QED
      BY <1>6, <3>1, <3>2, <3>3
  <2>3. \A n \in NodeIds : N.parent[n] \in N.nodes \cup {Nil} /\ N.parent[n] # n
    <3>1. \A n \in NodeIds : s.parent[n] \in s.nodes \cup {Nil} /\ s.parent[n] # n
      BY DEF IInv, Sound
    <3> QED
      BY <1>4, <1>6, <3>1, Handles, ZenonT(60)
  <2>4. \A n \in NodeIds : N.subscriptions[n] \cup N.internal[n] \subseteq N.links
    BY <1>3, <1>6 DEF IInv, Sound
  <2>5. \A n \in NodeIds, l \in LinkIds : l \in N.subscriptions[n] <=> n \in N.subscribers[l]
    BY <1>51, <1>6
  <2> QED
    BY <1>6, <2>1, <2>2, <2>3, <2>4, <2>5 DEF IInv, Sound
<1>8. /\ u \in Hosts /\ u.net = N /\ u.hosts = h.hosts
      /\ u.nodeOf = h.nodeOf /\ u.linkOf = h.linkOf /\ u.parent = h.parent
      /\ u.owned = h.owned /\ u.links = h.links /\ u.leaving = {} /\ u.unnesting = {}
  BY <1>1, <1>6 DEF IInv, Hosts
<1>9. \A m \in Models : h.nodeOf[m] # Nil => h.nodeOf[m] \in NodeIds
  BY DEF IInv, Hosts
<1>10. Tied(u) /\ OwnsLinks(u)
  BY <1>6, <1>8 DEF IInv, Tied, OwnsLinks
<1>11. OnLinks(u)
  <2> SUFFICES ASSUME NEW m \in Models, h.nodeOf[m] # Nil, NEW l \in A[h.nodeOf[m]]
               PROVE  \E k \in h.links[m] : h.linkOf[k] = l
    BY <1>6, <1>8 DEF OnLinks
  <2>1. l \in s.subscriptions[h.nodeOf[m]] /\ <<h.nodeOf[m], l>> \notin h.leaving
    BY <1>3, <1>9
  <2> QED
    BY <2>1 DEF IInv, OnLinks
<1>12. UnderParents(u)
  <2> SUFFICES ASSUME NEW m \in Models, NEW p \in Models,
                      h.nodeOf[m] # Nil, h.nodeOf[p] # Nil, C[h.nodeOf[m]] = h.nodeOf[p]
               PROVE  h.parent[m] = p
    BY <1>6, <1>8 DEF UnderParents
  <2>1. s.parent[h.nodeOf[m]] = h.nodeOf[p] /\ <<h.nodeOf[p], h.nodeOf[m]>> \notin h.unnesting
    BY <1>4, <1>9
  <2> QED
    BY <2>1 DEF IInv, UnderParents
<1> QED
  BY <1>7, <1>8, <1>10, <1>11, <1>12 DEF IInv, u

-----------------------------------------------------------------------------
(* Disposal and adoption *)

LEMMA NodeDisposed ==
    ASSUME NEW h, IInv(h), NEW m \in Models \ {RootModel}
    PROVE  LET u == Dispose(h, m)
           IN  /\ IInv(u) /\ u.net = h.net /\ u.linkOf = h.linkOf
               /\ u.links = h.links /\ u.leaving = h.leaving
               /\ \A x \in Models \ {m} : u.nodeOf[x] = h.nodeOf[x]
<1> DEFINE A == [h.nodeOf EXCEPT ![m] = Nil]
           B == h.hosts \ {h.nodeOf[m]}
           v == [h EXCEPT !.nodeOf = A, !.hosts = B]
           E == [h.inner EXCEPT ![m] = {}]
           F == [h.owned EXCEPT ![m] = {}]
           u == Dispose(h, m)
<1>1. /\ A \in [Models -> NodeIds \cup {Nil}] /\ B \in SUBSET NodeIds
      /\ E \in [Models -> SUBSET Models] /\ F \in [Models -> SUBSET Wires]
  BY DEF IInv, Hosts
<1>2. /\ A[m] = Nil /\ \A x \in Models \ {m} : A[x] = h.nodeOf[x]
      /\ \A x \in Models \ {m} : F[x] = h.owned[x]
  BY DEF IInv, Hosts
<1>3. B = {A[x] : x \in Models} \ {Root, Nil}
  <2>1. h.hosts = {h.nodeOf[x] : x \in Models} \ {Root, Nil}
    BY DEF IInv, Tied
  <2>2. \A x \in Models \ {m} : h.nodeOf[x] # Nil => h.nodeOf[x] # h.nodeOf[m]
    BY DEF IInv, Tied
  <2> HIDE DEF A
  <2> QED
    BY <1>2, <2>1, <2>2
<1>4. Forget(h, m) = v
  <2>1. CASE h.nodeOf[m] = Nil
    <3>1. A = h.nodeOf /\ B = h.hosts
      BY <2>1, Handles DEF IInv, Hosts
    <3> QED
      BY <2>1, <3>1 DEF Forget, Known, IInv, Hosts
  <2>2. CASE h.nodeOf[m] # Nil
    BY <2>2 DEF Forget, Known, IInv, Hosts
  <2> QED
    BY <2>1, <2>2
<1>5. u = [h EXCEPT !.nodeOf = A, !.hosts = B, !.inner = E, !.owned = F]
  BY <1>4 DEF Dispose, IInv, Hosts
<1> HIDE DEF A, B, E, F, u
<1>6. /\ u \in Hosts /\ u.net = h.net /\ u.hosts = B /\ u.nodeOf = A /\ u.linkOf = h.linkOf
      /\ u.parent = h.parent /\ u.owned = F /\ u.links = h.links
      /\ u.leaving = h.leaving /\ u.unnesting = h.unnesting
  BY <1>1, <1>5 DEF IInv, Hosts
<1>7. Tied(u)
  <2>1. Tied(h)
    BY DEF IInv
  <2>2. \A x \in Models : A[x] \in h.net.nodes \cup {Nil}
    BY <1>2, <2>1 DEF Tied
  <2>3. \A x, y \in Models : x # y /\ A[x] = A[y] => A[x] = Nil
    <3>1. \A x, y \in Models : x # y /\ h.nodeOf[x] = h.nodeOf[y] => h.nodeOf[x] = Nil
      BY <2>1 DEF Tied
    <3> QED
      BY <1>2, <3>1
  <2>4. A[RootModel] = Root
    BY <1>2, <2>1, Handles DEF Tied
  <2> QED
    BY <1>3, <1>6, <2>1, <2>2, <2>3, <2>4 DEF Tied
<1>8. OnLinks(u) /\ OwnsLinks(u)
  BY <1>2, <1>6 DEF IInv, OnLinks, OwnsLinks
<1>9. UnderParents(u)
  BY <1>2, <1>6 DEF IInv, UnderParents
<1> QED
  BY <1>2, <1>6, <1>7, <1>8, <1>9 DEF IInv, u

(* The views that are filled in show all the engine has around the node.   *)
LEMMA NodeAdopted ==
    ASSUME NEW h, IInv(h), NEW id \in NodeIds \ {Root}, NEW m \in Models
    PROVE  IInv(Adopt(h, id, m))
<1> DEFINE wires(L) == {k \in Wires : h.linkOf[k] \in L}
           ups == NodeAt(h, h.net.parent[id])
           downs == UNION {NodeAt(h, c) : c \in h.net.children[id]}
           A == [h.nodeOf EXCEPT ![m] = id]
           B == h.hosts \cup {id}
           U == [h.used EXCEPT ![h.net.name[id]] = IF @ = 0 THEN 1 ELSE @]
           P == [n \in Models |-> IF n \in downs THEN m
                                  ELSE IF n = m /\ ups # {} THEN CHOOSE p \in ups : TRUE
                                  ELSE h.parent[n]]
           I == [n \in Models |-> IF n = m THEN h.inner[n] \cup downs
                                  ELSE IF n \in ups THEN h.inner[n] \cup {m}
                                  ELSE h.inner[n]]
           O == [h.owned EXCEPT ![m] = @ \cup wires(h.net.internal[id])]
           L == [h.links EXCEPT ![m] = @ \cup wires(h.net.subscriptions[id])]
           u == Adopt(h, id, m)
<1>1. CASE Taken(h, id, m)
  BY <1>1 DEF Adopt
<1>2. CASE ~Taken(h, id, m)
  <2>1. u = [h EXCEPT !.nodeOf = A, !.hosts = B, !.used = U, !.parent = P, !.inner = I, !.owned = O, !.links = L]
    BY <1>2 DEF Adopt, IInv, Hosts
  <2> HIDE DEF u
  <2>2. h.nodeOf[m] = Nil /\ id \in h.net.nodes /\ \A x \in Models : h.nodeOf[x] # id
    BY <1>2, Handles DEF Taken, Known, NodeAt
  <2>3. ups \subseteq Models /\ downs \subseteq Models /\ m \notin downs
    BY <2>2 DEF NodeAt, Known
  <2>4. \A n \in Models : n \in downs <=> h.nodeOf[n] # Nil /\ h.nodeOf[n] \in NodeIds /\ h.net.parent[h.nodeOf[n]] = id
    <3>1. \A c \in NodeIds : c \in h.net.children[id] <=> h.net.parent[c] = id
      BY DEF IInv, Sound
    <3>2. h.net.children[id] \subseteq NodeIds
      BY DEF IInv, Sound, Networks
    <3> QED
      BY <3>1, <3>2 DEF NodeAt, Known
  <2>5. \A p \in Models : p \in ups <=> h.nodeOf[p] # Nil /\ h.nodeOf[p] = h.net.parent[id]
    BY DEF NodeAt, Known
  <2>6. \A p, q \in ups : p = q
    BY <2>3, <2>5 DEF IInv, Tied
  <2>7. \A l \in h.net.subscriptions[id] \cup h.net.internal[id] : \E k \in Wires : h.linkOf[k] = l
    BY DEF IInv, Sound, Tied
  <2>8. A \in [Models -> NodeIds \cup {Nil}] /\ A[m] = id /\ \A x \in Models \ {m} : A[x] = h.nodeOf[x]
    BY DEF IInv, Hosts
  <2>9. B \in SUBSET NodeIds
    BY DEF IInv, Hosts
  <2>10. U \in [Names -> Nat]
    <3>1. h.used \in [Names -> Nat]
      BY DEF IInv, Hosts
    <3> QED
      BY <3>1
  <2>11. P \in [Models -> Models \cup {Nil}] /\ I \in [Models -> SUBSET Models]
    <3>1. h.parent \in [Models -> Models \cup {Nil}] /\ h.inner \in [Models -> SUBSET Models]
      BY DEF IInv, Hosts
    <3> HIDE DEF ups, downs
    <3>2. ups # {} => (CHOOSE p \in ups : TRUE) \in Models
      BY <2>3
    <3> QED
      BY <2>3, <3>1, <3>2
  <2>12. O \in [Models -> SUBSET Wires] /\ L \in [Models -> SUBSET Wires]
    BY DEF IInv, Hosts
  <2>13. /\ \A x \in Models : h.owned[x] \subseteq O[x] /\ h.links[x] \subseteq L[x]
         /\ \A k \in Wires : h.linkOf[k] \in h.net.internal[id] => k \in O[m]
         /\ \A k \in Wires : h.linkOf[k] \in h.net.subscriptions[id] => k \in L[m]
    BY DEF IInv, Hosts
  <2>14. /\ \A n \in Models : n \in downs => P[n] = m
         /\ \A n \in Models \ {m} : n \notin downs => P[n] = h.parent[n]
         /\ \A p \in ups : P[m] = p
    <3> HIDE DEF ups, downs
    <3>1. \A p \in ups : (CHOOSE q \in ups : TRUE) = p
      BY <2>6
    <3> QED
      BY <2>3, <3>1
  <2> HIDE DEF A, B, U, P, I, O, L, ups, downs, wires
  <2>15. /\ u \in Hosts /\ u.net = h.net /\ u.hosts = B /\ u.nodeOf = A /\ u.linkOf = h.linkOf
         /\ u.parent = P /\ u.owned = O /\ u.links = L
         /\ u.leaving = h.leaving /\ u.unnesting = h.unnesting
    BY <2>1, <2>8, <2>9, <2>10, <2>11, <2>12 DEF IInv, Hosts
  <2>16. Tied(u)
    <3>1. B = {A[x] : x \in Models} \ {Root, Nil}
      <4>1. h.hosts = {h.nodeOf[x] : x \in Models} \ {Root, Nil}
        BY DEF IInv, Tied
      <4> QED
        BY <2>2, <2>8, <4>1, Handles DEF B
    <3> QED
      BY <2>2, <2>8, <2>15, <3>1, Handles DEF IInv, Tied
  <2>17. OnLinks(u)
    <3> SUFFICES ASSUME NEW x \in Models, A[x] # Nil, NEW l \in h.net.subscriptions[A[x]]
                 PROVE  <<A[x], l>> \in h.leaving \/ \E k \in L[x] : h.linkOf[k] = l
      BY <2>15 DEF OnLinks
    <3>1. CASE x = m
      <4>1. l \in h.net.subscriptions[id]
        BY <2>8, <3>1
      <4>2. PICK k \in Wires : h.linkOf[k] = l
        BY <2>7, <4>1
      <4>3. k \in L[x]
        BY <2>13, <3>1, <4>1, <4>2
      <4> QED
        BY <4>2, <4>3
    <3>2. CASE x # m
      BY <2>8, <2>13, <3>2 DEF IInv, OnLinks
    <3> QED
      BY <3>1, <3>2
  <2>18. OwnsLinks(u)
    <3> SUFFICES ASSUME NEW x \in Models, A[x] # Nil, NEW l \in h.net.internal[A[x]]
                 PROVE  \E k \in O[x] : h.linkOf[k] = l
      BY <2>15 DEF OwnsLinks
    <3>1. CASE x = m
      <4>1. l \in h.net.internal[id]
        BY <2>8, <3>1
      <4>2. PICK k \in Wires : h.linkOf[k] = l
        BY <2>7, <4>1
      <4>3. k \in O[x]
        BY <2>13, <3>1, <4>1, <4>2
      <4> QED
        BY <4>2, <4>3
    <3>2. CASE x # m
      BY <2>8, <2>13, <3>2 DEF IInv, OwnsLinks
    <3> QED
      BY <3>1, <3>2
  <2>19. UnderParents(u)
    <3> SUFFICES ASSUME NEW x \in Models, NEW p \in Models, A[x] # Nil, A[p] # Nil, h.net.parent[A[x]] = A[p]
                 PROVE  P[x] = p \/ <<A[p], A[x]>> \in h.unnesting
      BY <2>15 DEF UnderParents
    <3>1. A[x] \in NodeIds /\ h.net.parent[id] # id
      BY <2>8 DEF IInv, Sound
    <3>2. CASE x = m
      BY <2>5, <2>8, <2>14, <3>1, <3>2
    <3>3. CASE x # m /\ p = m
      BY <2>4, <2>8, <2>14, <3>1, <3>3
    <3>4. CASE x # m /\ p # m
      <4>1. x \notin downs
        BY <2>2, <2>4, <2>8, <3>4
      <4> QED
        BY <2>8, <2>14, <3>4, <4>1 DEF IInv, UnderParents
    <3> QED
      BY <3>2, <3>3, <3>4
  <2> QED
    BY <2>15, <2>16, <2>17, <2>18, <2>19 DEF IInv, u
<1> QED
  BY <1>1, <1>2

-----------------------------------------------------------------------------
(* Operations *)

LEMMA NodeNested ==
    ASSUME NEW h, IInv(h), NEW p \in Models, NEW n \in Models, Room(h, p, n)
    PROVE  LET t == Nest(h, p, n)
           IN  /\ IInv(t) /\ Room(t, p, n) /\ Follows(h, t)
               /\ \A k \in Wires : RoomForWire(h, k) => RoomForWire(t, k)
<1> DEFINE t == Nest(h, p, n)
<1>1. CASE h.parent[n] # Nil
  BY <1>1 DEF Nest, Follows, Grown
<1>2. CASE h.parent[n] = Nil
  <2>1. t = AddChild(h, p, n)
    BY <1>2 DEF Nest
  <2> HIDE DEF t
  <2>2. /\ IInv(t) /\ t.nodeOf[p] # Nil /\ t.nodeOf[n] # Nil
        /\ LinkIds \ t.net.issued = LinkIds \ h.net.issued /\ t.linkOf = h.linkOf /\ Follows(h, t)
    BY <1>2, <2>1, ChildAdded
  <2> QED
    BY <2>2 DEF Room, RoomFor, RoomForWire, t
<1> QED
  BY <1>1, <1>2

LEMMA NodeMoved ==
    ASSUME NEW h, IInv(h), NEW p \in Models, NEW n \in Models, Room(h, p, n)
    PROVE  IInv(MoveInto(h, p, n))
<1> DEFINE v == RemoveChild(h, h.parent[n], n)
<1>1. CASE h.parent[n] = p
  BY <1>1 DEF MoveInto
<1>2. CASE h.parent[n] # p /\ h.parent[n] = Nil
  BY <1>2, ChildAdded DEF MoveInto
<1>3. CASE h.parent[n] # p /\ h.parent[n] # Nil
  <2>1. MoveInto(h, p, n) = AddChild(v, p, n)
    BY <1>3 DEF MoveInto
  <2>2. h.parent[n] \in Models
    BY <1>3 DEF IInv, Hosts
  <2>3. IInv(v) /\ v.parent[n] = Nil /\ v.nodeOf = h.nodeOf /\ v.net.issued = h.net.issued
    BY <2>2, ChildRemoved
  <2> HIDE DEF v
  <2>4. Room(v, p, n)
    BY <2>3 DEF Room, RoomFor
  <2>5. IInv(AddChild(v, p, n))
    BY <2>3, <2>4, ChildAdded
  <2> QED
    BY <2>1, <2>5
<1> QED
  BY <1>1, <1>2, <1>3

LEMMA NodeSubscribed ==
    ASSUME NEW h, IInv(h), NEW n \in Models, NEW k \in Wires, RoomFor(h, n), RoomForWire(h, k)
    PROVE  LET u == SubscribeToLink(h, n, k)
           IN  IInv(u) /\ Follows(h, u) /\ k \in u.links[n]
BY SubscriptionAdded DEF SubscribeToLink, Follows, Grown

LEMMA NodeConnected ==
    ASSUME NEW h, IInv(h), NEW p \in Models, NEW n \in Models, NEW k \in Wires,
           Room(h, p, n), RoomForWire(h, k)
    PROVE  LET v == Connect(h, p, n, k)
           IN  IInv(v) /\ Follows(h, v) /\ (p # n => k \in v.links[n])
<1> DEFINE t == Nest(h, p, n)
           u == Own(t, p, k)
<1>1. CASE p = n
  BY <1>1 DEF Connect, Follows, Grown
<1>2. CASE p # n
  <2>1. Connect(h, p, n, k) = SubscribeToLink(u, n, k)
    BY <1>2 DEF Connect
  <2>2. IInv(t) /\ Room(t, p, n) /\ RoomForWire(t, k) /\ Follows(h, t)
    BY NodeNested
  <2> HIDE DEF t
  <2>3. IInv(u) /\ Room(u, p, n) /\ RoomForWire(u, k) /\ Follows(t, u)
    BY <2>2, LinkOwned
  <2> HIDE DEF u
  <2> DEFINE v == SubscribeToLink(u, n, k)
  <2>4. IInv(v) /\ Follows(u, v) /\ k \in v.links[n]
    BY <2>3, NodeSubscribed DEF Room
  <2> HIDE DEF v
  <2>5. Follows(h, v)
    <3>1. Follows(h, u)
      BY <2>2, <2>3, FollowsOn
    <3> QED
      BY <2>4, <3>1, FollowsOn
  <2> QED
    BY <2>1, <2>4, <2>5 DEF v
<1> QED
  BY <1>1, <1>2

-----------------------------------------------------------------------------
(* The specification *)

(* Handles enough for some models are handles enough for two of them.      *)
LEMMA EnoughIsRoom ==
    ASSUME NEW p \in Models, NEW n \in Models, Enough({p, n})
    PROVE  Room(host, p, n)
<1>1. PICK id \in [{m \in {p, n} : ~Known(host, m)} -> NodeIds \ host.net.issued] :
          \A x, y \in DOMAIN id : x # y => id[x] # id[y]
  BY DEF Enough
<1>2. \A m \in {p, n} : host.nodeOf[m] = Nil => id[m] \in NodeIds \ host.net.issued
  BY <1>1 DEF Known
<1>3. p # n /\ host.nodeOf[p] = Nil /\ host.nodeOf[n] = Nil => id[p] # id[n]
  BY <1>1 DEF Known
<1> QED
  BY <1>2, <1>3 DEF Room, RoomFor

LEMMA HostStarts ==
    ASSUME Init
    PROVE  IInv(host)
<1> DEFINE O == [m \in Models |-> IF m = RootModel THEN Root ELSE Nil]
           s == scene.net
<1>1. /\ Engine!InOrder(s) /\ s.internal[Root] = {} /\ s.subscriptions[Root] = {}
      /\ scene.linkOf \in [Wires -> s.links \cup {Nil}]
      /\ \A l \in s.links : \E k \in Wires : scene.linkOf[k] = l
      /\ \A j, k \in Wires : scene.linkOf[j] = scene.linkOf[k] /\ j # k => scene.linkOf[j] = Nil
  BY HostAssumption DEF Init
<1>2. Sound(s)
  BY <1>1, InOrderIsSound
<1>3. O \in [Models -> NodeIds \cup {Nil}] /\ O[RootModel] = Root /\ \A m \in Models \ {RootModel} : O[m] = Nil
  BY Handles
<1>4. {O[m] : m \in Models} \ {Root, Nil} = {}
  OBVIOUS
<1>5. /\ host.net = s /\ host.hosts = {} /\ host.nodeOf = O /\ host.linkOf = scene.linkOf
      /\ host.leaving = {} /\ host.unnesting = {}
  BY DEF Init
<1> HIDE DEF O
<1>6. host \in Hosts
  <2>1. scene.linkOf \in [Wires -> LinkIds \cup {Nil}]
    BY <1>1, <1>2 DEF Sound, Networks
  <2>2. s \in Networks
    BY <1>2 DEF Sound
  <2> QED
    BY <1>3, <2>1, <2>2 DEF Init, Hosts, O
<1>7. Tied(host)
  <2>1. Root \in s.nodes
    BY <1>2 DEF Sound
  <2>2. \A m \in Models : O[m] \in s.nodes \cup {Nil}
    BY <1>3, <2>1
  <2>3. \A m, n \in Models : m # n /\ O[m] = O[n] => O[m] = Nil
    BY <1>3
  <2>4. \A k \in Wires : scene.linkOf[k] \in s.links \cup {Nil}
    BY <1>1
  <2> QED
    BY <1>1, <1>3, <1>4, <1>5, <2>2, <2>3, <2>4 DEF Tied
<1>8. OnLinks(host) /\ OwnsLinks(host)
  BY <1>1, <1>3, <1>5, Handles DEF OnLinks, OwnsLinks
<1>9. UnderParents(host)
  <2>1. s.parent[Root] # Root
    BY <1>2, Handles DEF Sound
  <2> QED
    BY <1>3, <1>5, <2>1 DEF UnderParents
<1> QED
  BY <1>2, <1>5, <1>6, <1>7, <1>8, <1>9 DEF IInv

(* One call, whatever lapse it may be.                                     *)
LEMMA CallKeeps ==
    ASSUME scene \in Scenes, IInv(host), Next
    PROVE  scene' \in Scenes /\ IInv(host')
<1>1. /\ scene.models \subseteq Models /\ scene.wires \subseteq Wires /\ Members \subseteq Models \ {RootModel}
  BY HostAssumption DEF Members
<1>2. ASSUME NEW p \in scene.models, NEW n \in Members, DoNest(p, n)
      PROVE  scene' = scene /\ IInv(host')
  BY <1>1, <1>2, EnoughIsRoom, NodeNested DEF DoNest, Call
<1>3. ASSUME NEW p \in scene.models, NEW n \in Members, DoMoveInto(p, n)
      PROVE  scene' = scene /\ IInv(host')
  BY <1>1, <1>3, EnoughIsRoom, NodeMoved DEF DoMoveInto, Call
<1>4. ASSUME NEW o \in scene.models, NEW k \in scene.wires, DoOwn(o, k)
      PROVE  scene' = scene /\ IInv(host')
  <2>1. {o, o} = {o}
    OBVIOUS
  <2>2. Room(host, o, o)
    BY <1>1, <1>4, <2>1, EnoughIsRoom DEF DoOwn
  <2>3. RoomForWire(host, k)
    BY <1>4 DEF DoOwn, EnoughFor, RoomForWire
  <2> QED
    BY <1>1, <1>4, <2>2, <2>3, LinkOwned DEF DoOwn, Call
<1>5. ASSUME NEW n \in Members, NEW k \in scene.wires, DoSubscribeToLink(n, k)
      PROVE  scene' = scene /\ IInv(host')
  <2>1. {n, n} = {n}
    OBVIOUS
  <2>2. RoomFor(host, n)
    BY <1>1, <1>5, <2>1, EnoughIsRoom DEF DoSubscribeToLink, Room
  <2>3. RoomForWire(host, k)
    BY <1>5 DEF DoSubscribeToLink, EnoughFor, RoomForWire
  <2> QED
    BY <1>1, <1>5, <2>2, <2>3, NodeSubscribed DEF DoSubscribeToLink, Call
<1>6. ASSUME NEW p \in scene.models, NEW n \in Members, NEW k \in scene.wires, DoConnect(p, n, k)
      PROVE  scene' = scene /\ IInv(host')
  <2>1. Room(host, p, n)
    BY <1>1, <1>6, EnoughIsRoom DEF DoConnect
  <2>2. RoomForWire(host, k)
    BY <1>6 DEF DoConnect, EnoughFor, RoomForWire
  <2> QED
    BY <1>1, <1>6, <2>1, <2>2, NodeConnected DEF DoConnect, Call
<1>7. ASSUME NEW p \in scene.models, NEW n \in Members, NEW k \in scene.wires, DoDisconnect(p, n, k)
      PROVE  scene' = scene /\ IInv(host')
  BY <1>1, <1>7, LinkLeft DEF DoDisconnect, Disconnect, Call
<1>8. ASSUME NEW m \in Members, DoDispose(m)
      PROVE  scene' = scene /\ IInv(host')
  BY <1>1, <1>8, NodeDisposed DEF DoDispose, Call
<1>9. ASSUME NEW m \in Members, NEW id \in NodeIds \ {Root}, DoAdopt(id, m)
      PROVE  scene' = scene /\ IInv(host')
  BY <1>1, <1>9, NodeAdopted DEF DoAdopt, Call
<1>10. ASSUME DoStep
       PROVE  scene' = scene /\ IInv(host')
  BY <1>10, LeavingFinished DEF DoStep, Step, Call
<1> QED
  BY <1>2, <1>3, <1>4, <1>5, <1>6, <1>7, <1>8, <1>9, <1>10 DEF Next

(* The inductive invariant: the engine's network is sound, C# nodes and    *)
(* links stand for one thing each, and the views show at least what is so  *)
(* in the engine, whatever HostNetwork is called for and in what order.    *)
THEOREM HostInvariant == Spec => [](scene \in Scenes /\ IInv(host))
<1> DEFINE Inv == scene \in Scenes /\ IInv(host)
<1>1. Init => Inv
  BY HostStarts DEF Init
<1>2. Inv /\ [Next]_vars => Inv'
  <2> SUFFICES ASSUME Inv, [Next]_vars PROVE Inv'
    OBVIOUS
  <2>1. CASE Next
    BY <2>1, CallKeeps
  <2>2. CASE UNCHANGED vars
    BY <2>2 DEF vars
  <2> QED
    BY <2>1, <2>2
<1> QED
  BY <1>1, <1>2, PTL DEF Spec

(* The engine collects deliveries for exactly the nodes C# has, and no two *)
(* C# nodes, and no two C# links, stand for the same one of the engine's.  *)
THEOREM DeliveriesFindTheirNode == Spec => []HostsKnown
<1>1. ASSUME IInv(host) PROVE HostsKnown
  <2>1. ASSUME NEW S, \A x, y \in S : x = y
        PROVE  Cardinality(S) <= 1
    <3>1. CASE S = {}
      BY <3>1, FS_EmptySet
    <3>2. CASE S # {}
      <4>1. PICK x \in S : TRUE
        BY <3>2
      <4>2. S = {x}
        BY <2>1, <4>1
      <4> QED
        BY <4>2, FS_Singleton
    <3> QED
      BY <3>1, <3>2
  <2>2. Tied(host)
    BY <1>1 DEF IInv
  <2>3. \A id \in NodeIds : Cardinality(NodeAt(host, id)) <= 1
    <3> TAKE id \in NodeIds
    <3>1. \A m, n \in NodeAt(host, id) : m = n
      BY <2>2 DEF NodeAt, Known, Tied
    <3> QED
      BY <2>1, <3>1
  <2>4. \A l \in LinkIds : Cardinality({k \in Wires : host.linkOf[k] = l}) <= 1
    <3> TAKE l \in LinkIds
    <3>1. \A j, k \in {i \in Wires : host.linkOf[i] = l} : j = k
      BY <2>2, Handles DEF Tied
    <3> QED
      BY <2>1, <3>1
  <2> QED
    BY <2>2, <2>3, <2>4 DEF HostsKnown, Tied
<1> QED
  BY <1>1, HostInvariant, PTL

(* Whatever is called in whatever order, the engine never has a C# node on *)
(* a link, under a parent, or owning a link, where the views do not have   *)
(* it too, unless it is just leaving there.                                *)
THEOREM NothingIsHeardUnseen == Spec => []EngineWithinViews
<1>1. ASSUME IInv(host) PROVE EngineWithinViews
  <2> SUFFICES ASSUME NEW m \in Models, Known(host, m)
               PROVE  LET id == host.nodeOf[m] IN
                      /\ \A l \in host.net.subscriptions[id] :
                            <<id, l>> \in host.leaving \/ \E k \in host.links[m] : host.linkOf[k] = l
                      /\ \A l \in host.net.internal[id] : \E k \in host.owned[m] : host.linkOf[k] = l
                      /\ \A p \in NodeAt(host, host.net.parent[id]) :
                            host.parent[m] = p \/ p \in LeftBehind(host, m)
    BY DEF EngineWithinViews
  <2>1. OnLinks(host) /\ OwnsLinks(host) /\ UnderParents(host)
    BY <1>1 DEF IInv
  <2>2. \A l \in host.net.subscriptions[host.nodeOf[m]] :
            <<host.nodeOf[m], l>> \in host.leaving \/ \E k \in host.links[m] : host.linkOf[k] = l
    BY <2>1 DEF OnLinks, Known
  <2>3. \A l \in host.net.internal[host.nodeOf[m]] : \E k \in host.owned[m] : host.linkOf[k] = l
    BY <2>1 DEF OwnsLinks, Known
  <2>4. \A p \in NodeAt(host, host.net.parent[host.nodeOf[m]]) :
            host.parent[m] = p \/ p \in LeftBehind(host, m)
    BY <2>1 DEF UnderParents, Known, NodeAt, LeftBehind
  <2> QED
    BY <2>2, <2>3, <2>4
<1> QED
  BY <1>1, HostInvariant, PTL

-----------------------------------------------------------------------------
(* The traffic *)

Packets == [handle: Nat, from: NodeIds, on: Wires, tick: Nat]
Originals == [handle: Nat, tick: Nat]

(* A packet has an original while it is not too old, and its sender is on  *)
(* the link for the engine until the first tick after it was sent.         *)
InHand(h, originals, p, now) ==
    /\ h.linkOf[p.on] # Nil /\ p.tick <= now
    /\ p.tick = now => Engine!CanUseLink(h.net, p.from, h.linkOf[p.on])
    /\ now <= p.tick + InFlightTicks => [handle |-> p.handle, tick |-> p.tick] \in originals

(* What `wire` may be: nothing is left that the last purge should have     *)
(* forgotten.                                                              *)
Sendings(h, now, purge) ==
    {w \in [handle: Nat, originals: SUBSET Originals, pending: Seq(Packets)] :
        /\ \A i \in DOMAIN w.pending : InHand(h, w.originals, w.pending[i], now)
        /\ \A o \in w.originals : o.tick <= now /\ purge <= o.tick + InFlightTicks}

LEMMA TransmitKeeps ==
    ASSUME IInv(host), tick \in Nat, lastPurge \in Nat, lastPurge <= tick,
           NEW n \in Models, NEW k \in host.links[n],
           NEW w \in Sendings(host, tick, lastPurge)
    PROVE  Transmit(w, n, k) \in Sendings(host, tick, lastPurge)
<1> DEFINE handle == w.handle + 1
           id == host.nodeOf[n]
           p == [handle |-> handle, from |-> id, on |-> k, tick |-> tick]
           O == w.originals \cup {[handle |-> handle, tick |-> tick]}
           Q == Append(w.pending, p)
           sent == Engine!CanUseLink(host.net, id, host.linkOf[k]) /\ Len(w.pending) < MaxPending
<1>0. InFlightTicks \in Nat /\ k \in Wires
  BY TrafficAssumption DEF IInv, Hosts
<1>1. /\ w \in [handle: Nat, originals: SUBSET Originals, pending: Seq(Packets)]
      /\ \A i \in DOMAIN w.pending : InHand(host, w.originals, w.pending[i], tick)
      /\ \A o \in w.originals : o.tick <= tick /\ lastPurge <= o.tick + InFlightTicks
  BY DEF Sendings
<1>2. CASE ~sent
  <2>1. Transmit(w, n, k) = [w EXCEPT !.handle = handle]
    BY <1>2 DEF Transmit
  <2>2. [w EXCEPT !.handle = handle] \in [handle: Nat, originals: SUBSET Originals, pending: Seq(Packets)]
    BY <1>1
  <2>3. [w EXCEPT !.handle = handle].originals = w.originals /\ [w EXCEPT !.handle = handle].pending = w.pending
    BY <1>1
  <2> QED
    BY <1>1, <2>1, <2>2, <2>3 DEF Sendings
<1>3. CASE sent
  <2>1. Transmit(w, n, k) = [handle |-> handle, originals |-> O, pending |-> Q]
    BY <1>3 DEF Transmit
  <2>2. id \in NodeIds /\ host.linkOf[k] # Nil
    BY <1>0, <1>3, Handles DEF Engine!CanUseLink, IInv, Sound, Networks, Hosts
  <2>3. p \in Packets /\ handle \in Nat /\ [handle |-> handle, tick |-> tick] \in Originals
    BY <1>0, <1>1, <2>2 DEF Packets, Originals
  <2>4. O \in SUBSET Originals /\ Q \in Seq(Packets)
    BY <1>1, <2>3
  <2>5. InHand(host, O, p, tick)
    BY <1>0, <1>3, <2>2 DEF InHand
  <2>6. \A i \in DOMAIN w.pending : InHand(host, O, w.pending[i], tick)
    BY <1>1 DEF InHand
  <2>7. \A o \in O : o.tick <= tick /\ lastPurge <= o.tick + InFlightTicks
    BY <1>0, <1>1
  <2> HIDE DEF O, p
  <2>8. \A i \in DOMAIN Q : InHand(host, O, Q[i], tick)
    <3>1. /\ Len(Q) = Len(w.pending) + 1 /\ Q[Len(Q)] = p
          /\ \A i \in 1..Len(w.pending) : Q[i] = w.pending[i]
          /\ DOMAIN Q = 1..Len(Q) /\ DOMAIN w.pending = 1..Len(w.pending) /\ Len(w.pending) \in Nat
      BY <1>1, <2>3, <2>4
    <3> HIDE DEF Q
    <3> QED
      BY <2>5, <2>6, <3>1
  <2> HIDE DEF Q, handle
  <2> QED
    BY <2>1, <2>3, <2>4, <2>7, <2>8 DEF Sendings
<1> QED
  BY <1>2, <1>3

LEMMA PutOutKeeps ==
    ASSUME IInv(host), tick \in Nat, lastPurge \in Nat, lastPurge <= tick,
           NEW n \in Models, NEW w \in Sendings(host, tick, lastPurge)
    PROVE  PutOut(w, n) \in Sendings(host, tick, lastPurge)
<1> DEFINE V == Sendings(host, tick, lastPurge)
           S == host.links[n]
           pick == [s \in SUBSET S |-> CHOOSE x \in s : TRUE]
           step == [c \in S \X V |-> Transmit(c[2], n, c[1])]
           Fold(g) == [s \in SUBSET S |->
                          IF s = {} THEN w
                          ELSE Transmit(g[s \ {CHOOSE x \in s : TRUE}], n, CHOOSE x \in s : TRUE)]
           fold == CHOOSE g : g = Fold(g)
<1>1. FoldSet(LAMBDA k, acc : Transmit(acc, n, k), w, S) = fold[S]
  BY DEF FoldSet, MapThenFoldSet
<1>2. IsFiniteSet(S)
  BY FS_Subset, TrafficAssumption DEF IInv, Hosts
<1>3. \A x \in S, v \in V : step[<<x, v>>] \in V
  BY TransmitKeeps
<1>4. w \in V /\ \A s \in SUBSET S : s # {} => pick[s] \in s
  OBVIOUS
<1> HIDE DEF V, S
<1>41. Steps(S, V, w, pick, step)
  <2> HIDE DEF pick, step
  <2> QED
    BY <1>2, <1>3, <1>4 DEF Steps
<1>5. PICK g \in [SUBSET S -> V] : IsFold(S, w, pick, step, g)
  <2> HIDE DEF pick, step
  <2> QED
    BY <1>41, FoldExists
<1>6. \A s \in SUBSET S : s # {} => pick[s] = (CHOOSE x \in s : TRUE) /\ pick[s] \in S
  BY <1>4
<1>7. \A x \in S, v \in V : step[<<x, v>>] = Transmit(v, n, x)
  OBVIOUS
<1>8. g = Fold(g)
  <2>1. \A s \in SUBSET S : g[s] = Fold(g)[s]
    <3> TAKE s \in SUBSET S
    <3>1. CASE s = {}
      BY <1>5, <3>1 DEF IsFold
    <3>2. CASE s # {}
      <4>1. g[s \ {pick[s]}] \in V
        BY <1>5
      <4> HIDE DEF step, pick
      <4>2. g[s] = Transmit(g[s \ {pick[s]}], n, pick[s])
        BY <1>5, <1>6, <1>7, <3>2, <4>1 DEF IsFold
      <4> QED
        BY <1>6, <3>2, <4>2
    <3> QED
      BY <3>1, <3>2
  <2> HIDE DEF pick, step
  <2> QED
    BY <1>5, <2>1
<1>9. fold = Fold(fold)
  BY <1>8
<1> HIDE DEF fold, step, pick
<1>10. fold[S] \in V
  <2>1. fold[{}] = w
    BY <1>9
  <2>2. \A s \in SUBSET S : s # {} /\ fold[s \ {pick[s]}] \in V =>
           fold[s] = step[<<pick[s], fold[s \ {pick[s]}]>>]
    <3> TAKE s \in SUBSET S
    <3> SUFFICES ASSUME s # {}, fold[s \ {pick[s]}] \in V
                 PROVE  fold[s] = step[<<pick[s], fold[s \ {pick[s]}]>>]
      OBVIOUS
    <3>1. fold[s] = Transmit(fold[s \ {pick[s]}], n, pick[s])
      BY <1>6, <1>9
    <3> QED
      BY <1>6, <1>7, <3>1
  <2>3. \A s \in SUBSET S : fold[s] \in V
    <3>1. IsFoldWithin(S, V, w, pick, step, fold)
      BY <2>1, <2>2 DEF IsFoldWithin
    <3> QED
      BY <1>41, <3>1, FoldStays
  <2> QED
    BY <2>3
<1> QED
  BY <1>1, <1>10 DEF PutOut, S, V

LEMMA DrainKeeps ==
    ASSUME IInv(host), tick \in Nat, lastPurge \in Nat, lastPurge <= tick,
           NEW n \in Models, outbox[n] \in Seq(BOOLEAN), wire \in Sendings(host, tick, lastPurge)
    PROVE  FoldSet(LAMBDA i, acc : PutOut(acc, n), wire, DOMAIN outbox[n]) \in Sendings(host, tick, lastPurge)
<1> DEFINE V == Sendings(host, tick, lastPurge)
           S == DOMAIN outbox[n]
           pick == [s \in SUBSET S |-> CHOOSE x \in s : TRUE]
           step == [c \in S \X V |-> PutOut(c[2], n)]
           Fold(g) == [s \in SUBSET S |-> IF s = {} THEN wire ELSE PutOut(g[s \ {CHOOSE x \in s : TRUE}], n)]
           fold == CHOOSE g : g = Fold(g)
<1>1. FoldSet(LAMBDA i, acc : PutOut(acc, n), wire, S) = fold[S]
  BY DEF FoldSet, MapThenFoldSet
<1>2. Steps(S, V, wire, pick, step)
  <2>1. IsFiniteSet(S)
    <3>1. S = 1..Len(outbox[n]) /\ Len(outbox[n]) \in Nat
      OBVIOUS
    <3> QED
      BY <3>1, FS_Interval
  <2>2. \A x \in S, v \in V : step[<<x, v>>] \in V
    BY PutOutKeeps
  <2>3. wire \in V /\ \A s \in SUBSET S : s # {} => pick[s] \in s
    OBVIOUS
  <2> HIDE DEF V, S, pick, step
  <2> QED
    BY <2>1, <2>2, <2>3 DEF Steps
<1>3. \A x \in S, v \in V : step[<<x, v>>] = PutOut(v, n)
  OBVIOUS
<1> HIDE DEF V, S
<1>4. \A s \in SUBSET S : s # {} => pick[s] = (CHOOSE x \in s : TRUE) /\ pick[s] \in S
  OBVIOUS
<1> HIDE DEF step, pick
<1>5. PICK g \in [SUBSET S -> V] : IsFold(S, wire, pick, step, g)
  BY <1>2, FoldExists
<1>6. g = Fold(g)
  <2>1. \A s \in SUBSET S : g[s] = Fold(g)[s]
    <3> TAKE s \in SUBSET S
    <3>1. CASE s = {}
      BY <1>5, <3>1 DEF IsFold
    <3>2. CASE s # {}
      <4>1. g[s \ {pick[s]}] \in V
        BY <1>5
      <4>2. g[s] = PutOut(g[s \ {pick[s]}], n)
        BY <1>3, <1>4, <1>5, <3>2, <4>1 DEF IsFold
      <4> QED
        BY <1>4, <3>2, <4>2
    <3> QED
      BY <3>1, <3>2
  <2> QED
    BY <1>5, <2>1
<1>7. fold = Fold(fold)
  BY <1>6
<1> HIDE DEF fold
<1>8. fold[{}] = wire
  BY <1>7
<1>9. \A s \in SUBSET S : s # {} /\ fold[s \ {pick[s]}] \in V =>
         fold[s] = step[<<pick[s], fold[s \ {pick[s]}]>>]
  <2> TAKE s \in SUBSET S
  <2> SUFFICES ASSUME s # {}, fold[s \ {pick[s]}] \in V
               PROVE  fold[s] = step[<<pick[s], fold[s \ {pick[s]}]>>]
    OBVIOUS
  <2>1. fold[s] = PutOut(fold[s \ {pick[s]}], n)
    BY <1>4, <1>7
  <2> QED
    BY <1>3, <1>4, <2>1
<1>10. \A s \in SUBSET S : fold[s] \in V
  <2>1. IsFoldWithin(S, V, wire, pick, step, fold)
    BY <1>8, <1>9 DEF IsFoldWithin
  <2> QED
    BY <1>2, <2>1, FoldStays
<1> QED
  BY <1>1, <1>10 DEF S, V

-----------------------------------------------------------------------------
(* What the structure's operations leave as it is *)

LEMMA SendingsFollow ==
    ASSUME NEW h, IInv(h), NEW t, Follows(h, t), NEW now, NEW purge
    PROVE  Sendings(h, now, purge) \subseteq Sendings(t, now, purge)
<1> SUFFICES ASSUME NEW w \in Sendings(h, now, purge), NEW i \in DOMAIN w.pending
             PROVE  InHand(t, w.originals, w.pending[i], now)
  BY DEF Sendings
<1> DEFINE p == w.pending[i]
<1>1. p \in Packets /\ InHand(h, w.originals, p, now)
  BY DEF Sendings
<1> HIDE DEF p
<1>2. p.on \in Wires /\ p.from \in NodeIds /\ t.linkOf[p.on] = h.linkOf[p.on] /\ h.linkOf[p.on] # Nil
  BY <1>1 DEF Packets, InHand, Follows
<1>3. Engine!CanUseLink(h.net, p.from, h.linkOf[p.on]) => Engine!CanUseLink(t.net, p.from, t.linkOf[p.on])
  BY <1>2 DEF Engine!CanUseLink, Follows, Grown
<1> QED
  BY <1>1, <1>2, <1>3 DEF InHand, p

(* What a step has still to hand out: to nodes that know.                  *)
Awaited(h, m, k) ==
    /\ h.nodeOf[m] # Nil
    /\ k \in h.links[m] \/ <<h.nodeOf[m], h.linkOf[k]>> \in h.leaving

ArrivalsKnown(h, alive, arrived) ==
    \A i \in DOMAIN arrived :
        /\ arrived[i] \in [on: Wires, to: SUBSET Models] /\ h.linkOf[arrived[i].on] # Nil
        /\ \A m \in arrived[i].to : alive[m] = "disposed" \/ Awaited(h, m, arrived[i].on)

LEMMA ArrivalsFollow ==
    ASSUME NEW h, NEW t, Follows(h, t), NEW alive, NEW later, NEW arrived,
           \A m \in Models : alive[m] = "disposed" => later[m] = "disposed",
           ArrivalsKnown(h, alive, arrived)
    PROVE  ArrivalsKnown(t, later, arrived)
<1> SUFFICES ASSUME NEW i \in DOMAIN arrived
             PROVE  /\ arrived[i] \in [on: Wires, to: SUBSET Models] /\ t.linkOf[arrived[i].on] # Nil
                    /\ \A m \in arrived[i].to : later[m] = "disposed" \/ Awaited(t, m, arrived[i].on)
  BY DEF ArrivalsKnown
<1> DEFINE a == arrived[i]
<1>1. /\ a \in [on: Wires, to: SUBSET Models] /\ h.linkOf[a.on] # Nil
      /\ \A m \in a.to : alive[m] = "disposed" \/ Awaited(h, m, a.on)
  BY DEF ArrivalsKnown
<1> HIDE DEF a
<1>2. a.on \in Wires /\ t.linkOf[a.on] = h.linkOf[a.on]
  BY <1>1 DEF Follows
<1>3. ASSUME NEW m \in a.to PROVE later[m] = "disposed" \/ Awaited(t, m, a.on)
  <2>1. CASE alive[m] = "disposed"
    BY <1>1, <2>1
  <2>2. CASE Awaited(h, m, a.on)
    BY <1>1, <1>2, <2>2 DEF Awaited, Follows
  <2> QED
    BY <1>1, <2>1, <2>2
<1> QED
  BY <1>1, <1>2, <1>3 DEF a

-----------------------------------------------------------------------------
(* The invariant *)

(* No node that is on no link has something said on one still to send.     *)
NothingLeft(links, alive, boxes) ==
    \A n \in Models : alive[n] = "live" /\ links[n] = {} => TRUE \notin Range(boxes[n])

Lives == {"new", "live", "disposed"}

Clock ==
    /\ tick \in Nat /\ lastPurge \in Nat
    /\ lastPurge <= tick /\ tick < lastPurge + InFlightTicks

TInv ==
    /\ scene \in Scenes /\ IInv(host)
    /\ life \in [Models -> Lives]
    /\ outbox \in [Models -> Seq(BOOLEAN)]
    /\ NothingLeft(host.links, life, outbox)
    /\ Clock
    /\ wire \in Sendings(host, tick, lastPurge)
    /\ phase \in {"idle", "flush", "deliver"}
    /\ phase # "deliver" => DOMAIN arrivals = {}
    /\ ArrivalsKnown(host, life, arrivals)

LEMMA Words ==
    /\ <<>> \in Seq(BOOLEAN) /\ TRUE \notin Range(<<>>)
    /\ <<FALSE>> \in Seq(BOOLEAN) /\ TRUE \notin Range(<<FALSE>>)
<1>1. Range(<<>>) = {}
  <2>1. DOMAIN <<>> = {}
    OBVIOUS
  <2> QED
    BY <2>1 DEF Range
<1>2. Range(<<FALSE>>) = {FALSE}
  <2>1. DOMAIN <<FALSE>> = {1} /\ <<FALSE>>[1] = FALSE
    OBVIOUS
  <2> QED
    BY <2>1 DEF Range
<1>3. <<>> \in Seq(BOOLEAN) /\ <<FALSE>> \in Seq(BOOLEAN)
  OBVIOUS
<1> QED
  BY <1>1, <1>2, <1>3

LEMMA WordAdded ==
    ASSUME NEW box \in Seq(BOOLEAN), NEW word \in BOOLEAN
    PROVE  /\ Append(box, word) \in Seq(BOOLEAN)
           /\ TRUE \in Range(Append(box, word)) => TRUE \in Range(box) \/ word = TRUE
<1> DEFINE all == Append(box, word)
<1>1. /\ all \in Seq(BOOLEAN) /\ Len(all) = Len(box) + 1 /\ all[Len(all)] = word
      /\ \A i \in 1..Len(box) : all[i] = box[i]
      /\ DOMAIN all = 1..Len(all) /\ DOMAIN box = 1..Len(box) /\ Len(box) \in Nat
  OBVIOUS
<1> HIDE DEF all
<1>2. ASSUME TRUE \in Range(all) PROVE TRUE \in Range(box) \/ word = TRUE
  <2>1. PICK i \in DOMAIN all : all[i] = TRUE
    BY <1>2 DEF Range
  <2>2. CASE i = Len(all)
    BY <1>1, <2>1, <2>2
  <2>3. CASE i # Len(all)
    <3>1. i \in DOMAIN box /\ box[i] = TRUE
      BY <1>1, <2>1, <2>3
    <3> QED
      BY <3>1 DEF Range
  <2> QED
    BY <2>2, <2>3
<1> QED
  BY <1>1, <1>2 DEF all

LEMMA TrafficStarts ==
    ASSUME TrafficInit
    PROVE  TInv
<1>1. scene \in Scenes /\ IInv(host)
  BY HostStarts DEF TrafficInit, Init
<1>2. InFlightTicks \in Nat \ {0}
  BY TrafficAssumption
<1>3. Clock
  BY <1>2 DEF TrafficInit, Clock
<1>4. life \in [Models -> Lives] /\ outbox \in [Models -> Seq(BOOLEAN)] /\ \A n \in Models : outbox[n] = <<>>
  BY DEF TrafficInit, Lives
<1>5. NothingLeft(host.links, life, outbox)
  BY <1>4, Words DEF NothingLeft
<1>6. DOMAIN arrivals = {} /\ phase = "idle"
  BY DEF TrafficInit
<1>7. wire \in Sendings(host, tick, lastPurge)
  <2>1. wire = [handle |-> 0, originals |-> {}, pending |-> <<>>]
    BY DEF TrafficInit
  <2> QED
    BY <2>1 DEF Sendings
<1> QED
  BY <1>1, <1>3, <1>4, <1>5, <1>6, <1>7 DEF TInv, ArrivalsKnown

LEMMA SayKeeps ==
    ASSUME TInv, NEW n \in Models, Say(n)
    PROVE  TInv'
<1> DEFINE word == host.links[n] # {}
           box == Append(outbox[n], word)
<1>1. /\ host' = host /\ scene' = scene /\ life' = life /\ wire' = wire
      /\ tick' = tick /\ lastPurge' = lastPurge /\ phase' = phase /\ arrivals' = arrivals
      /\ outbox' = [outbox EXCEPT ![n] = box]
  BY DEF Say, vars, stepVars, TInv
<1>2. word \in BOOLEAN /\ outbox[n] \in Seq(BOOLEAN)
  BY DEF TInv
<1>3. box \in Seq(BOOLEAN) /\ (~word => (TRUE \in Range(box) => TRUE \in Range(outbox[n])))
  <2> HIDE DEF word
  <2> QED
    BY <1>2, WordAdded
<1> HIDE DEF box
<1>4. /\ outbox' \in [Models -> Seq(BOOLEAN)]
      /\ outbox'[n] = box /\ \A m \in Models \ {n} : outbox'[m] = outbox[m]
  BY <1>1, <1>3 DEF TInv
<1>5. NothingLeft(host.links, life, outbox')
  BY <1>3, <1>4 DEF TInv, NothingLeft
<1> QED
  BY <1>1, <1>4, <1>5 DEF TInv, Clock

LEMMA SendNowKeeps ==
    ASSUME TInv, NEW n \in Models, SendNow(n)
    PROVE  TInv'
<1>1. /\ host' = host /\ scene' = scene /\ life' = life /\ outbox' = outbox
      /\ tick' = tick /\ lastPurge' = lastPurge /\ phase' = phase /\ arrivals' = arrivals
      /\ wire' = PutOut(wire, n)
  BY DEF SendNow, vars, stepVars
<1>2. PutOut(wire, n) \in Sendings(host, tick, lastPurge)
  BY PutOutKeeps DEF TInv, Clock
<1> QED
  BY <1>1, <1>2 DEF TInv, Clock

LEMMA FlushKeeps ==
    ASSUME TInv, NEW n \in Models, Flush(n)
    PROVE  TInv'
<1>1. /\ host' = host /\ scene' = scene /\ life' = life
      /\ tick' = tick /\ lastPurge' = lastPurge /\ phase' = phase /\ arrivals' = arrivals
      /\ wire' = FoldSet(LAMBDA i, acc : PutOut(acc, n), wire, DOMAIN outbox[n])
      /\ outbox' = [outbox EXCEPT ![n] = <<>>]
  BY DEF Flush, Drain, vars
<1>2. wire' \in Sendings(host, tick, lastPurge)
  BY <1>1, DrainKeeps DEF TInv, Clock
<1>3. /\ outbox' \in [Models -> Seq(BOOLEAN)]
      /\ outbox'[n] = <<>> /\ \A m \in Models \ {n} : outbox'[m] = outbox[m]
  BY <1>1, Words DEF TInv
<1>4. NothingLeft(host.links, life, outbox')
  BY <1>3, Words DEF TInv, NothingLeft
<1> QED
  BY <1>1, <1>2, <1>3, <1>4 DEF TInv, Clock

(* Connecting and subscribing, of a node that was disposed as well.        *)
LEMMA JoinKeeps ==
    ASSUME TInv, NEW n \in Members, Join(n)
    PROVE  TInv'
<1>1. PICK k \in scene.wires : DoConnect(RootModel, n, k) \/ DoSubscribeToLink(n, k)
  BY DEF Join
<1>2. n \in Models /\ n # RootModel /\ k \in Wires /\ RootModel \in Models
  BY HostAssumption DEF TInv, Members
<1>3. scene' = scene /\ IInv(host') /\ Follows(host, host') /\ k \in host'.links[n]
  <2>1. RoomForWire(host, k)
    BY <1>1 DEF DoConnect, DoSubscribeToLink, EnoughFor, RoomForWire
  <2>2. CASE DoConnect(RootModel, n, k)
    <3>1. Room(host, RootModel, n)
      BY <1>2, <2>2, EnoughIsRoom DEF DoConnect
    <3> QED
      BY <1>2, <2>1, <2>2, <3>1, NodeConnected DEF DoConnect, Call, TInv
  <2>3. CASE DoSubscribeToLink(n, k)
    <3>1. {n, n} = {n}
      OBVIOUS
    <3>2. Room(host, n, n)
      BY <1>2, <2>3, <3>1, EnoughIsRoom DEF DoSubscribeToLink
    <3> QED
      BY <1>2, <2>1, <2>3, <3>2, NodeSubscribed DEF DoSubscribeToLink, Call, Room, TInv
  <2> QED
    BY <1>1, <2>2, <2>3
<1>4. /\ outbox' = outbox /\ wire' = wire /\ tick' = tick /\ lastPurge' = lastPurge
      /\ phase' = phase /\ arrivals' = arrivals
      /\ life' = [life EXCEPT ![n] = IF @ = "new" THEN "live" ELSE @]
  BY DEF Join, Started, stepVars
<1>5. /\ life' \in [Models -> Lives]
      /\ \A m \in Models \ {n} : life'[m] = life[m]
      /\ life[n] = "disposed" => life'[n] = "disposed"
  BY <1>2, <1>4 DEF TInv, Lives
<1>6. wire \in Sendings(host', tick, lastPurge)
  BY <1>3, SendingsFollow DEF TInv
<1>7. ArrivalsKnown(host', life', arrivals)
  BY <1>3, <1>5, ArrivalsFollow DEF TInv
<1>8. NothingLeft(host'.links, life', outbox)
  <2> SUFFICES ASSUME NEW m \in Models, life'[m] = "live", host'.links[m] = {}
               PROVE  TRUE \notin Range(outbox[m])
    BY DEF NothingLeft
  <2>1. m # n
    BY <1>3
  <2>2. host.links[m] = {}
    BY <1>3 DEF Follows
  <2> QED
    BY <1>5, <2>1, <2>2 DEF TInv, NothingLeft
<1> QED
  BY <1>3, <1>4, <1>5, <1>6, <1>7, <1>8 DEF TInv, Clock

LEMMA PartKeeps ==
    ASSUME TInv, NEW n \in Members, Part(n)
    PROVE  TInv'
<1>1. PICK k \in host.links[n] : DoDisconnect(RootModel, n, k)
  BY DEF Part
<1>2. n \in Models /\ n # RootModel /\ k \in Wires /\ RootModel \in Models
  BY HostAssumption DEF TInv, Members, IInv, Hosts
<1>3. scene' = scene /\ host' = Leave(host, RootModel, n, k)
  BY <1>1 DEF DoDisconnect, Disconnect, Call
<1>4. /\ IInv(host') /\ host'.net = host.net /\ host'.nodeOf = host.nodeOf /\ host'.linkOf = host.linkOf
      /\ \A m \in Models : host'.links[m] = IF m = n THEN host.links[m] \ {k} ELSE host.links[m]
      /\ host.leaving \subseteq host'.leaving
      /\ host.nodeOf[n] # Nil /\ host.linkOf[k] # Nil => <<host.nodeOf[n], host.linkOf[k]>> \in host'.leaving
  <2> DEFINE u == Leave(host, RootModel, n, k)
  <2>1. /\ IInv(u) /\ u.net = host.net /\ u.nodeOf = host.nodeOf /\ u.linkOf = host.linkOf
        /\ \A m \in Models : u.links[m] = IF m = n THEN host.links[m] \ {k} ELSE host.links[m]
        /\ host.leaving \subseteq u.leaving
        /\ host.nodeOf[n] # Nil /\ host.linkOf[k] # Nil => <<host.nodeOf[n], host.linkOf[k]>> \in u.leaving
    <3>1. IInv(host)
      BY DEF TInv
    <3> QED
      BY <1>2, <3>1, LinkLeft
  <2> HIDE DEF u
  <2>2. host' = u
    BY <1>3 DEF u
  <2> QED
    BY <2>1, <2>2
<1>5. PICK late \in {<<>>, <<FALSE>>} : Drain(n, late)
  BY DEF Part
<1>6. /\ life' = life /\ tick' = tick /\ lastPurge' = lastPurge
      /\ phase' = phase /\ arrivals' = arrivals
      /\ wire' = FoldSet(LAMBDA i, acc : PutOut(acc, n), wire, DOMAIN outbox[n])
      /\ outbox' = [outbox EXCEPT ![n] = late]
  BY <1>5 DEF Part, Drain, stepVars
<1>7. wire' \in Sendings(host, tick, lastPurge)
  BY <1>2, <1>6, DrainKeeps DEF TInv, Clock
<1>8. wire' \in Sendings(host', tick, lastPurge)
  BY <1>4, <1>7 DEF Sendings, InHand
<1>9. late \in Seq(BOOLEAN) /\ TRUE \notin Range(late)
  BY <1>5, Words
<1>10. /\ outbox' \in [Models -> Seq(BOOLEAN)]
       /\ outbox'[n] = late /\ \A m \in Models \ {n} : outbox'[m] = outbox[m]
  BY <1>2, <1>6, <1>9 DEF TInv
<1>11. NothingLeft(host'.links, life, outbox')
  BY <1>4, <1>9, <1>10 DEF TInv, NothingLeft
<1>12. ArrivalsKnown(host', life, arrivals)
  <2> SUFFICES ASSUME NEW i \in DOMAIN arrivals
               PROVE  /\ arrivals[i] \in [on: Wires, to: SUBSET Models] /\ host'.linkOf[arrivals[i].on] # Nil
                      /\ \A m \in arrivals[i].to : life[m] = "disposed" \/ Awaited(host', m, arrivals[i].on)
    BY DEF ArrivalsKnown
  <2>1. /\ arrivals[i] \in [on: Wires, to: SUBSET Models] /\ host.linkOf[arrivals[i].on] # Nil
        /\ \A m \in arrivals[i].to : life[m] = "disposed" \/ Awaited(host, m, arrivals[i].on)
    BY DEF TInv, ArrivalsKnown
  <2>2. ASSUME NEW m \in arrivals[i].to, Awaited(host, m, arrivals[i].on)
        PROVE  Awaited(host', m, arrivals[i].on)
    <3>1. m \in Models
      BY <2>1
    <3> QED
      BY <1>4, <2>1, <2>2, <3>1 DEF Awaited
  <2> QED
    BY <1>4, <2>1, <2>2
<1> QED
  BY <1>3, <1>4, <1>6, <1>8, <1>10, <1>11, <1>12 DEF TInv, Clock

LEMMA DisposeKeeps ==
    ASSUME TInv, NEW n \in Members, DisposeNode(n)
    PROVE  TInv'
<1>1. n \in Models \ {RootModel}
  BY HostAssumption DEF TInv, Members
<1>2. /\ scene' = scene /\ host' = Dispose(host, n)
      /\ outbox' = outbox /\ wire' = wire /\ tick' = tick /\ lastPurge' = lastPurge
      /\ phase' = phase /\ arrivals' = arrivals
      /\ life' = [life EXCEPT ![n] = "disposed"]
  BY DEF DisposeNode, DoDispose, Call, stepVars
<1>3. /\ IInv(host') /\ host'.net = host.net /\ host'.linkOf = host.linkOf
      /\ host'.links = host.links /\ host'.leaving = host.leaving
      /\ \A x \in Models \ {n} : host'.nodeOf[x] = host.nodeOf[x]
  <2> DEFINE u == Dispose(host, n)
  <2>1. /\ IInv(u) /\ u.net = host.net /\ u.linkOf = host.linkOf
        /\ u.links = host.links /\ u.leaving = host.leaving
        /\ \A x \in Models \ {n} : u.nodeOf[x] = host.nodeOf[x]
    <3>1. IInv(host)
      BY DEF TInv
    <3> QED
      BY <1>1, <3>1, NodeDisposed
  <2> HIDE DEF u
  <2>2. host' = u
    BY <1>2 DEF u
  <2> QED
    BY <2>1, <2>2
<1>4. /\ life' \in [Models -> Lives] /\ life'[n] = "disposed"
      /\ \A m \in Models \ {n} : life'[m] = life[m]
  BY <1>1, <1>2 DEF TInv, Lives
<1>5. NothingLeft(host'.links, life', outbox)
  BY <1>3, <1>4 DEF TInv, NothingLeft
<1>6. wire \in Sendings(host', tick, lastPurge)
  BY <1>3 DEF TInv, Sendings, InHand
<1>7. ArrivalsKnown(host', life', arrivals)
  <2> SUFFICES ASSUME NEW i \in DOMAIN arrivals
               PROVE  /\ arrivals[i] \in [on: Wires, to: SUBSET Models] /\ host'.linkOf[arrivals[i].on] # Nil
                      /\ \A m \in arrivals[i].to : life'[m] = "disposed" \/ Awaited(host', m, arrivals[i].on)
    BY DEF ArrivalsKnown
  <2>1. /\ arrivals[i] \in [on: Wires, to: SUBSET Models] /\ host.linkOf[arrivals[i].on] # Nil
        /\ \A m \in arrivals[i].to : life[m] = "disposed" \/ Awaited(host, m, arrivals[i].on)
    BY DEF TInv, ArrivalsKnown
  <2>2. ASSUME NEW m \in arrivals[i].to PROVE life'[m] = "disposed" \/ Awaited(host', m, arrivals[i].on)
    <3>1. m \in Models
      BY <2>1
    <3> QED
      BY <1>3, <1>4, <2>1, <3>1 DEF Awaited
  <2> QED
    BY <1>3, <2>1, <2>2
<1> QED
  BY <1>2, <1>3, <1>4, <1>5, <1>6, <1>7 DEF TInv, Clock

(* Whoever the engine has on a link and hears of it is on it for C# too.   *)
LEMMA HearersAwait ==
    ASSUME IInv(host), NEW p \in Packets, host.linkOf[p.on] # Nil, NEW m \in Hearers(p)
    PROVE  m \in Models /\ host.nodeOf[m] # Nil /\ p.on \in host.links[m]
<1> DEFINE id == host.nodeOf[m]
           l == host.linkOf[p.on]
<1>1. m \in Models /\ id # Nil /\ id \in host.net.subscribers[l] /\ <<id, l>> \notin host.leaving
  BY DEF Hearers, Known
<1>2. id \in NodeIds /\ l \in LinkIds /\ p.on \in Wires
  BY <1>1 DEF IInv, Hosts, Packets
<1>3. l \in host.net.subscriptions[id]
  BY <1>1, <1>2 DEF IInv, Sound
<1>4. PICK k \in host.links[m] : host.linkOf[k] = l
  BY <1>1, <1>3 DEF IInv, OnLinks
<1>5. k \in Wires
  BY <1>1, <1>4 DEF IInv, Hosts
<1>6. k = p.on
  BY <1>2, <1>4, <1>5 DEF IInv, Tied
<1> QED
  BY <1>1, <1>4, <1>6

LEMMA TickKeeps ==
    ASSUME TInv, Tick
    PROVE  TInv'
<1> DEFINE now == tick + 1
           purging == now - lastPurge >= InFlightTicks
           kept == {o \in wire.originals : ~(purging /\ Stale(o, now))}
<1>1. PICK taken \in 0..Len(wire.pending) :
        /\ tick' = now
        /\ arrivals' = [i \in {j \in 1..taken : Arrival(wire.pending[j]).to # {}} |->
                           Arrival(wire.pending[i])]
        /\ wire' = [wire EXCEPT
                       !.pending = SubSeq(wire.pending, taken + 1, Len(wire.pending)),
                       !.originals = kept]
        /\ lastPurge' = IF purging THEN now ELSE lastPurge
  BY DEF Tick
<1> DEFINE rest == SubSeq(wire.pending, taken + 1, Len(wire.pending))
<1>2. /\ scene' = scene /\ life' = life /\ outbox' = outbox /\ phase' = "deliver"
      /\ host' = FinishLeaving(host)
  BY DEF Tick
<1>3. /\ IInv(host') /\ host'.nodeOf = host.nodeOf /\ host'.linkOf = host.linkOf
      /\ host'.links = host.links /\ host'.leaving = {}
  BY <1>2, LeavingFinished DEF TInv
<1>4. InFlightTicks \in Nat \ {0} /\ tick \in Nat /\ lastPurge \in Nat
      /\ lastPurge <= tick /\ tick < lastPurge + InFlightTicks
  BY TrafficAssumption DEF TInv, Clock
<1>5. Clock'
  BY <1>1, <1>4 DEF Clock
<1>6. /\ wire \in [handle: Nat, originals: SUBSET Originals, pending: Seq(Packets)]
      /\ \A i \in DOMAIN wire.pending : InHand(host, wire.originals, wire.pending[i], tick)
      /\ \A o \in wire.originals : o.tick <= tick /\ lastPurge <= o.tick + InFlightTicks
  BY DEF TInv, Sendings
<1>7. wire' \in Sendings(host', tick', lastPurge')
  <2>1. \A o \in wire.originals : o.tick \in Nat
    BY <1>6 DEF Originals
  <2>2. \A o \in kept : o.tick <= now /\ lastPurge' <= o.tick + InFlightTicks
    BY <1>1, <1>4, <1>6, <2>1 DEF Stale
  <2>3. ASSUME NEW p \in Packets, InHand(host, wire.originals, p, tick)
        PROVE  InHand(host', kept, p, now)
    <3>1. p.tick \in Nat
      BY DEF Packets
    <3>2. host'.linkOf[p.on] # Nil /\ p.tick <= now /\ p.tick # now
      BY <1>3, <1>4, <2>3, <3>1 DEF InHand
    <3>3. now <= p.tick + InFlightTicks => [handle |-> p.handle, tick |-> p.tick] \in kept
      BY <1>4, <2>3, <3>1 DEF InHand, Stale
    <3> QED
      BY <3>2, <3>3 DEF InHand
  <2>4. /\ rest \in Seq(Packets)
        /\ \A i \in DOMAIN rest : rest[i] \in Packets /\ \E j \in DOMAIN wire.pending : rest[i] = wire.pending[j]
    BY <1>1, <1>6
  <2> HIDE DEF kept, rest, now
  <2>5. \A i \in DOMAIN rest : InHand(host', kept, rest[i], now)
    BY <1>6, <2>3, <2>4
  <2>6. kept \in SUBSET Originals
    BY <1>6 DEF kept
  <2>7. wire' = [handle |-> wire.handle, originals |-> kept, pending |-> rest]
    BY <1>1, <1>6 DEF rest
  <2> QED
    BY <1>1, <1>6, <2>2, <2>4, <2>5, <2>6, <2>7 DEF Sendings
<1>8. ArrivalsKnown(host', life, arrivals')
  <2> SUFFICES ASSUME NEW i \in DOMAIN arrivals'
               PROVE  /\ arrivals'[i] \in [on: Wires, to: SUBSET Models] /\ host'.linkOf[arrivals'[i].on] # Nil
                      /\ \A m \in arrivals'[i].to : Awaited(host', m, arrivals'[i].on)
    BY DEF ArrivalsKnown
  <2> DEFINE p == wire.pending[i]
  <2>1. i \in 1..taken /\ arrivals'[i] = Arrival(p)
    BY <1>1
  <2>2. i \in DOMAIN wire.pending /\ p \in Packets /\ InHand(host, wire.originals, p, tick)
    BY <1>1, <1>6, <2>1
  <2> HIDE DEF p
  <2>3. p.on \in Wires /\ host.linkOf[p.on] # Nil
    BY <2>2 DEF Packets, InHand
  <2>4. \A m \in Hearers(p) : m \in Models /\ host.nodeOf[m] # Nil /\ p.on \in host.links[m]
    BY <2>2, <2>3, HearersAwait DEF TInv
  <2>5. Arrival(p).on = p.on /\ Arrival(p).to \subseteq Hearers(p) /\ Arrival(p) = [on |-> p.on, to |-> Arrival(p).to]
    BY DEF Arrival
  <2> QED
    BY <1>3, <2>1, <2>3, <2>4, <2>5 DEF Awaited
<1> QED
  BY <1>2, <1>3, <1>5, <1>7, <1>8 DEF TInv

LEMMA DeliverKeeps ==
    ASSUME TInv, NEW m \in Models, Deliver(m)
    PROVE  TInv'
<1>1. /\ scene' = scene /\ host' = host /\ life' = life /\ outbox' = outbox /\ wire' = wire
      /\ tick' = tick /\ lastPurge' = lastPurge /\ phase' = phase
  BY DEF Deliver, vars
<1>2. PICK i \in DOMAIN arrivals :
        /\ m \in arrivals[i].to
        /\ arrivals' = IF arrivals[i].to = {m} THEN Restrict(arrivals, DOMAIN arrivals \ {i})
                       ELSE [arrivals EXCEPT ![i].to = @ \ {m}]
  BY DEF Deliver
<1>3. phase' = "deliver"
  BY <1>1, <1>2 DEF TInv
<1>4. /\ DOMAIN arrivals' \subseteq DOMAIN arrivals
      /\ \A j \in DOMAIN arrivals' :
            \/ arrivals'[j] = arrivals[j]
            \/ arrivals'[j] = [arrivals[j] EXCEPT !.to = @ \ {m}]
  BY <1>2 DEF Restrict
<1>5. ArrivalsKnown(host, life, arrivals')
  <2> SUFFICES ASSUME NEW j \in DOMAIN arrivals'
               PROVE  /\ arrivals'[j] \in [on: Wires, to: SUBSET Models] /\ host.linkOf[arrivals'[j].on] # Nil
                      /\ \A n \in arrivals'[j].to : life[n] = "disposed" \/ Awaited(host, n, arrivals'[j].on)
    BY DEF ArrivalsKnown
  <2>1. /\ arrivals[j] \in [on: Wires, to: SUBSET Models] /\ host.linkOf[arrivals[j].on] # Nil
        /\ \A n \in arrivals[j].to : life[n] = "disposed" \/ Awaited(host, n, arrivals[j].on)
    BY <1>4 DEF TInv, ArrivalsKnown
  <2> QED
    BY <1>4, <2>1
<1> QED
  BY <1>1, <1>3, <1>5 DEF TInv, Clock

LEMMA StepKeeps ==
    ASSUME TInv, BeginStep \/ EndStep
    PROVE  TInv'
<1>1. /\ scene' = scene /\ host' = host /\ life' = life /\ outbox' = outbox /\ wire' = wire
      /\ tick' = tick /\ lastPurge' = lastPurge /\ arrivals' = arrivals
      /\ phase' \in {"idle", "flush"} /\ DOMAIN arrivals = {}
  BY DEF BeginStep, EndStep, vars, TInv
<1> QED
  BY <1>1 DEF TInv, Clock

LEMMA TrafficKeeps ==
    ASSUME TInv, [TrafficNext]_trafficVars
    PROVE  TInv'
<1>1. CASE BeginStep \/ EndStep
  BY <1>1, StepKeeps
<1>2. CASE Tick
  BY <1>2, TickKeeps
<1>3. ASSUME NEW n \in Members,
             \/ Say(n) \/ SendNow(n) \/ Join(n) \/ Part(n) \/ DisposeNode(n)
             \/ Flush(n) \/ Deliver(n)
      PROVE  TInv'
  <2>1. n \in Models
    BY HostAssumption DEF TInv, Members
  <2> QED
    BY <1>3, <2>1, SayKeeps, SendNowKeeps, JoinKeeps, PartKeeps, DisposeKeeps, FlushKeeps, DeliverKeeps
<1>4. CASE UNCHANGED trafficVars
  BY <1>4 DEF trafficVars, vars, stepVars, TInv, Clock
<1> QED
  BY <1>1, <1>2, <1>3, <1>4 DEF TrafficNext

-----------------------------------------------------------------------------
(* Theorems *)

(* Whatever is said, whoever joins, leaves or is disposed, wherever in a   *)
(* step: outboxes, originals, the engine's queue and what a step has to    *)
(* hand out stay in line with the structure.                               *)
THEOREM TrafficInvariant == TrafficSpec => []TInv
BY TrafficStarts, TrafficKeeps, PTL DEF TrafficSpec

(* What HostTraffic.Hearers looks up under the lock is still true of the   *)
(* views when the handlers run outside it, but for those who have left or  *)
(* were disposed in between.                                               *)
THEOREM OnlyMembersHear == TrafficSpec => []HeardOnlyByMembers
<1>1. TInv => HeardOnlyByMembers
  BY DEF TInv, ArrivalsKnown, Awaited, HeardOnlyByMembers
<1> QED
  BY <1>1, TrafficInvariant, PTL

(* A purge every InFlightTicks forgets no original whose packet may still  *)
(* need it, and keeps none for twice as long.                              *)
THEOREM OriginalsOutlivePackets == TrafficSpec => []PayloadsKept
<1>1. ASSUME TInv PROVE PayloadsKept
  <2>1. InFlightTicks \in Nat /\ tick \in Nat /\ lastPurge \in Nat /\ tick < lastPurge + InFlightTicks
    BY <1>1, TrafficAssumption DEF TInv, Clock
  <2>2. /\ wire \in [handle: Nat, originals: SUBSET Originals, pending: Seq(Packets)]
        /\ \A i \in DOMAIN wire.pending : InHand(host, wire.originals, wire.pending[i], tick)
        /\ \A o \in wire.originals : o.tick <= tick /\ lastPurge <= o.tick + InFlightTicks
    BY <1>1 DEF TInv, Sendings
  <2>3. ASSUME NEW i \in DOMAIN wire.pending, tick - wire.pending[i].tick <= InFlightTicks
        PROVE  HasOriginal(wire.pending[i])
    <3> DEFINE p == wire.pending[i]
               o == [handle |-> p.handle, tick |-> p.tick]
    <3>1. p \in Packets /\ InHand(host, wire.originals, p, tick)
      BY <2>2
    <3>2. o \in wire.originals
      BY <2>1, <2>3, <3>1 DEF Packets, InHand
    <3> QED
      BY <3>2 DEF HasOriginal
  <2>4. ASSUME NEW o \in wire.originals PROVE tick - o.tick < 2 * InFlightTicks
    <3>1. o.tick \in Nat
      BY <2>2 DEF Originals
    <3> QED
      BY <2>1, <2>2, <3>1
  <2>5. \A i \in DOMAIN wire.pending : wire.pending[i].tick \in Nat
    <3>1. \A i \in DOMAIN wire.pending : wire.pending[i] \in Packets
      BY <2>2
    <3> QED
      BY <3>1 DEF Packets
  <2> QED
    BY <2>1, <2>3, <2>4, <2>5 DEF PayloadsKept
<1> QED
  BY <1>1, TrafficInvariant, PTL

(* Leaving empties the outbox first, and what reached the engine's queue   *)
(* in the tick before is delivered, not dropped, although its sender is    *)
(* leaving: the engine learns of that at the end of the tick.              *)
THEOREM NothingSaidIsLost == TrafficSpec => LastPacketsGoOut
<1> DEFINE Out ==
      /\ \A n \in Models :
           life'[n] = "live" /\ host'.links[n] = {} => TRUE \notin Range(outbox'[n])
      /\ phase = "flush" /\ phase' = "deliver" =>
           \A i \in 1..(Len(wire.pending) - Len(wire'.pending)) :
              StillOn(wire.pending[i]) \/ tick' - wire.pending[i].tick > 1
<1>1. ASSUME TInv, [TrafficNext]_trafficVars PROVE Out
  <2>1. TInv'
    BY <1>1, TrafficKeeps
  <2>2. \A n \in Models :
           life'[n] = "live" /\ host'.links[n] = {} => TRUE \notin Range(outbox'[n])
    BY <2>1 DEF TInv, NothingLeft
  <2>3. ASSUME phase = "flush", phase' = "deliver",
               NEW i \in 1..(Len(wire.pending) - Len(wire'.pending))
        PROVE  StillOn(wire.pending[i]) \/ tick' - wire.pending[i].tick > 1
    <3>1. Tick
      BY <1>1, <2>3 DEF TrafficNext, trafficVars, stepVars, Say, SendNow, Join, Part, DisposeNode,
                        Flush, Deliver, BeginStep, EndStep
    <3>2. /\ wire \in [handle: Nat, originals: SUBSET Originals, pending: Seq(Packets)]
          /\ \A j \in DOMAIN wire.pending : InHand(host, wire.originals, wire.pending[j], tick)
          /\ tick \in Nat
      BY <1>1 DEF TInv, Sendings, Clock
    <3>3. tick' = tick + 1
      BY <3>1 DEF Tick
    <3>4. wire' \in [handle: Nat, originals: SUBSET Originals, pending: Seq(Packets)]
      BY <2>1 DEF TInv, Sendings
    <3>5. i \in DOMAIN wire.pending
      BY <3>2, <3>4
    <3> DEFINE p == wire.pending[i]
    <3>6. p \in Packets /\ InHand(host, wire.originals, p, tick)
      BY <3>2, <3>5
    <3> HIDE DEF p
    <3>7. p.tick = tick => StillOn(p)
      BY <3>6 DEF InHand, StillOn
    <3>8. p.tick # tick => tick' - p.tick > 1
      BY <3>2, <3>3, <3>6 DEF InHand, Packets
    <3> QED
      BY <3>7, <3>8 DEF p
  <2> QED
    BY <2>2, <2>3
<1>2. TInv /\ [TrafficNext]_trafficVars => Out
  BY <1>1
<1>3. TInv /\ [TrafficNext]_trafficVars => [Out]_trafficVars
  BY <1>2
<1> QED
  BY <1>3, TrafficInvariant, PTL DEF TrafficSpec, LastPacketsGoOut
=============================================================================
