------------------------------ MODULE Network -------------------------------
(***************************************************************************)
(* The network graph of the engine as a state machine: any sequence of the *)
(* public operations of `Network`, with any handles, live or stale, and    *)
(* any names, legal or not (emergence-engine/src/network.rs).              *)
(***************************************************************************)
EXTENDS NetworkOps

VARIABLES
    network,    \* the Network
    ok      \* whether the last operation succeeded

networkVars == <<network, ok>>

Perform(result) == network' = result.net /\ ok' = result.ok

NetworkInit == network = NewNetwork /\ ok = TRUE

DoCreateNode == \E id \in NodeIds \ network.issued, name \in Names : Perform(CreateNode(network, id, name))

DoCreateLink == \E id \in LinkIds \ network.issued, name \in Names : Perform(CreateLink(network, id, name))

DoAddInternalLink == \E o \in NodeIds, l \in LinkIds : Perform(AddInternalLink(network, o, l))

DoSubscribe == \E n \in NodeIds, l \in LinkIds : Perform(Subscribe(network, n, l))

DoUnsubscribe == \E n \in NodeIds, l \in LinkIds : Perform(Unsubscribe(network, n, l))

DoConnect == \E p, n \in NodeIds, l \in LinkIds \cup {Nil} : Perform(Connect(network, p, n, l))

DoDisconnect == \E p, n \in NodeIds : Perform(Disconnect(network, p, n))

DoRemoveNode == \E n \in NodeIds : Perform(RemoveNode(network, n))

DoRemoveLink == \E l \in LinkIds : Perform(RemoveLink(network, l))

NetworkNext ==
    \/ DoCreateNode
    \/ DoCreateLink
    \/ DoAddInternalLink
    \/ DoSubscribe
    \/ DoUnsubscribe
    \/ DoConnect
    \/ DoDisconnect
    \/ DoRemoveNode
    \/ DoRemoveLink

NetworkSpec == NetworkInit /\ [][NetworkNext]_networkVars

-----------------------------------------------------------------------------
(* Properties *)

(* Every field holds values of its type; in particular every name in use   *)
(* passed validate_name.                                                   *)
TypeOK == network \in NetworkType /\ ok \in BOOLEAN

(* A removed node or link has left nothing behind: no parent, owner,       *)
(* subscriber or subscription names a handle that does not resolve.        *)
NothingDangles == Resolved(network)

(* Both ends of every edge say the same: parent and child, owner and       *)
(* internal link, subscriber and subscription.  remove_node, drop_link and *)
(* disconnect each walk one end and edit the other.                        *)
EndsAgree == Paired(network)

(* Every walk up ends, at a node without a parent.  ancestors_and_self and *)
(* the subtree walk of remove_node keep no visited set and would not       *)
(* return from a cycle.                                                    *)
WalksEnd == Forest(network)

(* A name on a link is an address: no two nodes that hear a link share a   *)
(* name, the root included, which add_internal_link exempts from its check *)
(* because validate_name keeps its name away from everybody else.          *)
AddressesUnique == Addressable(network)

(* A node finds its links by name (external_link_named and                 *)
(* internal_link_named take the first match), so no two of its             *)
(* subscriptions and no two of its internal links share a name.            *)
LinkNamesUnique == Distinguishable(network)

(* "A rejected operation changes nothing": in particular connect, which    *)
(* writes the hierarchy before it runs two operations that can themselves  *)
(* be rejected, and disconnect, which leaves links in a loop.              *)
RejectionChangesNothing == [][ok' = FALSE => network' = network]_networkVars

(* The two-ended structs implement the one-ended relations of Topology:    *)
(* nobody's membership moves unless the operation says so, disconnect      *)
(* leaves exactly the parent's links, remove_node takes exactly the nodes  *)
(* below and exactly the links they own.                                   *)
Abstract == INSTANCE Topology WITH
    alive <- network.nodes,
    wires <- network.links,
    up <- network.parent,
    owner <- network.owner,
    member <- {e \in NodeIds \X LinkIds : e[2] \in network.subscriptions[e[1]]}

ImplementsTopology == Abstract!Spec
=============================================================================
