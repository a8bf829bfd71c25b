---------------------------- MODULE HostTraffic -----------------------------
(***************************************************************************)
(* The traffic of the Unity host layer (HostNetwork.Traffic.cs), on top of *)
(* its structure: what C# nodes have to say waits in their outboxes, goes  *)
(* to the engine as a handle to a C# original that is kept, and comes back *)
(* one step later, while nodes join, leave and are disposed at any time:   *)
(* between steps, while a step drains the outboxes, and from the handlers  *)
(* it runs.                                                                *)
(*                                                                         *)
(* A handler's calls are calls made after it, before the next delivery.    *)
(* One thread steps and changes the structure; any thread may Say.  The    *)
(* engine is a queue of which a tick takes any part, from the front: the   *)
(* fuse and traffic of nodes that are not C#'s hold back the rest (World). *)
(* Addresses, hop budgets, payloads and the log are left out.              *)
(*                                                                         *)
(* A definition marked `Fault:` is not the code's.  It is a mistake the    *)
(* definition after it could have held, kept to show that a property below *)
(* would notice.                                                           *)
(***************************************************************************)
EXTENDS HostNetwork, FiniteSetsExt

CONSTANTS
    InFlightTicks,    \* HostNetwork.InFlightTicks
    MaxPending,       \* room in the engine's queue
    MaxPackets,       \* Bound: packets said
    MaxTicks          \* Bound: ticks

ASSUME TrafficAssumption ==
    /\ {InFlightTicks, MaxPending, MaxPackets, MaxTicks} \subseteq Nat \ {0}
    /\ IsFiniteSet(Wires)

VARIABLES
    life,        \* has a model started, or been disposed?
    outbox,      \* what each logic has to send: was it said while on a link, before leaving it?
    wire,        \* [handle: the last given out, originals: HostNetwork.InFlight, pending: the engine's]
    tick,        \* HostNetwork._tick
    lastPurge,   \* HostNetwork._lastPurge
    phase,       \* where Step is
    todo,        \* models whose outbox it has still to drain
    arrivals     \* packets it has still to hand out, by their place: [on: the link, to: the models]

stepVars == <<tick, lastPurge, phase, todo, arrivals>>
trafficVars == <<vars, life, outbox, wire, stepVars>>

TrafficInit ==
    /\ Init
    /\ life = [m \in Models |-> "new"]
    /\ outbox = [m \in Models |-> <<>>]
    /\ wire = [handle |-> 0, originals |-> {}, pending |-> <<>>]
    /\ tick = 0 /\ lastPurge = 0
    /\ phase = "idle" /\ todo = {} /\ arrivals = <<>>

-----------------------------------------------------------------------------
(* Sending *)

(* The original is kept under a new handle, unless the engine refuses: the *)
(* node is on the link in C# only, or there is no room.                    *)
Transmit(w, n, k) ==
    LET handle == w.handle + 1
        id == host.nodeOf[n]
        sent == /\ Engine!CanUseLink(host.net, id, host.linkOf[k])
                /\ Len(w.pending) < MaxPending
    IN  IF ~sent THEN [w EXCEPT !.handle = handle]
        ELSE [handle |-> handle,
              originals |-> w.originals \cup {[handle |-> handle, tick |-> tick]},
              pending |-> Append(w.pending, [handle |-> handle, from |-> id, on |-> k, tick |-> tick])]

(* Nobody watches what a disposed node, or one on no link, puts out.       *)
PutOut(w, n) ==
    IF life[n] # "live" THEN w ELSE FoldSet(LAMBDA k, acc : Transmit(acc, n, k), w, host.links[n])

(* Fault: what is in the outbox is left there. *)
LeaveUndrained(n, late) == outbox' = [outbox EXCEPT ![n] = @ \o late] /\ UNCHANGED wire

(* The outbox is emptied onto the links.  Another thread may put something *)
(* in it just after.                                                       *)
Drain(n, late) ==
    /\ wire' = FoldSet(LAMBDA i, acc : PutOut(acc, n), wire, DOMAIN outbox[n])
    /\ outbox' = [outbox EXCEPT ![n] = late]

MoreToSay == MapThenSumSet(LAMBDA m : Len(outbox[m]), Models) + wire.handle < MaxPackets

(* NodeLogic.Send, on any thread.                                          *)
Say(n) ==
    /\ MoreToSay /\ life[n] = "live"
    /\ outbox' = [outbox EXCEPT ![n] = Append(@, host.links[n] # {})]
    /\ UNCHANGED <<vars, life, wire, stepVars>>

(* NodeModel.Send passes the outbox by.                                    *)
SendNow(n) ==
    /\ MoreToSay /\ life[n] = "live"
    /\ wire' = PutOut(wire, n)
    /\ UNCHANGED <<vars, life, outbox, stepVars>>

-----------------------------------------------------------------------------
(* Joining and leaving *)

(* A disposed node starts no more.                                         *)
Started(n) == life' = [life EXCEPT ![n] = IF @ = "new" THEN "live" ELSE @]

Join(n) ==
    /\ \E k \in scene.wires : DoConnect(RootModel, n, k) \/ DoSubscribeToLink(n, k)
    /\ Started(n)
    /\ UNCHANGED <<outbox, wire, stepVars>>

(* What another thread has to say between the two things Disconnect does   *)
(* is too late to count as said on the link.                               *)
Part(n) ==
    /\ \E k \in host.links[n] : DoDisconnect(RootModel, n, k)
    /\ Drain(n, <<>>) \/ (MoreToSay /\ life[n] = "live" /\ Drain(n, <<FALSE>>))
    /\ UNCHANGED <<life, stepVars>>

DisposeNode(n) ==
    /\ DoDispose(n)
    /\ life' = [life EXCEPT ![n] = "disposed"]
    /\ UNCHANGED <<outbox, wire, stepVars>>

-----------------------------------------------------------------------------
(* Step *)

BeginStep ==
    /\ phase = "idle" /\ tick < MaxTicks
    /\ phase' = "flush"
    /\ todo' = {m \in Models : life[m] = "live"}
    /\ UNCHANGED <<vars, life, outbox, wire, tick, lastPurge, arrivals>>

Flush(n) ==
    /\ phase = "flush" /\ n \in todo
    /\ Drain(n, <<>>)
    /\ todo' = todo \ {n}
    /\ UNCHANGED <<vars, life, tick, lastPurge, phase, arrivals>>

(* Fault: what comes for a node that is leaving is handed to it. *)
HearersEvenLeaving(p) ==
    {m \in Models : /\ Known(host, m) /\ host.nodeOf[m] \in host.hosts \ {p.from}
                    /\ host.nodeOf[m] \in host.net.subscribers[host.linkOf[p.on]]}

(* The C# nodes that get what the engine hands its host nodes on the link. *)
Hearers(p) ==
    {m \in Models : /\ Known(host, m) /\ host.nodeOf[m] \in host.hosts \ {p.from}
                    /\ host.nodeOf[m] \in host.net.subscribers[host.linkOf[p.on]]
                    /\ <<host.nodeOf[m], host.linkOf[p.on]>> \notin host.leaving}

StillOn(p) == Engine!CanUseLink(host.net, p.from, host.linkOf[p.on])

HasOriginal(p) == \E original \in wire.originals : original.handle = p.handle

(* What becomes of a packet the engine takes from its queue.               *)
Arrival(p) == [on |-> p.on, to |-> IF StillOn(p) /\ HasOriginal(p) THEN Hearers(p) ELSE {}]

(* Fault: an original goes one tick early. *)
StaleEarly(original, now) == now - original.tick >= InFlightTicks

Stale(original, now) == now - original.tick > InFlightTicks

(* The part of Step under its lock: the engine's tick takes some of what   *)
(* is pending, what it delivers is looked up, departures are finished, and *)
(* old originals are forgotten every InFlightTicks.                        *)
Tick ==
    /\ phase = "flush" /\ todo = {}
    /\ \E taken \in 0..Len(wire.pending) :
          LET now == tick + 1
              purging == now - lastPurge >= InFlightTicks
          IN  /\ tick' = now
              /\ arrivals' = [i \in {j \in 1..taken : Arrival(wire.pending[j]).to # {}} |->
                                 Arrival(wire.pending[i])]
              /\ wire' = [wire EXCEPT
                             !.pending = SubSeq(@, taken + 1, Len(@)),
                             !.originals = {o \in @ : ~(purging /\ Stale(o, now))}]
              /\ lastPurge' = IF purging THEN now ELSE lastPurge
    /\ host' = FinishLeaving(host)
    /\ phase' = "deliver"
    /\ UNCHANGED <<scene, life, outbox, todo>>

(* Packets in the order they came; of one packet, any node may come first. *)
Deliver(m) ==
    /\ \E i \in DOMAIN arrivals :
          /\ \A j \in DOMAIN arrivals : i <= j
          /\ m \in arrivals[i].to
          /\ arrivals' = IF arrivals[i].to = {m} THEN Restrict(arrivals, DOMAIN arrivals \ {i})
                         ELSE [arrivals EXCEPT ![i].to = @ \ {m}]
    /\ UNCHANGED <<vars, life, outbox, wire, tick, lastPurge, phase, todo>>

EndStep ==
    /\ phase = "deliver" /\ DOMAIN arrivals = {}
    /\ phase' = "idle"
    /\ UNCHANGED <<vars, life, outbox, wire, tick, lastPurge, todo, arrivals>>

TrafficNext ==
    \/ \E n \in Members : \/ Say(n) \/ SendNow(n)
                          \/ Join(n) \/ Part(n) \/ DisposeNode(n)
                          \/ Flush(n) \/ Deliver(n)
    \/ BeginStep \/ Tick \/ EndStep

TrafficSpec == TrafficInit /\ [][TrafficNext]_trafficVars

-----------------------------------------------------------------------------
(* Properties *)

(* "What it sent before leaving still goes out on the next tick"           *)
(* (HostNetwork.cs:179): nothing a node has said on a link is left in its  *)
(* outbox when it leaves, and the engine drops no packet because its       *)
(* sender has left unless it was held back for a tick or more.             *)
LastPacketsGoOut ==
    [][/\ \A n \in Models :
             life'[n] = "live" /\ host'.links[n] = {} => TRUE \notin Range(outbox'[n])
       /\ phase = "flush" /\ phase' = "deliver" =>
             \A i \in 1..(Len(wire.pending) - Len(wire'.pending)) :
                StillOn(wire.pending[i]) \/ tick' - wire.pending[i].tick > 1]_trafficVars

(* What a step has still to hand out goes to nodes that are on the link it *)
(* came over, as C# sees it, or that have left it since the step took what *)
(* arrived: whoever left before that hears nothing more, although it is    *)
(* still on the link in the engine.                                        *)
HeardOnlyByMembers ==
    \A i \in DOMAIN arrivals : \A m \in arrivals[i].to :
        \/ life[m] = "disposed"
        \/ arrivals[i].on \in host.links[m]
        \/ <<host.nodeOf[m], host.linkOf[arrivals[i].on]>> \in host.leaving

(* A packet that was not held back for more than InFlightTicks finds its   *)
(* original when it arrives; and no original is kept for twice as long,    *)
(* whatever became of its packet.                                          *)
PayloadsKept ==
    /\ \A i \in DOMAIN wire.pending :
          HasOriginal(wire.pending[i]) \/ tick - wire.pending[i].tick > InFlightTicks
    /\ \A original \in wire.originals : tick - original.tick < 2 * InFlightTicks
=============================================================================
