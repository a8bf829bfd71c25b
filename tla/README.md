# Verification of Emergence

Emergence simulates computer networks for games: nodes nested in one another,
links they hear each other on, logic that sends and receives packets, and a
world that advances in ticks. The engine is a Rust crate; hosts drive it
through a C ABI, a C# wrapper and a Unity host layer, or through the sandbox.

This directory holds TLA+ models of that code, TLC configurations that check
them on small instances, and TLAPS proofs for every size.

    tlc -workers 2 -config MCNetwork.cfg MCNetwork.tla      # and so for every MC*.cfg
    tlapm WorldProofs.tla                                   # and so for every *Proofs.tla

## 1. Inventory

| Component | State it keeps | Operations | What is hard | What makes it correct |
|---|---|---|---|---|
| **Network graph** `emergence-engine/src/network.rs`, `ids.rs` | two slot maps (nodes, links); each edge at both ends: parent/children, owner/internal, subscribers/subscriptions | create, subscribe, unsubscribe, own, connect, disconnect, remove | composite operations that can fail half-way; walks with no visited set; names as addresses; stale handles | both ends agree, nothing dangles, no cycle, names unambiguous, all or nothing |
| **World** `world.rs`, `logic.rs` | network, logic table, host set, pending queue, `reserved`, limits, health, host inbox | `tick`, `send`, `send_packet`, `set_logic`, `set_host`, `drain_host_deliveries`, `remove_node`, `network_mut` | user callbacks inside `tick()`; fuse trips half-way; panics; topology changed under queued packets | one bounded FIFO; per-tick bounds; hop budget; every event settles; "completed" is true |
| **Routing** `route.rs`, `packet.rs` | none (values) | parse, `accepts`, `via_me`, `popped`, `prepended`, gateway hops | nested gateways, maximum depth | a reply comes back to where the request came from |
| **Built-in logics** `builtin.rs` | per logic (timers, recordings) | responder, beacon, scanner, bridge, gateway, echo, replayer, amplifier, flooder, crasher | loops between them, faults beside healthy nodes | routed packets travel as far as their route, what repeats is reported |
| **Monitor** `monitor.rs` | counters per tick, alerts, replay memory | record, end tick, find relay cycles | de-duplication with escalation, memory cleared when full | one alert per episode; cycles reported are cycles |
| **Trace log** `trace.rs` | ring buffer | push, read since | dropping the oldest | never more than its capacity, in order |
| **Templates** `emergence-templates` | none | build computers, apps, NPCs | failing half-way through a dozen graph operations | all or nothing |
| **C ABI** `emergence-ffi` | reused buffers, last error | one function per engine call | zero means "default", composite builders, missing pointers | a call that fails changes and writes nothing; what a host relays runs out |
| **Unity host layer, structure** `bindings/unity/Host/HostNetwork*.cs` | its own view of the graph beside the engine's | connect, move, own, forget, adopt, verify | departures deferred to the end of a step; two views changed by two calls | what the views show is so in the engine, and nothing in the engine is unknown to the views |
| **Unity host layer, traffic** `HostNetwork.Traffic.cs` | packets in flight, handlers | send, step, dispatch | re-entrant changes while a step delivers; purge after 200 ticks | each delivery finds its original |
| **C# wrapper** `bindings/unity/Runtime` | a handle, a buffer | marshalling | - | - |
| **Sandbox, control server and tests** `control.rs`, `remote.rs`, `tests_panel.rs`, `stress.rs` | connections, request queue, clients waiting for a run or a picture, the test thread | accept, hand over, execute, answer, run, stop | three kinds of threads; reply timeout; answers put off; a run that is stopped | an answer is the answer to its request; runs end; no test passes unrun |
| **Sandbox, window** `main.rs`, `add_node.rs`, `graph_view.rs`, `scenarios.rs` | world, snapshot, clock, level viewed, selection, form | build, play, step, select, open, add, remove, and a request for each | the same change from panel, key and port; additions that fail half-way | what is drawn is what there is; a clock that stopped stands |

How they interact: the World owns the Network and is the only caller of logic.
A logic gets a `Context` (its node, the network read-only, the send queue) and
so can queue packets but never change the graph or deliver one. Packets queued
by anyone go out in a later tick, in order. Listeners with logic are called;
deliveries to host nodes go to an inbox the host drains between ticks. Hosts
change the graph only between ticks, through `&mut World`: within the engine
everything is one thread, and the interleavings are those of callbacks and of
the host's calls. Threads meet only in the sandbox: connections, the window
and the test runner exchange requests, events and answers over channels.

`PROJECT.json` lists the components with their status, the hazards of the code
at the lines where they bite, and which property stands against each.

## 2. Modules

| Module | What it is | Rests on |
|---|---|---|
| `NetworkOps` | the operations of `Network` as operators on a value of the struct, answering `[ok, net]`; the conjuncts of "in order" | |
| `Network` | any sequence of those operations with any handles and names; its properties | `NetworkOps` |
| `Topology` | the abstract graph: a forest, an owner relation, a membership relation; every edge once | |
| `World` | `tick()` with its callbacks, the queue, the fuse, host nodes, the host's calls | `NetworkOps` |
| `PacketQueue` | the abstract bounded FIFO that World's queue implements | |
| `Routes` | addresses: hops, `via_me`, `prepended`, `popped`, the accept rules | `NetworkOps` |
| `Relays` | connections that relay, the check for loops of them, and what a loop is | `NetworkOps` |
| `Routing` | packets finding their way: the Context's operations and the built-in logics | `Routes`, `Relays` |
| `Monitor` | the per-tick checks, alerts, the trace log they go to, the report of a trip | `Relays` |
| `Templates` | the builders of computers, apps and NPCs, and the NPC's day | `NetworkOps` |
| `Abi` | the entry points of the C library over a world | `Templates` |
| `HostNetwork` | the Unity host layer's structure: the C# views beside an engine graph | `NetworkOps` |
| `HostTraffic` | the Unity host layer's packets, on top of that structure | `HostNetwork` |
| `Probe` | a stress test's driver: what it runs, observes and concludes | |
| `Control` | connections, the window's frames and the test thread | `Probe` |
| `Scenarios` | the Builder of the sandbox's worlds | `Templates` |
| `Sandbox` | the window's state and what changes it | `Scenarios` |
| `Panels` | every panel, key and control request as an action; the properties | `Sandbox` |
| `NetworkOpsProofs`, `FoldProofs` | lemmas: the graph's operations keep it in order; folds over finite sets and sequences | |
| `WorldProofs` | the theorems about `Network` and `World`, and that they implement `Topology` and `PacketQueue` | `NetworkOpsProofs`, `FoldProofs` |
| `MonitorProofs` | the theorems about `Monitor` | `NetworkOpsProofs`, `FoldProofs` |
| `TemplatesProofs` | what the builders build and undo; the theorems about `Abi` and about `Panels` | `NetworkOpsProofs`, `FoldProofs` |
| `RoutingProofs` | the theorem about `Routing` | `FoldProofs` |
| `HostProofs` | the theorems about `HostNetwork` and `HostTraffic` | `FoldProofs` |
| `ControlProofs` | the theorems about `Control`, and `Probe`'s reports | `FoldProofs` |
| `MC...` | values of the constants for TLC: small networks, scenes, scripts | |

`NetworkOps` carries everything: each module above it lets someone else change
one and the same graph - a host between ticks in `World`, C# with its own record
of it in `HostNetwork`, builders that undo themselves in `Templates`, a window
that draws a copy of it in `Sandbox`. The modules that need many small worlds
take a *scene*, chosen in the initial state: a network with its logics and the
calls tried on it. Each scene is there for one question, so that one run asks
one thing of many systems; a scene never limits what the system does by itself.

Definitions marked `Fault:` are not the code's. Each is a plausible mistake that
could stand in place of the definition after it, and each makes a property fail
(`PROJECT.json`, "mutants").

### Network: model and code

A network is one record. `nodes` and `links` are the handles that resolve,
`issued` those handed out so far (a slot-map key is never issued twice), and
the other fields are functions from handles to the fields of `ControlNode` and
`Link`, blank where the handle does not resolve. `Vec`s of handles are sets:
their order decides nothing here. Kinds of nodes are left out.

Every public operation that changes state is an operator named after it
(`CreateNode`, `Subscribe`, `Connect`, ...) and an action `Do...`. Handles
are arbitrary, so stale ones and the root are tried everywhere. The checks an
operation makes before it writes (`Can...`) are kept apart from its writes
(`With...`, `Without...`), as in the code. Where the code can fail *after* a
write (`connect` runs `add_internal_link` and `subscribe` with `?` after
nesting; `disconnect` unsubscribes in a loop with `?`), the operator answers
with what was already written, so "a rejected operation changes nothing" is a
result and not an assumption. `disconnect`'s loop is taken at once: had it
stopped at an unresolvable link, the model leaves all resolvable ones, the code
those before it; the proof shows that case never arises.

Walks over the hierarchy have no recursion: a walk is the least set closed
under parents (or children), which is what an unguarded walk visits if it
returns. That it returns is the property `WalksEnd`.

### World: model and code

`tick()` is one call and many steps, because user code runs in it:

    StartTick -> OnTick(n) for each logic -> TakeBatch
      -> Transmit -> Deliver(n) / Decline(n) per listener -> FinishTransmit -> ...
      -> Trip | Complete (| PanicInWants)

`OnTick` and `Deliver` may open a callback (`running`), which makes up to
`MaxCalls` Context calls (`CallSend` for send and reply, `CallForward` for
forward and relay) and then returns or panics. Between ticks the host sends,
drains, sets hosts, logics and limits, and changes the graph with the operators
of `NetworkOps`, including `World::remove_node`, which takes logics along, and
`network_mut().remove_node`, which leaves them behind.

Abstracted: whether a listener that is not a host accepts a packet (addresses,
`wants`) is a free choice; a trace is its length (`hops`); logics and listeners run in any
order. `lost` is a history variable and no field of the code's: whether a send
left the queue without its packet since a tick last ended. Any event can be sent as often as the callers like, except `Once`: one
event that no one sends again while it is anywhere in the world, which lets a
liveness property follow one event through relays. Left out: statistics,
packet numbers, the payload, trace log and monitor (none of them changes what
is delivered), and `push_direct`.

### HostNetwork: model and code

The state is one record, `host`. `net` is the engine's graph; `hosts` the nodes
the engine collects deliveries for. `nodeOf` and `linkOf` are the dictionaries
`NodeIds` and `LinkIds` (and, read backwards, `NodesById`, `LinksById`), `used`
is `NamesUsed`, `leaving` and `unnesting` are `Leaving` and `Unnesting`. The
views are `parent`, `inner` (InternalNodes), `owned` (InternalLinks) and
`links`, which stands for `NodeModel.Links` and the link's
`ConnectedNodeSubscriptions`: every operation changes those two together.

Operators have the names of the C# methods, private ones included: `AddChild`,
`RemoveChild`, `AddSubscription` and `Leave` change the views and then call the
engine's operator, whose refusal changes nothing there and is logged here.
`FinishLeaving` is written at once for all departures: an unsubscribe and a
guarded disconnect per entry, none of which depends on another. `DoStep` is the
end of `HostNetwork.Step`, the only part of it that changes the structure.
IDs and names are sequences, `<<x>>` and `<<x, 2>>`, so that the name
`UniqueName` derives from an ID can be another node's ID.

Left out: `BuildTemplateAt` after C# nodes exist (the runs start from a graph a
template has built instead), `Start`, `Setup` and `OnConnected`, which may call
HostNetwork again (those are further calls after the operation; in `Connect`
they come between its parts, and the parts can be called alone), and the native
library's version check. `Adopt` finds a `LinkModel` for each of the engine's
links.

### HostTraffic: model and code

`HostTraffic` keeps `HostNetwork`'s state and adds what `HostNetwork.Traffic.cs`
has: an outbox per logic, handles with their originals, the engine's queue, and
the phases of `Step`: `BeginStep` snapshots who has something to send,
`Flush(n)` drains an outbox, `Tick` is the part under the lock (the engine's
tick, looking up what arrived, finishing departures, the purge), `Deliver(m)`
hands out one packet. `Say`, `SendNow`, `Join`, `Part` and `DisposeNode` are
tried at every point between those, which covers calls made by handlers. One
thread steps and changes the structure, any thread may `Say`; `Part` is
`Disconnect`'s drain and leave with a `Say` of another thread between them, or
none. The engine's tick takes any prefix of the queue, which is all the fuse
promises (`World`, `PacketQueue`).

Left out: direct pushes and hop budgets (they are in `Abi`), accept rules
(`Routing`), and nodes moved between parents with packets under way.

### Routes, Relays and Routing: model and code

`Routes` is `route.rs` on sequences of hops `[node, link]`, with its maximum
depth, and `World::accepts`: by address, by wildcard, by an alias. `Relays` has
the connections of `monitor::relay_cycles` and its two passes, and, stated
without them, what a relay loop is: a bridge that would hear what it relays.

`Routing` puts the oldest packet on its link in one step, `Transmit`, and runs
every logic that takes it (`CopyFor` counts a hop off). Each operation of the
Context is the set of packets it queues; each kind of `builtin.rs` is an
operator on those. The queue has no limits here and keeps one copy of packets
that agree in everything: an amplifier's copies differ in nothing a receiver
can tell. A healthy node is one whose logic is not among the deliberately
faulty kinds. When a beacon or a scanner is due is left open; that they send is
bounded by `MaxTicks`.

### Monitor: model and code

`m` is the monitor's record and the trace log's; its methods are operators on
it, called by the actions in the order `World` calls them. The ticks at which a
node heard a packet (a queue in the code, whose order nobody reads) are a bag.
The trace holds
alerts only, as it does unless recording of packets is turned on. Which packet
is which is a key: hash collisions are left out, and so are `set_monitor_config`,
the tables `top_senders` and `top_links`, a cooldown of 0, and ticks that
unwind.

### Templates and Abi: model and code

A builder of `Templates` is a chain of `NetworkOps` operations, each of which
may be refused, with the clean-up the code has at that place. Handles are finite
in number in the model: where they have run out nothing is made (`MakeNode`,
`MakeLink`), as if the operation were refused. `Abi` is one
action per group of exported functions: the host gives any handle, and null or
a malformed string wherever there is a pointer. The world behind it is a record
with a tick of one step, which transmits any part of the queue that the limits
allow. `held` is what the host was handed, which is all that it relays. Failures
are one status. Left out: destroying a world, `set_trace_packets`, the catalogs,
`emergence_string_free`, and the text of the last error (which stays that of an
earlier failure when `template_build` is given a string that is none).

### Probe and Control: model and code

`Probe` is what a stress test does to its world: steps that run ticks or check
something. What the world does in a tick, and so which checks are met, where
the fuse trips, and when the test is stopped, is a choice (`Luck`); `Reports` is
every report the test may come to. `Control` has the connections (one thread
each: ask, wait, give up), the window, whose frame is one step as it is one call
on one thread, and the test thread. A frame polls the tests, executes every
request, then answers those that wait for a run or for a picture. Left out:
threads that cannot be started (the panel would then believe for good that tests
are running), and an image that never arrives (later screenshots wait behind it).

### Scenarios, Sandbox and Panels: model and code

`Scenarios` is the `Builder` of `scenarios.rs`: a plan is the list of calls it
makes. `Sandbox` is `SandboxApp` (world, snapshot, clock, level, selection, the
window that adds nodes) with one operator per method; `Panels` has one action
per panel, key and request, each with a disjunct for every thing it lets one
do; `use` is which of them a run uses. In a frame one panel is used. The window that adds nodes re-chooses its link
in every frame; `Early` and `Late` are calls before and after its turn. How
ticks end (well, fuse, failure) is a choice. A tick takes no logic away in the
model. In the code one whose logic panics does, and if a later tick of the same
batch fails, the picture is not drawn anew (main.rs:436-454) and shows the logic until it
is: `PictureIsTrue` says nothing of that. Left out: layout, dragging, zoom,
the traffic log, the form for sending packets, the editor of limits.

## 3. Runs

| Run | Question | Instance | Result |
|---|---|---|---|
| `network` | is every reachable graph in order, every operation all or nothing, and the whole an implementation of `Topology`? | root + 2 nodes, 2 links, 2 legal names and 2 reserved ones, symmetry | holds |
| `world` | is the queue one bounded FIFO and every tick within its fuse? | one bus, an owner and two children; limits switched between (2,2,2) and (3,4,3) transmissions/deliveries/pending; hop budgets 0 and 2; inbox of 1; one call per callback; panics in three callbacks | holds |
| `world_settles` | is the world done with every event sooner or later, and is every refused send reported, once? | two logics that relay to each other; a delivery limit below one audience; 2 refused sends; panics in `on_received` and `wants` | holds, `EventsSettle` under fairness |
| `host` | does the engine ever know more than C# sees, and do callers who keep to the contract below see the truth? | scenes `Careful`, `Careless`, `Disposing` | holds |
| `host_rejoin` | "a difference is a bug" | only lapse `rejoin` | violated by leaving and re-nesting before a step |
| `host_traffic` | do packets reach those who are there, with their payload, and last words go out? | root, 2 C# nodes, 1 link; 2 packets, room for 2, 4 ticks, originals kept 2 ticks | holds |
| `routing` | do replies find the way back, and what travels for ever? | 9 scenes of up to 6 nodes on 3 links | holds under fairness |
| `monitor` | are alerts few, none missed, and loops found exactly? | 4 scenes, one for each family of checks | holds |
| `abi` | does a call that fails change nothing, and is what a template builds whole? | 4 scenes: computers, NPCs, the graph, traffic | holds |
| `control` | is every answer the right one, do runs end, and is no test passed that was cut short? | two connections with 2 requests and 1; two runs of one test | holds under fairness |
| `control_race` | "run the whole checklist and print the results" | the same | violated by a run started as another ends |
| `sandbox` | is what is drawn what there is, and does a stopped clock stand? | 8 scenes of gestures, two scenarios and a test, 4 nodes, 4 links, 2 ticks | holds |

### The instances, and why they are enough

**Network.** The names are fewer than the nodes and links, so every clash the
checks guard against can occur, and two nodes under a root are enough for
cycles, re-parenting and removing a subtree. There is no bound on the length of a
run: every sequence of operations is covered until handles run out. Larger
instances are the business of the proofs.

**World.** The limits are smaller than what one tick can offer: an audience of
two against two deliveries, a queue of two against three senders, so both fuses
trip, sends are refused, and limits are lowered below what is already queued. A
hop budget of two lets a packet be relayed once and then die; zero is a packet
that dies where it lands. Only node `a` is reconfigured by the host: whether it
is a host, has logic, is subscribed or exists changes at any time between ticks.
No bound is put on the number of ticks.
`MaxRefusals` bounds `refused_sends`, which only grows: 2 in `world_settles`, so
that one can be refused in a tick that trips or unwinds and one after it was
reported. In `world` it is 1, as that run asks nothing of the counts: another
refused send would leave the queue as it is.

**Host structure.** Two nodes below a root give every nesting that matters to
the code (swap, nest in a sibling, move, nest back). The scenes split what is
together beyond a short run: `Careful` has two nodes of one ID and a template's
node, no lapses; `Careless` any calls in any state on one link; `Disposing` one
node disposed at any time, and `Disconnect` with a parent or a link the node is
not on (`strays`). Disposed nodes leave nodes of the engine's behind, so their
number is bounded (`orphans`), and a call that needs new handles is left out
when there are too few (`Enough`, `EnoughFor`). There is no bound on the number of calls or steps.

**Host traffic.** `InFlightTicks` is 2 (200 in the code), so that a fuse that
holds the queue for three ticks outlives an original; `MaxTicks` of 4 is two
purges. Two packets are one held back behind another, and two nodes are a sender
that leaves while the other's handler runs.

**Routing.** `MaxDepth` is 3 (8) with routes that reach it, and the scenes nest
gateways two deep, so that prepending can overflow; `DefaultTtl` is 4 (16), one
more than the longest way in any scene without a bridge. The scenes: an office
and a house (gateways beside and behind each other, equal names inside), a ring
of gateways, bridges that do and do not close a loop, a bridge beside a gateway
whose link it completes, and healthy nodes among echo, amplifier, replayer,
flooder and crasher.

**Monitor.** `ReplayMemory` 2 with three packets, so it is cleared with a replay
under way; `Capacity` 2, so alerts are discarded; the latest alert of a check is
kept for 1 tick (100 in the code) and a report goes back 2 (200): the
inequality between them, which the property needs, is an assumption and is that
of the code. Two to four ticks are two cooldowns.

**ABI.** Six handles of nodes hold two computers or a town; some were used
before. `DefaultTtl` 3 (16) and two relaying hosts: a packet that got a fresh
budget would exceed it. The inbox has room for 2 (200,000), which is exceeded.

**Control.** A test that runs a tick, checks, and runs on through a fuse covers
the driver's three ways to stop early. A connection that asks twice can receive
the first request's answer; a second run is what a late client meets.

**Sandbox.** The scenario is "Single computer" up to the VM's host, the test is a
relay loop's bridge; eight scenes of gestures cover every pair of them that
shares state: any two can follow one another. Depths below the root are 0 to 2
and `MaxTreeDepth` is 1 (40), so that the tree also hides something.

### Fairness

*World*: `WF(EngineStep)`: `tick()` runs to its end once called and a callback
returns, which is how a function call behaves if user code terminates.
`SF(StartTick)`: the host keeps calling `tick()` however often it does something
else in between; the code asks exactly this ("delivered by later ticks if the
host keeps going", world.rs:106). Limits of zero transmissions never make
progress; the C ABI turns zero into "keep the old value", so the runs use
positive limits.

*Routing*: `WF(Transmit)`: the host keeps ticking. No logic has to send.

*Control*: `WF(ThreadStep)`: the test thread runs (its waits have a time limit,
and a test's own is a choice of `Luck`). `WF(PlainFrame(FALSE))`: while tests run
the window asks for another frame every 100 ms (tests_panel.rs:117). Nothing is
assumed of clients, users, or of images of the window arriving.

### What the properties say

*Network*: `TypeOK` (no reserved name in use), `NothingDangles`, `EndsAgree`,
`WalksEnd`, `AddressesUnique`, `LinkNamesUnique`, the action property
`RejectionChangesNothing`, and `ImplementsTopology`: the abstract graph says
what each operation may move, e.g. that `disconnect` leaves the parent's links
and no others and that `remove_node` takes exactly the nodes below and the links
those own.

*World*: `DeliveriesFused` (a packet that is not its tick's first never takes the
count past the limit, although the guard uses an estimate made before sending),
`TickBounded` (a tick never transmits more than was waiting when its deliveries
began; the inbox keeps its limit), `HopBudget` (hops made and hops left never
exceed the first budget, through relays), `RefusalsReportedOnce` (a tick that
trips nothing else reports the queue exactly if a send was lost since a tick
last ended, by whomever, and also if a tick in between unwound),
`ImplementsQueue` (`batch \o pending` behaves as one FIFO through trips and
limit changes) and `EventsSettle`.

*HostNetwork*: the views and the engine are compared in both directions, because
they behave differently.

`EngineWithinViews` holds whatever is called: the engine has a C# node on a
link, under a parent or owning a link only if the view has it, or the node is
just leaving there. Deliveries follow the engine's graph, so nothing is
delivered over a link C# thinks the node is not on.

`ViewsWithinEngine`, what `VerifyStructure` looks for the other way round, holds
only for callers who avoid what the views cannot follow. The model names each
such *lapse*, computed from what the caller can see, and a scene says which are
allowed:

* `cycle`: a node nested below itself;
* `shared`: a link given a second owner;
* `rejoin`: nested elsewhere, or around the node it left, between leaving and
  the next step; or adopted by a second C# node while leaving;
* `lingering`: leaving a parent and staying on one of its links;
* `dispose`: disposed while still nested, on a link, or owner of either;
* `hidden`: an engine parent or owner that has no C# node.

With none of these the views are right at every moment, not just between steps,
refusals by the engine and reused nodes included (`CarefulCallersSeeTruth`): the
list is the contract that HostNetwork leaves implicit. `cycle`, `shared` and
`dispose` are misuse a caller could expect to fail; `rejoin` and `lingering` are
what the methods are documented to support. `HostsKnown` says that the engine's
host nodes are the C# nodes exactly.

*HostTraffic*: `HeardOnlyByMembers` (what a step hands out goes to nodes that are
on the link, or left it after the step took what had arrived),
`LastPacketsGoOut` (an outbox is empty of what was said on a link when its node
leaves; the engine drops such a packet only if it was held back),
`PayloadsKept` (an original outlives its packet unless that is held for more than
`InFlightTicks`, and none lives twice as long).

*Routing*: `PongsFindTheirAsker` (safety: no healthy node gets another's answer),
`AnswersReachTheirAskers` (liveness: an answer whose way back begins within reach
arrives), `RoutesBoundTravel` ("Route depth bounds this", logic.rs), and
`RepeatsAreReported`, which ties traffic to the monitor: what a bridge relays
twice is a loop `relay_cycles` reports. An answer is *within reach* if the
gateway it has to leave by is the owner of the link it starts on. That is
a restriction of the code, not of the model: no node gets out through two
gateways, since only the first, whose link the sender is on, accepts a packet
for the outside, and the next one in line does not know the name. So a ping
that is forwarded two levels in is answered, and the answer is dropped.

*Monitor*: `CyclesFound` (the two passes miss no loop, and report no other where
gateways have each link on one side only) and `CycleKnown` (loops are reported at
the next tick after any change), `ReplaysCounted` (a count is never too high, nor too low
while the memory had room), `FewAlerts` (no three of a kind within a cooldown),
`NothingGoesUnseen` (what was suppressed has been told at least as badly, and
what was dropped is counted), `RootCauseKept` (the report of a trip has an alert
as bad as the worst raised lately, for each check).

*Abi*: `FailureChangesNothing`, `BuiltWhole`, `RelaysRunOut` (0 means "default
budget", so a delivery must never hand out 0), `NpcsKeepGoing` (what a builder
lets through never panics in a tick).

*Control*: `OwnAnswer`, `RunsEnd`, `PassedToTheEnd`. *Sandbox*: `PictureIsTrue`,
`StandsUntilAsked`, `SelectionIsShown`.

### Disagreements between code and documentation

With a run that shows them:

1. **Leaving and re-nesting before a step loses the parent** (`host_rejoin`).
   `connect` in the engine answers `AlreadyHasParent` (the old one), which
   `AddChild` takes for success; the step then removes the old parent. C# shows
   the new one for good.
2. **A client can be told another run's results** (`control_race`). A frame polls
   the tests, executes requests, then answers clients if no test runs; a request
   that starts a run in the frame that saw the last one end keeps its clients
   waiting.

Met while modelling, in the model as the code has them:

3. *A host node can have a logic.* `set_host` removes the logic (world.rs:322),
   `set_logic` (486) does not look at `hosts`: the node then collects deliveries
   for the host while its `on_tick` runs.
4. *The delivery limit has an exception.* A tick's first packet goes out whatever
   its audience (world.rs:598). Without the exception `EventsSettle` fails; the
   limit is documented (world.rs:54) without it.
5. *A panic in `wants` loses the batch.* `wants` is called outside
   `catch_unwind` (world.rs:761); the panic unwinds `tick()`, and with it the
   local batch. The panicking logic stays attached. `QueueIsFifo` is proved for
   worlds without such panics for this reason.
6. *`MoveInto` leaves links in the engine only* (HostNetwork.cs:241): the
   engine's `disconnect` takes the node off the old parent's links, the C# views
   keep it there (lapse `lingering`).
7. *Unique names are not* (HostNetwork.cs:408): the suffixed name is not recorded
   as used and can be handed out twice.
8. *Last packets can be lost.* "What it sent before leaving still goes out on the
   next tick" (HostNetwork.cs:180) is so unless a fuse holds it past that tick:
   by then the sender is off the link. The property allows for it.
9. *Late deliveries.* "Anything delivered to it meanwhile is ignored"
   (HostNetwork.cs:275) is decided when the step takes what arrived: a node a
   handler has just taken off the link still gets its copy. The property allows
   for it.
10. *The inbox may overflow below the fuse.* The C# layer sets a limit of 400,000
    deliveries, while the inbox drops the oldest above 200,000 (world.rs:318).
11. *The latest alert of a check* (monitor.rs:213) need not be the latest: a
    warning soon after an error is not kept, and once the error is older than
    the report goes back, neither is told. `RootCauseKept` is about alerts of
    the period for which the error is kept.
12. *A relay loop that is opened and closed again within the cooldown* gets no
    second alert (monitor.rs:197); `CycleKnown` asks for the first.
13. *"World paused" can show while it plays*: Play in the toolbar and the space
    bar leave the banner of a tripped fuse standing.
14. *A false alarm.* A gateway that has joined one of its own links as a member
    relays from its other links to that one but not always back, while the
    topology check (monitor.rs:414) takes what it joins to go both ways: a bridge
    on two of its links is then said to close a loop and never hears itself.
    `CyclesFound` promises "no other loop" only where no gateway is on both
    sides of a link.

## 4. Proofs

`NetworkOpsProofs` has the lemmas about the graph's operations, which the modules
for `Network`, `World`, `Monitor` and `Templates` cite; `FoldProofs` those about
folds, for all but the graph. Nothing is assumed but the named assumptions on the
constants, and what a theorem's own ASSUME says.

### The graph

The first part of `WorldProofs` proves, for any finite or infinite sets of nodes, links and
names, from `NetworkAssumption` alone (the root is a node handle, its name is
reserved, `Nil` is no handle or name, node and link handles differ):

* `NetworkInOrder`: `NetworkSpec => []InOrder(network)`, the inductive invariant;
* `NetworkTyped`, `HandlesResolve`, `EndsAlwaysAgree`, `HierarchyIsForest`,
  `NamesAreAddresses`, `LinkNamesDistinct`: the six invariants of the run;
* `AllOrNothing`: `RejectionChangesNothing`.

`InOrder` is the conjunction of the six invariants: none is inductive alone.
`EndsAgree` is what lets `remove_node` and `drop_link`, which walk one end of an
edge, clean up the other; `NothingDangles` is what makes the `?` in
`disconnect`'s loop unreachable; `WalksEnd` needs the check that the new child
is not among the parent's ancestors; `AddressesUnique` for the root, which
`add_internal_link` does not check, rests on `TypeOK`: nobody else may bear its
name. Each operation has a lemma that it keeps `InOrder`, from lemmas about its
writes; `ConnectAllOrNothing` and `DisconnectAllOrNothing` say that after their
checks the nested operations cannot be rejected. That all walks end is stated
without recursion: every non-empty set of nodes has a member whose parent lies
outside it. For a finite graph this is the absence of cycles.

The last theorem is `StructsImplementTopology`: `NetworkSpec => ImplementsTopology`.
Each of the operations is one step of `Topology`, which has every edge once, or
leaves its relations as they are. Most of it is that each write moves just
the edges named; the rest is about removal. `remove_node` walks down
along `children` and takes what it meets, where `Topology` takes whatever has
the node above it along `parent`: `SubtreeIsBelow` says that these are the same nodes.
That needs `InOrder`, as nothing else ties the one end of an edge to the other.

### The world

Its second part proves for any limits, networks, logics and hosts, from
`NetworkAssumption` and `WorldAssumption` (which asks of the hop budgets only
that one is the largest):

* `WorldInvariant`: `Spec => []IInv`;
* `BudgetsRunOut` (`HopBudget`), `TicksStayBounded` (`TickBounded`),
  `RefusalsAreTold` (`RefusalsReportedOnce`);
* `QueueIsFifo` (`ImplementsQueue`), if no logic panics in `wants`: such a panic
  loses the batch, which no FIFO does;
* `FuseHolds` (`DeliveriesFused`), for finitely many nodes, as it counts
  listeners.

`IInv` has four parts. `Underway`: the network is in order and every packet in
the queue, the batch or a callback is within its budget. `InPhase`: where
`tick()` is says which variables are at rest, and, the heart of it, *while a
packet is being delivered `reserved` is the length of the batch*. The code sets
`reserved` once per packet, and callbacks that send look at it, so the equality
holds wherever something can be sent and nowhere else needs it. `Accounted`: with
that, `batch` and `pending` together stay within some limit that was chosen - not
the present one, as limits can be lowered below what waits - and a tick's
transmissions with what is left of its batch do too. `Collected` is the inbox.
`RefusalsAreTold` adds `Told`: `lost` is so exactly while `refused_sends` is
above `refused_seen`, which is never above it. That a refused send leaves `lost`
set is a fact about sequences, not about the counts.
`QueueIsFifo` maps each action to a step of `PacketQueue` or a stutter by a lemma
per group of actions. `FuseHolds` adds `Counted`: unless
the packet is its tick's first, deliveries before it, copies made of it and
listeners still to be asked together fit the limit; it holds because the
estimate, subscribers and owner, is never less than the audience.

### Routing

`RoutingProofs` proves for any networks, kinds of logic, depth of routes and
requests of the host, from `NetworkAssumption`, `RoutesAssumption` and
`RoutingAssumption` (handles are finite in number; hosts ask with routes that
could be parsed, on links they can use):

* `RoutingInvariant`: `Spec => []RInv`;
* `TravelIsBounded` (`RoutesBoundTravel`).

The bound on a packet's hops is not inductive: a packet that could leave one
gateway after another would break it at each of them. What `RInv` adds is where
such a packet is: unless it is fresh, it is on a link that its next hop names,
or that its next hop does not care about (`Directed`). A gateway forwards out only
what is not (`OutFirst`), and both ways of forwarding restore it: out on the link that was
asked for, in on the link of the next hop, which costs the route one. Faulty nodes are no
exception, because what they send is fresh. Finitely many handles make what
one packet sets off a finite set, so that queueing it is a fold that has a value.

### The Unity host layer

`HostProofs` proves for any number of C# nodes and links, and any scene, so with
every lapse allowed (`HostAssumption`):

* `HostInvariant`: `Spec => [](scene \in Scenes /\ IInv(host))`;
* `DeliveriesFindTheirNode` (`HostsKnown`);
* `NothingIsHeardUnseen` (`EngineWithinViews`).

`IInv` has three layers. `Sound` is what the host relies on in the engine's
network: handles resolve and both ends agree. It is much less than `InOrder`,
which would have to know the names C# derives. `Tied`: a C# node or link
stands for one live handle that no other stands for, every link of the engine
has its C# link, and the engine's hosts are the C# nodes. `OnLinks`, `OwnsLinks`
and `UnderParents` are `EngineWithinViews` part by part. The last three hold through
every order of calls because the C# methods write the view first when they add
and the engine last when they take away, and because `Leaving` and `Unnesting`
name what is shown no more and still there. Assumed besides the shape of
the constants: that no reserved name ends in a count, and that a scene's
starting graph is in line with its views, the root hearing and owning nothing.

It proves on top of that, for any number of packets and any
`InFlightTicks`, from `TrafficAssumption` (C# links are finite in number):

* `TrafficInvariant`: `TrafficSpec => []TInv`;
* `OnlyMembersHear` (`HeardOnlyByMembers`), `OriginalsOutlivePackets`
  (`PayloadsKept`), `NothingSaidIsLost` (`LastPacketsGoOut`).

`TInv` adds four things to `IInv`: `NothingLeft` (who is on no link has said
nothing that is still in its outbox), `Clock` (the last purge is less than
`InFlightTicks` ago), `Sendings` (each packet of the engine's queue is *in
hand*: its sender can use the link until the next tick, and its original is kept
until it is too old; and no original has outlived the last purge), and `ArrivalsKnown`
(what a step has to hand out is for members, or for who left since).
Each operation of the structure has to be shown to move none of
them, which is where `IInv` is used. A drain of an outbox is a fold over the
sender's links; that such a fold stays within a set its steps stay in is
`FoldStays`.

### Templates and the C ABI

The first part of `TemplatesProofs` is about worlds in general, records with a
network, logics and hosts (`IsWorld`: the network is in order, and what does not
resolve has no name, no logic and is no host). It says what the builders do:

* `Grown(w, v, root)`: nothing there was before is touched, and all that is new lies
  below `root` and, but for the root itself, hears nothing outside of it.
  `RemovalUndoes`: removing the root of what has so grown, with its logics, leaves
  the world as it was, but for handles used up and for links that were there and
  found an owner. That is the clean-up every builder relies on, so all a
  builder has to show is that what it has made by the time it fails is `Grown`
  and no link has found an owner (`Apart`), or is the one link that it removes
  itself (`fill_computer`).
* `Whole`: what a builder that succeeds has made is what was ordered. `fill_computer`'s
  loop is a fold over the parts; `Partly` is what holds after any number of them,
  and `FoldProofs`' `LoopValues` carries it along.
* `Outcome` and `Kept` are what any builder, and any operation of the graph,
  answers; every entry point keeps a world a world for that reason.

From `NetworkAssumption` and `AbiAssumption` (handles are finite in number, a
scene starts from a world of its limits that is in order, its orders are of the
shape the ABI parses) the second part proves for any worlds, orders, names and
limits, any default budget and size of the inbox:

* `AbiInvariant`: `Spec => []AbiInv`;
* `FailuresChangeNothing` (`FailureChangesNothing`), `BuildsAreWhole`
  (`BuiltWhole`), `HostRelaysRunOut` (`RelaysRunOut`), `NpcsAlwaysKeepGoing`
  (`NpcsKeepGoing`).

`AbiInv` types the world with what the properties need of it: each packet of the queue,
in the inbox or in the host's hands has hops made and left within the default budget, and
every NPC has a schedule that `ValidNpc` lets through, which is why `panicked` is never
set. A tick is three loops, over NPCs, over the packets it transmits and over the hosts
that take one, each a fold that stays among the worlds.
`FailuresChangeNothing` is by group of calls: those that check
before they write, and the builders, by `RemovalUndoes`. The network before and
after a call that fails differ at most in `issued`.

### The sandbox's window

From `NetworkAssumption`, `SandboxAssumption` (each scenario and test is a plan that
can be carried out) and `PanelsAssumption`, for any plans, orders, kinds and
bounds, the third part of `TemplatesProofs` proves

* `WindowInvariant`: `WindowSpec => []WindowInv`;
* `PictureStaysTrue` (`PictureIsTrue`), `StoppedClocksStand`
  (`StandsUntilAsked`), `LevelsShowTheSelection` (`SelectionIsShown`).

`WindowInv` says that the world is `Tidy`, the picture is of that world, the level
viewed is a node of it, and that a clock that plays was asked to. `Tidy` is
`IsWorld` and that *every link has an owner*. Nothing in the engine asks for one; but
the sandbox makes its links for a node in the same breath, and takes the link back if that
fails (`UndoLink`) or the node cannot be built. `SelectionIsShown` rests on it: a link
without owner may be on a canvas as an outer link of some level while
`container_of` leads to the root, which does not show it. Each call of the
Builder keeps a world tidy (`CallResult`), so each plan makes a tidy one
(`CarriedResult`). `PictureIsTrue` after an addition that failed needs that the
undo restores the network in every field that is drawn: `LinkUndone` from `EdgesDecide`,
which says that a network in order is decided by its nodes, links,
names and one end of each edge.
Every action of `Panels` then has a lemma that its step is a `WindowStep`: from the
invariant to the invariant, and within what the two action properties say. Most go by `Worked`
(it neither builds a world nor ticks, and shows what it selects) or
`Adjusted` (it touches neither world, level nor selection).

### The monitor

`MonitorProofs` proves for any networks, traffic, thresholds, windows and sizes
of the memories, from `NetworkAssumption` and `MonitorAssumption` (handles are
finite in number, a cooldown is not 0, and a report does not go back less than
twice as far as the latest alerts are kept):

* `MonitorInvariant`: `Spec => []MInv`;
* `AlertsAreFew` (`FewAlerts`), `NothingIsLostUnseen` (`NothingGoesUnseen`),
  `ReplaysAreCounted` (`ReplaysCounted`), `ReportNamesTheWorst`
  (`RootCauseKept`);
* `LoopsAreFound` (`CyclesFound`), `NoLoopStaysUnknown` (`CycleKnown`).

`MInv` says two things of the record. `Told` is about alerts: of two of a kind
the later one comes a cooldown later or is worse (`Escalating`), `fired` is the
last one of each kind (`LastFired`), what was asked for is covered by one that was raised
(`Covered`), the trace ends with what was raised last (`Traced`), and the
latest of a check stands for all raised of it (`Latest`). Two severities are what
bounds `FewAlerts`: three alerts within a cooldown would be three steps up. `Mem`
is about replays: nothing is remembered that was not received (`Recalled`);
what is remembered of a packet is all of the window, unless the memory was
cleared (`Exact`); what was counted is no more than was received
(`Accounted`); and what was received often enough has been reported (`Reported`).
The copies of one packet in one tick reach the monitor one after
the other, in an order the model leaves open: the fold over them is followed with
"what has been received so far" as the family its states are in (`FoldFollows`).
A count is the sum over the ticks of a bag, and does not depend on the order
they are added in, which needs a proof of its own, as a fold takes elements by CHOOSE.

The topology check is about partitions of the links. `JoinedFinest`: the fold of the
first pass yields the finest partition that joins all the pairs, whatever order
CHOOSE takes them in. From there no path has to be followed. `Linked(D)` is what
the gateways and the connections `D` of bridges join, and `D` is `Free` if each of its
connections joins links that the rest leaves apart. `ClosingTracked`: as the second
pass goes on, it has reported nothing exactly as long as what it has looked at is
`Free`, and its table is then `Linked` of that. `LoopsFound` is one direction: where
the connections are `Free`, what the other bridges join is a set closed under
relaying in which no second link of the bridge lies. `LoopsReal` is the other:
where every relay goes both ways (`TwoSided`), the links that reach one another are
a partition that the others' connections respect (`JoinedReach`), so that a bridge that does
not hear itself has links the others leave apart, and each of its connections
splits the links in two sides that nothing else joins (`ApartFree`).

`CycleKnown` needs a part of `MInv` of its own, `CyclesAsked`: as long as nothing
has changed since the last check, every node that closes a loop was asked about at
that check. A panic takes a logic away and tells the monitor nothing. `ClosingShrinks` is
why that is safe: with fewer logics both passes join no more (`FollowedFewer`), so they close
no new loop.

### The control port and its tests

`ControlProofs` proves for any number of connections, requests, tests and runs,
from `ControlAssumption` (a test's course is a sequence of steps, no test is
listed twice):

* `ControlInvariant`: `Spec => []CInv`;
* `AnswersAreOwn` (`OwnAnswer`), `PassesAreEarned` (`PassedToTheEnd`).

Two facts have to be carried through a frame, which executes every request that
waits and then answers those put off. What is in the queue, among the waiters, in
the place for a screenshot and in a channel names the request it is for
(`Pending`, `Waiters`, `Replies`), so that a request which timed out and is executed
later still answers into a channel that nobody reads. And a report that the test
thread sends, with a run that has since been stopped included, is one of
`FairReports`. A frame is two loops, over what the thread reported and over the
requests, each a fold that stays where its steps stay (`FoldStays`).

That fair reports are all a test can come to is about `Probe` alone
(`ReportsAreFair`): as long as a test did not fail, was not stopped and did not
trip, it has done the ticks of the steps so far, `VerifiedGetsThrough`. The
steps so far are a set of the course's positions, and what they ask for is a sum
over that set, which must not depend on the order it is added up in
(`SumInAnyOrder`), as the sum and the loop take the positions in different ones.

### Only model-checked

* Liveness (`EventsSettle`, `AnswersReachTheirAskers`, `RunsEnd`): fairness and
  ENABLED are out of the provers' reach.
* `RepeatsAreReported`: it follows one packet through the relays, and that what has come
  round twice went along a loop is induction over the packet's way. That a loop is
  reported is proved (`LoopsAreFound`).
* `PongsFindTheirAsker`: a relation between a route and the networks behind every
  gateway on it, which is again by induction over the route.
* `CarefulCallersSeeTruth`: it needs the engine to accept all that the host
  asks of it, so that no two names meet on a link. That holds of the instances'
  IDs and not of any: the name of an ID's second use may be another ID. Its
  invariant would have to say what makes IDs safe, and what each lapse spoils.

What a fold or a recursive function yields can be proved about by a minimal
counterexample, as `FoldProofs` does. What is out of reach is RECURSIVE operators,
and the library's induction theorems, which take an operator as a parameter.

## 5. Not modelled

* *C# wrapper, Unity driver*: marshalling without decisions of its own.
* *Sandbox: activity, screenshots, styles, trace and health views*: drawing;
  what they show is state that others keep.
* *xtask, C header, smoke tests*: build commands, generated code, examples.
* Within modelled components: what section 2 lists as left out, and
  `PROJECT.json` per component.

What would come next: templates built in `HostNetwork` after C# nodes exist; and moved nodes with packets under way in
`HostTraffic`.
