------------------------------ MODULE Templates ------------------------------
(***************************************************************************)
(* The template builders (emergence-templates/src): computers, apps and    *)
(* NPCs, built on a world out of the operations of `Network` and the       *)
(* World's set_logic and remove_node.                                      *)
(*                                                                         *)
(* A world is a record with at least `net`, `logics` and `hosts`.  An      *)
(* operation answers [ok, world, node]: whether it succeeded, the world it *)
(* left behind, and the node it built.  Where the code returns early with  *)
(* `?`, what was built so far is in the answer's world.  The slot map's    *)
(* next handle is some handle not issued before.  What hardware a computer *)
(* has only decides what its kernel overhears, and is left out.            *)
(*                                                                         *)
(* A definition marked `Fault:` is not the code's.                         *)
(***************************************************************************)
EXTENDS NetworkOps, Naturals, FiniteSets, SequencesExt

CONSTANTS
    Ipc,        \* names::IPC, the name of a computer's bus
    Scanning    \* the apps that run a Scanner

(* A logic is a record with its kind; an NPC's has its state too.          *)
LogicKinds ==
    {"none", "responder", "gateway", "bridge", "beacon", "scanner",
     "echo", "replayer", "amplifier", "flooder", "crasher", "kernel"}

Kind(kind) == [kind |-> kind]
NoLogic == Kind("none")

NewNodeId(s) == CHOOSE n \in NodeIds \ s.issued : TRUE
NewLinkId(s) == CHOOSE l \in LinkIds \ s.issued : TRUE

(* What does not resolve has no name and no logic, and is no host.         *)
Vacant(w) ==
    /\ \A h \in (NodeIds \cup LinkIds) \ (w.net.nodes \cup w.net.links) : w.net.name[h] = Nil
    /\ \A n \in NodeIds \ w.net.nodes : w.logics[n] = NoLogic
    /\ w.hosts \subseteq w.net.nodes

Built(w, n) == [ok |-> TRUE, world |-> w, node |-> n]
Failed(w) == [ok |-> FALSE, world |-> w, node |-> Nil]

(* An operation on network_mut().                                          *)
InNetwork(w, result) == [ok |-> result.ok, world |-> [w EXCEPT !.net = result.net], node |-> Nil]

(* create_node and create_link there: what is made is the answer's node.   *)
(* Bound: nothing is made once the handles have run out.                   *)
MakeNode(w, name) ==
    LET id == NewNodeId(w.net)
    IN  IF NodeIds \subseteq w.net.issued THEN Failed(w)
        ELSE [InNetwork(w, CreateNode(w.net, id, name)) EXCEPT !.node = id]

MakeLink(w, name) ==
    LET id == NewLinkId(w.net)
    IN  IF LinkIds \subseteq w.net.issued THEN Failed(w)
        ELSE [InNetwork(w, CreateLink(w.net, id, name)) EXCEPT !.node = id]

(* World::set_logic: none of these logics does anything in on_start.       *)
SetLogic(w, n, logic) ==
    IF n \in w.net.nodes THEN Built([w EXCEPT !.logics[n] = logic], n) ELSE Failed(w)

(* World::remove_node *)
RemoveWithLogic(w, n) ==
    LET removed == RemoveNode(w.net, n)
        gone == w.net.nodes \ removed.net.nodes
    IN  [ok |-> removed.ok, node |-> Nil,
         world |-> [w EXCEPT !.net = removed.net, !.hosts = @ \ gone,
                             !.logics = [m \in NodeIds |-> IF m \in gone THEN NoLogic ELSE @[m]]]]

OrRemove(filled, root) ==
    IF filled.ok THEN Built(filled.world, root)
    ELSE Failed(RemoveWithLogic(filled.world, root).world)

(* Fault: a failed connection is not noticed. *)
AttachIfPossible(w, root, at) == Built([w EXCEPT !.net = Connect(@, at.parent, root, at.link).net], root)

(* `at` is [parent, link], the link Nil for none.                          *)
AttachOrRemove(w, root, at) == OrRemove(InNetwork(w, Connect(w.net, at.parent, root, at.link)), root)

(* What both build_*_at functions do with a node that was built, or not.   *)
BuiltAt(built, at) == IF built.ok THEN AttachOrRemove(built.world, built.node, at) ELSE built

-----------------------------------------------------------------------------
(* Computers.  spec is [services, apps]: sequences of names.               *)

ComputerSpecs == [services: Seq(Names), apps: Seq(Names)]

AppLogic(app) == Kind(IF app \in Scanning THEN "scanner" ELSE "responder")

(* fill_computer's parts, in order.                                        *)
Parts(spec) ==
    [i \in DOMAIN spec.services |-> [name |-> spec.services[i], logic |-> Kind("responder")]]
    \o [i \in DOMAIN spec.apps |-> [name |-> spec.apps[i], logic |-> AppLogic(spec.apps[i])]]

(* build_computer's checks, made before anything is created.               *)
ValidComputer(name, spec) ==
    /\ ValidName(name)
    /\ IsInjective(spec.apps)
    /\ \A i \in DOMAIN Parts(spec) : Parts(spec)[i].name # name
    /\ \A i \in DOMAIN Parts(spec) : ValidName(Parts(spec)[i].name)
    /\ \A i, j \in DOMAIN Parts(spec) : Parts(spec)[i].name = Parts(spec)[j].name => i = j

(* One turn of fill_computer's loop: create, connect, attach the logic.    *)
AddPart(filled, root, ipc, part) ==
    LET w == filled.world
        created == MakeNode(w, part.name)
        id == created.node
        joined == InNetwork(created.world, Connect(created.world.net, root, id, ipc))
    IN  IF ~filled.ok THEN filled
        ELSE IF ~created.ok THEN created
        ELSE IF ~joined.ok THEN Failed(RemoveWithLogic(joined.world, id).world)
        ELSE SetLogic(joined.world, id, part.logic)

AddParts(owned, root, ipc, parts) == FoldLeft(LAMBDA f, part : AddPart(f, root, ipc, part), owned, parts)

FillComputer(w, root, spec) ==
    LET created == MakeLink(w, Ipc)
        ipc == created.node
        owned == InNetwork(created.world, AddInternalLink(created.world.net, root, ipc))
        filled == AddParts(owned, root, ipc, Parts(spec))
    IN  IF ~created.ok THEN created
        ELSE IF ~owned.ok THEN Failed([owned.world EXCEPT !.net = RemoveLink(@, ipc).net])
        ELSE IF ~filled.ok THEN filled
        ELSE SetLogic(filled.world, root, Kind("kernel"))

BuildComputer(w, name, spec) ==
    LET created == MakeNode(w, name)
        root == created.node
    IN  IF ~ValidComputer(name, spec) THEN Failed(w)
        ELSE IF ~created.ok THEN created
        ELSE OrRemove(FillComputer(created.world, root, spec), root)

BuildComputerAt(w, name, spec, at) == BuiltAt(BuildComputer(w, name, spec), at)

IpcLinks(s, n) == {l \in s.internal[n] : s.name[l] = Ipc}

InstallApp(w, computer, app, name) ==
    LET created == MakeNode(w, name)
        root == created.node
        ipc == CHOOSE l \in IpcLinks(w.net, computer) : TRUE
        joined == InNetwork(created.world, Connect(created.world.net, computer, root, ipc))
    IN  IF computer \notin w.net.nodes \/ IpcLinks(w.net, computer) = {} THEN Failed(w)
        ELSE IF ~created.ok THEN created
        ELSE IF ~joined.ok THEN OrRemove(joined, root)
        ELSE OrRemove(SetLogic(joined.world, root, AppLogic(app)), root)

-----------------------------------------------------------------------------
(* NPCs.  spec is [day, schedule, lines]: the length of a day, the times   *)
(* at which a goal begins, and how many lines of dialogue there are.       *)

NpcSpecs == [day: Nat, schedule: Seq(Nat), lines: Nat]

(* Fault: the first goal may begin later than the day. *)
ValidButLate(spec) ==
    /\ spec.day > 0
    /\ spec.schedule # <<>>
    /\ \A i, j \in DOMAIN spec.schedule : i < j => spec.schedule[i] < spec.schedule[j]
    /\ \A i \in DOMAIN spec.schedule : spec.schedule[i] < spec.day
    /\ spec.lines > 0

ValidNpc(spec) ==
    /\ spec.day > 0
    /\ spec.schedule # <<>>
    /\ spec.schedule[1] = 0
    /\ \A i \in DOMAIN Tail(spec.schedule) : spec.schedule[i] < spec.schedule[i + 1]
    /\ \A i \in DOMAIN spec.schedule : spec.schedule[i] < spec.day
    /\ spec.lines > 0

(* Npc::new.  The goal is an index into the schedule, 0 for none yet.      *)
NewNpc(spec) == [kind |-> "npc", spec |-> spec, goal |-> 0]

BuildNpc(w, name, spec) ==
    LET created == MakeNode(w, name)
        root == created.node
    IN  IF ~(ValidName(name) /\ ValidNpc(spec)) THEN Failed(w)
        ELSE IF ~created.ok THEN created
        ELSE OrRemove(SetLogic(created.world, root, NewNpc(spec)), root)

BuildNpcAt(w, name, spec, at) == BuiltAt(BuildNpc(w, name, spec), at)

(* Npc::on_tick: the last entry that has begun; none leaves the goal.      *)
GoalAt(npc, tick) ==
    LET time == tick % npc.spec.day
        begun == {i \in DOMAIN npc.spec.schedule : npc.spec.schedule[i] <= time}
    IN  IF begun = {} THEN npc.goal ELSE CHOOSE i \in begun : \A j \in begun : j <= i

(* The arithmetic a Rust logic panics on.                                  *)
TickPanics(npc) == npc.spec.day = 0
TalkPanics(npc) == npc.spec.lines = 0
=============================================================================
