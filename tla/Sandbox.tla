------------------------------- MODULE Sandbox -------------------------------
(***************************************************************************)
(* The sandbox's window (emergence-sandbox/src/main.rs): a world of its    *)
(* own, a picture of that world to draw from, what is looked at and        *)
(* selected in it, the clock that runs its ticks, and the window that adds *)
(* nodes (add_node.rs).  This module has the state and what SandboxApp     *)
(* does with it; Panels has the buttons, keys and requests that call it.   *)
(*                                                                         *)
(* Whether a world's ticks trip the fuse or fail is the business of World, *)
(* and open here; so is whether the library has room for another world.    *)
(* A library that does not load is left out: nothing is ever shown then.   *)
(*                                                                         *)
(* A definition marked `Fault:` is not the code's.                         *)
(***************************************************************************)
EXTENDS Scenarios

CONSTANTS
    Plans,        \* the scenarios of scenarios::ALL
    StressTests,  \* the tests of stress::ALL, as the plans of their setups
    MaxTicks      \* bound on the ticks of a world

ASSUME SandboxAssumption ==
    /\ Plans \cup StressTests \subseteq Seq(BuilderCalls)
    /\ \A plan \in Plans \cup StressTests : Carried(plan).ok
    /\ Ipc \in Names
    /\ MaxTicks \in Nat

VARIABLES
    app,    \* SandboxApp, with its Loaded, its Clock and its AddNodeWindow
    asked,  \* has the user asked for ticks since they were last stopped?
    ran     \* the ticks that ran last: for whom, and how they ended

appVars == <<app, asked, ran>>

(* NativeWorld::snapshot, as far as it is drawn: what there is, not which  *)
(* handles were issued.                                                    *)
Picture(w) == [net |-> [w.net EXCEPT !.issued = {}], logics |-> w.logics]

Loaded == app.world # Nil

Refreshed(u) == [u EXCEPT !.snapshot = Picture(u.world)]

(* build: a fresh world, or none.  A test starts paused.                   *)
Build(u, works) ==
    LET plan == IF u.watching = Nil THEN u.scenario ELSE u.watching
        blank == [u EXCEPT !.selection = Nil, !.fuse = FALSE, !.playing = @ /\ u.watching = Nil]
    IN  IF works THEN Refreshed([blank EXCEPT !.world = Carried(plan).world, !.scope = Root])
        ELSE [blank EXCEPT !.world = Nil, !.snapshot = Nil, !.scope = Nil]

(* new, with the options to watch a test, to play, to open a node and to   *)
(* open the window that adds nodes.                                        *)
NewApp ==
    /\ \E scenario \in Plans, watching \in StressTests \cup {Nil}, play, works, adding \in BOOLEAN :
          LET u == Build([scenario |-> scenario, watching |-> watching, world |-> Nil, snapshot |-> Nil,
                          scope |-> Nil, selection |-> Nil, playing |-> TRUE, step |-> FALSE, fuse |-> FALSE,
                          adding |-> [open |-> adding, link |-> Nil]],
                         works)
          IN  \E open \in IF works THEN u.world.net.nodes ELSE {Nil} :
                 app = [u EXCEPT !.scope = open, !.playing = @ \/ play]
    /\ asked = app.playing
    /\ ran = [by |-> "no one", outcome |-> "ok"]

-----------------------------------------------------------------------------
(* Frames.  A frame runs every panel in a fixed order; at most one of them *)
(* is used in a frame here.  The window that adds nodes looks at its       *)
(* chosen link in every frame in which a world is shown.                   *)

(* What AddNodeWindow::ui makes of its link: one that is not the level's,  *)
(* or none chosen yet, becomes the level's first, which is any of them.    *)
LinkChoices(u) ==
    IF u.world = Nil \/ ~u.adding.open THEN {u.adding.link}
    ELSE LET links == u.snapshot.net.internal[u.scope]
         IN  IF u.adding.link = Nil \/ u.adding.link \in LinkIds \ links
             THEN IF links = {} THEN {"none"} ELSE links
             ELSE {u.adding.link}

(* What happens before that window's turn in the frame, and after it.      *)
Early(u) == \E v \in {u} : app' \in {[v EXCEPT !.adding.link = link] : link \in LinkChoices(v)}
Late(u) == app' \in {[u EXCEPT !.adding.link = link] : link \in LinkChoices(app)}

EarlyOnly(u) == Early(u) /\ UNCHANGED <<asked, ran>>
LateOnly(u) == Late(u) /\ UNCHANGED <<asked, ran>>

-----------------------------------------------------------------------------
(* The clock *)

SetPlaying(u, playing) == [u EXCEPT !.playing = playing]

(* Fault: only a fuse that trips stops the clock. *)
StoppedIfTripped(u, outcome) ==
    CASE outcome = "ok" -> Refreshed(u)
      [] outcome = "tripped" -> Refreshed([u EXCEPT !.playing = FALSE, !.fuse = TRUE])
      [] outcome = "failed" -> u

(* How run_ticks ends.                                                     *)
Stopped(u, outcome) ==
    CASE outcome = "ok" -> Refreshed(u)
      [] outcome = "tripped" -> Refreshed([u EXCEPT !.playing = FALSE, !.fuse = TRUE])
      [] outcome = "failed" -> [u EXCEPT !.playing = FALSE]

(* run_ticks: the last of the ticks may be the first that did not end well.*)
RunTicks(u, steps, by) ==
    \E done \in 1..steps, outcome \in {"ok", "tripped", "failed"} :
        /\ outcome = "ok" => done = steps
        /\ u.world.tick + done <= MaxTicks
        /\ Early(Stopped([u EXCEPT !.world.tick = @ + done], outcome))
        /\ ran' = [by |-> by, outcome |-> outcome]
        /\ asked' = (outcome = "ok" /\ u.playing)

(* advance: a step that was requested, and what is due if the clock plays. *)
Advance ==
    /\ Loaded /\ (app.step \/ app.playing)
    /\ \E due \in IF app.playing THEN 0..2 ELSE {0} :
          LET steps == due + IF app.step THEN 1 ELSE 0
          IN  steps > 0 /\ RunTicks([app EXCEPT !.step = FALSE], steps, "clock")

-----------------------------------------------------------------------------
(* Looking around *)

(* Fault: a node is taken to show itself. *)
ItselfOrOwner(net, item) ==
    LET up == IF item \in NodeIds THEN item ELSE net.owner[item]
    IN  IF up = Nil THEN Root ELSE up

(* container_of: the node whose level shows an item, or else the root.     *)
ContainerOf(net, item) ==
    LET up == IF item \in NodeIds THEN net.parent[item] ELSE net.owner[item]
    IN  IF up = Nil THEN Root ELSE up

(* select, from the canvas and from a panel.                               *)
SelectOnCanvas(u, item) == [u EXCEPT !.selection = item]
SelectInPanel(u, item) == [u EXCEPT !.selection = item, !.scope = ContainerOf(u.snapshot.net, item)]

(* Scene::new: the links of the level that is viewed, its children, and    *)
(* the outer links they use.                                               *)
Scene(net, scope) ==
    net.internal[scope] \cup net.children[scope] \cup UNION {net.subscriptions[n] : n \in net.children[scope]}

-----------------------------------------------------------------------------
(* Changing the world *)

(* Fault: the link made for the node stays. *)
LeaveLink(u, made) == u

UndoLink(u, made) == IF made = Nil THEN u ELSE [u EXCEPT !.world.net = RemoveLink(@, made).net]

BuildTemplateAt(w, order, name, at) ==
    IF order.template = "npc" THEN BuildNpcAt(w, name, order.spec, at) ELSE BuildComputerAt(w, name, order.spec, at)

(* The link a node is added to: none, one there is, or one made for it.    *)
LinkFor(w, onto) == IF onto \in Names THEN MakeLink(w, onto) ELSE Built(w, IF onto \in LinkIds THEN onto ELSE Nil)

(* add_node: its one outcome, in a set.                                    *)
AddNode(u, order, name, parent, onto) ==
    UNION {{LET left == [u EXCEPT !.world = built.world]
            IN  IF ~linked.ok THEN [ok |-> FALSE, app |-> u]
                ELSE IF ~built.ok
                THEN [ok |-> FALSE, app |-> UndoLink(left, IF onto \in Names THEN linked.node ELSE Nil)]
                ELSE [ok |-> TRUE, app |-> SelectOnCanvas(Refreshed(left), built.node)]
            : built \in {BuildTemplateAt(linked.world, order, name, [parent |-> parent, link |-> linked.node])}}
           : linked \in {LinkFor(u.world, onto)}}

(* The level that is viewed may have been inside the node.                 *)
BackIfGone(u) == IF u.scope \notin u.snapshot.net.nodes THEN [u EXCEPT !.scope = Root] ELSE u

RemoveShown(u, n) ==
    LET removed == RemoveWithLogic(u.world, n)
        left == Refreshed([u EXCEPT !.world = removed.world, !.selection = IF @ = n THEN Nil ELSE @])
    IN  IF removed.ok THEN BackIfGone(left) ELSE u

(* run_command.  A packet that is sent refreshes the picture in the same   *)
(* way and changes nothing in it.                                          *)
RunSetLogic(u, n, kind) ==
    LET set == SetLogic(u.world, n, Kind(kind))
    IN  IF set.ok THEN Refreshed([u EXCEPT !.world = set.world]) ELSE u
==============================================================================
