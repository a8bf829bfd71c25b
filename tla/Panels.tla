------------------------------- MODULE Panels -------------------------------
(***************************************************************************)
(* What the user of the sandbox does: the panels of its window, one action *)
(* for each (emergence-sandbox/src/main.rs, add_node.rs, graph_view.rs),   *)
(* the space bar, and the requests of the control port that change what    *)
(* the window shows (remote.rs).  An action has a disjunct for every thing *)
(* its panel lets one click.  Layout, dragging, zooming, the traffic log,  *)
(* the form a packet is written with and the limits of the fuse are left   *)
(* out: nothing of them is state that the others read.                     *)
(*                                                                         *)
(* A request names a node by name: it finds any node of the picture.  A    *)
(* request that finds none changes nothing, and is left out.               *)
(***************************************************************************)
EXTENDS Sandbox

CONSTANTS
    Uses,         \* what the window is used for: sets of Gestures
    Orders,       \* what is added: a template and its spec
    Kinds,        \* kinds of logic a node may be given
    MaxTreeDepth  \* MAX_TREE_DEPTH, the deepest level the hierarchy draws

Gestures == {"build", "clock", "browse", "alerts", "open", "adding", "add", "remove", "logic"}

ASSUME PanelsAssumption ==
    /\ Uses \subseteq SUBSET Gestures
    /\ \A order \in Orders :
          order \in [template: {"npc"}, spec: NpcSpecs] \cup [template: {"computer"}, spec: ComputerSpecs]
    /\ Kinds \subseteq LogicKinds /\ MaxTreeDepth \in Nat

VARIABLE use  \* what it is used for

windowVars == <<appVars, use>>

Net == app.snapshot.net

(* build again, with another plan or the same one.                         *)
Rebuilt(u) ==
    /\ \E works \in BOOLEAN : Early(Build(u, works))
    /\ asked' = (asked /\ u.watching = Nil)
    /\ UNCHANGED ran

Loading(scenario) == [app EXCEPT !.scenario = scenario, !.watching = Nil]
Watching(test) == [app EXCEPT !.watching = test]

-----------------------------------------------------------------------------
(* The clock's buttons and keys *)

Toggle == Early(SetPlaying(app, ~app.playing)) /\ asked' = ~app.playing /\ UNCHANGED ran

Space == "clock" \in use /\ Toggle

Toolbar ==
    \/ "build" \in use /\ \E u \in {app} \cup {Loading(scenario) : scenario \in Plans \ {app.scenario}} : Rebuilt(u)
    \/ "clock" \in use /\ Toggle
    \/ "clock" \in use /\ ~app.playing /\ EarlyOnly([app EXCEPT !.step = TRUE])

Frame == "clock" \in use /\ Advance

-----------------------------------------------------------------------------
(* The panels to the left, right and below *)

DepthOf(n) == Cardinality(AncestorsAndSelf(Net, n)) - 1

(* tree_node: the rows the tree can show, open where the user opened it.   *)
TreeRows ==
    LET nested == {n \in Net.nodes : Root \in AncestorsAndSelf(Net, n)}
    IN  {n \in nested : DepthOf(n) <= MaxTreeDepth}
        \cup UNION {Net.internal[n] : n \in {m \in nested : DepthOf(m) < MaxTreeDepth}}

Hierarchy == "browse" \in use /\ Loaded /\ \E item \in TreeRows : EarlyOnly(SelectInPanel(app, item))

(* The buttons that lead from an item to those it is tied to.              *)
Neighbours(item) ==
    (IF item \in NodeIds
     THEN {Net.parent[item]} \cup Net.subscriptions[item] \cup Net.internal[item] \cup Net.children[item]
     ELSE {Net.owner[item]} \cup Net.subscribers[item])
    \ {Nil}

InspectorOfNode(n) ==
    \/ "open" \in use /\ Net.children[n] # {} /\ EarlyOnly([app EXCEPT !.scope = n])
    \/ "remove" \in use /\ n # Root /\ EarlyOnly(RemoveShown(app, n))
    \/ "logic" \in use /\ \E kind \in Kinds : EarlyOnly(RunSetLogic(app, n, kind))

Inspector ==
    /\ Loaded /\ app.selection \in Net.nodes \cup Net.links
    /\ \/ "browse" \in use /\ \E item \in Neighbours(app.selection) : EarlyOnly(SelectInPanel(app, item))
       \/ app.selection \in NodeIds /\ InspectorOfNode(app.selection)

(* Alerts also name what has gone since.                                   *)
AlertsList == "alerts" \in use /\ Loaded /\ \E item \in app.world.net.issued : EarlyOnly(SelectInPanel(app, item))

(* The tests' tab: a test to watch.                                        *)
TestsTab == "build" \in use /\ Loaded /\ \E test \in StressTests : Rebuilt(Watching(test))

-----------------------------------------------------------------------------
(* The window that adds nodes *)

(* Bound: handles enough are left for what is ordered.                     *)
Room(order) ==
    /\ Cardinality(NodeIds \ app.world.net.issued) > (IF order.template = "computer" THEN Len(Parts(order.spec)) ELSE 0)
    /\ Cardinality(LinkIds \ app.world.net.issued) >= 2

(* placement_ui: another link of the level is chosen, or a new one, or none.*)
Placement ==
    \E choice \in Net.internal[app.scope] \cup {"new", "none"} : EarlyOnly([app EXCEPT !.adding.link = choice])

(* Another link is chosen, the node is added to the level that is viewed,  *)
(* or the window is closed.                                                *)
AddWindow ==
    /\ Loaded /\ app.adding.open
    /\ \E link \in LinkChoices(app) :
          \/ "adding" \in use /\ Placement
          \/ /\ "add" \in use
             /\ \E order \in {order \in Orders : Room(order)}, name \in Names,
                   onto \in IF link = "new" THEN Names ELSE {link} :
                   \E added \in AddNode(app, order, name, app.scope, onto) :
                      app' = [added.app EXCEPT !.adding.link = link] /\ UNCHANGED <<asked, ran>>
          \/ "adding" \in use /\ EarlyOnly([app EXCEPT !.adding = [open |-> FALSE, link |-> link]])

-----------------------------------------------------------------------------
(* The middle: breadcrumbs, the banner of a fuse that tripped, the canvas  *)

Breadcrumbs ==
    /\ Loaded
    /\ \/ /\ "open" \in use
          /\ \E n \in AncestorsAndSelf(Net, app.scope) \ {app.scope} : LateOnly([app EXCEPT !.scope = n])
       \/ "adding" \in use /\ LateOnly([app EXCEPT !.adding.open = TRUE])

FuseBanner ==
    /\ Loaded /\ app.fuse
    /\ \/ "alerts" \in use /\ \E item \in app.world.net.issued : LateOnly(SelectInPanel(app, item))
       \/ "clock" \in use /\ Late([SetPlaying(app, TRUE) EXCEPT !.fuse = FALSE]) /\ asked' = TRUE /\ UNCHANGED ran
       \/ "clock" \in use /\ LateOnly([app EXCEPT !.fuse = FALSE])

Canvas ==
    /\ Loaded
    /\ \/ "browse" \in use /\ \E item \in Scene(Net, app.scope) \cup {Nil} : LateOnly(SelectOnCanvas(app, item))
       \/ /\ "open" \in use
          /\ \E n \in Net.children[app.scope] : Net.children[n] # {} /\ LateOnly([app EXCEPT !.scope = n])
       \/ /\ "open" \in use /\ Net.parent[app.scope] # Nil
          /\ LateOnly([app EXCEPT !.scope = Net.parent[app.scope]])

-----------------------------------------------------------------------------
(* Requests *)

RequestBuild ==
    \E u \in {app} \cup {Loading(scenario) : scenario \in Plans} \cup {Watching(test) : test \in StressTests} : Rebuilt(u)

RequestPlay == Early([SetPlaying(app, TRUE) EXCEPT !.fuse = FALSE]) /\ asked' = TRUE /\ UNCHANGED ran
RequestPause == Early(SetPlaying(app, FALSE)) /\ asked' = FALSE /\ UNCHANGED ran
RequestStep == Loaded /\ \E steps \in 1..2 : RunTicks(SetPlaying(app, FALSE), steps, "request")

RequestOpen == Loaded /\ \E n \in Net.nodes : EarlyOnly([app EXCEPT !.scope = n])

RequestUp ==
    Loaded /\ Net.parent[app.scope] # Nil /\ EarlyOnly([app EXCEPT !.scope = Net.parent[app.scope]])

RequestSelect == Loaded /\ \E n \in Net.nodes : EarlyOnly(SelectInPanel(app, n))

(* remote_add, which also shows the level it added to.                     *)
RequestAdd ==
    /\ Loaded
    /\ \E order \in {order \in Orders : Room(order)}, name \in Names, parent \in Net.nodes :
          \E onto \in Net.internal[parent] \cup Names \cup {"none"} :
             \E added \in AddNode(app, order, name, parent, onto) :
                EarlyOnly(IF added.ok THEN [added.app EXCEPT !.scope = parent] ELSE added.app)

RequestRemove == Loaded /\ \E n \in Net.nodes : EarlyOnly(RemoveShown(app, n))
RequestLogic == Loaded /\ \E n \in Net.nodes, kind \in Kinds : EarlyOnly(RunSetLogic(app, n, kind))

Request ==
    \/ "build" \in use /\ RequestBuild
    \/ "clock" \in use /\ (RequestPlay \/ RequestPause \/ RequestStep)
    \/ "open" \in use /\ (RequestOpen \/ RequestUp)
    \/ "browse" \in use /\ RequestSelect
    \/ "add" \in use /\ RequestAdd
    \/ "remove" \in use /\ RequestRemove
    \/ "logic" \in use /\ RequestLogic

-----------------------------------------------------------------------------
Start == NewApp /\ use \in Uses /\ (app.adding.open => "adding" \in use)

(* update, in the order of its calls *)
Update ==
    /\ \/ Space \/ Request \/ Frame \/ Toolbar
       \/ Hierarchy \/ Inspector \/ AlertsList \/ TestsTab
       \/ AddWindow
       \/ Breadcrumbs \/ FuseBanner \/ Canvas
    /\ UNCHANGED use

WindowSpec == Start /\ [][Update]_windowVars

-----------------------------------------------------------------------------
(* Properties *)

(* What the window draws is the world it drives, however an addition fails *)
(* half-way, and the level it shows is a node of it, whatever was removed: *)
(* every button and request works on what is drawn (main.rs:742, 774).     *)
PictureIsTrue ==
    Loaded => app.snapshot = Picture(app.world) /\ app.scope \in app.world.net.nodes

(* Once ticks tripped the fuse or failed, or the user paused, or a test    *)
(* was loaded to watch, the clock runs none of its own accord: only after  *)
(* Play, the space bar or Resume, or for a Step that waits (main.rs:422).  *)
StandsUntilAsked ==
    [][Loaded /\ Loaded' /\ app'.world.tick > app.world.tick /\ ran'.by = "clock" => asked \/ app.step]_windowVars

(* Whatever takes one to another level and selects something on the way -  *)
(* a row of the tree, a button of the inspector, an alert, an addition -   *)
(* takes one to a level whose canvas shows it, if any level does           *)
(* (main.rs:281, graph_view.rs:65, remote.rs:403).                         *)
SelectionIsShown ==
    [][Loaded /\ Loaded' /\ app'.scope # app.scope /\ app'.selection # app.selection
          => \/ app'.selection \in Scene(app'.snapshot.net, app'.scope) \cup {Nil}
             \/ \A n \in app'.snapshot.net.nodes : app'.selection \notin Scene(app'.snapshot.net, n)]_windowVars
=============================================================================
