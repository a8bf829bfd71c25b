------------------------------- MODULE Control -------------------------------
(***************************************************************************)
(* The sandbox's control port (emergence-sandbox/src/control.rs, remote.rs)*)
(* and the tests it runs in the background (tests_panel.rs, stress.rs).    *)
(* Each connection's thread hands one request at a time to the UI thread   *)
(* and waits for the reply, or gives up.  The UI thread works in frames:   *)
(* it takes in what the test thread reports, executes every request that   *)
(* waits, and answers those it put off: for tests to end, for an image of  *)
(* the window to arrive.  A frame is one step here: what other threads do  *)
(* meanwhile it sees in the next one.                                      *)
(*                                                                         *)
(* Requests answered at once are all like "results" (the effects they have *)
(* are those of Panels).  A report of a test has the number of the run     *)
(* that it is from.  Threads that cannot be started are left out.          *)
(*                                                                         *)
(* A definition marked `Fault:` is not the code's.                         *)
(***************************************************************************)
EXTENDS Probe

CONSTANTS
    Conns,     \* connections to the port
    All,       \* stress::ALL, the tests in order
    Course,    \* what the `verify` of each test does
    Asks,      \* what each connection may ask for
    MaxAsks,   \* bound on the requests of each connection
    MaxRuns    \* bound on the runs started

Tests == ToSet(All)

Requests ==
    {[is |-> "results"], [is |-> "screenshot"], [is |-> "quit"]}
    \cup {[is |-> "run", tests |-> list, wait |-> wait] : list \in {<<t>> : t \in Tests} \cup {All}, wait \in BOOLEAN}

ASSUME ControlAssumption ==
    /\ All \in Seq(Tests) /\ IsInjective(All)
    /\ Course \in [Tests -> Seq(CourseSteps)]
    /\ Asks \in [Conns -> SUBSET Requests]
    /\ MaxAsks \in [Conns -> Nat] /\ MaxRuns \in Nat

Outcomes == [t \in Tests |-> Reports(Course[t])]

VARIABLES
    client,    \* each connection: is it waiting, how many requests it made, what it heard last
    queue,     \* ControlServer.requests
    replies,   \* answers in their channels
    app,       \* what the UI thread keeps
    thread     \* the test thread: what it has to do, what it is at, whether it is cancelled

vars == <<client, queue, replies, app, thread>>

Silence == [is |-> "nothing"]

(* A test that was not run has no report.                                  *)
NoReport == [run |-> 0, report |-> ErrorReport]

(* Answers: those of the UI thread say which request of whom they are to,  *)
(* unlike what a connection's thread itself answers.                       *)
NoAnswer == [is |-> "error"]
Error(to) == [is |-> "error", to |-> to]
Done(to) == [is |-> "done", to |-> to]

Init ==
    /\ client = [c \in Conns |-> [state |-> "ready", asks |-> 0, heard |-> Silence]]
    /\ queue = <<>> /\ replies = {}
    /\ app = [open |-> TRUE, running |-> FALSE, runs |-> 0, reports |-> [t \in Tests |-> NoReport],
              waiters |-> <<>>, shot |-> {}, images |-> 0, answers |-> {}]
    /\ thread = [alive |-> FALSE, todo |-> <<>>, busy |-> FALSE, cancelled |-> FALSE, events |-> <<>>]

-----------------------------------------------------------------------------
(* A connection's thread (serve)                                           *)

(* Fault: a connection has one channel for all its replies. *)
ChannelOfConnection(c, no) == <<c, 0>>

(* Every request gets a channel of its own. *)
Channel(c, no) == <<c, no>>

WaitsOn(channel) ==
    \E c \in Conns : client[c].state = "waiting" /\ channel = Channel(c, client[c].asks)

Hear(c, answer) == client' = [client EXCEPT ![c].state = "ready", ![c].heard = answer]

(* Bound: runs are only asked for, or started by a click, up to MaxRuns.   *)
MayRun == app.runs + Len(SelectSeq(queue, LAMBDA p : p.request.is = "run")) < MaxRuns

Ask(c, request) ==
    /\ request.is = "run" => MayRun
    /\ client[c].state = "ready" /\ client[c].asks < MaxAsks[c]
    /\ IF app.open
       THEN /\ client' = [client EXCEPT ![c].state = "waiting", ![c].asks = @ + 1, ![c].heard = Silence]
            /\ queue' = Append(queue, [to |-> <<c, client[c].asks + 1>>, request |-> request])
       ELSE client' = [client EXCEPT ![c].state = "gone"] /\ UNCHANGED queue
    /\ UNCHANGED <<replies, app, thread>>

(* A line that is no request is answered by the thread itself.             *)
AskNonsense(c) ==
    /\ client[c].state = "ready" /\ client[c].asks < MaxAsks[c]
    /\ client' = [client EXCEPT ![c].asks = @ + 1, ![c].heard = NoAnswer]
    /\ UNCHANGED <<queue, replies, app, thread>>

TakeReply(c) ==
    /\ client[c].state = "waiting"
    /\ \E r \in replies :
          /\ r.channel = Channel(c, client[c].asks)
          /\ Hear(c, r.answer) /\ replies' = replies \ {r}
    /\ UNCHANGED <<queue, app, thread>>

(* REPLY_TIMEOUT has passed, or the app is gone: the channel is dropped.   *)
GiveUp(c) ==
    /\ client[c].state = "waiting"
    /\ Hear(c, NoAnswer)
    /\ replies' = {r \in replies : r.channel # Channel(c, client[c].asks)}
    /\ UNCHANGED <<queue, app, thread>>

-----------------------------------------------------------------------------
(* The test thread (run_all)                                               *)

(* Fault: a cancelled run ends without a word. *)
ReturnWhenCancelled(t, report) ==
    CASE t.busy -> [t EXCEPT !.busy = FALSE, !.todo = Tail(@),
                             !.events = Append(@, [is |-> "finished", test |-> Head(t.todo), report |-> report])]
      [] ~t.busy /\ t.cancelled -> [t EXCEPT !.alive = FALSE]
      [] ~t.busy /\ ~t.cancelled /\ t.todo = <<>> ->
            [t EXCEPT !.alive = FALSE, !.events = Append(@, [is |-> "done"])]
      [] OTHER -> [t EXCEPT !.busy = TRUE, !.events = Append(@, [is |-> "started"])]

(* The report is that of the test the thread is at.                        *)
RunAll(t, report) ==
    CASE t.busy -> [t EXCEPT !.busy = FALSE, !.todo = Tail(@),
                             !.events = Append(@, [is |-> "finished", test |-> Head(t.todo), report |-> report])]
      [] ~t.busy /\ (t.cancelled \/ t.todo = <<>>) ->
            [t EXCEPT !.alive = FALSE, !.events = Append(@, [is |-> "done"])]
      [] OTHER -> [t EXCEPT !.busy = TRUE, !.events = Append(@, [is |-> "started"])]

ThreadStep ==
    /\ thread.alive
    /\ UNCHANGED <<client, queue, replies, app>>
    /\ \E report \in IF thread.busy THEN Outcomes[Head(thread.todo)] ELSE {ErrorReport} :
          thread' = RunAll(thread, report)

-----------------------------------------------------------------------------
(* The UI thread.  u is its state with the test thread's, as a frame goes. *)

Reply(answer) == [channel |-> Channel(answer.to[1], answer.to[2]), answer |-> answer]
Answered(u, answer) == [u EXCEPT !.app.answers = @ \cup {Reply(answer)}]

(* TestsPanel::run and Runner::start *)
StartTests(u, tests) ==
    IF u.app.running \/ tests = <<>> THEN u
    ELSE [app |-> [u.app EXCEPT !.running = TRUE, !.runs = @ + 1,
                                !.reports = [t \in Tests |-> IF t \in ToSet(tests) THEN NoReport ELSE @[t]]],
          thread |-> [alive |-> TRUE, todo |-> tests, busy |-> FALSE, cancelled |-> FALSE, events |-> <<>>]]

(* TestsPanel::poll *)
Event(u, event) ==
    CASE event.is = "finished" ->
            [u EXCEPT !.app.reports[event.test] = [run |-> u.app.runs, report |-> event.report]]
      [] event.is = "done" -> [u EXCEPT !.app.running = FALSE]
      [] OTHER -> u

Poll(u) ==
    IF u.app.running THEN [FoldLeft(Event, u, u.thread.events) EXCEPT !.thread.events = <<>>] ELSE u

(* Whose results they are.                                                 *)
Results(u, to, run, tests) ==
    [is |-> "results", to |-> to, run |-> run, tests |-> tests,
     runs |-> [t \in Tests |-> u.app.reports[t].run]]

Run(u, p) ==
    LET started == StartTests(u, p.request.tests)
    IN  CASE u.app.running -> Answered(u, Error(p.to))
          [] ~u.app.running /\ p.request.wait ->
                [started EXCEPT !.app.waiters =
                    Append(@, [to |-> p.to, run |-> started.app.runs, tests |-> p.request.tests])]
          [] OTHER -> Answered(started, Done(p.to))

Screenshot(u, p) ==
    IF u.app.shot # {} THEN Answered(u, Error(p.to))
    ELSE [u EXCEPT !.app.shot = {p.to}, !.app.images = @ + 1]

(* execute, and the reply if there is one *)
Execute(u, p) ==
    CASE p.request.is = "run" -> Run(u, p)
      [] p.request.is = "screenshot" -> Screenshot(u, p)
      [] p.request.is = "results" -> Answered(u, Results(u, p.to, 0, <<>>))
      [] p.request.is = "quit" -> Answered([u EXCEPT !.app.open = FALSE], Done(p.to))
      [] OTHER -> Answered(u, Done(p.to))

AnswerWaiters(u) ==
    IF u.app.running THEN u
    ELSE [u EXCEPT !.app.waiters = <<>>,
                   !.app.answers = @ \cup {Reply(Results(u, w.to, w.run, w.tests)) : w \in ToSet(u.app.waiters)}]

(* An image comes in a frame after the one that asked for it.              *)
AnswerShot(u, arrived) ==
    IF ~arrived THEN u
    ELSE [u EXCEPT !.app.shot = {}, !.app.images = @ - 1,
                   !.app.answers = @ \cup {Reply(Done(to)) : to \in u.app.shot}]

(* handle_control *)
HandleControl(u, arrived) == AnswerShot(AnswerWaiters(FoldLeft(Execute, u, queue)), arrived)

(* TestsPanel::status, of a test that is not running or queued.            *)
HasFailed(u, t) == u.app.reports[t].run # 0 /\ ~u.app.reports[t].report.passed

(* The buttons of the tests panel: Stop; Run all, Re-run failed, or Run.   *)
Failing(u) == FoldLeft(LAMBDA list, t : IF HasFailed(u, t) THEN Append(list, t) ELSE list, <<>>, All)

Stop(u) == IF u.app.running THEN [u EXCEPT !.thread.cancelled = TRUE] ELSE u

Frame(arrived, Clicked(_)) ==
    /\ app.open
    /\ arrived => app.images > 0
    /\ queue' = <<>>
    /\ UNCHANGED client
    /\ \E after \in {Clicked(HandleControl(Poll([app |-> app, thread |-> thread]), arrived))} :
          /\ app' = [after.app EXCEPT !.answers = {}]
          /\ thread' = after.thread
          /\ replies' = replies \cup {r \in after.app.answers : WaitsOn(r.channel)}

FrameWithStop(arrived) == Frame(arrived, Stop)

FrameWithRun(arrived) ==
    /\ MayRun
    /\ \/ LET Again(u) == StartTests(u, Failing(u)) IN Frame(arrived, Again)
       \/ \E list \in {<<t>> : t \in Tests} \cup {All} :
             LET Start(u) == StartTests(u, list) IN Frame(arrived, Start)

PlainFrame(arrived) == LET Nothing(u) == u IN Frame(arrived, Nothing)

-----------------------------------------------------------------------------
Next ==
    \/ \E c \in Conns : TakeReply(c) \/ GiveUp(c) \/ AskNonsense(c) \/ \E request \in Asks[c] : Ask(c, request)
    \/ ThreadStep
    \/ \E arrived \in BOOLEAN : PlainFrame(arrived) \/ FrameWithStop(arrived) \/ FrameWithRun(arrived)

Spec == Init /\ [][Next]_vars

(* The test thread keeps running, and while it does the window asks for    *)
(* another frame every 100 ms (tests_panel.rs:117).                        *)
FairSpec == Spec /\ WF_vars(ThreadStep) /\ WF_vars(PlainFrame(FALSE))

-----------------------------------------------------------------------------
(* Properties *)

(* What a connection is answered is the answer to the request it made      *)
(* last, though requests time out and are executed later all the same, and *)
(* answers are put off past those of other connections (control.rs:182).   *)
OwnAnswer ==
    \A c \in Conns :
        "to" \in DOMAIN client[c].heard => client[c].heard.to = <<c, client[c].asks>>

(* Tests that are running stop running, stopped or not, unless the window  *)
(* closes: clients that wait for them are not left waiting, and tests can  *)
(* be run again (stress.rs:436, tests_panel.rs:112).  As the runs are      *)
(* bounded, each of them ends exactly if there is always a later moment    *)
(* when none is on.                                                        *)
RunsEnd == []<>~(app.open /\ app.running)

(* A test is shown to have passed only if it was let run all the ticks     *)
(* that it is about, or up to where the fuse tripped in them: a test that  *)
(* was stopped, by the user or as it took too long, that failed half-way   *)
(* or that could not even begin never passes (stress.rs:142, 151).         *)
PassedToTheEnd ==
    \A t \in Tests :
        LET report == app.reports[t].report
        IN  report.passed => report.fuse \/ report.ticks = Asked(Course[t])

(* "Run the whole checklist and print the results" (README.md:237): what   *)
(* one who waits for a run is told of its tests is what that run found.    *)
RunTellsItsResults ==
    \A c \in Conns :
        LET heard == client[c].heard
        IN  heard.is = "results" => \A i \in DOMAIN heard.tests : heard.runs[heard.tests[i]] \in {0, heard.run}
=============================================================================
