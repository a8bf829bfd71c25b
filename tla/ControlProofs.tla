---------------------------- MODULE ControlProofs ----------------------------
(***************************************************************************)
(* Proofs about the control port and the tests it runs (Control), and how  *)
(* a test comes to its report (Probe).                                     *)
(***************************************************************************)
EXTENDS Control, FoldProofs, SequenceTheorems

-----------------------------------------------------------------------------
(* How a test comes to its report *)

Probes == [ticks: Nat, fuse: BOOLEAN, stopped: BOOLEAN, failed: BOOLEAN, lines: Seq(BOOLEAN)]

ReportType == [passed: BOOLEAN, ticks: Nat, fuse: BOOLEAN]

Weight(course) == [i \in DOMAIN course |-> IF course[i].is = "run" THEN course[i].ticks ELSE 0]

LEMMA StepsOfACourse ==
    ASSUME NEW course \in Seq(CourseSteps), NEW i \in DOMAIN course
    PROVE  /\ course[i].is \in {"check", "run"}
           /\ course[i].is = "run" => course[i].ticks \in Nat /\ course[i].through \in BOOLEAN
<1>1. course[i] \in CourseSteps
  OBVIOUS
<1> QED
  BY <1>1 DEF CourseSteps

LEMMA AskedIsASum ==
    ASSUME NEW course \in Seq(CourseSteps)
    PROVE  \E sum : /\ sum \in [SUBSET DOMAIN course -> Nat]
                    /\ IsSum(DOMAIN course, Weight(course), sum)
                    /\ Asked(course) = sum[DOMAIN course]
<1> DEFINE S == DOMAIN course
           f == Weight(course)
           pick == [s \in SUBSET S |-> CHOOSE x \in s : TRUE]
           Fold(g) == [s \in SUBSET S |->
                          IF s = {} THEN 0
                          ELSE g[s \ {CHOOSE x \in s : TRUE}]
                               + IF course[CHOOSE x \in s : TRUE].is = "run"
                                 THEN course[CHOOSE x \in s : TRUE].ticks ELSE 0]
           fold == CHOOSE g : g = Fold(g)
<1>1. Asked(course) = fold[S]
  BY DEF Asked, FoldSeq, FoldFunction, FoldFunctionOnSet, MapThenFoldSet
<1>2. f \in [S -> Nat]
  BY StepsOfACourse DEF Weight
<1>3. \A s \in SUBSET S : s # {} => pick[s] = (CHOOSE x \in s : TRUE) /\ pick[s] \in S
  OBVIOUS
<1>4. \A x \in S : f[x] = IF course[x].is = "run" THEN course[x].ticks ELSE 0
  BY DEF Weight
<1>5. Picks(S, pick)
  <2>1. IsFiniteSet(S)
    BY FS_Interval, LenProperties
  <2> QED
    BY <2>1 DEF Picks
<1> HIDE DEF S, f, pick
<1>6. PICK g : Adds(S, f, pick, g)
  BY <1>2, <1>5, SumExists
<1>7. g = Fold(g)
  <2>1. \A s \in SUBSET S : s # {} => f[pick[s]] = IF course[pick[s]].is = "run" THEN course[pick[s]].ticks ELSE 0
    BY <1>3, <1>4
  <2>2. \A s \in SUBSET S : (IF s = {} THEN 0 ELSE g[s \ {pick[s]}] + f[pick[s]]) = Fold(g)[s]
    BY <1>3, <2>1
  <2> QED
    BY <1>6, <2>2 DEF Adds
<1>8. fold = Fold(fold)
  BY <1>7
<1> HIDE DEF fold
<1>9. Adds(S, f, pick, fold)
  <2>1. \A s \in SUBSET S : s # {} => f[pick[s]] = IF course[pick[s]].is = "run" THEN course[pick[s]].ticks ELSE 0
    BY <1>3, <1>4
  <2>2. \A s \in SUBSET S : (IF s = {} THEN 0 ELSE fold[s \ {pick[s]}] + f[pick[s]]) = Fold(fold)[s]
    BY <1>3, <2>1
  <2> QED
    BY <1>8, <2>2 DEF Adds
<1>10. fold \in [SUBSET S -> Nat] /\ IsSum(S, f, fold)
  BY <1>2, <1>5, <1>9, SumInAnyOrder
<1> QED
  BY <1>1, <1>10 DEF S, f

LEMMA SmallestOf ==
    ASSUME NEW T \in SUBSET Nat, T # {}
    PROVE  Min(T) \in T /\ \A k \in T : Min(T) <= k
BY SmallestNat DEF Min

LEMMA LargestOfTwo ==
    ASSUME NEW a \in Nat, NEW b \in Nat
    PROVE  Max({a, b}) = IF a >= b THEN a ELSE b
<1> DEFINE T == {a, b}
           m == IF a >= b THEN a ELSE b
<1>1. m \in T /\ \A y \in T : m >= y
  OBVIOUS
<1>2. \A x \in T : (\A y \in T : x >= y) => x = m
  OBVIOUS
<1> HIDE DEF T, m
<1>3. Max(T) = m
  BY <1>1, <1>2 DEF Max
<1> QED
  BY <1>3 DEF T, m

(* The ticks of a step are all done, unless something stopped them.        *)
LEMMA RunTicksGoOn ==
    ASSUME NEW course \in Seq(CourseSteps), NEW luck \in Luck(course),
           NEW p \in Probes, NEW i \in DOMAIN course, course[i].is = "run"
    PROVE  LET q == RunTicks(p, course[i], luck)
           IN  /\ q \in Probes
               /\ ~q.failed /\ ~q.stopped /\ ~q.fuse =>
                     ~p.stopped /\ ~p.fuse /\ q.ticks = p.ticks + course[i].ticks
<1> DEFINE step == course[i]
           upto == p.ticks + step.ticks
           trips == {t \in luck.trips : t > p.ticks /\ t <= upto}
           T == {upto} \cup (IF step.through THEN {} ELSE trips) \cup ({luck.fails} \cap (p.ticks + 1)..upto)
           last == Min(T)
           stop == Max({luck.stops, p.ticks})
           reached == Min({stop, last})
           failed == reached = luck.fails
           ticks == IF failed THEN reached - 1 ELSE reached
           q == RunTicks(p, step, luck)
<1>1. step.ticks \in Nat /\ step.through \in BOOLEAN
  BY StepsOfACourse
<1>2. luck.trips \subseteq Nat /\ luck.fails \in Nat \ {0} /\ luck.stops \in Nat
  <2>1. PICK sum : sum \in [SUBSET DOMAIN course -> Nat] /\ Asked(course) = sum[DOMAIN course]
    BY AskedIsASum
  <2>2. Asked(course) \in Nat
    BY <2>1
  <2> QED
    BY <2>2 DEF Luck, Never
<1>3. p.ticks \in Nat /\ p.fuse \in BOOLEAN /\ p.stopped \in BOOLEAN /\ p.failed \in BOOLEAN /\ p.lines \in Seq(BOOLEAN)
  BY DEF Probes
<1> HIDE DEF step
<1>4. upto \in Nat /\ T \in SUBSET Nat /\ upto \in T
  BY <1>1, <1>2, <1>3
<1>5. last \in T /\ last \in Nat /\ last <= upto
  <2> HIDE DEF T, upto
  <2>1. last \in T /\ \A k \in T : last <= k
    BY <1>4, SmallestOf
  <2> QED
    BY <1>4, <2>1
<1>6. stop \in Nat
  BY <1>2, <1>3, LargestOfTwo
<1>7. q = [p EXCEPT !.ticks = ticks, !.fuse = @ \/ \E t \in trips : t <= ticks,
                    !.stopped = @ \/ stop < last, !.failed = failed]
  BY DEF RunTicks
<1> HIDE DEF last, stop, q
<1>8. reached \in {stop, last} /\ reached \in Nat /\ reached <= stop /\ reached <= last
  <2> DEFINE ends == {stop, last}
  <2>1. ends \in SUBSET Nat /\ ends # {}
    BY <1>5, <1>6
  <2>2. stop \in ends /\ last \in ends
    OBVIOUS
  <2> HIDE DEF ends
  <2>3. Min(ends) \in ends /\ \A k \in ends : Min(ends) <= k
    BY <2>1, SmallestOf
  <2>4. reached = Min(ends)
    BY DEF ends
  <2> QED
    BY <2>1, <2>2, <2>3, <2>4 DEF ends
<1> HIDE DEF reached
<1>9. ticks \in Nat /\ (~failed => ticks = reached) /\ failed \in BOOLEAN
  BY <1>2, <1>8
<1> HIDE DEF ticks, failed
<1>10. /\ q.ticks = ticks /\ q.fuse = (p.fuse \/ \E t \in trips : t <= ticks)
      /\ q.stopped = (p.stopped \/ stop < last) /\ q.failed = failed
  BY <1>7 DEF Probes
<1>11. q \in Probes
  BY <1>3, <1>7, <1>9 DEF Probes
<1>12. ASSUME ~q.failed, ~q.stopped, ~q.fuse
       PROVE  ~p.stopped /\ ~p.fuse /\ q.ticks = upto
  <2>1. ~p.stopped /\ ~p.fuse /\ ~(stop < last) /\ ~failed /\ \A t \in trips : ~(t <= ticks)
    BY <1>3, <1>10, <1>12
  <2>2. ticks = last
    BY <1>5, <1>6, <1>8, <1>9, <2>1
  <2>3. last \notin trips
    BY <1>5, <2>1, <2>2
  <2>4. last = upto
    BY <1>5, <1>8, <1>9, <2>1, <2>2, <2>3 DEF failed
  <2> QED
    BY <1>10, <2>1, <2>2, <2>4
<1> QED
  BY <1>11, <1>12 DEF q, step

(* Where a test gets that was not stopped, did not fail, and did not trip. *)
LEMMA VerifiedGetsThrough ==
    ASSUME NEW course \in Seq(CourseSteps), NEW luck \in Luck(course)
    PROVE  LET p == Verified(course, luck)
           IN  /\ p \in Probes
               /\ ~p.failed /\ ~p.stopped /\ ~p.fuse => p.ticks = Asked(course)
<1> DEFINE S == DOMAIN course
           V == Probes
           f == Weight(course)
           LastIn(s) == CHOOSE x \in s : \A y \in s : x >= y
           pick == [s \in SUBSET S |-> LastIn(s)]
           step == [c \in S \X V |-> Did(c[2], course[c[1]], luck, c[1])]
           index == [i \in DOMAIN course |-> i]
           Fold(g) == [s \in SUBSET S |->
                         IF s = {} THEN Started
                         ELSE Did(g[s \ {LastIn(s)}], course[index[LastIn(s)]], luck, index[LastIn(s)])]
           fold == CHOOSE g : g = Fold(g)
<1>1. Verified(course, luck) = fold[S]
  <2>1. DOMAIN index = S
    OBVIOUS
  <2> QED
    BY <2>1 DEF Verified, FoldLeftDomain, FoldLeft, MapThenFoldSet, Max
<1>2. PICK sum : sum \in [SUBSET S -> Nat] /\ IsSum(S, f, sum) /\ Asked(course) = sum[S]
  BY AskedIsASum
<1>3. S = 1..Len(course) /\ Len(course) \in Nat /\ IsFiniteSet(S)
  BY LenProperties, FS_Interval
<1>4. \A s \in SUBSET S : s # {} => pick[s] = LastIn(s) /\ pick[s] \in s
  BY <1>3, LastIndex
<1>5. ASSUME NEW x \in S, NEW p \in V
      PROVE  /\ step[<<x, p>>] = Did(p, course[x], luck, x) /\ step[<<x, p>>] \in V
             /\ LET q == step[<<x, p>>]
                IN  ~q.failed /\ ~q.stopped /\ ~q.fuse =>
                       ~p.failed /\ ~p.stopped /\ ~p.fuse /\ q.ticks = p.ticks + f[x]
  <2> DEFINE q == step[<<x, p>>]
  <2>1. q = Did(p, course[x], luck, x)
    OBVIOUS
  <2>2. /\ p.failed \in BOOLEAN /\ p.ticks \in Nat /\ p.lines \in Seq(BOOLEAN)
        /\ course[x].is \in {"check", "run"}
    BY StepsOfACourse DEF Probes
  <2> HIDE DEF V, q, step
  <2>3. CASE p.failed
    BY <2>1, <2>3 DEF Did, q
  <2>4. CASE ~p.failed /\ course[x].is = "run"
    <3>1. q = RunTicks(p, course[x], luck)
      BY <2>1, <2>4 DEF Did
    <3>2. f[x] = course[x].ticks
      BY <2>4 DEF Weight
    <3>3. q \in V /\ (~q.failed /\ ~q.stopped /\ ~q.fuse => ~p.stopped /\ ~p.fuse /\ q.ticks = p.ticks + f[x])
      BY <2>4, <3>1, <3>2, RunTicksGoOn DEF V
    <3> QED
      BY <2>1, <2>4, <3>3 DEF q
  <2>5. CASE ~p.failed /\ course[x].is = "check"
    <3>1. q = [p EXCEPT !.lines = Append(@, x \notin luck.misses)]
      BY <2>1, <2>5 DEF Did
    <3>2. f[x] = 0
      BY <2>5 DEF Weight
    <3>3. q \in V
      <4>1. (x \notin luck.misses) \in BOOLEAN
        OBVIOUS
      <4>2. Append(p.lines, x \notin luck.misses) \in Seq(BOOLEAN)
        BY <2>2, <4>1
      <4> QED
        BY <3>1, <4>2 DEF V, Probes
    <3>4. q.ticks = p.ticks /\ q.failed = p.failed /\ q.stopped = p.stopped /\ q.fuse = p.fuse
      BY <3>1 DEF V, Probes
    <3> QED
      BY <2>1, <2>2, <3>2, <3>3, <3>4 DEF q
  <2> QED
    BY <2>2, <2>3, <2>4, <2>5
<1>6. Started \in V
  BY DEF Started, Probes
<1>7. f \in [S -> Nat]
  BY StepsOfACourse DEF Weight
<1>8. \A x \in S : index[x] = x
  OBVIOUS
<1> HIDE DEF S, V, f, index, step, pick
<1>9. Steps(S, V, Started, pick, step)
  BY <1>3, <1>4, <1>5, <1>6 DEF Steps
<1>10. PICK g \in [SUBSET S -> V] : IsFold(S, Started, pick, step, g)
  BY <1>9, FoldExists
<1>11. g = Fold(g)
  <2>1. \A s \in SUBSET S : g[s] = Fold(g)[s]
    <3> TAKE s \in SUBSET S
    <3>1. CASE s = {}
      BY <1>10, <3>1 DEF IsFold
    <3>2. CASE s # {}
      <4>1. pick[s] \in S /\ pick[s] = LastIn(s) /\ g[s \ {pick[s]}] \in V
        BY <1>4, <1>10, <3>2
      <4>2. g[s] = Did(g[s \ {pick[s]}], course[pick[s]], luck, pick[s])
        BY <1>5, <1>10, <3>2, <4>1 DEF IsFold
      <4> QED
        BY <1>8, <3>2, <4>1, <4>2
    <3> QED
      BY <3>1, <3>2
  <2> QED
    BY <1>10, <2>1
<1>12. fold = Fold(fold)
  BY <1>11
<1> HIDE DEF fold
<1>13. IsFoldWithin(S, V, Started, pick, step, fold)
  <2>1. fold[{}] = Started
    BY <1>12
  <2>2. \A s \in SUBSET S : s # {} /\ fold[s \ {pick[s]}] \in V =>
           fold[s] = step[<<pick[s], fold[s \ {pick[s]}]>>]
    <3> TAKE s \in SUBSET S
    <3> SUFFICES ASSUME s # {}, fold[s \ {pick[s]}] \in V
                 PROVE  fold[s] = step[<<pick[s], fold[s \ {pick[s]}]>>]
      OBVIOUS
    <3>1. pick[s] \in S /\ pick[s] = LastIn(s) /\ index[pick[s]] = pick[s]
      BY <1>4, <1>8
    <3>2. fold[s] = Did(fold[s \ {pick[s]}], course[pick[s]], luck, pick[s])
      <4>1. fold[s] = Did(fold[s \ {LastIn(s)}], course[index[LastIn(s)]], luck, index[LastIn(s)])
        BY <1>12
      <4> HIDE DEF LastIn
      <4> QED
        BY <3>1, <4>1
    <3> QED
      BY <1>5, <3>1, <3>2
  <2> QED
    BY <2>1, <2>2 DEF IsFoldWithin
<1> DEFINE F == [s \in SUBSET S |-> {p \in V : ~p.failed /\ ~p.stopped /\ ~p.fuse => p.ticks = sum[s]}]
<1>14. Started \in F[{}]
  <2>1. sum[{}] = 0 /\ Started.ticks = 0
    BY <1>2 DEF IsSum, Started
  <2> QED
    BY <1>6, <2>1
<1>15. \A s \in SUBSET S : s # {} => \A p \in V : p \in F[s \ {pick[s]}] => step[<<pick[s], p>>] \in F[s]
  <2> TAKE s \in SUBSET S
  <2> HAVE s # {}
  <2> TAKE p \in V
  <2> HAVE p \in F[s \ {pick[s]}]
  <2> DEFINE q == step[<<pick[s], p>>]
  <2>1. pick[s] \in s /\ pick[s] \in S
    BY <1>4
  <2>2. q \in V /\ (~q.failed /\ ~q.stopped /\ ~q.fuse =>
                      ~p.failed /\ ~p.stopped /\ ~p.fuse /\ q.ticks = p.ticks + f[pick[s]])
    BY <1>5, <2>1
  <2>3. sum[s] = sum[s \ {pick[s]}] + f[pick[s]]
    BY <1>2, <2>1 DEF IsSum
  <2>4. ~p.failed /\ ~p.stopped /\ ~p.fuse => p.ticks = sum[s \ {pick[s]}]
    OBVIOUS
  <2> HIDE DEF q
  <2>5. ~q.failed /\ ~q.stopped /\ ~q.fuse => q.ticks = sum[s]
    BY <2>2, <2>3, <2>4
  <2>6. q \in F[s]
    BY <2>2, <2>5
  <2> QED
    BY <2>6 DEF q
<1> HIDE DEF F
<1>16. fold[S] \in V /\ fold[S] \in F[S]
  BY <1>9, <1>13, <1>14, <1>15, FoldFollows, SMTT(30)
<1> QED
  BY <1>1, <1>2, <1>16 DEF F, V

LEMMA ReportsAreFair ==
    ASSUME NEW course \in Seq(CourseSteps), NEW r \in Reports(course)
    PROVE  r \in ReportType /\ (r.passed => r.fuse \/ r.ticks = Asked(course))
<1>1. CASE r = ErrorReport
  BY <1>1 DEF ErrorReport, ReportType
<1>2. CASE r # ErrorReport
  <2>1. PICK luck \in Luck(course) : r = Finish(Verified(course, luck))
    BY <1>2 DEF Reports
  <2> DEFINE p == Verified(course, luck)
  <2>2. p \in Probes /\ (~p.failed /\ ~p.stopped /\ ~p.fuse => p.ticks = Asked(course))
    BY VerifiedGetsThrough
  <2>3. r = Finish(p)
    BY <2>1
  <2> HIDE DEF p
  <2>4. /\ r.passed = (~p.failed /\ ~p.stopped /\ p.lines # <<>> /\ (\A i \in DOMAIN p.lines : p.lines[i]))
        /\ r.ticks = p.ticks /\ r.fuse = p.fuse
    BY <2>3 DEF Finish
  <2>5. p.ticks \in Nat /\ p.fuse \in BOOLEAN /\ p.stopped \in BOOLEAN /\ p.failed \in BOOLEAN
    BY <2>2 DEF Probes
  <2>6. r \in ReportType
    BY <2>3, <2>5 DEF Finish, ReportType
  <2> QED
    BY <2>2, <2>4, <2>5, <2>6
<1> QED
  BY <1>1, <1>2

-----------------------------------------------------------------------------
(* The state *)

Recipients == Conns \X Nat

Answers ==
    [is: {"error", "done"}, to: Recipients]
    \cup [is: {"results"}, to: Recipients, run: Nat, tests: Seq(Tests), runs: [Tests -> Nat]]

Replies == {r \in [channel: Recipients, answer: Answers] : r.answer.to = r.channel}

(* Reports that only pass a test that got through.                         *)
FairReports(t) == {r \in ReportType : r.passed => r.fuse \/ r.ticks = Asked(Course[t])}

ShownReports == {f \in [Tests -> [run: Nat, report: ReportType]] : \A t \in Tests : f[t].report \in FairReports(t)}

ThreadEvents ==
    {e \in [is: {"finished"}, test: Tests, report: ReportType] : e.report \in FairReports(e.test)}
    \cup [is: {"started", "done"}]

Pending == [to: Recipients, request: Requests]

Waiters == [to: Recipients, run: Nat, tests: Seq(Tests)]

Apps ==
    [open: BOOLEAN, running: BOOLEAN, runs: Nat, reports: ShownReports, waiters: Seq(Waiters),
     shot: SUBSET Recipients, images: Nat, answers: SUBSET Replies]

Threads ==
    {t \in [alive: BOOLEAN, todo: Seq(Tests), busy: BOOLEAN, cancelled: BOOLEAN, events: Seq(ThreadEvents)] :
        t.busy => t.todo # <<>>}

UiStates == [app: Apps, thread: Threads]

ClientStates ==
    [state: {"ready", "waiting", "gone"}, asks: Nat, heard: Answers \cup {Silence, NoAnswer}]

Clients == [Conns -> ClientStates]

(* Whatever is put off or on its way, a request still waiting, a client    *)
(* that waits for a run, an image or a reply, names the request it is for; *)
(* and whatever a test that ran, or is about to be shown, is said to have  *)
(* passed, got through.                                                    *)
CInv ==
    /\ client \in Clients
    /\ OwnAnswer
    /\ queue \in Seq(Pending)
    /\ replies \in SUBSET Replies
    /\ app \in Apps
    /\ thread \in Threads

LEMMA WhatIsAsked ==
    ASSUME NEW request \in Requests
    PROVE  /\ request.is \in {"results", "screenshot", "quit", "run"}
           /\ request.is = "run" => request.tests \in Seq(Tests) /\ request.wait \in BOOLEAN
<1>1. All \in Seq(Tests) /\ \A t \in Tests : <<t>> \in Seq(Tests)
  BY ControlAssumption
<1>2. request.is \in {"results", "screenshot", "quit", "run"}
  BY DEF Requests
<1>3. ASSUME request.is = "run"
      PROVE  request.tests \in Seq(Tests) /\ request.wait \in BOOLEAN
  <2>1. PICK list \in {<<t>> : t \in Tests} \cup {All}, wait \in BOOLEAN :
           request = [is |-> "run", tests |-> list, wait |-> wait]
    BY <1>3 DEF Requests
  <2>2. list \in Seq(Tests)
    BY <1>1
  <2> QED
    BY <2>1, <2>2
<1> QED
  BY <1>2, <1>3

(* An answer goes through the channel of the request that it names.        *)
LEMMA RepliesAreAddressed ==
    ASSUME NEW answer \in Answers
    PROVE  Reply(answer) \in Replies
<1>1. answer.to \in Recipients
  BY DEF Answers
<1>2. Channel(answer.to[1], answer.to[2]) = answer.to
  BY <1>1 DEF Channel, Recipients
<1> QED
  BY <1>1, <1>2 DEF Reply, Replies

LEMMA WhatIsSaid ==
    ASSUME NEW to \in Recipients
    PROVE  /\ Error(to) \in Answers /\ Done(to) \in Answers
           /\ \A u \in UiStates, run \in Nat, tests \in Seq(Tests) : Results(u, to, run, tests) \in Answers
<1>1. Error(to) \in Answers /\ Done(to) \in Answers
  BY DEF Error, Done, Answers
<1>2. ASSUME NEW u \in UiStates, NEW run \in Nat, NEW tests \in Seq(Tests)
      PROVE  Results(u, to, run, tests) \in Answers
  <2>1. [t \in Tests |-> u.app.reports[t].run] \in [Tests -> Nat]
    BY DEF UiStates, Apps, ShownReports
  <2> QED
    BY <2>1 DEF Results, Answers
<1> QED
  BY <1>1, <1>2

LEMMA AnsweredKeeps ==
    ASSUME NEW u \in UiStates, NEW answer \in Answers
    PROVE  Answered(u, answer) \in UiStates /\ Answered(u, answer).app.images = u.app.images
<1> DEFINE r == Reply(answer)
           a == [u.app EXCEPT !.answers = @ \cup {r}]
<1>1. r \in Replies
  BY RepliesAreAddressed
<1>2. u.app \in Apps /\ u.thread \in Threads
  BY DEF UiStates
<1> HIDE DEF r
<1>3. a \in Apps /\ a.images = u.app.images
  BY <1>1, <1>2 DEF Apps
<1>4. Answered(u, answer) = [u EXCEPT !.app = a]
  BY <1>2 DEF Answered, UiStates, Apps, r
<1> HIDE DEF a
<1> QED
  BY <1>3, <1>4 DEF UiStates

LEMMA StartTestsKeeps ==
    ASSUME NEW u \in UiStates, NEW tests \in Seq(Tests)
    PROVE  StartTests(u, tests) \in UiStates /\ StartTests(u, tests).app.images = u.app.images
<1>1. CASE u.app.running \/ tests = <<>>
  BY <1>1 DEF StartTests
<1>2. CASE ~(u.app.running \/ tests = <<>>)
  <2> DEFINE reports == [t \in Tests |-> IF t \in ToSet(tests) THEN NoReport ELSE u.app.reports[t]]
             a == [u.app EXCEPT !.running = TRUE, !.runs = @ + 1, !.reports = reports]
             th == [alive |-> TRUE, todo |-> tests, busy |-> FALSE, cancelled |-> FALSE, events |-> <<>>]
  <2>1. u.app \in Apps
    BY DEF UiStates
  <2>2. reports \in ShownReports
    <3>1. ErrorReport \in ReportType /\ ~ErrorReport.passed
      BY DEF ErrorReport, ReportType
    <3>2. NoReport \in [run: Nat, report: ReportType] /\ NoReport.report = ErrorReport
      BY <3>1 DEF NoReport
    <3>3. u.app.reports \in ShownReports
      BY <2>1 DEF Apps
    <3>4. \A t \in Tests : reports[t] \in [run: Nat, report: ReportType] /\ reports[t].report \in FairReports(t)
      BY <3>1, <3>2, <3>3 DEF ShownReports, FairReports
    <3> QED
      BY <3>4 DEF ShownReports
  <2> HIDE DEF reports
  <2>3. a \in Apps /\ a.images = u.app.images
    <3>1. u.app.runs + 1 \in Nat
      BY <2>1 DEF Apps
    <3> QED
      BY <2>1, <2>2, <3>1 DEF Apps
  <2>4. th \in Threads
    BY DEF Threads
  <2>5. StartTests(u, tests) = [app |-> a, thread |-> th]
    BY <1>2, <2>1 DEF StartTests, reports, Apps
  <2> HIDE DEF a, th
  <2> QED
    BY <2>3, <2>4, <2>5 DEF UiStates
<1> QED
  BY <1>1, <1>2

LEMMA RunKeeps ==
    ASSUME NEW u \in UiStates, NEW p \in Pending, p.request.is = "run"
    PROVE  Run(u, p) \in UiStates /\ Run(u, p).app.images = u.app.images
<1>1. p.to \in Recipients /\ p.request.tests \in Seq(Tests) /\ p.request.wait \in BOOLEAN
  BY WhatIsAsked DEF Pending
<1> DEFINE started == StartTests(u, p.request.tests)
<1>2. started \in UiStates /\ started.app.images = u.app.images /\ u.app.running \in BOOLEAN
  BY <1>1, StartTestsKeeps DEF UiStates, Apps
<1>3. CASE u.app.running
  <2>1. Run(u, p) = Answered(u, Error(p.to))
    BY <1>3 DEF Run
  <2> QED
    BY <1>1, <2>1, AnsweredKeeps, WhatIsSaid
<1>4. CASE ~u.app.running /\ ~p.request.wait
  <2>1. Run(u, p) = Answered(started, Done(p.to))
    BY <1>4 DEF Run
  <2> HIDE DEF started
  <2> QED
    BY <1>1, <1>2, <2>1, AnsweredKeeps, WhatIsSaid
<1>5. CASE ~u.app.running /\ p.request.wait
  <2> DEFINE w == [to |-> p.to, run |-> started.app.runs, tests |-> p.request.tests]
             a == [started.app EXCEPT !.waiters = Append(@, w)]
  <2>1. Run(u, p) = [started EXCEPT !.app.waiters = Append(@, w)]
    BY <1>5 DEF Run
  <2> HIDE DEF started
  <2>2. started.app \in Apps
    BY <1>2 DEF UiStates
  <2>3. w \in Waiters
    BY <1>1, <2>2 DEF Waiters, Apps
  <2> HIDE DEF w
  <2>4. Append(started.app.waiters, w) \in Seq(Waiters)
    BY <2>2, <2>3 DEF Apps
  <2>5. a \in Apps /\ a.images = started.app.images
    BY <2>2, <2>4 DEF Apps
  <2>6. Run(u, p) = [started EXCEPT !.app = a]
    BY <1>2, <2>1, <2>2 DEF UiStates, Apps
  <2> HIDE DEF a
  <2> QED
    BY <1>2, <2>5, <2>6 DEF UiStates
<1> QED
  BY <1>1, <1>2, <1>3, <1>4, <1>5

LEMMA ScreenshotKeeps ==
    ASSUME NEW u \in UiStates, NEW p \in Pending
    PROVE  Screenshot(u, p) \in UiStates /\ Screenshot(u, p).app.images >= u.app.images
<1>1. p.to \in Recipients /\ u.app \in Apps /\ u.app.images \in Nat
  BY DEF Pending, UiStates, Apps
<1>2. CASE u.app.shot # {}
  <2>1. Screenshot(u, p) = Answered(u, Error(p.to))
    BY <1>2 DEF Screenshot
  <2>2. Screenshot(u, p) \in UiStates /\ Screenshot(u, p).app.images = u.app.images
    BY <1>1, <2>1, AnsweredKeeps, WhatIsSaid
  <2> QED
    BY <1>1, <2>2
<1>3. CASE u.app.shot = {}
  <2> DEFINE a == [u.app EXCEPT !.shot = {p.to}, !.images = @ + 1]
  <2>1. a \in Apps /\ a.images = u.app.images + 1
    <3>1. {p.to} \in SUBSET Recipients /\ u.app.images + 1 \in Nat
      BY <1>1
    <3> QED
      BY <1>1, <3>1 DEF Apps
  <2>2. Screenshot(u, p) = [u EXCEPT !.app = a]
    BY <1>1, <1>3 DEF Screenshot, UiStates, Apps
  <2> HIDE DEF a
  <2> QED
    BY <1>1, <2>1, <2>2 DEF UiStates
<1> QED
  BY <1>2, <1>3

LEMMA ExecuteKeeps ==
    ASSUME NEW u \in UiStates, NEW p \in Pending
    PROVE  Execute(u, p) \in UiStates /\ Execute(u, p).app.images >= u.app.images
<1>1. p.request \in Requests /\ p.to \in Recipients /\ u.app \in Apps /\ u.app.images \in Nat
  BY DEF Pending, UiStates, Apps
<1>2. p.request.is \in {"results", "screenshot", "quit", "run"}
  BY <1>1, WhatIsAsked
<1>3. CASE p.request.is = "run"
  <2>1. Execute(u, p) = Run(u, p)
    BY <1>3 DEF Execute
  <2> QED
    BY <1>1, <1>3, <2>1, RunKeeps
<1>4. CASE p.request.is = "screenshot"
  <2>1. Execute(u, p) = Screenshot(u, p)
    BY <1>4 DEF Execute
  <2> QED
    BY <2>1, ScreenshotKeeps
<1>5. CASE p.request.is = "results"
  <2>1. Execute(u, p) = Answered(u, Results(u, p.to, 0, <<>>))
    BY <1>5 DEF Execute
  <2>2. <<>> \in Seq(Tests) /\ 0 \in Nat
    OBVIOUS
  <2>3. Results(u, p.to, 0, <<>>) \in Answers
    BY <1>1, <2>2, WhatIsSaid
  <2> QED
    BY <1>1, <2>1, <2>3, AnsweredKeeps
<1>6. CASE p.request.is = "quit"
  <2> DEFINE a == [u.app EXCEPT !.open = FALSE]
             v == [u EXCEPT !.app = a]
  <2>1. Execute(u, p) = Answered(v, Done(p.to))
    <3>1. [u EXCEPT !.app.open = FALSE] = v
      BY <1>1 DEF UiStates, Apps
    <3> QED
      BY <1>6, <3>1 DEF Execute
  <2>2. a \in Apps /\ a.images = u.app.images
    BY <1>1 DEF Apps
  <2> HIDE DEF a
  <2>3. v \in UiStates /\ v.app.images = u.app.images
    BY <2>2 DEF UiStates
  <2> HIDE DEF v
  <2> QED
    BY <1>1, <2>1, <2>3, AnsweredKeeps, WhatIsSaid
<1> QED
  BY <1>2, <1>3, <1>4, <1>5, <1>6

(* The requests of a frame, one after the other.                           *)
LEMMA ExecutingKeeps ==
    ASSUME NEW u \in UiStates, NEW q \in Seq(Pending)
    PROVE  FoldLeft(Execute, u, q) \in UiStates /\ FoldLeft(Execute, u, q).app.images >= u.app.images
<1> DEFINE S == DOMAIN q
           V == {w \in UiStates : w.app.images >= u.app.images}
           LastIn(s) == CHOOSE x \in s : \A y \in s : x >= y
           pick == [s \in SUBSET S |-> LastIn(s)]
           step == [c \in S \X V |-> Execute(c[2], q[c[1]])]
           Fold(g) == [s \in SUBSET S |->
                         IF s = {} THEN u ELSE Execute(g[s \ {LastIn(s)}], q[LastIn(s)])]
           fold == CHOOSE g : g = Fold(g)
<1>1. FoldLeft(Execute, u, q) = fold[S]
  BY DEF FoldLeft, MapThenFoldSet, Max
<1>2. S = 1..Len(q) /\ Len(q) \in Nat /\ IsFiniteSet(S)
  BY LenProperties, FS_Interval
<1>3. \A s \in SUBSET S : s # {} => pick[s] = LastIn(s) /\ pick[s] \in s
  BY <1>2, LastIndex
<1>4. u \in V
  BY DEF UiStates, Apps
<1>5. ASSUME NEW x \in S, NEW v \in V PROVE step[<<x, v>>] = Execute(v, q[x]) /\ step[<<x, v>>] \in V
  <2>1. q[x] \in Pending
    OBVIOUS
  <2>2. step[<<x, v>>] = Execute(v, q[x])
    OBVIOUS
  <2> HIDE DEF step
  <2> QED
    <3>1. Execute(v, q[x]) \in UiStates /\ Execute(v, q[x]).app.images >= v.app.images
      BY <2>1, ExecuteKeeps
    <3>2. {Execute(v, q[x]).app.images, v.app.images, u.app.images} \subseteq Nat
      BY <3>1 DEF UiStates, Apps
    <3> QED
      BY <2>2, <3>1, <3>2
<1> HIDE DEF S, V, step, pick
<1>6. Steps(S, V, u, pick, step)
  BY <1>2, <1>3, <1>4, <1>5 DEF Steps
<1>7. PICK g \in [SUBSET S -> V] : IsFold(S, u, pick, step, g)
  BY <1>6, FoldExists
<1>8. g = Fold(g)
  <2>1. \A s \in SUBSET S : g[s] = Fold(g)[s]
    <3> TAKE s \in SUBSET S
    <3>1. CASE s = {}
      BY <1>7, <3>1 DEF IsFold
    <3>2. CASE s # {}
      <4>1. pick[s] \in S /\ pick[s] = LastIn(s) /\ g[s \ {pick[s]}] \in V
        BY <1>3, <1>7, <3>2
      <4>2. g[s] = Execute(g[s \ {pick[s]}], q[pick[s]])
        BY <1>5, <1>7, <3>2, <4>1 DEF IsFold
      <4> QED
        BY <3>2, <4>1, <4>2
    <3> QED
      BY <3>1, <3>2
  <2> QED
    BY <1>7, <2>1
<1>9. fold = Fold(fold)
  BY <1>8
<1> HIDE DEF fold
<1>10. IsFoldWithin(S, V, u, pick, step, fold)
  <2>1. fold[{}] = u
    BY <1>9
  <2>2. \A s \in SUBSET S : s # {} /\ fold[s \ {pick[s]}] \in V =>
           fold[s] = step[<<pick[s], fold[s \ {pick[s]}]>>]
    <3> TAKE s \in SUBSET S
    <3> SUFFICES ASSUME s # {}, fold[s \ {pick[s]}] \in V
                 PROVE  fold[s] = step[<<pick[s], fold[s \ {pick[s]}]>>]
      OBVIOUS
    <3>1. pick[s] \in S /\ pick[s] = LastIn(s)
      BY <1>3
    <3>2. fold[s] = Execute(fold[s \ {LastIn(s)}], q[LastIn(s)])
      BY <1>9
    <3> HIDE DEF LastIn
    <3> QED
      BY <1>5, <3>1, <3>2
  <2> QED
    BY <2>1, <2>2 DEF IsFoldWithin
<1>11. fold[S] \in V
  BY <1>6, <1>10, FoldStays
<1> QED
  BY <1>1, <1>11 DEF V

LEMMA EventKeeps ==
    ASSUME NEW u \in UiStates, NEW e \in ThreadEvents
    PROVE  Event(u, e) \in UiStates /\ Event(u, e).app.images = u.app.images
<1>1. u.app \in Apps /\ e.is \in {"started", "finished", "done"}
  BY DEF UiStates, ThreadEvents
<1>2. CASE e.is = "started"
  BY <1>2 DEF Event
<1>3. CASE e.is = "done"
  <2> DEFINE a == [u.app EXCEPT !.running = FALSE]
  <2>1. Event(u, e) = [u EXCEPT !.app = a]
    BY <1>1, <1>3 DEF Event, UiStates, Apps
  <2>2. a \in Apps /\ a.images = u.app.images
    BY <1>1 DEF Apps
  <2> HIDE DEF a
  <2> QED
    BY <2>1, <2>2 DEF UiStates
<1>4. CASE e.is = "finished"
  <2> DEFINE r == [run |-> u.app.runs, report |-> e.report]
             reports == [u.app.reports EXCEPT ![e.test] = r]
             a == [u.app EXCEPT !.reports = reports]
  <2>1. e.test \in Tests /\ e.report \in ReportType /\ e.report \in FairReports(e.test)
    BY <1>4 DEF ThreadEvents
  <2>2. r \in [run: Nat, report: ReportType] /\ r.report = e.report
    BY <1>1, <2>1 DEF Apps
  <2>3. Event(u, e) = [u EXCEPT !.app = a]
    BY <1>1, <1>4 DEF Event, UiStates, Apps
  <2> HIDE DEF r
  <2>4. reports \in ShownReports
    <3>1. u.app.reports \in ShownReports
      BY <1>1 DEF Apps
    <3>2. \A t \in Tests : reports[t] = IF t = e.test THEN r ELSE u.app.reports[t]
      BY <3>1 DEF ShownReports
    <3>3. reports \in [Tests -> [run: Nat, report: ReportType]]
      BY <2>2, <3>1 DEF ShownReports
    <3> HIDE DEF reports
    <3> QED
      BY <2>1, <2>2, <3>1, <3>2, <3>3 DEF ShownReports
  <2> HIDE DEF reports
  <2>5. a \in Apps /\ a.images = u.app.images
    BY <1>1, <2>4 DEF Apps
  <2> HIDE DEF a
  <2> QED
    BY <2>3, <2>5 DEF UiStates
<1> QED
  BY <1>1, <1>2, <1>3, <1>4

(* What the test thread reported, one event after the other.               *)
LEMMA HearingKeeps ==
    ASSUME NEW u \in UiStates, NEW q \in Seq(ThreadEvents)
    PROVE  FoldLeft(Event, u, q) \in UiStates /\ FoldLeft(Event, u, q).app.images >= u.app.images
<1> DEFINE S == DOMAIN q
           V == {w \in UiStates : w.app.images >= u.app.images}
           LastIn(s) == CHOOSE x \in s : \A y \in s : x >= y
           pick == [s \in SUBSET S |-> LastIn(s)]
           step == [c \in S \X V |-> Event(c[2], q[c[1]])]
           Fold(g) == [s \in SUBSET S |->
                         IF s = {} THEN u ELSE Event(g[s \ {LastIn(s)}], q[LastIn(s)])]
           fold == CHOOSE g : g = Fold(g)
<1>1. FoldLeft(Event, u, q) = fold[S]
  BY DEF FoldLeft, MapThenFoldSet, Max
<1>2. S = 1..Len(q) /\ Len(q) \in Nat /\ IsFiniteSet(S)
  BY LenProperties, FS_Interval
<1>3. \A s \in SUBSET S : s # {} => pick[s] = LastIn(s) /\ pick[s] \in s
  BY <1>2, LastIndex
<1>4. u \in V
  BY DEF UiStates, Apps
<1>5. ASSUME NEW x \in S, NEW v \in V PROVE step[<<x, v>>] = Event(v, q[x]) /\ step[<<x, v>>] \in V
  <2>1. q[x] \in ThreadEvents
    OBVIOUS
  <2>2. step[<<x, v>>] = Event(v, q[x])
    OBVIOUS
  <2> HIDE DEF step
  <2> QED
    BY <2>1, <2>2, EventKeeps
<1> HIDE DEF S, V, step, pick
<1>6. Steps(S, V, u, pick, step)
  BY <1>2, <1>3, <1>4, <1>5 DEF Steps
<1>7. PICK g \in [SUBSET S -> V] : IsFold(S, u, pick, step, g)
  BY <1>6, FoldExists
<1>8. g = Fold(g)
  <2>1. \A s \in SUBSET S : g[s] = Fold(g)[s]
    <3> TAKE s \in SUBSET S
    <3>1. CASE s = {}
      BY <1>7, <3>1 DEF IsFold
    <3>2. CASE s # {}
      <4>1. pick[s] \in S /\ pick[s] = LastIn(s) /\ g[s \ {pick[s]}] \in V
        BY <1>3, <1>7, <3>2
      <4>2. g[s] = Event(g[s \ {pick[s]}], q[pick[s]])
        BY <1>5, <1>7, <3>2, <4>1 DEF IsFold
      <4> QED
        BY <3>2, <4>1, <4>2
    <3> QED
      BY <3>1, <3>2
  <2> QED
    BY <1>7, <2>1
<1>9. fold = Fold(fold)
  BY <1>8
<1> HIDE DEF fold
<1>10. IsFoldWithin(S, V, u, pick, step, fold)
  <2>1. fold[{}] = u
    BY <1>9
  <2>2. \A s \in SUBSET S : s # {} /\ fold[s \ {pick[s]}] \in V =>
           fold[s] = step[<<pick[s], fold[s \ {pick[s]}]>>]
    <3> TAKE s \in SUBSET S
    <3> SUFFICES ASSUME s # {}, fold[s \ {pick[s]}] \in V
                 PROVE  fold[s] = step[<<pick[s], fold[s \ {pick[s]}]>>]
      OBVIOUS
    <3>1. pick[s] \in S /\ pick[s] = LastIn(s)
      BY <1>3
    <3>2. fold[s] = Event(fold[s \ {LastIn(s)}], q[LastIn(s)])
      BY <1>9
    <3> HIDE DEF LastIn
    <3> QED
      BY <1>5, <3>1, <3>2
  <2> QED
    BY <2>1, <2>2 DEF IsFoldWithin
<1>11. fold[S] \in V
  BY <1>6, <1>10, FoldStays
<1> QED
  BY <1>1, <1>11 DEF V

(* The failed tests are tests.                                             *)
LEMMA FailingAreTests ==
    ASSUME NEW u
    PROVE  Failing(u) \in Seq(Tests)
<1> DEFINE q == All
<1>0. q \in Seq(Tests)
  BY ControlAssumption
<1> HIDE DEF q
<1> DEFINE S == DOMAIN q
           V == Seq(Tests)
           LastIn(s) == CHOOSE x \in s : \A y \in s : x >= y
           pick == [s \in SUBSET S |-> LastIn(s)]
           step == [c \in S \X V |-> (IF HasFailed(u, q[c[1]]) THEN Append(c[2], q[c[1]]) ELSE c[2])]
           Fold(g) == [s \in SUBSET S |->
                         IF s = {} THEN <<>> ELSE (IF HasFailed(u, q[LastIn(s)]) THEN Append(g[s \ {LastIn(s)}], q[LastIn(s)]) ELSE g[s \ {LastIn(s)}])]
           fold == CHOOSE g : g = Fold(g)
<1>1. Failing(u) = fold[S]
  BY DEF Failing, q, FoldLeft, MapThenFoldSet, Max
<1>2. S = 1..Len(q) /\ Len(q) \in Nat /\ IsFiniteSet(S)
  BY <1>0, LenProperties, FS_Interval
<1>3. \A s \in SUBSET S : s # {} => pick[s] = LastIn(s) /\ pick[s] \in s
  BY <1>2, LastIndex
<1>4. <<>> \in V
  OBVIOUS
<1>5. ASSUME NEW x \in S, NEW v \in V PROVE step[<<x, v>>] = (IF HasFailed(u, q[x]) THEN Append(v, q[x]) ELSE v) /\ step[<<x, v>>] \in V
  <2>1. q[x] \in Tests
    BY <1>0
  <2>2. step[<<x, v>>] = (IF HasFailed(u, q[x]) THEN Append(v, q[x]) ELSE v)
    OBVIOUS
  <2> HIDE DEF step
  <2> QED
    BY <2>1, <2>2
<1> HIDE DEF S, V, step, pick
<1>6. Steps(S, V, <<>>, pick, step)
  BY <1>2, <1>3, <1>4, <1>5 DEF Steps
<1>7. PICK g \in [SUBSET S -> V] : IsFold(S, <<>>, pick, step, g)
  BY <1>6, FoldExists
<1>8. g = Fold(g)
  <2>1. \A s \in SUBSET S : g[s] = Fold(g)[s]
    <3> TAKE s \in SUBSET S
    <3>1. CASE s = {}
      BY <1>7, <3>1 DEF IsFold
    <3>2. CASE s # {}
      <4>1. pick[s] \in S /\ pick[s] = LastIn(s) /\ g[s \ {pick[s]}] \in V
        BY <1>3, <1>7, <3>2
      <4>2. g[s] = (IF HasFailed(u, q[pick[s]]) THEN Append(g[s \ {pick[s]}], q[pick[s]]) ELSE g[s \ {pick[s]}])
        BY <1>5, <1>7, <3>2, <4>1 DEF IsFold
      <4> QED
        BY <3>2, <4>1, <4>2
    <3> QED
      BY <3>1, <3>2
  <2> QED
    BY <1>7, <2>1
<1>9. fold = Fold(fold)
  BY <1>8
<1> HIDE DEF fold
<1>10. IsFoldWithin(S, V, <<>>, pick, step, fold)
  <2>1. fold[{}] = <<>>
    BY <1>9
  <2>2. \A s \in SUBSET S : s # {} /\ fold[s \ {pick[s]}] \in V =>
           fold[s] = step[<<pick[s], fold[s \ {pick[s]}]>>]
    <3> TAKE s \in SUBSET S
    <3> SUFFICES ASSUME s # {}, fold[s \ {pick[s]}] \in V
                 PROVE  fold[s] = step[<<pick[s], fold[s \ {pick[s]}]>>]
      OBVIOUS
    <3>1. pick[s] \in S /\ pick[s] = LastIn(s)
      BY <1>3
    <3>2. fold[s] = (IF HasFailed(u, q[LastIn(s)]) THEN Append(fold[s \ {LastIn(s)}], q[LastIn(s)]) ELSE fold[s \ {LastIn(s)}])
      BY <1>9
    <3>3. fold[s] = IF HasFailed(u, q[pick[s]]) THEN Append(fold[s \ {pick[s]}], q[pick[s]]) ELSE fold[s \ {pick[s]}]
      BY <3>1, <3>2
    <3> HIDE DEF LastIn
    <3> QED
      BY <1>5, <3>1, <3>3, ZenonT(60)
  <2> QED
    BY <2>1, <2>2 DEF IsFoldWithin
<1>11. fold[S] \in V
  BY <1>6, <1>10, FoldStays
<1> QED
  BY <1>1, <1>11 DEF V

LEMMA PollKeeps ==
    ASSUME NEW u \in UiStates
    PROVE  Poll(u) \in UiStates /\ Poll(u).app.images >= u.app.images
<1>1. u.app.images \in Nat /\ u.thread \in Threads
  BY DEF UiStates, Apps
<1>2. CASE ~u.app.running
  BY <1>1, <1>2 DEF Poll
<1>3. CASE u.app.running
  <2> DEFINE v == FoldLeft(Event, u, u.thread.events)
             th == [v.thread EXCEPT !.events = <<>>]
  <2>1. v \in UiStates /\ v.app.images >= u.app.images
    <3>1. u.thread.events \in Seq(ThreadEvents)
      BY <1>1 DEF Threads
    <3> QED
      BY <3>1, HearingKeeps
  <2>2. Poll(u) = [v EXCEPT !.thread.events = <<>>]
    BY <1>3 DEF Poll
  <2> HIDE DEF v
  <2>3. v.thread \in Threads
    BY <2>1 DEF UiStates
  <2>4. th \in Threads
    <3>1. <<>> \in Seq(ThreadEvents)
      OBVIOUS
    <3> QED
      BY <2>3, <3>1 DEF Threads
  <2>5. Poll(u) = [v EXCEPT !.thread = th]
    BY <2>1, <2>2, <2>3 DEF UiStates, Threads
  <2> HIDE DEF th
  <2> QED
    BY <2>1, <2>4, <2>5 DEF UiStates
<1> QED
  BY <1>2, <1>3

LEMMA AnswerWaitersKeeps ==
    ASSUME NEW u \in UiStates
    PROVE  AnswerWaiters(u) \in UiStates /\ AnswerWaiters(u).app.images = u.app.images
<1>1. CASE u.app.running
  BY <1>1 DEF AnswerWaiters
<1>2. CASE ~u.app.running
  <2> DEFINE more == {Reply(Results(u, w.to, w.run, w.tests)) : w \in ToSet(u.app.waiters)}
             a == [u.app EXCEPT !.waiters = <<>>, !.answers = @ \cup more]
  <2>1. u.app \in Apps
    BY DEF UiStates
  <2>2. more \in SUBSET Replies
    <3> SUFFICES ASSUME NEW w \in ToSet(u.app.waiters) PROVE Reply(Results(u, w.to, w.run, w.tests)) \in Replies
      OBVIOUS
    <3>1. u.app.waiters \in Seq(Waiters)
      BY <2>1 DEF Apps
    <3>2. w \in Waiters
      BY <3>1 DEF ToSet
    <3>3. w.to \in Recipients /\ w.run \in Nat /\ w.tests \in Seq(Tests)
      BY <3>2 DEF Waiters
    <3>4. Results(u, w.to, w.run, w.tests) \in Answers
      BY <3>3, WhatIsSaid
    <3> QED
      BY <3>4, RepliesAreAddressed
  <2>3. AnswerWaiters(u) = [u EXCEPT !.app.waiters = <<>>, !.app.answers = @ \cup more]
    BY <1>2 DEF AnswerWaiters
  <2> HIDE DEF more
  <2>4. a \in Apps /\ a.images = u.app.images
    <3>1. <<>> \in Seq(Waiters)
      OBVIOUS
    <3>2. u.app.answers \cup more \in SUBSET Replies
      BY <2>1, <2>2 DEF Apps
    <3> QED
      BY <2>1, <3>1, <3>2 DEF Apps
  <2>5. AnswerWaiters(u) = [u EXCEPT !.app = a]
    BY <2>1, <2>3 DEF UiStates, Apps
  <2> HIDE DEF a
  <2> QED
    BY <2>4, <2>5 DEF UiStates
<1> QED
  BY <1>1, <1>2

LEMMA AnswerShotKeeps ==
    ASSUME NEW u \in UiStates, NEW arrived \in BOOLEAN, arrived => u.app.images > 0
    PROVE  AnswerShot(u, arrived) \in UiStates
<1>1. CASE ~arrived
  BY <1>1 DEF AnswerShot
<1>2. CASE arrived
  <2> DEFINE more == {Reply(Done(to)) : to \in u.app.shot}
             a == [u.app EXCEPT !.shot = {}, !.images = @ - 1, !.answers = @ \cup more]
  <2>1. u.app \in Apps /\ u.app.images \in Nat
    BY DEF UiStates, Apps
  <2>2. more \in SUBSET Replies
    <3>1. \A to \in u.app.shot : to \in Recipients
      BY <2>1 DEF Apps
    <3>2. \A to \in u.app.shot : Done(to) \in Answers
      BY <3>1, WhatIsSaid
    <3> QED
      BY <3>2, RepliesAreAddressed
  <2>3. AnswerShot(u, arrived) = [u EXCEPT !.app.shot = {}, !.app.images = @ - 1, !.app.answers = @ \cup more]
    BY <1>2 DEF AnswerShot
  <2> HIDE DEF more
  <2>4. u.app.images - 1 \in Nat
    BY <1>2, <2>1
  <2>5. a \in Apps
    BY <2>1, <2>2, <2>4 DEF Apps
  <2>6. AnswerShot(u, arrived) = [u EXCEPT !.app = a]
    BY <2>1, <2>3 DEF UiStates, Apps
  <2> HIDE DEF a
  <2> QED
    BY <2>5, <2>6 DEF UiStates
<1> QED
  BY <1>1, <1>2

LEMMA StopKeeps ==
    ASSUME NEW u \in UiStates
    PROVE  Stop(u) \in UiStates
<1> DEFINE th == [u.thread EXCEPT !.cancelled = TRUE]
<1>1. u.thread \in Threads
  BY DEF UiStates
<1>2. th \in Threads
  BY <1>1 DEF Threads
<1>3. [u EXCEPT !.thread.cancelled = TRUE] = [u EXCEPT !.thread = th]
  BY <1>1 DEF UiStates, Threads
<1> HIDE DEF th
<1>4. [u EXCEPT !.thread = th] \in UiStates
  BY <1>2 DEF UiStates
<1> QED
  BY <1>3, <1>4 DEF Stop

LEMMA RunAllKeeps ==
    ASSUME NEW t \in Threads, t.alive, NEW report,
           t.busy => report \in FairReports(Head(t.todo))
    PROVE  RunAll(t, report) \in Threads
<1>1. /\ t.todo \in Seq(Tests) /\ t.events \in Seq(ThreadEvents)
      /\ t.busy \in BOOLEAN /\ t.cancelled \in BOOLEAN /\ (t.busy => t.todo # <<>>)
  BY DEF Threads
<1>2. CASE t.busy
  <2> DEFINE e == [is |-> "finished", test |-> Head(t.todo), report |-> report]
             events == Append(t.events, e)
             todo == Tail(t.todo)
  <2>1. Head(t.todo) \in Tests /\ todo \in Seq(Tests)
    BY <1>1, <1>2
  <2>2. report \in ReportType /\ report \in FairReports(Head(t.todo))
    BY <1>2 DEF FairReports
  <2>3. e \in ThreadEvents
    BY <2>1, <2>2 DEF ThreadEvents
  <2>4. RunAll(t, report) = [t EXCEPT !.busy = FALSE, !.todo = todo, !.events = events]
    BY <1>2 DEF RunAll
  <2> HIDE DEF e, todo
  <2>5. events \in Seq(ThreadEvents)
    BY <1>1, <2>3
  <2> HIDE DEF events
  <2> QED
    BY <2>1, <2>4, <2>5 DEF Threads
<1>3. CASE ~t.busy /\ (t.cancelled \/ t.todo = <<>>)
  <2> DEFINE e == [is |-> "done"]
             events == Append(t.events, e)
  <2>1. e \in ThreadEvents
    BY DEF ThreadEvents
  <2>2. RunAll(t, report) = [t EXCEPT !.alive = FALSE, !.events = events]
    BY <1>3 DEF RunAll
  <2> HIDE DEF e
  <2>3. events \in Seq(ThreadEvents)
    BY <1>1, <2>1
  <2> HIDE DEF events
  <2> QED
    BY <1>3, <2>2, <2>3 DEF Threads
<1>4. CASE ~t.busy /\ ~t.cancelled /\ t.todo # <<>>
  <2> DEFINE e == [is |-> "started"]
             events == Append(t.events, e)
  <2>1. e \in ThreadEvents
    BY DEF ThreadEvents
  <2>2. RunAll(t, report) = [t EXCEPT !.busy = TRUE, !.events = events]
    BY <1>4 DEF RunAll
  <2> HIDE DEF e
  <2>3. events \in Seq(ThreadEvents)
    BY <1>1, <2>1
  <2> HIDE DEF events
  <2> QED
    BY <1>4, <2>2, <2>3 DEF Threads
<1> QED
  BY <1>1, <1>2, <1>3, <1>4

-----------------------------------------------------------------------------
(* The invariant *)

LEMMA InitC == Init => CInv
<1> SUFFICES ASSUME Init PROVE CInv
  OBVIOUS
<1>1. client \in Clients /\ OwnAnswer
  BY DEF Init, Clients, ClientStates, OwnAnswer, Silence
<1>2. queue \in Seq(Pending) /\ replies \in SUBSET Replies /\ thread \in Threads
  BY DEF Init, Threads
<1>3. app \in Apps
  <2> DEFINE reports == [t \in Tests |-> NoReport]
  <2>1. ErrorReport \in ReportType /\ ~ErrorReport.passed
    BY DEF ErrorReport, ReportType
  <2>2. NoReport \in [run: Nat, report: ReportType] /\ NoReport.report = ErrorReport
    BY <2>1 DEF NoReport
  <2>3. reports \in ShownReports
    BY <2>1, <2>2 DEF ShownReports, FairReports
  <2>4. app = [open |-> TRUE, running |-> FALSE, runs |-> 0, reports |-> reports,
               waiters |-> <<>>, shot |-> {}, images |-> 0, answers |-> {}]
    BY DEF Init
  <2> HIDE DEF reports
  <2> QED
    BY <2>3, <2>4 DEF Apps
<1> QED
  BY <1>1, <1>2, <1>3 DEF CInv

(* A connection that hears the answer to its request, or none.             *)
LEMMA HearingOwn ==
    ASSUME NEW c \in Conns, client \in Clients, OwnAnswer, NEW mine \in ClientStates,
           "to" \in DOMAIN mine.heard => mine.heard.to = <<c, mine.asks>>,
           client' = [client EXCEPT ![c] = mine]
    PROVE  client' \in Clients /\ OwnAnswer'
<1>1. client' \in Clients
  BY DEF Clients
<1>2. \A d \in Conns : client'[d] = IF d = c THEN mine ELSE client[d]
  BY DEF Clients
<1>3. ASSUME NEW d \in Conns, "to" \in DOMAIN client'[d].heard
      PROVE  client'[d].heard.to = <<d, client'[d].asks>>
  <2>1. CASE d = c
    BY <1>2, <1>3, <2>1
  <2>2. CASE d # c
    BY <1>2, <1>3, <2>2 DEF OwnAnswer
  <2> QED
    BY <2>1, <2>2
<1> QED
  BY <1>1, <1>3 DEF OwnAnswer

LEMMA NextC == CInv /\ [Next]_vars => CInv'
<1> SUFFICES ASSUME CInv, [Next]_vars PROVE CInv'
  OBVIOUS
<1> USE DEF CInv
<1>1. \A c \in Conns : client[c] \in ClientStates
  BY DEF Clients
<1>2. ASSUME NEW c \in Conns, TakeReply(c) PROVE CInv'
  <2>1. PICK r \in replies : /\ r.channel = Channel(c, client[c].asks)
                             /\ Hear(c, r.answer) /\ replies' = replies \ {r}
    BY <1>2 DEF TakeReply
  <2>2. r.answer \in Answers /\ r.answer.to = <<c, client[c].asks>>
    BY <2>1 DEF Replies, Channel
  <2> DEFINE mine == [client[c] EXCEPT !.state = "ready", !.heard = r.answer]
  <2>3. mine \in ClientStates /\ mine.heard = r.answer /\ mine.asks = client[c].asks
    BY <1>1, <2>2 DEF ClientStates
  <2>4. client' = [client EXCEPT ![c] = mine]
    BY <2>1 DEF Hear, Clients
  <2> HIDE DEF mine
  <2>5. client' \in Clients /\ OwnAnswer'
    BY <2>2, <2>3, <2>4, HearingOwn
  <2> QED
    BY <1>2, <2>1, <2>5 DEF TakeReply
<1>3. ASSUME NEW c \in Conns, GiveUp(c) PROVE CInv'
  <2> DEFINE mine == [client[c] EXCEPT !.state = "ready", !.heard = NoAnswer]
  <2>1. mine \in ClientStates /\ mine.heard = NoAnswer
    BY <1>1 DEF ClientStates
  <2>2. client' = [client EXCEPT ![c] = mine]
    BY <1>3 DEF GiveUp, Hear, Clients
  <2> HIDE DEF mine
  <2>3. client' \in Clients /\ OwnAnswer'
    BY <2>1, <2>2, HearingOwn DEF NoAnswer
  <2> QED
    BY <1>3, <2>3 DEF GiveUp
<1>4. ASSUME NEW c \in Conns, AskNonsense(c) PROVE CInv'
  <2> DEFINE mine == [client[c] EXCEPT !.asks = @ + 1, !.heard = NoAnswer]
  <2>1. mine \in ClientStates /\ mine.heard = NoAnswer
    <3>1. client[c].asks + 1 \in Nat
      BY <1>1 DEF ClientStates
    <3> QED
      BY <1>1, <3>1 DEF ClientStates
  <2>2. client' = [client EXCEPT ![c] = mine]
    BY <1>4 DEF AskNonsense, Clients
  <2> HIDE DEF mine
  <2>3. client' \in Clients /\ OwnAnswer'
    BY <2>1, <2>2, HearingOwn DEF NoAnswer
  <2> QED
    BY <1>4, <2>3 DEF AskNonsense
<1>5. ASSUME NEW c \in Conns, NEW request \in Asks[c], Ask(c, request) PROVE CInv'
  <2>1. request \in Requests /\ client[c].asks + 1 \in Nat
    BY <1>1, ControlAssumption DEF ClientStates
  <2>2. CASE app.open
    <3> DEFINE mine == [client[c] EXCEPT !.state = "waiting", !.asks = @ + 1, !.heard = Silence]
               p == [to |-> <<c, client[c].asks + 1>>, request |-> request]
    <3>1. mine \in ClientStates /\ mine.heard = Silence
      BY <1>1, <2>1 DEF ClientStates
    <3>2. client' = [client EXCEPT ![c] = mine]
      BY <1>5, <2>2 DEF Ask, Clients
    <3>3. queue' = Append(queue, p)
      BY <1>5, <2>2 DEF Ask
    <3>4. p \in Pending
      <4>1. <<c, client[c].asks + 1>> \in Recipients
        BY <2>1 DEF Recipients
      <4> QED
        BY <2>1, <4>1 DEF Pending
    <3> HIDE DEF mine, p
    <3>5. client' \in Clients /\ OwnAnswer'
      BY <3>1, <3>2, HearingOwn DEF Silence
    <3>6. queue' \in Seq(Pending)
      BY <3>3, <3>4
    <3> QED
      BY <1>5, <3>5, <3>6 DEF Ask
  <2>3. CASE ~app.open
    <3> DEFINE mine == [client[c] EXCEPT !.state = "gone"]
    <3>1. mine \in ClientStates /\ mine.heard = client[c].heard /\ mine.asks = client[c].asks
      BY <1>1 DEF ClientStates
    <3>2. client' = [client EXCEPT ![c] = mine]
      BY <1>5, <2>3 DEF Ask, Clients
    <3> HIDE DEF mine
    <3>3. "to" \in DOMAIN mine.heard => mine.heard.to = <<c, mine.asks>>
      BY <3>1 DEF OwnAnswer
    <3>4. client' \in Clients /\ OwnAnswer'
      BY <3>1, <3>2, <3>3, HearingOwn
    <3> QED
      BY <1>5, <2>3, <3>4 DEF Ask
  <2> QED
    BY <2>2, <2>3
<1>6. ASSUME ThreadStep PROVE CInv'
  <2>1. thread.alive /\ UNCHANGED <<client, queue, replies, app>>
    BY <1>6 DEF ThreadStep
  <2>2. PICK r \in IF thread.busy THEN Outcomes[Head(thread.todo)] ELSE {ErrorReport} : thread' = RunAll(thread, r)
    BY <1>6 DEF ThreadStep
  <2>3. thread.busy => r \in FairReports(Head(thread.todo))
    <3> SUFFICES ASSUME thread.busy PROVE r \in FairReports(Head(thread.todo))
      OBVIOUS
    <3>1. Head(thread.todo) \in Tests
      BY DEF Threads
    <3>2. r \in Reports(Course[Head(thread.todo)]) /\ Course[Head(thread.todo)] \in Seq(CourseSteps)
      BY <2>2, <3>1, ControlAssumption DEF Outcomes
    <3> QED
      BY <3>2, ReportsAreFair DEF FairReports
  <2>4. thread' \in Threads
    BY <2>1, <2>2, <2>3, RunAllKeeps
  <2> QED
    BY <2>1, <2>4 DEF OwnAnswer
<1>7. ASSUME NEW arrived \in BOOLEAN, PlainFrame(arrived) \/ FrameWithStop(arrived) \/ FrameWithRun(arrived)
      PROVE  CInv'
  <2> DEFINE u == HandleControl(Poll([app |-> app, thread |-> thread]), arrived)
  <2>1. arrived => app.images > 0
    BY <1>7 DEF PlainFrame, FrameWithStop, FrameWithRun, Frame
  <2>2. u \in UiStates
    <3> DEFINE start == [app |-> app, thread |-> thread]
               polled == Poll(start)
               done == FoldLeft(Execute, polled, queue)
    <3>1. start \in UiStates /\ start.app.images = app.images /\ app.images \in Nat
      BY DEF UiStates, Apps
    <3>2. polled \in UiStates /\ polled.app.images >= app.images
      BY <3>1, PollKeeps
    <3>3. u = AnswerShot(AnswerWaiters(done), arrived)
      BY DEF HandleControl
    <3> HIDE DEF start, polled
    <3>4. done \in UiStates /\ done.app.images >= polled.app.images
      BY <3>2, ExecutingKeeps
    <3> HIDE DEF done
    <3>5. AnswerWaiters(done) \in UiStates /\ AnswerWaiters(done).app.images = done.app.images
      BY <3>4, AnswerWaitersKeeps
    <3>6. polled.app.images \in Nat /\ done.app.images \in Nat
      BY <3>2, <3>4 DEF UiStates, Apps
    <3>7. arrived => AnswerWaiters(done).app.images > 0
      BY <2>1, <3>1, <3>2, <3>4, <3>5, <3>6
    <3> QED
      BY <3>3, <3>5, <3>7, AnswerShotKeeps
  <2>3. PICK after : /\ after \in {u, Stop(u), StartTests(u, Failing(u))}
                                  \cup {StartTests(u, list) : list \in {<<t>> : t \in Tests} \cup {All}}
                     /\ queue' = <<>> /\ UNCHANGED client
                     /\ app' = [after.app EXCEPT !.answers = {}]
                     /\ thread' = after.thread
                     /\ replies' = replies \cup {r \in after.app.answers : WaitsOn(r.channel)}
    <3>1. CASE PlainFrame(arrived)
      BY <3>1 DEF PlainFrame, Frame
    <3>2. CASE FrameWithStop(arrived)
      BY <3>2 DEF FrameWithStop, Frame
    <3>3. CASE FrameWithRun(arrived)
      BY <3>3 DEF FrameWithRun, Frame
    <3> HIDE DEF u
    <3> QED
      BY <1>7, <3>1, <3>2, <3>3
  <2> HIDE DEF u
  <2>4. after \in UiStates
    <3>1. \A list \in {<<t>> : t \in Tests} \cup {All} : list \in Seq(Tests)
      <4>1. All \in Seq(Tests) /\ \A t \in Tests : <<t>> \in Seq(Tests)
        BY ControlAssumption
      <4> QED
        BY <4>1
    <3>2. \A list \in {<<t>> : t \in Tests} \cup {All} : StartTests(u, list) \in UiStates
      BY <2>2, <3>1, StartTestsKeeps
    <3>3. StartTests(u, Failing(u)) \in UiStates
      BY <2>2, FailingAreTests, StartTestsKeeps
    <3>4. Stop(u) \in UiStates
      BY <2>2, StopKeeps
    <3> QED
      BY <2>2, <2>3, <3>2, <3>3, <3>4
  <2>5. after.app \in Apps /\ after.thread \in Threads
    BY <2>4 DEF UiStates
  <2>6. app' \in Apps
    BY <2>3, <2>5 DEF Apps
  <2>7. replies' \in SUBSET Replies
    BY <2>3, <2>5 DEF Apps
  <2> QED
    BY <2>3, <2>5, <2>6, <2>7 DEF OwnAnswer
<1>8. CASE UNCHANGED vars
  BY <1>8 DEF vars, OwnAnswer
<1> QED
  BY <1>2, <1>3, <1>4, <1>5, <1>6, <1>7, <1>8 DEF Next

(* Everything the port and the test thread keep stays what it should be.   *)
THEOREM ControlInvariant == Spec => []CInv
<1> QED
  BY InitC, NextC, PTL DEF Spec

(* Whatever requests are made, time out or are put off on any number of    *)
(* connections, an answer that a connection hears is that to its last      *)
(* request.                                                                *)
THEOREM AnswersAreOwn == Spec => []OwnAnswer
<1>1. CInv => OwnAnswer
  BY DEF CInv
<1> QED
  BY <1>1, ControlInvariant, PTL

(* Of any tests, whatever their courses and however they are run, stopped  *)
(* and run again, none is shown to have passed that was not let get        *)
(* through its ticks.                                                      *)
THEOREM PassesAreEarned == Spec => []PassedToTheEnd
<1>1. CInv => PassedToTheEnd
  BY DEF CInv, Apps, ShownReports, FairReports, PassedToTheEnd
<1> QED
  BY <1>1, ControlInvariant, PTL
==============================================================================
