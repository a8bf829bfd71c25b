------------------------------- MODULE Probe --------------------------------
(***************************************************************************)
(* A stress test as the background runner runs it (emergence-sandbox/src/  *)
(* stress.rs): a Probe ticks a world of its own and checks what came of    *)
(* it, until the test's `verify` is through, fails, or is stopped.  Then   *)
(* it is decided whether the test passed.                                  *)
(*                                                                         *)
(* What a world does in a tick, and so whether a check is met, is open.    *)
(*                                                                         *)
(* A definition marked `Fault:` is not the code's.                         *)
(***************************************************************************)
EXTENDS Naturals, Sequences, SequencesExt, FiniteSets, FiniteSetsExt

(* The steps of a test's `verify`: to run so many ticks, through a tripped *)
(* fuse or up to it, or to check something (all of the expect_ functions). *)
CourseSteps == [is: {"check"}] \cup [is: {"run"}, ticks: Nat, through: BOOLEAN]

Asked(course) == FoldSeq(LAMBDA step, sum : sum + IF step.is = "run" THEN step.ticks ELSE 0, 0, course)

(* What a test may meet: the ticks in which its fuse trips, the one that   *)
(* fails, the ticks done when it sees that it is cancelled or out of time, *)
(* and the checks that are not met.  0 and Never: none.                    *)
Never(course) == Asked(course) + 1
Luck(course) ==
    [trips: SUBSET (1..Asked(course)), fails: 1..Never(course), stops: 0..Never(course),
     misses: SUBSET {i \in DOMAIN course : course[i].is = "check"}]

Started == [ticks |-> 0, fuse |-> FALSE, stopped |-> FALSE, failed |-> FALSE, lines |-> <<>>]

(* run_inner: before each tick it looks whether it has to stop.  The tick  *)
(* that fails is not counted.                                              *)
RunTicks(p, step, luck) ==
    LET upto == p.ticks + step.ticks
        trips == {t \in luck.trips : t > p.ticks /\ t <= upto}
        last == Min({upto} \cup (IF step.through THEN {} ELSE trips) \cup ({luck.fails} \cap (p.ticks + 1)..upto))
        stop == Max({luck.stops, p.ticks})
        reached == Min({stop, last})
        failed == reached = luck.fails
        ticks == IF failed THEN reached - 1 ELSE reached
    IN  [p EXCEPT !.ticks = ticks,
                  !.fuse = @ \/ \E t \in trips : t <= ticks,
                  !.stopped = @ \/ stop < last,
                  !.failed = failed]

Did(p, step, luck, i) ==
    CASE p.failed -> p
      [] ~p.failed /\ step.is = "run" -> RunTicks(p, step, luck)
      [] ~p.failed /\ step.is = "check" -> [p EXCEPT !.lines = Append(@, i \notin luck.misses)]

Verified(course, luck) ==
    FoldLeftDomain(LAMBDA p, i : Did(p, course[i], luck, i), Started, course)

(* Fault: only what was checked counts. *)
FinishByLines(p) ==
    [passed |-> ~p.failed /\ p.lines # <<>> /\ (\A i \in DOMAIN p.lines : p.lines[i]),
     ticks |-> p.ticks, fuse |-> p.fuse]

Finish(p) ==
    [passed |-> ~p.failed /\ ~p.stopped /\ p.lines # <<>> /\ (\A i \in DOMAIN p.lines : p.lines[i]),
     ticks |-> p.ticks, fuse |-> p.fuse]

(* A test that panics, or whose world can not be set up.                   *)
ErrorReport == [passed |-> FALSE, ticks |-> 0, fuse |-> FALSE]

(* The reports a test may come to.                                         *)
Reports(course) == {ErrorReport} \cup {Finish(Verified(course, luck)) : luck \in Luck(course)}
=============================================================================
