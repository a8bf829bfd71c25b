------------------------------ MODULE MCControl ------------------------------
(* Two connections, and one test: a tick, a check, and another tick.       *)
EXTENDS Control

CONSTANTS c1, c2, t1

MCAll == <<t1>>
MCCourse ==
    t1 :> <<[is |-> "run", ticks |-> 1, through |-> FALSE], [is |-> "check"],
            [is |-> "run", ticks |-> 1, through |-> TRUE]>>

(* One of them asks again after it gave up.                               *)
MCAsks ==
    (c1 :> {[is |-> "run", tests |-> MCAll, wait |-> TRUE], [is |-> "screenshot"], [is |-> "results"]})
    @@ (c2 :> {[is |-> "run", tests |-> MCAll, wait |-> wait] : wait \in BOOLEAN} \cup {[is |-> "quit"]})
MCMaxAsks == (c1 :> 2) @@ (c2 :> 1)
==============================================================================
