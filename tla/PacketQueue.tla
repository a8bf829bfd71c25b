---------------------------- MODULE PacketQueue -----------------------------
(***************************************************************************)
(* What a world promises about the packets waiting to be sent: one queue,  *)
(* first in first out, which takes a packet only while it is below its     *)
(* limit and gives up none except from its head.  World implements it with *)
(* a batch, a pending list and a count of reserved places.                 *)
(***************************************************************************)
EXTENDS Naturals, Sequences

CONSTANTS Packets, Caps

VARIABLES
    queue,    \* the packets waiting, the next to go first
    cap       \* the size at which a packet is turned away

vars == <<queue, cap>>

Init == queue = <<>> /\ cap \in Caps

Enqueue(p) ==
    /\ Len(queue) < cap
    /\ queue' = Append(queue, p)
    /\ UNCHANGED cap

Dequeue ==
    /\ queue # <<>>
    /\ queue' = Tail(queue)
    /\ UNCHANGED cap

(* A limit below the present length drops nothing.                         *)
SetCap == cap' \in Caps /\ UNCHANGED queue

Next == Dequeue \/ SetCap \/ \E p \in Packets : Enqueue(p)

Spec == Init /\ [][Next]_vars
=============================================================================
