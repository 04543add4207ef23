-------------------------------- MODULE Fifo --------------------------------
(***************************************************************************)
(* What a bufChain promises: elements come out once each, in the order     *)
(* their places were taken.                                                *)
(* A consumer that keeps popping gets every element.                       *)
(***************************************************************************)
EXTENDS Naturals, Sequences

CONSTANT Elements

Nothing == 0

VARIABLES queue, last   \* the elements inside; the element that came out last

vars == <<queue, last>>

Init == queue = <<>> /\ last = Nothing

Push == \E e \in Elements : queue' = Append(queue, e) /\ UNCHANGED last

Pop == queue # <<>> /\ last' = Head(queue) /\ queue' = Tail(queue)

Next == Push \/ Pop

Spec == Init /\ [][Next]_vars /\ WF_vars(Pop)

=============================================================================
