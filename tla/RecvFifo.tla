------------------------------ MODULE RecvFifo ------------------------------
(***************************************************************************)
(* What the receive queue of a mux connection promises to the one          *)
(* goroutine that reads it: a call of Pop returns the oldest segment, or   *)
(* io.EOF once the other end has closed and all it sent before is taken,   *)
(* or a timeout.  A Pop that can return does.                              *)
(*                                                                         *)
(* Once the connection is closed at this end the segments that are left    *)
(* may go, and a Pop under way has no more than its order to rely on.      *)
(***************************************************************************)
EXTENDS Integers, Sequences

NoEnd == -1

VARIABLES
    segments,   \* pushed and not yet popped
    next,       \* the number of the next segment to be pushed
    popping,    \* a call of Pop is under way
    last,       \* the segment that Pop returned last
    end,        \* the last segment before the other end closed
    over,       \* Pop has returned an error: it is not called again
    deadlines,  \* whether the reader sets deadlines
    closed      \* this end has closed the connection

cvars == <<deadlines, closed>>
vars == <<segments, next, popping, last, end, over, cvars>>

Init ==
    /\ segments = <<>> /\ next = 1
    /\ popping = FALSE /\ last = 0
    /\ end = NoEnd /\ over = FALSE
    /\ deadlines \in BOOLEAN /\ closed = FALSE

Push ==
    /\ segments' = Append(segments, next)
    /\ next' = next + 1
    /\ UNCHANGED <<popping, last, end, over, cvars>>

End ==
    /\ end = NoEnd
    /\ end' = next - 1
    /\ UNCHANGED <<segments, next, popping, last, over, cvars>>

Call ==
    /\ ~popping /\ ~over
    /\ popping' = TRUE
    /\ UNCHANGED <<segments, next, last, end, over, cvars>>

Return ==
    /\ popping /\ segments # <<>>
    /\ last' = Head(segments)
    /\ segments' = Tail(segments)
    /\ popping' = FALSE
    /\ UNCHANGED <<next, end, over, cvars>>

Fail == popping' = FALSE /\ over' = TRUE /\ UNCHANGED <<segments, next, last, end, cvars>>

ReturnEof ==
    /\ popping
    /\ closed \/ (end # NoEnd /\ last >= end)
    /\ Fail

ReturnTimeout == popping /\ deadlines /\ Fail

Close ==
    /\ ~closed
    /\ closed' = TRUE
    /\ UNCHANGED <<segments, next, popping, last, end, over, deadlines>>

\* After an error or a close the segments that are left, or still come, are
\* thrown away.
Discard ==
    /\ over \/ closed
    /\ segments # <<>>
    /\ segments' = Tail(segments)
    /\ UNCHANGED <<next, popping, last, end, over, cvars>>

Next ==
    \/ Push \/ End \/ Call \/ Return \/ ReturnEof \/ ReturnTimeout \/ Close \/ Discard

Spec == Init /\ [][Next]_vars /\ WF_vars(~closed /\ (Return \/ ReturnEof))

=============================================================================
