------------------------------ MODULE PortMux -------------------------------
(***************************************************************************)
(* The port multiplexer (lib/pmux): one port for the clients of nps, its   *)
(* web console, HTTP and HTTPS.  A goroutine per connection reads as much  *)
(* of it as it takes to tell what it is, and hands it, with those bytes    *)
(* kept in a PortConn, to whoever is in Accept of the listener of that     *)
(* kind, or gives it up after ACCEPT_TIME_OUT.  The PortConn replays the   *)
(* bytes and then reads the connection.                                    *)
(*                                                                         *)
(* The bytes of a connection are numbered 1, 2, ... in units of the three  *)
(* bytes that tell its kind; a request of HTTP is read up to its Host line *)
(* and whatever is buffered.                                               *)
(*                                                                         *)
(* A definition named X_Y is a variant of X as a slip in the code would    *)
(* make it; the specification never uses it.                               *)
(***************************************************************************)
EXTENDS Integers, Sequences

CONSTANTS
    Conns,          \* connections to the port
    MaxHead,        \* bound on the units read of an HTTP request
    MaxBytes,       \* bound on the units a connection sends
    Buffers         \* sizes of the buffers its reader uses

Kinds == {"client", "http", "https", "manager"}

VARIABLES
    isClose, alive,   \* PortMux.isClose; the process runs
    pc, kind,         \* connection -> the step of its goroutine, what it is
    waiting,          \* kinds whose listener has a goroutine in Accept
    listenerClosed,   \* kinds whose PortListener was closed
    rs, start,        \* PortConn: the number of units kept, and replayed
    taken,            \* units read from the connection itself
    delivered,        \* what the reader of the PortConn got
    short             \* reads with less room than was left to replay

vars == <<isClose, alive, pc, kind, waiting, listenerClosed, rs, start, taken, delivered, short>>
mux == <<isClose, alive>>
portConn == <<rs, start, taken, delivered, short>>

Init ==
    /\ isClose = FALSE /\ alive = TRUE
    /\ pc = [c \in Conns |-> "none"] /\ kind \in [Conns -> Kinds]
    /\ waiting = {} /\ listenerClosed = {}
    /\ rs = [c \in Conns |-> 0] /\ start = [c \in Conns |-> 0] /\ taken = [c \in Conns |-> 0]
    /\ delivered = [c \in Conns |-> <<>>] /\ short = [c \in Conns |-> 0]

Move(c, from, to) == alive /\ pc[c] = from /\ pc' = [pc EXCEPT ![c] = to]

-----------------------------------------------------------------------------
(* process.                                                                *)

AcceptTcp(c) ==
    /\ Move(c, "none", "process")
    /\ ~isClose
    /\ UNCHANGED <<mux, kind, waiting, listenerClosed, portConn>>

\* How much of a connection is kept: three bytes, or the head of a request.
Kept(c) == IF kind[c] \in {"http", "manager"} THEN 2 .. MaxHead ELSE {1}
ReadMore(c) == kind[c] = "https"

Recognise(c) ==
    /\ Move(c, "process", "offer")
    /\ \E n \in Kept(c) : rs' = [rs EXCEPT ![c] = n] /\ taken' = [taken EXCEPT ![c] = n]
    /\ UNCHANGED <<mux, kind, waiting, listenerClosed, start, delivered, short>>

\* It ends before it can be told what it is: left as it is before three bytes; closed,
\* and given up after the timeout, in the head of a request.
Unknown(c) ==
    /\ Move(c, "process", "gone")
    /\ UNCHANGED <<mux, kind, waiting, listenerClosed, portConn>>

\* The channels are unbuffered; closed ones make the goroutine panic.
HandOver(c) ==
    /\ Move(c, "offer", "handed")
    /\ ~isClose /\ kind[c] \in waiting
    /\ waiting' = waiting \ {kind[c]}
    /\ UNCHANGED <<mux, kind, listenerClosed, portConn>>

\* Nobody is told and nothing is closed.
TimeOut(c) ==
    /\ Move(c, "offer", "gone")
    /\ UNCHANGED <<mux, kind, waiting, listenerClosed, portConn>>

-----------------------------------------------------------------------------
(* PortListener; and the end of the listener.                              *)

Accept(k) ==
    /\ alive /\ k \notin listenerClosed \cup waiting
    /\ ~isClose
    /\ waiting' = waiting \cup {k}
    /\ UNCHANGED <<mux, pc, kind, listenerClosed, portConn>>

\* A goroutine in Accept is not woken, and may still be given a connection.
CloseListener(k) ==
    /\ alive /\ k \notin listenerClosed
    /\ listenerClosed' = listenerClosed \cup {k}
    /\ UNCHANGED <<mux, pc, kind, waiting, portConn>>

\* Accept of the port fails: Close, and those in Accept are told.
Fail ==
    /\ alive /\ ~isClose
    /\ isClose' = TRUE /\ waiting' = {}
    /\ UNCHANGED <<alive, pc, kind, listenerClosed, portConn>>

\* The loop goes on and processes the connection it did not get, which is nil; a
\* goroutine that offers its connection sends on a closed channel.
Panic ==
    /\ alive /\ isClose
    /\ alive' = FALSE
    /\ UNCHANGED <<isClose, pc, kind, waiting, listenerClosed, portConn>>

-----------------------------------------------------------------------------
(* PortConn.Read with a buffer of b units.                                 *)

Units(from, n) == [i \in 1 .. n |-> from + i]
Smaller(a, b) == IF a < b THEN a ELSE b

\* Less room than is left: the bytes come from the beginning of rs, whatever start is.
ReadShort(c, b) ==
    /\ alive /\ pc[c] = "handed" /\ b < rs[c] - start[c]
    /\ delivered' = [delivered EXCEPT ![c] = @ \o Units(0, b)]
    /\ start' = [start EXCEPT ![c] = @ + b]
    /\ short' = [short EXCEPT ![c] = @ + 1]
    /\ UNCHANGED <<mux, pc, kind, waiting, listenerClosed, rs, taken>>

Rest_FromBeginning(c) == Units(0, rs[c])
Rest(c) == Units(start[c], rs[c] - start[c])

\* The rest of rs, and for HTTPS at once what the connection has, n units.
ReadRest(c, b, n) ==
    /\ alive /\ pc[c] = "handed" /\ start[c] < rs[c] /\ b >= rs[c] - start[c]
    /\ n <= (IF ReadMore(c) THEN Smaller(b - (rs[c] - start[c]), MaxBytes - taken[c]) ELSE 0)
    /\ delivered' = [delivered EXCEPT ![c] = @ \o Rest(c) \o Units(taken[c], n)]
    /\ start' = [start EXCEPT ![c] = rs[c]]
    /\ taken' = [taken EXCEPT ![c] = @ + n]
    /\ UNCHANGED <<mux, pc, kind, waiting, listenerClosed, rs, short>>

ReadConn(c, b, n) ==
    /\ alive /\ pc[c] = "handed" /\ start[c] = rs[c]
    /\ n > 0 /\ n <= Smaller(b, MaxBytes - taken[c])
    /\ delivered' = [delivered EXCEPT ![c] = @ \o Units(taken[c], n)]
    /\ taken' = [taken EXCEPT ![c] = @ + n]
    /\ UNCHANGED <<mux, pc, kind, waiting, listenerClosed, rs, start, short>>

Next ==
    \/ \E c \in Conns :
        \/ AcceptTcp(c) \/ Recognise(c) \/ Unknown(c) \/ HandOver(c) \/ TimeOut(c)
        \/ \E b \in Buffers : ReadShort(c, b)
        \/ \E b \in Buffers, n \in 0 .. MaxBytes : ReadRest(c, b, n) \/ ReadConn(c, b, n)
    \/ \E k \in Kinds : Accept(k) \/ CloseListener(k)
    \/ Fail \/ Panic

Spec == Init /\ [][Next]_vars

-----------------------------------------------------------------------------
(* Properties.                                                             *)

TypeOK ==
    /\ isClose \in BOOLEAN /\ alive \in BOOLEAN
    /\ pc \in [Conns -> {"none", "process", "offer", "handed", "gone"}]
    /\ waiting \subseteq Kinds /\ listenerClosed \subseteq Kinds
    /\ rs \in [Conns -> 0 .. MaxHead] /\ taken \in [Conns -> 0 .. MaxBytes]
    /\ \A c \in Conns : start[c] \in 0 .. rs[c]

\* Who was handed a connection reads its bytes from the first one on, each once and in
\* order: what told its kind and what came after, unless more than one of its reads had
\* less room than was left of what is kept.
Replayed ==
    \A c \in Conns :
        pc[c] = "handed" /\ short[c] <= 1 => delivered[c] = Units(0, Len(delivered[c]))

PortSound == TypeOK /\ Replayed

=============================================================================
