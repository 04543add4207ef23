----------------------------- MODULE FlowWindow -----------------------------
(***************************************************************************)
(* One direction of a mux connection (lib/nps_mux/conn.go): the send       *)
(* window of the writing end, the receive window of the reading end, and   *)
(* the messages between them.                                              *)
(*                                                                         *)
(* A byte is its position in the stream and a segment the range lo .. hi   *)
(* (lo excluded), so what is lost, repeated or out of order would show.    *)
(* The credit of a muxMsgSendOk is a range as well, in the order the       *)
(* messages are queued: the code sends hi - lo.                            *)
(*                                                                         *)
(* Five goroutines take part, each with its own program counter: the       *)
(* writer (conn.Write), the closer (conn.Close of the writing end), the    *)
(* readSession of the writing end (SetSize), the readSession of the        *)
(* reading end (receiveWindow.Write) and the reader (conn.Read).  The two  *)
(* packed words maxSizeDone are read by a load and changed by a CAS; where *)
(* the code decides on the word alone the two are one step, where it also  *)
(* looks at bufQueue.Len they are two.                                     *)
(*                                                                         *)
(* The mux below delivers packets of one connection in order (BufChain,    *)
(* PriorityQueue: they are all in the low chain) and loses none.  How Pop  *)
(* and Push wait for each other is in RecvQueue; here Pop waits for an     *)
(* element or for the stop.  A Close by the reading end is in RecvQueue    *)
(* and MuxOpen, not here.  No caller sets a write deadline on a mux        *)
(* connection, so waitReceiveWindow has no timeout.                        *)
(*                                                                         *)
(* A definition named X_Y is a variant of X as a slip in the code would    *)
(* make it; the specification never uses it.                               *)
(***************************************************************************)
EXTENDS Integers, Sequences

CONSTANTS
    MaxSeg,        \* maximumSegmentSize
    InitWindow,    \* the window both ends start with, 30 segments in the code
    Windows,       \* the sizes calcSize can settle on, from its measurements
    CalcPeriod,    \* receiveWindow.Write recalculates every 10th time
    MaxWrite,      \* bound on the length of a buffer given to Write
    MaxRead,       \* bound on the length of a buffer given to Read
    StreamBound,   \* bound on the bytes written to the connection
    Closes         \* bound: whether the writing end is ever closed

ASSUME SegAssumption == MaxSeg \in Nat \ {0}
ASSUME WindowAssumption ==
    /\ Windows \subseteq Nat \ {0}
    /\ InitWindow \in Windows
ASSUME CalcAssumption == CalcPeriod \in Nat \ {0}
ASSUME BufAssumption == MaxWrite \in Nat \ {0} /\ MaxRead \in Nat \ {0}
ASSUME StreamAssumption == StreamBound \in Nat /\ Closes \in BOOLEAN

NoFin == -1

VARIABLES
    \* the writing end
    sw,          \* sendWindow.maxSizeDone: [max, done, wait]
    wpc,         \* the writer
    bufEnd,      \* position of the end of the buffer being written
    taken,       \* position up to which WriteTo has cut segments
    pushed,      \* position up to which segments are in the write queue
    spc, ack,    \* readSession of this end and the muxMsgSendOk it handles
    cpc,         \* the closer
    closeOp, closeOpCh, setSizeClosed,   \* the close signals of the window
    \* the way there and back
    data,        \* segments and the final muxConnClose, not yet received
    acks,        \* the muxMsgSendOk not yet received
    ackPushed, ackTaken,   \* history: credit put into acks and taken from it
    fin,         \* history: pushed when muxConnClose was queued
    \* the reading end
    rw,          \* receiveWindow.maxSizeDone: [max, done, wait]
    count,       \* receiveWindow.count, from 0 to CalcPeriod - 1
    qlen, q,     \* bufQueue: its length in bytes, its elements
    vpc, seg, vword, vremain, vread,   \* readSession of this end, in Write
    rpc, room, el, got, rword, rremain, rread,   \* the reader, in Read
    acct,        \* history: position up to which sendStatus has counted
    stopped,     \* receiveWindow.Stop was called by muxConnClose
    eof          \* Read has returned io.EOF and closed the window

wvars == <<sw, wpc, bufEnd, taken, pushed>>
svars == <<spc, ack>>
cvars == <<cpc, closeOp, closeOpCh, setSizeClosed>>
nvars == <<data, acks, ackPushed, ackTaken, fin>>
qvars == <<rw, qlen, q>>
vvars == <<count, vpc, seg, vword, vremain, vread, stopped>>
rvars == <<rpc, room, el, got, rword, rremain, rread, acct, eof>>
vars == <<wvars, svars, cvars, nvars, qvars, vvars, rvars>>

Word == [max : Windows, done : Nat, wait : BOOLEAN]
Segment == [lo : Nat, hi : Nat, part : BOOLEAN, fin : BOOLEAN]
Ack == [max : Windows, lo : Nat, hi : Nat]

NoSegment == [lo |-> 0, hi |-> 0, part |-> FALSE, fin |-> FALSE]
NoAck == [max |-> InitWindow, lo |-> 0, hi |-> 0]
FirstWord == [max |-> InitWindow, done |-> 0, wait |-> FALSE]

Least(a, b) == IF a < b THEN a ELSE b
Size(r) == r.hi - r.lo

\* remainingSize of either window: never negative.
Remaining_Signed(max, used) == max - used
Remaining(max, used) == IF used < max THEN max - used ELSE 0

Init ==
    /\ sw = FirstWord /\ rw = FirstWord
    /\ wpc = "idle" /\ bufEnd = 0 /\ taken = 0 /\ pushed = 0
    /\ spc = "idle" /\ ack = NoAck
    /\ cpc = "open" /\ closeOp = FALSE /\ closeOpCh = 0 /\ setSizeClosed = FALSE
    /\ data = <<>> /\ acks = <<>> /\ ackPushed = 0 /\ ackTaken = 0 /\ fin = NoFin
    /\ count = 0 /\ qlen = 0 /\ q = <<>>
    /\ vpc = "idle" /\ seg = NoSegment /\ vword = FirstWord /\ vremain = 0 /\ vread = 0
    /\ rpc = "idle" /\ room = 0 /\ el = NoSegment /\ got = 0
    /\ rword = FirstWord /\ rremain = 0 /\ rread = 0
    /\ acct = 0 /\ stopped = FALSE /\ eof = FALSE

-----------------------------------------------------------------------------
(* The writer: conn.Write, sendWindow.WriteFull, WriteTo.                  *)

Write(n) ==
    /\ wpc = "idle" /\ cpc = "open"
    /\ taken + n <= StreamBound
    /\ bufEnd' = taken + n
    /\ wpc' = "enter"
    /\ UNCHANGED <<sw, taken, pushed, svars, cvars, nvars, qvars, vvars, rvars>>

\* WriteTo begins: the window is closed, the buffer is drained, or on it goes.
Enter ==
    /\ wpc = "enter"
    /\ wpc' = IF closeOp \/ taken = bufEnd THEN "idle" ELSE "load"
    /\ bufEnd' = IF closeOp THEN taken ELSE bufEnd
    /\ UNCHANGED <<sw, taken, pushed, svars, cvars, nvars, qvars, vvars, rvars>>

\* The length of the next segment.
Cut_NotLimited(remain) == Least(MaxSeg, bufEnd - taken)
Cut(remain) == Least(Least(MaxSeg, bufEnd - taken), remain)

\* The label start of WriteTo.
TakeSegment ==
    /\ wpc = "load"
    /\ LET remain == Remaining(sw.max, sw.done)
       IN  IF remain = 0
           THEN /\ sw' = [sw EXCEPT !.wait = TRUE]
                /\ wpc' = "wait"
                /\ UNCHANGED taken
           ELSE /\ taken' = taken + Cut(remain)
                /\ wpc' = "count"
                /\ UNCHANGED sw
    /\ UNCHANGED <<bufEnd, pushed, svars, cvars, nvars, qvars, vvars, rvars>>

\* sent
Sent ==
    /\ wpc = "count"
    /\ sw' = [sw EXCEPT !.done = @ + (taken - pushed)]
    /\ wpc' = "push"
    /\ UNCHANGED <<bufEnd, taken, pushed, svars, cvars, nvars, qvars, vvars, rvars>>

PushSegment ==
    /\ wpc = "push"
    /\ data' = Append(data, [lo |-> pushed, hi |-> taken,
                             part |-> taken < bufEnd, fin |-> FALSE])
    /\ pushed' = taken
    /\ wpc' = "enter"
    /\ UNCHANGED <<sw, bufEnd, taken, svars, cvars, acks, ackPushed, ackTaken, fin,
                   qvars, vvars, rvars>>

\* waitReceiveWindow ends with an error: the close signal, or the channel closed.
WaitClosed ==
    /\ wpc = "wait"
    /\ \/ closeOpCh > 0 /\ closeOpCh' = closeOpCh - 1
       \/ setSizeClosed /\ UNCHANGED closeOpCh
    /\ wpc' = "idle"
    /\ bufEnd' = taken
    /\ UNCHANGED <<sw, taken, pushed, svars, cpc, closeOp, setSizeClosed, nvars,
                   qvars, vvars, rvars>>

Writer == Enter \/ TakeSegment \/ Sent \/ PushSegment \/ WaitClosed

-----------------------------------------------------------------------------
(* The closer: closeProcess of the writing end.                            *)

\* isClose is set and the connection leaves connMap.
CloseDelete ==
    /\ Closes /\ cpc = "open"
    /\ cpc' = "deleted"
    /\ UNCHANGED <<wvars, svars, closeOp, closeOpCh, setSizeClosed, nvars, qvars, vvars, rvars>>

CloseSend ==
    /\ cpc = "deleted"
    /\ cpc' = "told"
    /\ data' = Append(data, [lo |-> pushed, hi |-> pushed, part |-> FALSE, fin |-> TRUE])
    /\ fin' = pushed
    /\ UNCHANGED <<wvars, svars, closeOp, closeOpCh, setSizeClosed, acks, ackPushed,
                   ackTaken, qvars, vvars, rvars>>

\* window.CloseWindow puts one token into closeOpCh for each goroutine that
\* may be waiting.
CloseTokens_One == 1
CloseTokens == 2

CloseWindow ==
    /\ cpc = "told"
    /\ cpc' = "closed"
    /\ closeOp' = TRUE
    /\ closeOpCh' = closeOpCh + CloseTokens
    /\ UNCHANGED <<wvars, svars, setSizeClosed, nvars, qvars, vvars, rvars>>

Closer == CloseSend \/ CloseWindow

-----------------------------------------------------------------------------
(* readSession of the writing end: sendWindow.SetSize.                     *)

\* The packet is dropped when the connection has left connMap.
TakeAck ==
    /\ spc = "idle" /\ acks # <<>>
    /\ acks' = Tail(acks)
    /\ ackTaken' = Head(acks).hi
    /\ IF cpc = "open"
       THEN spc' = "set" /\ ack' = Head(acks)
       ELSE UNCHANGED svars
    /\ UNCHANGED <<wvars, cvars, data, ackPushed, fin, qvars, vvars, rvars>>

SetSizeOnClosed ==
    /\ spc = "set" /\ closeOp
    /\ setSizeClosed' = TRUE
    /\ spc' = "idle" /\ ack' = NoAck
    /\ UNCHANGED <<wvars, cpc, closeOp, closeOpCh, nvars, qvars, vvars, rvars>>

\* "window read > send", or nothing new.
SetSizeIgnored ==
    \/ Size(ack) > sw.done
    \/ Size(ack) = 0 /\ ack.max = sw.max

StillFull == Remaining(ack.max, sw.done - Size(ack)) = 0 /\ sw.wait

\* After the CAS the waiting writer has to be let go.
Notify_Never == FALSE
Notify == sw.wait /\ ~StillFull

SetSize ==
    /\ spc = "set" /\ ~closeOp
    /\ IF SetSizeIgnored
       THEN spc' = "idle" /\ UNCHANGED sw
       ELSE /\ sw' = [max |-> ack.max, done |-> sw.done - Size(ack), wait |-> StillFull]
            /\ spc' = IF Notify THEN "allow" ELSE "idle"
    /\ ack' = NoAck
    /\ UNCHANGED <<wpc, bufEnd, taken, pushed, cvars, nvars, qvars, vvars, rvars>>

\* allow: the writer receives from setSizeCh, or the close signal comes first.
Allow ==
    /\ spc = "allow" /\ wpc = "wait"
    /\ spc' = "idle" /\ wpc' = "load"
    /\ UNCHANGED <<sw, bufEnd, taken, pushed, ack, cvars, nvars, qvars, vvars, rvars>>

AllowClosed ==
    /\ spc = "allow" /\ closeOpCh > 0
    /\ closeOpCh' = closeOpCh - 1
    /\ setSizeClosed' = TRUE
    /\ spc' = "idle"
    /\ UNCHANGED <<wvars, ack, cpc, closeOp, nvars, qvars, vvars, rvars>>

Sender == TakeAck \/ SetSizeOnClosed \/ SetSize \/ Allow \/ AllowClosed

-----------------------------------------------------------------------------
(* readSession of the reading end: newMsg, receiveWindow.Write, Push.      *)

\* A segment on a closed window is refused and dropped; muxConnClose stops the
\* queue behind the segments before it.
TakePacket ==
    /\ vpc = "idle" /\ data # <<>>
    /\ data' = Tail(data)
    /\ seg' = Head(data)
    /\ vpc' = IF Head(data).fin \/ eof THEN "idle" ELSE "calc"
    /\ stopped' = (stopped \/ Head(data).fin)
    /\ UNCHANGED <<wvars, svars, cvars, acks, ackPushed, ackTaken, fin, qvars,
                   count, vword, vremain, vread, rvars>>

\* calcSize changes the size only.
CalcSize ==
    /\ vpc = "calc"
    /\ \/ count = 0 /\ \E n \in Windows : rw' = [rw EXCEPT !.max = n]
       \/ count # 0 /\ UNCHANGED rw
    /\ count' = (count + 1) % CalcPeriod
    /\ vpc' = "load"
    /\ UNCHANGED <<wvars, svars, cvars, nvars, qlen, q, seg, vword, vremain, vread,
                   stopped, rvars>>

\* The label start of Write.
LoadWindow ==
    /\ vpc = "load"
    /\ vword' = rw
    /\ vremain' = IF rw.wait THEN 0 ELSE Remaining(rw.max, qlen + Size(seg))
    /\ vpc' = IF rw.wait THEN "length" ELSE "cas"
    /\ vread' = 0
    /\ UNCHANGED <<wvars, svars, cvars, nvars, qvars, count, seg, stopped, rvars>>

\* A program counter that leaves a CAS forgets what it had loaded (the values go
\* back to FirstWord and 0): the code does not look at them again.

\* The word Write stores when no wait is set: full, or its credit is taken.
Claimed_Kept(word) == word
Claimed(word) == [word EXCEPT !.done = 0]

\* Another goroutine changed the word: look at it again.
Retry == "load"

\* The CAS of Write: the window is now full, or its credit goes out with the
\* acknowledgement.  vpc "length!" remembers that one will be sent.
CasWindow ==
    /\ vpc = "cas"
    /\ vremain' = 0
    /\ IF rw # vword
       THEN vpc' = Retry /\ UNCHANGED <<rw, vread>>
       ELSE IF vremain = 0
            THEN /\ rw' = [rw EXCEPT !.wait = TRUE]
                 /\ vpc' = "length"
                 /\ UNCHANGED vread
            ELSE /\ rw' = Claimed(rw)
                 /\ vread' = rw.done
                 /\ vpc' = "length!"
    /\ UNCHANGED <<wvars, svars, cvars, nvars, qlen, q, count, seg, vword, stopped,
                   rvars>>

\* receiveWindowQueue.Push: first the length, then the element.
PushLength ==
    /\ vpc \in {"length", "length!"}
    /\ qlen' = qlen + Size(seg)
    /\ vpc' = IF vpc = "length" THEN "element" ELSE "element!"
    /\ UNCHANGED <<wvars, svars, cvars, nvars, rw, q, count, seg, vword, vremain,
                   vread, stopped, rvars>>

Enqueued_First(queue, e) == <<e>> \o queue
Enqueued(queue, e) == Append(queue, e)

PushElement ==
    /\ vpc \in {"element", "element!"}
    /\ q' = Enqueued(q, seg)
    /\ \/ vpc = "element" /\ vpc' = "idle" /\ vword' = FirstWord
       \/ vpc = "element!" /\ vpc' = "ack" /\ UNCHANGED vword
    /\ UNCHANGED <<wvars, svars, cvars, nvars, rw, qlen, count, seg, vremain,
                   vread, stopped, rvars>>

SendOk(max, read) ==
    /\ acks' = Append(acks, [max |-> max, lo |-> ackPushed, hi |-> ackPushed + read])
    /\ ackPushed' = ackPushed + read
    /\ UNCHANGED <<data, ackTaken, fin>>

AckWrite ==
    /\ vpc = "ack"
    /\ SendOk(vword.max, vread)
    /\ vpc' = "idle"
    /\ vread' = 0
    /\ vword' = FirstWord
    /\ UNCHANGED <<wvars, svars, cvars, qvars, count, seg, vremain, stopped, rvars>>

Receiver ==
    \/ TakePacket \/ CalcSize \/ LoadWindow \/ CasWindow
    \/ PushLength \/ PushElement \/ AckWrite

-----------------------------------------------------------------------------
(* The reader: conn.Read, readFromQueue, sendStatus.                       *)

Read(n) ==
    /\ rpc = "idle" /\ ~eof
    /\ room' = n
    /\ rpc' = "next"
    /\ UNCHANGED <<wvars, svars, cvars, nvars, qvars, vvars, el, got, rword, rremain,
                   rread, acct, eof>>

\* The label copyData: the element at hand is not drained, or the next one is
\* popped, or there is none and there will be none.
Continue ==
    /\ rpc = "next" /\ got < el.hi
    /\ rpc' = "copy"
    /\ UNCHANGED <<wvars, svars, cvars, nvars, qvars, vvars, room, el, got, rword,
                   rremain, rread, acct, eof>>

Pop ==
    /\ rpc = "next" /\ got = el.hi /\ q # <<>>
    /\ el' = Head(q)
    /\ q' = Tail(q)
    /\ rpc' = "popped"
    /\ UNCHANGED <<wvars, svars, cvars, nvars, rw, qlen, vvars, room, got, rword,
                   rremain, rread, acct, eof>>

PopLength ==
    /\ rpc = "popped"
    /\ qlen' = qlen - Size(el)
    /\ rpc' = "copy"
    /\ UNCHANGED <<wvars, svars, cvars, nvars, rw, q, vvars, room, el, got, rword,
                   rremain, rread, acct, eof>>

\* Pop gives up when the length is zero, or became non-zero by a segment queued
\* behind muxConnClose while it waited (RecvQueue).
Drained_Ignored == TRUE
Drained == qlen = 0

PopEof ==
    /\ rpc = "next" /\ got = el.hi /\ stopped
    /\ Drained \/ got >= fin
    /\ eof' = TRUE
    /\ rpc' = "idle"
    /\ UNCHANGED <<wvars, svars, cvars, nvars, qvars, vvars, room, el, got, rword,
                   rremain, rread, acct>>

\* After an element that ends a Write the call returns; after a part it goes on
\* as long as there is room.
AfterElement(left) == IF left > 0 /\ el.part THEN "next" ELSE "idle"

Copy ==
    /\ rpc = "copy"
    /\ LET l == Least(room, el.hi - got)
       IN  /\ got' = got + l
           /\ room' = room - l
           /\ rpc' = IF got + l = el.hi THEN "status" ELSE "idle"
    /\ UNCHANGED <<wvars, svars, cvars, nvars, qvars, vvars, el, rword, rremain, rread,
                   acct, eof>>

LoadStatus ==
    /\ rpc = "status"
    /\ rword' = rw
    /\ rremain' = Remaining(rw.max, qlen)
    /\ rpc' = "cas"
    /\ UNCHANGED <<wvars, svars, cvars, nvars, qvars, vvars, room, el, got, rread,
                   acct, eof>>

\* When sendStatus tells the other end: there is room again, half the window was
\* read, or the queue is empty ("still having a condition that receive window
\* is empty and not send the status to send window").
Tell_NotWhenEmpty(word, remain, read) ==
    (word.wait /\ remain > 0) \/ read >= word.max \div 2
Tell(word, remain, read) ==
    \/ word.wait /\ remain > 0
    \/ read >= word.max \div 2
    \/ remain = word.max

CasStatus ==
    /\ rpc = "cas"
    /\ LET read == rword.done + Size(el)
       IN  IF rw # rword
           THEN rpc' = "status" /\ UNCHANGED <<rw, rread, acct>>
           ELSE /\ acct' = el.hi
                /\ IF Tell(rword, rremain, read)
                   THEN /\ rw' = [rw EXCEPT !.done = 0, !.wait = FALSE]
                        /\ rread' = read
                        /\ rpc' = "ack"
                   ELSE /\ rw' = [rw EXCEPT !.done = read]
                        /\ rpc' = AfterElement(room)
                        /\ UNCHANGED rread
    /\ rword' = IF rpc' = "ack" THEN rword ELSE FirstWord
    /\ rremain' = 0
    /\ UNCHANGED <<wvars, svars, cvars, nvars, qlen, q, vvars, room, el, got, eof>>

AckStatus ==
    /\ rpc = "ack"
    /\ SendOk(rword.max, rread)
    /\ rread' = 0
    /\ rword' = FirstWord
    /\ rpc' = AfterElement(room)
    /\ UNCHANGED <<wvars, svars, cvars, qvars, vvars, room, el, got, rremain, acct, eof>>

Reader ==
    \/ \E n \in 1 .. MaxRead : Read(n)
    \/ Continue \/ Pop \/ PopLength \/ PopEof \/ Copy \/ LoadStatus \/ CasStatus \/ AckStatus

-----------------------------------------------------------------------------

Next ==
    \/ \E n \in 1 .. MaxWrite : Write(n)
    \/ Writer
    \/ CloseDelete
    \/ Closer
    \/ Sender
    \/ Receiver
    \/ Reader

\* The runtime schedules every goroutine, and the application at the reading
\* end keeps calling Read.  Nothing obliges the other end to write or to close.
Spec ==
    /\ Init /\ [][Next]_vars
    /\ WF_vars(Writer) /\ WF_vars(Closer) /\ WF_vars(Sender)
    /\ WF_vars(Receiver) /\ WF_vars(Reader)

-----------------------------------------------------------------------------
(* Properties.                                                             *)

TypeOK ==
    /\ sw \in Word /\ rw \in Word
    /\ wpc \in {"idle", "enter", "load", "wait", "count", "push"}
    /\ bufEnd \in Nat /\ taken \in Nat /\ pushed \in Nat
    /\ spc \in {"idle", "set", "allow"} /\ ack \in Ack
    /\ cpc \in {"open", "deleted", "told", "closed"}
    /\ closeOp \in BOOLEAN /\ closeOpCh \in 0 .. 2 /\ setSizeClosed \in BOOLEAN
    /\ data \in Seq(Segment) /\ acks \in Seq(Ack)
    /\ ackPushed \in Nat /\ ackTaken \in Nat /\ fin \in Nat \cup {NoFin}
    /\ count \in 0 .. CalcPeriod - 1 /\ qlen \in Nat /\ q \in Seq(Segment)
    /\ vpc \in {"idle", "calc", "load", "cas", "length", "length!", "element",
                "element!", "ack"}
    /\ seg \in Segment /\ vword \in Word /\ vremain \in Nat /\ vread \in Nat
    /\ rpc \in {"idle", "next", "popped", "copy", "status", "cas", "ack"}
    /\ room \in Nat /\ el \in Segment /\ got \in Nat
    /\ rword \in Word /\ rremain \in Nat /\ rread \in Nat
    /\ acct \in Nat /\ stopped \in BOOLEAN /\ eof \in BOOLEAN

\* Both ends are still open: no credit has been thrown away.
Open == cpc = "open" /\ ~eof

\* Bytes counted by sent, and the credit of a muxMsgSendOk being handled.
Counted == IF wpc = "count" THEN pushed ELSE taken
Held == IF spc = "set" THEN Size(ack) ELSE 0

\* Every byte counted in the send window is on its way, in the queue, in the
\* reader's hands, or is credit on its way back: none is forgotten and none is
\* returned twice ("send and read will be totally equal", sendWindow).
CreditConserved ==
    Open => sw.done = (Counted - acct) + rw.done + vread + rread
                        + (ackPushed - ackTaken) + Held

\* The branch of SetSize that logs "window read > send" is never taken.
ReadWithinSent == Open /\ spc = "set" => Size(ack) <= sw.done

\* The bytes sent and not yet read fit the largest window ever offered, so
\* the receive queue is bounded although Push never refuses an element.
WindowRespected == \A w \in Windows : (\A v \in Windows : v <= w) => Counted - got <= w

\* Nothing is on its way and no goroutine is at work.
Quiet ==
    /\ data = <<>> /\ acks = <<>> /\ q = <<>>
    /\ spc = "idle" /\ vpc = "idle" /\ rpc \in {"idle", "next"} /\ got = el.hi
    /\ wpc \in {"idle", "wait"}

\* When all that was sent has been read and every message has arrived, the
\* send window is empty again and no writer waits in it: with a window that
\* calcSize shrinks and grows, and the acknowledgements of Write and sendStatus
\* overtaking each other.
QuietMeansFree == Open /\ Quiet => sw.done = 0 /\ rw.done = 0 /\ qlen = 0 /\ wpc = "idle"

\* Read returns io.EOF only after every byte queued before muxConnClose.
EofComplete == eof => fin # NoFin /\ got >= fin

\* The bytes reach the reader in order: the element it takes begins where it is.
InOrder == [][el' # el => el'.lo = got]_vars

\* Again and again the reader has caught up with all that was queued, or with
\* all that was queued before the close: no byte is left in a closed window.
Delivered == []<>(got >= IF fin = NoFin THEN pushed ELSE fin)

\* Write returns: the window opens again or the connection is closed.
WriteReturns == wpc # "idle" ~> wpc = "idle"

\* readSession does not stay in allow, where it would hold up every other
\* connection of the mux.
AllowReturns == spc = "allow" ~> spc = "idle"

=============================================================================
