------------------------- MODULE FlowWindow_proofs --------------------------
(***************************************************************************)
(* For every segment size, set of window sizes and length of stream, with  *)
(* or without a close: the types of both windows, the credit between them, *)
(* the bound on the receive queue, the order of the bytes, the end of the  *)
(* stream and, when nothing is on its way, a window that is free again.    *)
(*                                                                         *)
(* The argument follows the bytes.  What is between the writer and the     *)
(* reader is a chain of ranges, each beginning where the one before ends:  *)
(* the segments on their way, the one in readSession's hands, the receive  *)
(* queue.  Credit on its way back is such a chain as well.  A counter is   *)
(* then the difference of two positions in the stream.                     *)
(***************************************************************************)
EXTENDS FlowWindow, TLAPS

\* The ranges of s lead from a to b.  Order is said of every pair, so that it
\* needs no induction along the sequence.
Chained(s, a, b) ==
    /\ a <= b
    /\ \A i \in 1 .. Len(s) : a <= s[i].lo /\ s[i].lo <= s[i].hi /\ s[i].hi <= b
    /\ \A i, j \in 1 .. Len(s) : i < j => s[i].hi <= s[j].lo
    /\ \A i \in 1 .. Len(s) - 1 : s[i].hi = s[i + 1].lo
    /\ s = <<>> => a = b
    /\ s # <<>> => s[1].lo = a /\ s[Len(s)].hi = b

-----------------------------------------------------------------------------
(* The inductive invariant.                                                *)

\* The writer: what it has cut and not pushed is the one segment in its hands.
WriterInv ==
    /\ pushed <= taken /\ taken <= bufEnd
    /\ wpc \notin {"count", "push"} => taken = pushed
    /\ cpc # "closed" => closeOpCh = 0 /\ ~closeOp

\* The credit on its way back.
AckInv ==
    /\ Chained(acks, ackTaken, ackPushed)
    /\ ack.lo <= ack.hi
    /\ vpc \notin {"length!", "element!", "ack"} => vread = 0
    /\ rpc # "ack" => rread = 0

\* The reader: it has counted its element exactly if it has left it behind.
Accounted ==
    IF rpc \in {"popped", "copy", "status", "cas"} \/ got < el.hi THEN el.lo ELSE el.hi

ReaderInv ==
    /\ el.lo <= got /\ got <= el.hi /\ el.hi <= pushed
    /\ rpc = "popped" => got = el.lo
    /\ rpc \in {"status", "cas", "ack"} => got = el.hi
    /\ eof => rpc = "idle"
    /\ acct = Accounted

\* Where the queue ends, and whether readSession has a segment behind it.
QueueEnd == IF q = <<>> THEN el.hi ELSE q[Len(q)].hi
InHand == vpc \in {"calc", "load", "cas", "length", "length!", "element", "element!"}
Received == IF InHand THEN seg.hi ELSE QueueEnd

\* The bytes on their way; a reader that has left the closed window loses track.
StreamInv ==
    /\ \A i \in 1 .. Len(data) : data[i].lo <= data[i].hi
    /\ seg.lo <= seg.hi
    /\ ~eof =>
          /\ Chained(q, el.hi, QueueEnd)
          /\ InHand => seg.lo = QueueEnd
          /\ Chained(data, Received, pushed)
          /\ qlen = (QueueEnd - el.hi)
                      + (IF vpc \in {"element", "element!"} THEN Size(seg) ELSE 0)
                      + (IF rpc = "popped" THEN Size(el) ELSE 0)

\* The close: all that was pushed before it is received before it.
CloseInv ==
    /\ cpc \in {"open", "deleted"} <=> fin = NoFin
    /\ \A i \in 1 .. Len(data) : data[i].fin => data[i].lo = fin /\ data[i].hi = fin /\ fin # NoFin
    /\ stopped => fin # NoFin /\ (~eof => fin <= QueueEnd)
    /\ EofComplete

\* The counter of the send window never falls behind what is outstanding, and
\* both are the same as long as nobody has closed.
Outstanding ==
    (Counted - acct) + rw.done + vread + rread + (ackPushed - ackTaken) + Held

InWriter == IF wpc = "count" THEN taken - pushed ELSE 0

CreditInv ==
    /\ Outstanding <= sw.done
    /\ Open => sw.done = Outstanding
    /\ \A w \in Windows : (\A v \in Windows : v <= w) => sw.done + InWriter <= w

IInv ==
    /\ TypeOK /\ WriterInv /\ AckInv /\ ReaderInv
    /\ StreamInv /\ CloseInv /\ CreditInv

-----------------------------------------------------------------------------
(* Chains of ranges.                                                       *)

Ranges(S) == \A x \in S : x.lo \in Nat /\ x.hi \in Nat

\* A chain grows at its end: Push, sendInfo.
LEMMA ChainedAppend ==
    ASSUME NEW S, Ranges(S), NEW s \in Seq(S), NEW e \in S, NEW a \in Nat,
           Chained(s, a, e.lo), e.lo <= e.hi
    PROVE  Chained(Append(s, e), a, e.hi)
<1> DEFINE t == Append(s, e)
<1>1. /\ Len(t) = Len(s) + 1 /\ Len(s) \in Nat
      /\ \A i \in 1 .. Len(s) : t[i] = s[i] /\ s[i] \in S
      /\ t[Len(s) + 1] = e
      /\ t # <<>>
  OBVIOUS
<1>2. a <= e.hi
  BY DEF Chained, Ranges
<1>3. \A i \in 1 .. Len(t) : a <= t[i].lo /\ t[i].lo <= t[i].hi /\ t[i].hi <= e.hi
  <2> SUFFICES ASSUME NEW i \in 1 .. Len(t)
               PROVE  a <= t[i].lo /\ t[i].lo <= t[i].hi /\ t[i].hi <= e.hi
    OBVIOUS
  <2>1. CASE i = Len(s) + 1
    BY <1>1, <2>1 DEF Chained, Ranges
  <2>2. CASE i \in 1 .. Len(s)
    BY <1>1, <2>2 DEF Chained, Ranges
  <2>3. QED
    BY <1>1, <2>1, <2>2
<1>4. \A i, j \in 1 .. Len(t) : i < j => t[i].hi <= t[j].lo
  <2> SUFFICES ASSUME NEW i \in 1 .. Len(t), NEW j \in 1 .. Len(t), i < j
               PROVE  t[i].hi <= t[j].lo
    OBVIOUS
  <2>1. CASE j = Len(s) + 1
    BY <1>1, <2>1 DEF Chained, Ranges
  <2>2. CASE j \in 1 .. Len(s)
    BY <1>1, <2>2 DEF Chained, Ranges
  <2>3. QED
    BY <1>1, <2>1, <2>2
<1>5. \A i \in 1 .. Len(t) - 1 : t[i].hi = t[i + 1].lo
  <2> SUFFICES ASSUME NEW i \in 1 .. Len(s) PROVE t[i].hi = t[i + 1].lo
    BY <1>1
  <2>1. CASE i = Len(s)
    BY <1>1, <2>1 DEF Chained, Ranges
  <2>2. CASE i \in 1 .. Len(s) - 1
    BY <1>1, <2>2 DEF Chained, Ranges
  <2>3. QED
    BY <2>1, <2>2
<1>6. t[1].lo = a /\ t[Len(t)].hi = e.hi
  <2>1. CASE s = <<>>
    BY <1>1, <2>1 DEF Chained
  <2>2. CASE s # <<>>
    BY <1>1, <2>2 DEF Chained
  <2>3. QED
    BY <2>1, <2>2
<1>7. QED
  BY <1>1, <1>2, <1>3, <1>4, <1>5, <1>6 DEF Chained

\* A chain is taken from its beginning: Pop, readSession.
LEMMA ChainedTail ==
    ASSUME NEW S, Ranges(S), NEW s \in Seq(S), NEW a \in Nat, NEW b \in Nat,
           Chained(s, a, b), s # <<>>
    PROVE  /\ Chained(Tail(s), Head(s).hi, b)
           /\ Head(s).lo = a /\ a <= Head(s).hi /\ Head(s).hi <= b
           /\ Head(s) \in S /\ Tail(s) \in Seq(S)
           /\ \A i \in 1 .. Len(Tail(s)) : i + 1 \in 1 .. Len(s) /\ Tail(s)[i] = s[i + 1]
<1> DEFINE t == Tail(s)
<1>1. /\ Len(t) = Len(s) - 1 /\ Len(s) \in Nat /\ Len(s) > 0
      /\ \A i \in 1 .. Len(t) : t[i] = s[i + 1]
      /\ \A i \in 1 .. Len(s) : s[i] \in S
      /\ Head(s) = s[1] /\ t \in Seq(S)
  OBVIOUS
<1> HIDE DEF t
<1>2. s[1].lo = a /\ s[1].lo <= s[1].hi /\ s[1].hi <= b /\ s[1].hi \in Nat
  BY <1>1 DEF Chained, Ranges
<1>3. \A i \in 1 .. Len(t) : s[1].hi <= t[i].lo /\ t[i].lo <= t[i].hi /\ t[i].hi <= b
  <2> SUFFICES ASSUME NEW i \in 1 .. Len(t)
               PROVE  s[1].hi <= t[i].lo /\ t[i].lo <= t[i].hi /\ t[i].hi <= b
    OBVIOUS
  <2>1. 1 \in 1 .. Len(s) /\ i + 1 \in 1 .. Len(s) /\ 1 < i + 1 /\ t[i] = s[i + 1]
    BY <1>1
  <2>2. QED
    BY <2>1 DEF Chained
<1>4. \A i, j \in 1 .. Len(t) : i < j => t[i].hi <= t[j].lo
  <2> SUFFICES ASSUME NEW i \in 1 .. Len(t), NEW j \in 1 .. Len(t), i < j
               PROVE  t[i].hi <= t[j].lo
    OBVIOUS
  <2> QED
    BY SMTT(30), <1>1 DEF Chained
<1>5. \A i \in 1 .. Len(t) - 1 : t[i].hi = t[i + 1].lo
  <2> SUFFICES ASSUME NEW i \in 1 .. Len(t) - 1 PROVE t[i].hi = t[i + 1].lo
    OBVIOUS
  <2> QED
    BY <1>1 DEF Chained
<1>6. t = <<>> => s[1].hi = b
  <2>1. ASSUME t = <<>> PROVE Len(s) = 1
    <3>1. Len(t) = Len(<<>>)
      BY <2>1, Zenon
    <3>2. Len(<<>>) = 0
      OBVIOUS
    <3>3. Len(t) = 0
      BY <3>1, <3>2, Zenon
    <3>4. QED
      BY <1>1, <3>3
  <2>2. QED
    BY <1>1, <2>1 DEF Chained
<1>7. t # <<>> => t[1].lo = s[1].hi /\ t[Len(t)].hi = b
  <2> SUFFICES ASSUME t # <<>> PROVE t[1].lo = s[1].hi /\ t[Len(t)].hi = b
    OBVIOUS
  <2>1. Len(t) > 0
    BY <1>1
  <2>2. t[1] = s[2] /\ t[Len(t)] = s[Len(s)] /\ s[1].hi = s[1 + 1].lo
    BY <1>1, <2>1 DEF Chained
  <2>3. QED
    BY <2>2 DEF Chained
<1>8. QED
  BY <1>1, <1>2, <1>3, <1>4, <1>5, <1>6, <1>7 DEF Chained, t

-----------------------------------------------------------------------------
(* Types.                                                                  *)

LEMMA SequencesOfRanges == Ranges(Segment) /\ Ranges(Ack)
BY DEF Ranges, Segment, Ack

\* What the helpers return.
LEMMA LeastNat == \A a, b \in Nat : Least(a, b) \in Nat /\ Least(a, b) <= a /\ Least(a, b) <= b
BY DEF Least

LEMMA CountInRange == \A n \in Nat : n % CalcPeriod \in 0 .. CalcPeriod - 1
BY CalcAssumption

LEMMA HeadTail ==
    ASSUME NEW S, NEW s \in Seq(S), s # <<>>
    PROVE  Head(s) \in S /\ Tail(s) \in Seq(S)
OBVIOUS

LEMMA WordFields ==
    \A w \in Word : w.max \in Windows /\ w.max \in Nat /\ w.done \in Nat /\ w.wait \in BOOLEAN
BY WindowAssumption DEF Word

LEMMA WordChanges ==
    \A w \in Word :
        /\ \A n \in Nat : [w EXCEPT !.done = n] \in Word
        /\ [w EXCEPT !.wait = TRUE] \in Word
        /\ [w EXCEPT !.done = 0, !.wait = FALSE] \in Word
        /\ \A n \in Windows : [w EXCEPT !.max = n] \in Word
BY DEF Word

LEMMA NewAck ==
    \A max \in Windows, a, n \in Nat : [max |-> max, lo |-> a, hi |-> a + n] \in Ack
BY DEF Ack

LEMMA RangeFields ==
    /\ \A s \in Segment : s.lo \in Nat /\ s.hi \in Nat /\ Size(s) \in Int /\ s.fin \in BOOLEAN
    /\ \A a \in Ack : a.lo \in Nat /\ a.hi \in Nat /\ Size(a) \in Int /\ a.max \in Windows
BY DEF Segment, Ack, Size

LEMMA FirstValues ==
    FirstWord \in Word /\ NoSegment \in Segment /\ NoAck \in Ack
BY WindowAssumption DEF Word, FirstWord, NoSegment, NoAck, Segment, Ack

LEMMA InitTypeOK == Init => TypeOK
<1> SUFFICES ASSUME Init PROVE TypeOK
  OBVIOUS
<1> USE DEF Init
<1>1. /\ closeOp \in BOOLEAN /\ setSizeClosed \in BOOLEAN
      /\ stopped \in BOOLEAN /\ eof \in BOOLEAN
  BY Zenon
<1>2. /\ sw \in Word /\ rw \in Word /\ vword \in Word /\ rword \in Word
      /\ seg \in Segment /\ el \in Segment /\ ack \in Ack
  BY FirstValues
<1>3. data \in Seq(Segment) /\ q \in Seq(Segment) /\ acks \in Seq(Ack)
  OBVIOUS
<1>4. count \in 0 .. CalcPeriod - 1
  BY CalcAssumption
<1>5. QED
  BY <1>1, <1>2, <1>3, <1>4 DEF TypeOK

\* Each step gives the fields it changes values of their type.
LEMMA StepTypeOK == IInv /\ [Next]_vars => TypeOK'
<1> SUFFICES ASSUME IInv, [Next]_vars PROVE TypeOK'
  OBVIOUS
<1> USE DEF wvars, svars, cvars, nvars, qvars, vvars, rvars
<1>0. TypeOK /\ WriterInv /\ ReaderInv /\ StreamInv
  BY DEF IInv
<1>a. /\ sw \in Word /\ rw \in Word /\ vword \in Word /\ rword \in Word
      /\ seg \in Segment /\ el \in Segment /\ ack \in Ack
      /\ data \in Seq(Segment) /\ q \in Seq(Segment) /\ acks \in Seq(Ack)
  BY <1>0 DEF TypeOK
<1>b. /\ bufEnd \in Nat /\ taken \in Nat /\ pushed \in Nat /\ count \in Nat /\ qlen \in Nat
      /\ vremain \in Nat /\ vread \in Nat /\ room \in Nat /\ got \in Nat
      /\ rremain \in Nat /\ rread \in Nat /\ acct \in Nat /\ ackPushed \in Nat
      /\ pushed <= taken /\ taken <= bufEnd /\ got <= el.hi /\ el.lo <= el.hi
      /\ seg.lo <= seg.hi
  BY <1>0, <1>a, RangeFields DEF TypeOK, WriterInv, ReaderInv, StreamInv
<1>c. Size(el) \in Nat /\ Size(seg) \in Nat /\ Size(ack) \in Int
  BY SMTT(30), <1>a, <1>b, RangeFields DEF Size
<1>d. /\ sw.max \in Nat /\ sw.done \in Nat /\ rw.max \in Nat /\ rw.done \in Nat
      /\ rword.done \in Nat /\ vword.max \in Windows /\ rword.max \in Windows
  BY <1>a, WordFields
<1>1. ASSUME NEW n \in 1 .. MaxWrite, Write(n) PROVE TypeOK'
  BY <1>0, <1>1, BufAssumption DEF Write, TypeOK
<1>2. CASE Enter
  BY <1>0, <1>2 DEF Enter, TypeOK
<1>3. CASE TakeSegment
  <2>1. sw' \in Word
    BY <1>3, <1>a, WordChanges DEF TakeSegment
  <2>2. taken' \in Nat
    <3>1. Remaining(sw.max, sw.done) \in Nat
      BY <1>d DEF Remaining
    <3>2. Least(MaxSeg, bufEnd - taken) \in Nat
      BY <1>b, SegAssumption, LeastNat
    <3>3. Cut(Remaining(sw.max, sw.done)) \in Nat
      BY <3>1, <3>2, LeastNat DEF Cut
    <3>4. QED
      BY <1>3, <1>b, <3>3 DEF TakeSegment
  <2>3. wpc' \in {"wait", "count"}
    BY <1>3 DEF TakeSegment
  <2>4. QED
    BY <1>0, <1>3, <2>1, <2>2, <2>3 DEF TakeSegment, TypeOK
<1>4. CASE Sent
  <2>1. sw.done + (taken - pushed) \in Nat
    BY <1>b, <1>d
  <2>2. sw' \in Word
    BY <1>4, <1>a, <2>1, WordChanges DEF Sent
  <2>3. QED
    BY <1>0, <1>4, <2>2 DEF Sent, TypeOK
<1>5. CASE PushSegment
  BY <1>0, <1>5 DEF PushSegment, TypeOK, Segment
<1>6. CASE WaitClosed
  <2>1. closeOpCh' \in 0 .. 2
    BY <1>0, <1>6 DEF WaitClosed, TypeOK
  <2>2. QED
    BY <1>0, <1>6, <2>1 DEF WaitClosed, TypeOK
<1>7. CASE CloseDelete
  BY <1>0, <1>7 DEF CloseDelete, TypeOK
<1>8. CASE CloseSend
  BY <1>0, <1>8 DEF CloseSend, TypeOK, Segment
<1>9. CASE CloseWindow
  BY <1>0, <1>9 DEF CloseWindow, CloseTokens, WriterInv, TypeOK
<1>10. CASE TakeAck
  <2>1. Head(acks) \in Ack /\ acks' \in Seq(Ack)
    BY <1>10, <1>a, HeadTail DEF TakeAck
  <2>2. ackTaken' \in Nat
    BY <1>10, <2>1, RangeFields DEF TakeAck
  <2>3. spc' \in {"idle", "set"} /\ ack' \in Ack
    BY <1>10, <1>a, <2>1 DEF TakeAck
  <2>4. QED
    BY <1>0, <1>10, <2>1, <2>2, <2>3 DEF TakeAck, TypeOK
<1>11. CASE SetSizeOnClosed
  BY <1>0, <1>11, FirstValues DEF SetSizeOnClosed, TypeOK
<1>12. CASE SetSize
  <2>1. CASE SetSizeIgnored
    BY <1>0, <1>12, <2>1, FirstValues DEF SetSize, TypeOK
  <2>2. CASE ~SetSizeIgnored
    <3>1. sw.done - Size(ack) \in Nat
      BY <1>c, <1>d, <2>2 DEF SetSizeIgnored
    <3>2. StillFull \in BOOLEAN
      BY <1>a, WordFields DEF StillFull
    <3>3. sw' \in Word
      BY <1>12, <1>a, <2>2, <3>1, <3>2, RangeFields DEF SetSize, Word
    <3>4. spc' \in {"idle", "allow"}
      BY <1>12, <2>2 DEF SetSize
    <3>5. QED
      BY <1>0, <1>12, <3>3, <3>4, FirstValues DEF SetSize, TypeOK
  <2>3. QED
    BY <2>1, <2>2
<1>13. CASE Allow
  BY <1>0, <1>13 DEF Allow, TypeOK
<1>14. CASE AllowClosed
  BY <1>0, <1>14 DEF AllowClosed, TypeOK
<1>15. CASE TakePacket
  <2>1. Head(data) \in Segment /\ data' \in Seq(Segment) /\ seg' \in Segment
    BY <1>15, <1>a, HeadTail DEF TakePacket
  <2>2. stopped' \in BOOLEAN
    BY <1>0, <1>15, <2>1, RangeFields DEF TakePacket, TypeOK
  <2>3. vpc' \in {"idle", "calc"}
    BY <1>15 DEF TakePacket
  <2>4. QED
    BY <1>0, <1>15, <2>1, <2>2, <2>3 DEF TakePacket, TypeOK
<1>16. CASE CalcSize
  <2>1. count' \in 0 .. CalcPeriod - 1
    BY <1>16, <1>b, CountInRange DEF CalcSize
  <2>2. rw' \in Word
    BY <1>16, <1>a, WordChanges DEF CalcSize
  <2>3. QED
    BY <1>0, <1>16, <2>1, <2>2 DEF CalcSize, TypeOK
<1>17. CASE LoadWindow
  <2>1. vremain' \in Nat
    <3>1. Remaining(rw.max, qlen + Size(seg)) \in Nat
      BY <1>b, <1>c, <1>d DEF Remaining
    <3>2. QED
      BY <1>17, <3>1 DEF LoadWindow
  <2>2. vpc' \in {"length", "cas"}
    BY <1>17 DEF LoadWindow
  <2>3. QED
    BY <1>0, <1>17, <2>1, <2>2 DEF LoadWindow, TypeOK
<1>18. CASE CasWindow
  <2>1. rw' \in Word
    BY <1>18, <1>a, WordChanges DEF CasWindow, Claimed
  <2>2. vread' \in Nat
    BY <1>18, <1>b, <1>d DEF CasWindow
  <2>3. vpc' \in {"load", "length", "length!"}
    BY <1>18 DEF CasWindow, Retry
  <2>4. QED
    BY <1>0, <1>18, <2>1, <2>2, <2>3 DEF CasWindow, TypeOK
<1>19. CASE PushLength
  <2>1. qlen' \in Nat
    BY <1>19, <1>b, <1>c DEF PushLength
  <2>2. vpc' \in {"element", "element!"}
    BY <1>19 DEF PushLength
  <2>3. QED
    BY <1>0, <1>19, <2>1, <2>2 DEF PushLength, TypeOK
<1>20. CASE PushElement
  <2>1. q' \in Seq(Segment)
    BY <1>20, <1>a DEF PushElement, Enqueued
  <2>2. vpc' \in {"idle", "ack"} /\ vword' \in Word
    BY <1>20, <1>a, FirstValues DEF PushElement
  <2>3. QED
    BY <1>0, <1>20, <2>1, <2>2 DEF PushElement, TypeOK
<1>21. CASE AckWrite
  <2>1. acks' \in Seq(Ack)
    <3>1. [max |-> vword.max, lo |-> ackPushed, hi |-> ackPushed + vread] \in Ack
      BY <1>b, <1>d, NewAck
    <3>2. QED
      BY <1>21, <1>a, <3>1 DEF AckWrite, SendOk
  <2>2. QED
    BY <1>0, <1>21, <2>1, FirstValues DEF AckWrite, SendOk, TypeOK
<1>22. ASSUME NEW n \in 1 .. MaxRead, Read(n) PROVE TypeOK'
  BY <1>0, <1>22, BufAssumption DEF Read, TypeOK
<1>23. CASE Continue
  BY <1>0, <1>23 DEF Continue, TypeOK
<1>24. CASE Pop
  <2>1. el' \in Segment /\ q' \in Seq(Segment)
    BY <1>24, <1>a, HeadTail DEF Pop
  <2>2. QED
    BY <1>0, <1>24, <2>1 DEF Pop, TypeOK
<1>25. CASE PopLength
  <2>1. ~eof
    BY <1>0, <1>25 DEF PopLength, ReaderInv
  <2>2. qlen' \in Nat
    <3>1. QueueEnd \in Nat /\ el.hi <= QueueEnd
      BY <1>0, <1>a, <2>1, RangeFields DEF StreamInv, Chained, QueueEnd
    <3>2. qlen = (QueueEnd - el.hi)
                  + (IF vpc \in {"element", "element!"} THEN Size(seg) ELSE 0) + Size(el)
      BY <1>0, <1>25, <2>1 DEF StreamInv, PopLength
    <3> DEFINE way == IF vpc \in {"element", "element!"} THEN Size(seg) ELSE 0
               size == Size(el)
    <3>3. way \in Nat /\ size \in Int
      BY <1>0, <1>a, <1>b, RangeFields DEF StreamInv, Size
    <3>4. el.hi \in Nat
      BY <1>a, RangeFields
    <3>5. qlen' = qlen - size
      BY <1>25 DEF PopLength
    <3>6. qlen = (QueueEnd - el.hi) + way + size
      BY <3>2
    <3> HIDE DEF way, size
    <3>7. qlen' = (QueueEnd - el.hi) + way
      BY <3>1, <3>3, <3>4, <3>5, <3>6
    <3>8. QED
      BY <3>1, <3>3, <3>4, <3>7
  <2>3. QED
    BY <1>0, <1>25, <2>2 DEF PopLength, TypeOK
<1>26. CASE PopEof
  BY <1>0, <1>26 DEF PopEof, TypeOK
<1>27. CASE Copy
  <2>1. el.hi - got \in Nat
    BY <1>a, <1>b, RangeFields
  <2>2. Least(room, el.hi - got) \in Nat /\ Least(room, el.hi - got) <= room
    BY <1>b, <2>1, LeastNat
  <2>3. got' \in Nat /\ room' \in Nat /\ rpc' \in {"status", "idle"}
    BY <1>27, <1>b, <2>2 DEF Copy
  <2>4. QED
    BY <1>0, <1>27, <2>3 DEF Copy, TypeOK
<1>28. CASE LoadStatus
  <2>1. rremain' \in Nat
    BY <1>28, <1>b, <1>d DEF LoadStatus, Remaining
  <2>2. QED
    BY <1>0, <1>28, <2>1 DEF LoadStatus, TypeOK
<1>29. CASE CasStatus
  <2>1. rword.done + Size(el) \in Nat
    BY <1>c, <1>d
  <2>2. rw' \in Word /\ rword' \in Word
    BY <1>29, <1>a, <2>1, WordChanges, FirstValues DEF CasStatus
  <2>3. acct' \in Nat /\ rread' \in Nat
    BY <1>29, <1>a, <1>b, <2>1, RangeFields DEF CasStatus
  <2>4. rpc' \in {"status", "ack", "next", "idle"}
    BY <1>29 DEF CasStatus, AfterElement
  <2>5. QED
    BY <1>0, <1>29, <2>2, <2>3, <2>4 DEF CasStatus, TypeOK
<1>30. CASE AckStatus
  <2>1. acks' \in Seq(Ack)
    <3>1. [max |-> rword.max, lo |-> ackPushed, hi |-> ackPushed + rread] \in Ack
      BY <1>b, <1>d, NewAck
    <3>2. QED
      BY <1>30, <1>a, <3>1 DEF AckStatus, SendOk
  <2>2. QED
    BY <1>0, <1>30, <2>1, FirstValues DEF AckStatus, SendOk, AfterElement, TypeOK
<1>31. CASE UNCHANGED vars
  BY <1>0, <1>31 DEF vars, TypeOK
<1>32. QED
  BY <1>1, <1>2, <1>3, <1>4, <1>5, <1>6, <1>7, <1>8, <1>9, <1>10, <1>11, <1>12, <1>13,
     <1>14, <1>15, <1>16, <1>17, <1>18, <1>19, <1>20, <1>21, <1>22, <1>23, <1>24,
     <1>25, <1>26, <1>27, <1>28, <1>29, <1>30, <1>31
  DEF Next, Writer, Closer, Sender, Receiver, Reader


-----------------------------------------------------------------------------
(* The numbers among the variables.                                        *)

Numbers ==
    /\ sw.max \in Nat /\ sw.done \in Nat /\ rw.done \in Nat /\ rw.max \in Nat
    /\ vword.max \in Windows /\ rword.max \in Windows /\ rword.done \in Nat
    /\ bufEnd \in Nat /\ taken \in Nat /\ pushed \in Nat /\ qlen \in Nat
    /\ el.lo \in Nat /\ el.hi \in Nat /\ seg.lo \in Nat /\ seg.hi \in Nat
    /\ ack.lo \in Nat /\ ack.hi \in Nat /\ ack.max \in Windows
    /\ ackPushed \in Nat /\ ackTaken \in Nat /\ vread \in Nat /\ rread \in Nat
    /\ got \in Nat /\ room \in Nat /\ acct \in Nat
    /\ closeOpCh \in Nat /\ fin \in Nat \cup {NoFin}
    /\ data \in Seq(Segment) /\ q \in Seq(Segment) /\ acks \in Seq(Ack)

LEMMA TypesGiveNumbers == TypeOK => Numbers
<1> SUFFICES ASSUME TypeOK PROVE Numbers
  OBVIOUS
<1>1. /\ sw \in Word /\ rw \in Word /\ vword \in Word /\ rword \in Word
      /\ seg \in Segment /\ el \in Segment /\ ack \in Ack
  BY DEF TypeOK
<1>2. /\ sw.max \in Nat /\ sw.done \in Nat /\ rw.done \in Nat /\ rw.max \in Nat
      /\ vword.max \in Windows /\ rword.max \in Windows /\ rword.done \in Nat
  BY <1>1, WordFields
<1>3. /\ el.lo \in Nat /\ el.hi \in Nat /\ seg.lo \in Nat /\ seg.hi \in Nat
      /\ ack.lo \in Nat /\ ack.hi \in Nat /\ ack.max \in Windows
  BY <1>1, RangeFields
<1>4. QED
  BY <1>2, <1>3 DEF TypeOK, Numbers

-----------------------------------------------------------------------------
(* The writer and the credit on its way back.                              *)

LEMMA StepWriter == IInv /\ [Next]_vars => WriterInv'
<1> SUFFICES ASSUME IInv, [Next]_vars PROVE WriterInv'
  OBVIOUS
<1> USE DEF wvars, svars, cvars, nvars, qvars, vvars, rvars
<1>0. WriterInv /\ Numbers
  BY TypesGiveNumbers DEF IInv
<1>a. /\ bufEnd \in Nat /\ taken \in Nat /\ pushed \in Nat /\ closeOpCh \in Nat
  BY <1>0 DEF Numbers
<1>1. ASSUME NEW n \in 1 .. MaxWrite, Write(n) PROVE WriterInv'
  BY <1>0, <1>a, <1>1, BufAssumption DEF Write, WriterInv
<1>2. CASE Enter
  BY <1>0, <1>a, <1>2 DEF Enter, WriterInv
<1>3. CASE TakeSegment
  <2>1. CASE Remaining(sw.max, sw.done) = 0
    BY <1>0, <1>3, <2>1 DEF TakeSegment, WriterInv
  <2>2. CASE Remaining(sw.max, sw.done) # 0
    <3>1. Remaining(sw.max, sw.done) \in Nat
      BY SMTT(30), <1>0 DEF Remaining, Numbers
    <3>2. Cut(Remaining(sw.max, sw.done)) \in 0 .. (bufEnd - taken)
      BY <1>0, <1>a, <3>1, SegAssumption DEF Cut, Least, WriterInv
    <3>3. taken' = taken + Cut(Remaining(sw.max, sw.done)) /\ wpc' = "count"
      BY <1>3, <2>2 DEF TakeSegment
    <3>4. QED
      BY <1>0, <1>a, <1>3, <3>2, <3>3 DEF TakeSegment, WriterInv
  <2>3. QED
    BY <2>1, <2>2
<1>4. CASE Sent \/ PushSegment \/ WaitClosed
  BY <1>0, <1>a, <1>4 DEF Sent, PushSegment, WaitClosed, WriterInv
<1>5. CASE CloseDelete \/ Closer
  BY <1>0, <1>5 DEF CloseDelete, Closer, CloseSend, CloseWindow, WriterInv
<1>6. CASE Sender
  BY <1>0, <1>a, <1>6
  DEF Sender, TakeAck, SetSizeOnClosed, SetSize, Allow, AllowClosed, WriterInv
<1>7. CASE Receiver
  BY <1>0, <1>7
  DEF Receiver, TakePacket, CalcSize, LoadWindow, CasWindow, PushLength, PushElement,
      AckWrite, SendOk, WriterInv
<1>8. CASE Reader
  BY <1>0, <1>8
  DEF Reader, Read, Continue, Pop, PopLength, PopEof, Copy, LoadStatus, CasStatus,
      AckStatus, SendOk, WriterInv
<1>9. CASE UNCHANGED vars
  BY <1>0, <1>9 DEF vars, WriterInv
<1>10. QED
  BY <1>1, <1>2, <1>3, <1>4, <1>5, <1>6, <1>7, <1>8, <1>9 DEF Next, Writer

LEMMA StepAck == IInv /\ [Next]_vars => AckInv'
<1> SUFFICES ASSUME IInv, [Next]_vars PROVE AckInv'
  OBVIOUS
<1> USE DEF wvars, svars, cvars, nvars, qvars, vvars, rvars
<1>0. AckInv /\ Numbers
  BY TypesGiveNumbers DEF IInv
<1>a. /\ acks \in Seq(Ack) /\ Ranges(Ack)
      /\ ackTaken \in Nat /\ ackPushed \in Nat /\ vread \in Nat /\ rread \in Nat
      /\ vword.max \in Windows /\ rword.max \in Windows
  BY <1>0, SequencesOfRanges DEF Numbers
\* A muxMsgSendOk is queued behind the others.
<1>b. ASSUME NEW max \in Windows, NEW n \in Nat, SendOk(max, n)
      PROVE  Chained(acks, ackTaken, ackPushed)'
  <2> DEFINE e == [max |-> max, lo |-> ackPushed, hi |-> ackPushed + n]
  <2>1. e \in Ack /\ e.lo = ackPushed /\ e.hi = ackPushed + n
    BY <1>a, NewAck
  <2>2. e.lo <= e.hi
    BY <1>a, <2>1
  <2>3. Chained(acks, ackTaken, e.lo)
    BY <1>0, <2>1 DEF AckInv
  <2>4. Chained(Append(acks, e), ackTaken, e.hi)
    BY <1>a, <2>1, <2>2, <2>3, ChainedAppend
  <2>5. acks' = Append(acks, e) /\ ackTaken' = ackTaken /\ ackPushed' = e.hi
    BY <1>b, <2>1 DEF SendOk
  <2>6. QED
    BY <2>4, <2>5
<1>1. CASE TakeAck
  <2>1. Chained(acks, ackTaken, ackPushed) /\ acks # <<>>
    BY <1>0, <1>1 DEF TakeAck, AckInv
  <2>2. /\ Chained(Tail(acks), Head(acks).hi, ackPushed)
        /\ Head(acks).lo = ackTaken /\ ackTaken <= Head(acks).hi
    BY <1>a, <2>1, ChainedTail
  <2>3. acks' = Tail(acks) /\ ackTaken' = Head(acks).hi /\ ackPushed' = ackPushed
    BY <1>1 DEF TakeAck
  <2>4. Chained(acks, ackTaken, ackPushed)'
    BY <2>2, <2>3
  <2>5. ack'.lo <= ack'.hi
    BY <1>0, <1>1, <2>2 DEF TakeAck, AckInv
  <2>6. QED
    BY <1>0, <1>1, <2>4, <2>5 DEF TakeAck, AckInv
<1>2. CASE SetSizeOnClosed \/ SetSize \/ Allow \/ AllowClosed
  BY <1>0, <1>2 DEF SetSizeOnClosed, SetSize, Allow, AllowClosed, NoAck, AckInv
<1>3. CASE TakePacket \/ CalcSize \/ LoadWindow \/ CasWindow \/ PushLength \/ PushElement
  BY <1>0, <1>3
  DEF TakePacket, CalcSize, LoadWindow, CasWindow, Retry, PushLength, PushElement, AckInv
<1>4. CASE AckWrite
  <2>1. Chained(acks, ackTaken, ackPushed)'
    BY <1>4, <1>a, <1>b DEF AckWrite
  <2>2. QED
    BY <1>0, <1>4, <2>1 DEF AckWrite, AckInv
<1>5. CASE AckStatus
  <2>1. Chained(acks, ackTaken, ackPushed)'
    BY <1>5, <1>a, <1>b DEF AckStatus
  <2>2. QED
    BY <1>0, <1>5, <2>1 DEF AckStatus, AckInv
<1>6. CASE CasStatus
  BY <1>0, <1>6 DEF CasStatus, AfterElement, AckInv
<1>7. CASE \/ \E n \in 1 .. MaxRead : Read(n)
           \/ Continue \/ Pop \/ PopLength \/ PopEof \/ Copy \/ LoadStatus
  BY <1>0, <1>7
  DEF Read, Continue, Pop, PopLength, PopEof, Copy, LoadStatus, AckInv
<1>8. CASE (\E n \in 1 .. MaxWrite : Write(n)) \/ Writer \/ CloseDelete \/ Closer
  BY <1>0, <1>8
  DEF Write, Writer, Enter, TakeSegment, Sent, PushSegment, WaitClosed,
      CloseDelete, Closer, CloseSend, CloseWindow, AckInv
<1>9. CASE UNCHANGED vars
  BY <1>0, <1>9 DEF vars, AckInv
<1>10. QED
  BY <1>1, <1>2, <1>3, <1>4, <1>5, <1>6, <1>7, <1>8, <1>9
  DEF Next, Sender, Receiver, Reader

-----------------------------------------------------------------------------
(* The reader and the bytes on their way.                                  *)

\* The positions between the reader and the writer, in their order.
LEMMA Positions ==
    ASSUME Numbers, StreamInv, ~eof
    PROVE  /\ QueueEnd \in Nat /\ Received \in Nat
           /\ el.hi <= QueueEnd /\ QueueEnd <= Received /\ Received <= pushed
<1>1. QueueEnd \in Nat
  <2>1. CASE q = <<>>
    BY <2>1 DEF QueueEnd, Numbers
  <2>2. CASE q # <<>>
    <3>1. q[Len(q)] \in Segment
      BY <2>2 DEF Numbers
    <3>2. QED
      BY <2>2, <3>1, RangeFields DEF QueueEnd
  <2>3. QED
    BY <2>1, <2>2
<1>2. el.hi <= QueueEnd
  BY DEF StreamInv, Chained
<1>3. Received \in Nat
  BY <1>1 DEF Received, Numbers
<1>4. QueueEnd <= Received
  BY <1>1 DEF Received, StreamInv, Numbers
<1>5. Received <= pushed
  BY DEF StreamInv, Chained
<1>6. QED
  BY <1>1, <1>2, <1>3, <1>4, <1>5

LEMMA StepReader == IInv /\ [Next]_vars => ReaderInv'
<1> SUFFICES ASSUME IInv, [Next]_vars PROVE ReaderInv'
  OBVIOUS
<1> USE DEF wvars, svars, cvars, nvars, qvars, vvars, rvars
<1>0. WriterInv /\ ReaderInv /\ StreamInv /\ Numbers
  BY TypesGiveNumbers DEF IInv
<1>a. /\ taken \in Nat /\ pushed \in Nat /\ pushed <= taken
      /\ el.lo \in Nat /\ el.hi \in Nat /\ got \in Nat /\ room \in Nat /\ acct \in Nat
      /\ el.lo <= got /\ got <= el.hi /\ el.hi <= pushed
  BY <1>0 DEF Numbers, WriterInv, ReaderInv
<1>1. CASE PushSegment
  BY <1>0, <1>a, <1>1 DEF PushSegment, ReaderInv, Accounted
<1>2. ASSUME NEW n \in 1 .. MaxRead, Read(n) PROVE ReaderInv'
  BY <1>0, <1>2 DEF Read, ReaderInv, Accounted
<1>3. CASE Continue \/ PopLength \/ PopEof \/ LoadStatus
  BY <1>0, <1>a, <1>3 DEF Continue, PopLength, PopEof, LoadStatus, ReaderInv, Accounted
<1>4. CASE Pop
  <2>1. ~eof /\ q # <<>>
    BY <1>0, <1>4 DEF Pop, ReaderInv
  <2>2. /\ q \in Seq(Segment) /\ Ranges(Segment) /\ QueueEnd \in Nat
        /\ Chained(q, el.hi, QueueEnd) /\ QueueEnd <= pushed
    BY <1>0, <1>a, <2>1, Positions, SequencesOfRanges DEF Numbers, StreamInv
  <2>3. /\ Head(q).lo = el.hi /\ el.hi <= Head(q).hi /\ Head(q).hi <= QueueEnd
        /\ Head(q).hi \in Nat
    BY <1>a, <2>1, <2>2, ChainedTail DEF Ranges
  <2>4. acct = el.hi
    BY <1>0, <1>a, <1>4 DEF Pop, ReaderInv, Accounted
  <2>5. /\ el' = Head(q) /\ got' = got /\ got = el.hi /\ pushed' = pushed
        /\ rpc' = "popped" /\ eof' = eof /\ acct' = acct
    BY <1>4 DEF Pop
  <2>6. QED
    BY <1>a, <2>1, <2>2, <2>3, <2>4, <2>5 DEF ReaderInv, Accounted
<1>5. CASE Copy
  <2>1. Least(room, el.hi - got) \in 0 .. (el.hi - got)
    BY <1>a DEF Least
  <2>2. rpc = "copy" /\ acct = el.lo
    BY <1>0, <1>5 DEF Copy, ReaderInv, Accounted
  <2>3. QED
    BY <1>0, <1>a, <1>5, <2>1, <2>2 DEF Copy, ReaderInv, Accounted
<1>6. CASE CasStatus
  <2>1. got = el.hi /\ acct = el.lo
    BY <1>0, <1>6 DEF CasStatus, ReaderInv, Accounted
  <2>2. QED
    BY <1>0, <1>a, <1>6, <2>1 DEF CasStatus, AfterElement, ReaderInv, Accounted
<1>7. CASE AckStatus
  <2>1. got = el.hi /\ acct = el.hi
    BY <1>0, <1>a, <1>7 DEF AckStatus, ReaderInv, Accounted
  <2>2. QED
    BY <1>0, <1>a, <1>7, <2>1 DEF AckStatus, AfterElement, SendOk, ReaderInv, Accounted
<1>8. CASE \/ \E n \in 1 .. MaxWrite : Write(n)
           \/ Enter \/ TakeSegment \/ Sent \/ WaitClosed \/ CloseDelete \/ Closer
  BY <1>0, <1>8
  DEF Write, Enter, TakeSegment, Sent, WaitClosed, CloseDelete, Closer, CloseSend,
      CloseWindow, ReaderInv, Accounted
<1>9. CASE Sender
  BY <1>0, <1>9
  DEF Sender, TakeAck, SetSizeOnClosed, SetSize, Allow, AllowClosed, ReaderInv, Accounted
<1>10. CASE Receiver
  BY <1>0, <1>10
  DEF Receiver, TakePacket, CalcSize, LoadWindow, CasWindow, PushLength, PushElement,
      AckWrite, SendOk, ReaderInv, Accounted
<1>11. CASE UNCHANGED vars
  BY <1>0, <1>11 DEF vars, ReaderInv, Accounted
<1>12. QED
  BY <1>1, <1>2, <1>3, <1>4, <1>5, <1>6, <1>7, <1>8, <1>9, <1>10, <1>11
  DEF Next, Writer, Reader

\* What StreamInv says as long as the reader has not given up.
Stream ==
    /\ Chained(q, el.hi, QueueEnd)
    /\ InHand => seg.lo = QueueEnd
    /\ Chained(data, Received, pushed)
    /\ qlen = (QueueEnd - el.hi)
                + (IF vpc \in {"element", "element!"} THEN Size(seg) ELSE 0)
                + (IF rpc = "popped" THEN Size(el) ELSE 0)

LEMMA StepStream == IInv /\ [Next]_vars => StreamInv'
<1> SUFFICES ASSUME IInv, [Next]_vars PROVE StreamInv'
  OBVIOUS
<1> USE DEF wvars, svars, cvars, nvars, qvars, vvars, rvars
<1>0. WriterInv /\ ReaderInv /\ StreamInv /\ CloseInv /\ Numbers
  BY TypesGiveNumbers DEF IInv
<1>a. /\ data \in Seq(Segment) /\ q \in Seq(Segment) /\ Ranges(Segment)
      /\ pushed \in Nat /\ taken \in Nat /\ pushed <= taken /\ qlen \in Nat
      /\ el.lo \in Nat /\ el.hi \in Nat /\ seg.lo \in Nat /\ seg.hi \in Nat
      /\ seg.lo <= seg.hi
      /\ \A i \in 1 .. Len(data) : data[i].lo <= data[i].hi
  BY <1>0, SequencesOfRanges DEF Numbers, WriterInv, StreamInv
<1>b. ~eof => Stream
  BY <1>0 DEF StreamInv, Stream
<1>c. ~eof => /\ QueueEnd \in Nat /\ Received \in Nat
              /\ el.hi <= QueueEnd /\ QueueEnd <= Received /\ Received <= pushed
  BY <1>0, Positions
\* It is enough to follow these two.
<1>d. ASSUME \A i \in 1 .. Len(data') : data'[i].lo <= data'[i].hi, seg'.lo <= seg'.hi,
             ~eof' => Stream'
      PROVE  StreamInv'
  BY <1>d DEF StreamInv, Stream
\* A segment is sent behind the others.
<1>e. ASSUME NEW e \in Segment, e.lo = pushed, e.lo <= e.hi,
             data' = Append(data, e), pushed' = e.hi,
             UNCHANGED <<seg, vpc, rpc, q, qlen, el, eof>>
      PROVE  StreamInv'
  <2>1. \A i \in 1 .. Len(data') : data'[i].lo <= data'[i].hi
    <3> SUFFICES ASSUME NEW i \in 1 .. Len(data') PROVE data'[i].lo <= data'[i].hi
      OBVIOUS
    <3>1. data'[i] = IF i = Len(data) + 1 THEN e ELSE data[i]
      BY <1>a, <1>e
    <3>2. i = Len(data) + 1 \/ i \in 1 .. Len(data)
      BY <1>a, <1>e
    <3>3. QED
      BY <1>a, <1>e, <3>1, <3>2
  <2>2. ASSUME ~eof' PROVE Stream'
    <3>1. Stream /\ Received \in Nat
      BY <1>b, <1>c, <1>e, <2>2
    <3>2. Chained(data, Received, e.lo)
      BY <1>e, <3>1 DEF Stream
    <3>3. Chained(Append(data, e), Received, e.hi)
      BY <1>a, <1>e, <3>1, <3>2, ChainedAppend
    <3>4. Received' = Received /\ QueueEnd' = QueueEnd /\ InHand' = InHand
      BY <1>e DEF Received, QueueEnd, InHand
    <3>5. Chained(data, Received, pushed)'
      BY <1>e, <3>3, <3>4
    <3>6. QED
      BY <1>e, <3>1, <3>4, <3>5 DEF Stream
  <2>3. QED
    BY <1>a, <1>d, <1>e, <2>1, <2>2
<1>1. CASE PushSegment
  <2> DEFINE e == [lo |-> pushed, hi |-> taken, part |-> taken < bufEnd, fin |-> FALSE]
  <2>1. e \in Segment /\ e.lo = pushed /\ e.hi = taken
    BY <1>a DEF Segment
  <2>2. /\ data' = Append(data, e) /\ pushed' = e.hi
        /\ UNCHANGED <<seg, vpc, rpc, q, qlen, el, eof>>
    BY <1>1, <2>1 DEF PushSegment
  <2> HIDE DEF e
  <2>3. QED
    BY <1>a, <1>e, <2>1, <2>2
<1>2. CASE CloseSend
  <2> DEFINE e == [lo |-> pushed, hi |-> pushed, part |-> FALSE, fin |-> TRUE]
  <2>1. e \in Segment /\ e.lo = pushed /\ e.hi = pushed
    BY <1>a DEF Segment
  <2>2. /\ data' = Append(data, e) /\ pushed' = e.hi
        /\ UNCHANGED <<seg, vpc, rpc, q, qlen, el, eof>>
    BY <1>2, <2>1 DEF CloseSend
  <2> HIDE DEF e
  <2>3. QED
    BY <1>a, <1>e, <2>1, <2>2
<1>3. CASE TakePacket
  <2> DEFINE h == Head(data)
             t == Tail(data)
  <2>1. /\ data # <<>> /\ data' = t /\ seg' = h /\ vpc = "idle"
        /\ vpc' = (IF h.fin \/ eof THEN "idle" ELSE "calc")
        /\ UNCHANGED <<pushed, rpc, q, qlen, el, eof>>
    BY <1>3 DEF TakePacket
  <2>2. /\ Len(data) > 0 /\ h = data[1] /\ h \in Segment /\ Len(t) = Len(data) - 1
        /\ \A i \in 1 .. Len(t) : t[i] = data[i + 1]
    BY <1>a, <2>1
  <2> HIDE DEF h, t
  <2>3. \A i \in 1 .. Len(data') : data'[i].lo <= data'[i].hi
    BY SMTT(30), <1>a, <2>1, <2>2
  <2>4. seg'.lo <= seg'.hi
    BY <1>a, <2>1, <2>2
  <2>5. ASSUME ~eof' PROVE Stream'
    <3>1. Stream /\ Received \in Nat /\ QueueEnd \in Nat
      BY <1>b, <1>c, <2>1, <2>5
    <3>2. Received = QueueEnd /\ QueueEnd' = QueueEnd
      BY <2>1 DEF Received, InHand, QueueEnd
    <3>3. Chained(t, h.hi, pushed) /\ h.lo = QueueEnd
      BY <1>a, <2>1, <3>1, <3>2, ChainedTail DEF Stream, h, t
    <3>4. CASE h.fin
      <4>1. h.lo = h.hi
        BY <1>0, <2>2, <3>4 DEF CloseInv
      <4>2. Received' = h.hi /\ ~InHand'
        BY <2>1, <3>2, <3>3, <3>4, <4>1 DEF Received, InHand
      <4>3. QED
        BY <2>1, <3>1, <3>2, <3>3, <3>4, <4>2 DEF Stream
    <3>5. CASE ~h.fin
      <4>1. vpc' = "calc"
        BY <2>1, <2>5, <3>5
      <4>2. Received' = h.hi /\ InHand'
        BY <2>1, <4>1 DEF Received, InHand
      <4>3. QED
        BY <2>1, <3>1, <3>2, <3>3, <4>1, <4>2 DEF Stream
    <3>6. QED
      BY <3>4, <3>5
  <2>6. QED
    BY <1>d, <2>3, <2>4, <2>5
<1>4. CASE CalcSize \/ LoadWindow \/ CasWindow
  <2>1. /\ UNCHANGED <<data, pushed, seg, rpc, q, qlen, el, eof>>
        /\ vpc \in {"calc", "load", "cas"}
        /\ vpc' \in {"load", "cas", "length", "length!"}
    BY <1>4 DEF CalcSize, LoadWindow, CasWindow, Retry
  <2>2. InHand /\ InHand' /\ Received' = Received /\ QueueEnd' = QueueEnd
    BY <2>1 DEF InHand, Received, QueueEnd
  <2>3. ~eof' => Stream'
    BY <1>b, <2>1, <2>2 DEF Stream
  <2>4. QED
    BY <1>a, <1>d, <2>1, <2>3
<1>5. CASE PushLength
  <2>1. /\ UNCHANGED <<data, pushed, seg, rpc, q, el, eof>>
        /\ vpc \in {"length", "length!"} /\ vpc' \in {"element", "element!"}
        /\ qlen' = qlen + Size(seg)
    BY <1>5 DEF PushLength
  <2>2. InHand /\ InHand' /\ Received' = Received /\ QueueEnd' = QueueEnd
    BY <2>1 DEF InHand, Received, QueueEnd
  <2>3. ASSUME ~eof' PROVE Stream'
    <3>1. Stream /\ QueueEnd \in Nat
      BY <1>b, <1>c, <2>1, <2>3
    <3> DEFINE hand == IF rpc = "popped" THEN Size(el) ELSE 0
    <3>2. hand \in Int /\ Size(seg) \in Int
      BY <1>a DEF Size
    <3>3. qlen = (QueueEnd - el.hi) + 0 + hand
      BY <2>1, <3>1 DEF Stream
    <3> HIDE DEF hand
    <3>4. qlen' = (QueueEnd - el.hi) + Size(seg) + hand
      BY SMTT(30), <1>a, <2>1, <3>1, <3>2, <3>3
    <3>5. QED
      BY <2>1, <2>2, <3>1, <3>4 DEF Stream, Size, hand
  <2>4. QED
    BY <1>a, <1>d, <2>1, <2>3
<1>6. CASE PushElement
  <2>1. /\ UNCHANGED <<data, pushed, seg, rpc, qlen, el, eof>>
        /\ vpc \in {"element", "element!"} /\ vpc' \in {"idle", "ack"}
        /\ q' = Append(q, seg)
    BY <1>6 DEF PushElement, Enqueued
  <2>2. seg \in Segment
    BY <1>0 DEF IInv, TypeOK
  <2>3. ASSUME ~eof' PROVE Stream'
    <3>1. Stream /\ QueueEnd \in Nat /\ InHand /\ ~InHand' /\ Received = seg.hi
      BY <1>b, <1>c, <2>1, <2>3 DEF InHand, Received
    <3>2. seg.lo = QueueEnd /\ Chained(q, el.hi, seg.lo)
      BY <3>1 DEF Stream
    <3>3. Chained(Append(q, seg), el.hi, seg.hi)
      BY <1>a, <2>2, <3>2, ChainedAppend
    <3>4. QueueEnd' = seg.hi
      BY <1>a, <2>1, <2>2 DEF QueueEnd
    <3>5. Received' = seg.hi
      BY <3>1, <3>4 DEF Received
    <3>6. qlen' = QueueEnd' - el'.hi + (IF rpc = "popped" THEN Size(el) ELSE 0)
      BY <1>a, <2>1, <3>1, <3>2, <3>4 DEF Stream, Size
    <3>7. QED
      BY SMTT(30), <1>a, <2>1, <3>1, <3>3, <3>4, <3>5, <3>6 DEF Stream, Size
  <2>4. QED
    BY <1>a, <1>d, <2>1, <2>3
<1>7. CASE AckWrite
  <2>1. /\ UNCHANGED <<data, pushed, seg, rpc, q, qlen, el, eof>>
        /\ vpc = "ack" /\ vpc' = "idle"
    BY <1>7 DEF AckWrite, SendOk
  <2>2. ~InHand /\ ~InHand' /\ Received' = Received /\ QueueEnd' = QueueEnd
    BY <2>1 DEF InHand, Received, QueueEnd
  <2>3. ~eof' => Stream'
    BY <1>b, <2>1, <2>2 DEF Stream
  <2>4. QED
    BY <1>a, <1>d, <2>1, <2>3
<1>8. CASE Pop
  <2>1. /\ UNCHANGED <<data, pushed, seg, vpc, qlen, eof>> /\ ~eof
        /\ rpc = "next" /\ rpc' = "popped" /\ q # <<>>
        /\ el' = Head(q) /\ q' = Tail(q)
    BY <1>0, <1>8 DEF Pop, ReaderInv
  <2>2. Stream /\ QueueEnd \in Nat
    BY <1>b, <1>c, <2>1
  <2>3. /\ Chained(q', el'.hi, QueueEnd) /\ el'.lo = el.hi
        /\ el' \in Segment /\ q' \in Seq(Segment)
    BY <1>a, <2>1, <2>2, ChainedTail DEF Stream
  <2>4. QueueEnd' = QueueEnd
    BY <2>3 DEF QueueEnd, Chained
  <2>5. InHand' = InHand /\ Received' = Received
    BY <2>1, <2>4 DEF InHand, Received
  <2>6. el'.hi \in Nat /\ el'.lo \in Nat
    BY <2>3, RangeFields
  <2>7. qlen' = (QueueEnd' - el'.hi)
                   + (IF vpc \in {"element", "element!"} THEN Size(seg) ELSE 0) + Size(el')
    <3> DEFINE way == IF vpc \in {"element", "element!"} THEN Size(seg) ELSE 0
    <3>1. way \in Int
      BY <1>a DEF Size
    <3>2. qlen = (QueueEnd - el.hi) + way + 0
      BY <2>1, <2>2 DEF Stream
    <3> HIDE DEF way
    <3>3. (QueueEnd - el.hi) + way + 0 = (QueueEnd - el'.hi) + way + Size(el')
      BY SMTT(30), <1>a, <2>2, <2>3, <2>6, <3>1 DEF Size
    <3>4. QED
      BY <2>1, <2>4, <3>2, <3>3 DEF way
  <2>8. Stream'
    BY <2>1, <2>2, <2>3, <2>4, <2>5, <2>7 DEF Stream, Size
  <2>9. QED
    BY <1>a, <1>d, <2>1, <2>8
<1>9. CASE PopLength
  <2>1. /\ UNCHANGED <<data, pushed, seg, vpc, q, el, eof>> /\ ~eof
        /\ rpc = "popped" /\ rpc' = "copy" /\ qlen' = qlen - Size(el)
    BY <1>0, <1>9 DEF PopLength, ReaderInv
  <2>2. InHand' = InHand /\ Received' = Received /\ QueueEnd' = QueueEnd
    BY <2>1 DEF InHand, Received, QueueEnd
  <2>3. Stream /\ QueueEnd \in Nat
    BY <1>b, <1>c, <2>1
  <2>4. qlen' = (QueueEnd' - el'.hi)
                  + (IF vpc' \in {"element", "element!"} THEN Size(seg') ELSE 0) + 0
    <3> DEFINE way == IF vpc \in {"element", "element!"} THEN Size(seg) ELSE 0
               size == Size(el)
    <3>1. way \in Int /\ size \in Int
      BY <1>a DEF Size
    <3>2. qlen = (QueueEnd - el.hi) + way + size
      BY <2>1, <2>3 DEF Stream
    <3>3. qlen' = qlen - size
      BY <2>1
    <3> HIDE DEF way, size
    <3>4. qlen' = (QueueEnd - el.hi) + way + 0
      BY SMTT(30), <1>a, <2>3, <3>1, <3>2, <3>3
    <3>5. QED
      BY <2>1, <2>2, <3>4 DEF way
  <2>5. /\ Chained(q', el'.hi, QueueEnd') /\ (InHand' => seg'.lo = QueueEnd')
        /\ Chained(data', Received', pushed')
    BY <2>1, <2>2, <2>3 DEF Stream
  <2>6. Stream'
    BY <2>1, <2>4, <2>5 DEF Stream
  <2>7. QED
    BY <1>a, <1>d, <2>1, <2>6
<1>10. CASE PopEof
  BY <1>a, <1>d, <1>10 DEF PopEof
<1>11. CASE \/ \E n \in 1 .. MaxRead : Read(n)
            \/ Continue \/ Copy \/ LoadStatus \/ CasStatus \/ AckStatus
  <2>1. /\ UNCHANGED <<data, pushed, seg, vpc, q, qlen, el, eof>>
        /\ rpc # "popped" /\ rpc' # "popped"
    BY <1>11
    DEF Read, Continue, Copy, LoadStatus, CasStatus, AckStatus, AfterElement, SendOk
  <2>2. InHand' = InHand /\ Received' = Received /\ QueueEnd' = QueueEnd
    BY <2>1 DEF InHand, Received, QueueEnd
  <2>3. ~eof' => Stream'
    BY <1>b, <2>1, <2>2 DEF Stream
  <2>4. QED
    BY <1>a, <1>d, <2>1, <2>3
<1>12. CASE \/ \E n \in 1 .. MaxWrite : Write(n)
            \/ Enter \/ TakeSegment \/ Sent \/ WaitClosed \/ CloseDelete \/ CloseWindow
            \/ Sender \/ UNCHANGED vars
  <2>1. UNCHANGED <<data, pushed, seg, vpc, rpc, q, qlen, el, eof>>
    BY <1>12
    DEF Write, Enter, TakeSegment, Sent, WaitClosed, CloseDelete, CloseWindow, Sender,
        TakeAck, SetSizeOnClosed, SetSize, Allow, AllowClosed, vars
  <2>2. InHand' = InHand /\ Received' = Received /\ QueueEnd' = QueueEnd
    BY <2>1 DEF InHand, Received, QueueEnd
  <2>3. ~eof' => Stream'
    BY <1>b, <2>1, <2>2 DEF Stream
  <2>4. QED
    BY <1>a, <1>d, <2>1, <2>3
<1>13. QED
  BY <1>1, <1>2, <1>3, <1>4, <1>5, <1>6, <1>7, <1>8, <1>9, <1>10, <1>11, <1>12
  DEF Next, Writer, Closer, Receiver, Reader

-----------------------------------------------------------------------------
(* The close.                                                              *)

LEMMA StepClose == IInv /\ [Next]_vars => CloseInv'
<1> SUFFICES ASSUME IInv, [Next]_vars PROVE CloseInv'
  OBVIOUS
<1> USE DEF wvars, svars, cvars, nvars, qvars, vvars, rvars
<1>0. WriterInv /\ ReaderInv /\ StreamInv /\ CloseInv /\ Numbers
  BY TypesGiveNumbers DEF IInv
<1>a. /\ data \in Seq(Segment) /\ q \in Seq(Segment) /\ Ranges(Segment)
      /\ pushed \in Nat /\ taken \in Nat /\ qlen \in Nat /\ got \in Nat /\ room \in Nat
      /\ el.lo \in Nat /\ el.hi \in Nat /\ seg.lo \in Nat /\ seg.hi \in Nat
      /\ fin \in Nat \cup {NoFin} /\ seg.lo <= seg.hi /\ got <= el.hi
  BY <1>0, SequencesOfRanges DEF Numbers, StreamInv, ReaderInv
<1>b. ~eof => /\ QueueEnd \in Nat /\ Received \in Nat
              /\ el.hi <= QueueEnd /\ QueueEnd <= Received
  BY <1>0, Positions
<1>1. CASE PushSegment
  <2> DEFINE e == [lo |-> pushed, hi |-> taken, part |-> taken < bufEnd, fin |-> FALSE]
  <2>1. e.fin = FALSE
    OBVIOUS
  <2>2. /\ data' = Append(data, e)
        /\ UNCHANGED <<cpc, fin, stopped, eof, got, q, el>>
    BY <1>1 DEF PushSegment
  <2> HIDE DEF e
  <2>3. \A i \in 1 .. Len(data') : data'[i].fin =>
            data'[i].lo = fin' /\ data'[i].hi = fin' /\ fin' # NoFin
    <3> SUFFICES ASSUME NEW i \in 1 .. Len(data'), data'[i].fin
                 PROVE  data'[i].lo = fin /\ data'[i].hi = fin /\ fin # NoFin
      BY <2>2
    <3>1. data'[i] = IF i = Len(data) + 1 THEN e ELSE data[i]
      BY <1>a, <2>2
    <3>2. i \in 1 .. Len(data) /\ data'[i] = data[i]
      BY <1>a, <2>1, <2>2, <3>1
    <3>3. QED
      BY <1>0, <3>2 DEF CloseInv
  <2>4. QED
    BY <1>0, <2>2, <2>3 DEF CloseInv, QueueEnd, EofComplete
<1>2. CASE CloseSend
  <2> DEFINE e == [lo |-> pushed, hi |-> pushed, part |-> FALSE, fin |-> TRUE]
  <2>1. e.lo = pushed /\ e.hi = pushed
    OBVIOUS
  <2>2. /\ data' = Append(data, e) /\ cpc = "deleted" /\ cpc' = "told" /\ fin' = pushed
        /\ UNCHANGED <<stopped, eof, got, q, el>>
    BY <1>2 DEF CloseSend
  <2> HIDE DEF e
  <2>3. fin = NoFin /\ ~stopped /\ ~eof /\ pushed # NoFin
    BY <1>0, <1>a, <2>2 DEF CloseInv, EofComplete, NoFin
  <2>4. \A i \in 1 .. Len(data') : data'[i].fin =>
            data'[i].lo = fin' /\ data'[i].hi = fin' /\ fin' # NoFin
    <3> SUFFICES ASSUME NEW i \in 1 .. Len(data'), data'[i].fin
                 PROVE  data'[i].lo = pushed /\ data'[i].hi = pushed /\ pushed # NoFin
      BY <2>2
    <3>1. data'[i] = (IF i = Len(data) + 1 THEN e ELSE data[i])
      BY <1>a, <2>2
    <3>2. i \in 1 .. Len(data) => ~data[i].fin
      BY <1>0, <2>3 DEF CloseInv
    <3>3. i = Len(data) + 1
      BY <1>a, <2>2, <3>1, <3>2
    <3>4. QED
      BY <2>1, <2>3, <3>1, <3>3
  <2>5. QED
    BY <2>2, <2>3, <2>4 DEF CloseInv, EofComplete
<1>3. CASE TakePacket
  <2> DEFINE h == Head(data)
             t == Tail(data)
  <2>1. /\ data # <<>> /\ data' = t /\ vpc = "idle" /\ stopped' = (stopped \/ h.fin)
        /\ UNCHANGED <<cpc, fin, eof, got, q, el>>
    BY <1>3 DEF TakePacket
  <2>2. /\ Len(data) > 0 /\ h = data[1] /\ h \in Segment /\ Len(t) = Len(data) - 1
        /\ \A i \in 1 .. Len(t) : t[i] = data[i + 1]
    BY <1>a, <2>1
  <2> HIDE DEF h, t
  <2>3. \A i \in 1 .. Len(data') : data'[i].fin =>
            data'[i].lo = fin' /\ data'[i].hi = fin' /\ fin' # NoFin
    <3> SUFFICES ASSUME NEW i \in 1 .. Len(t), t[i].fin
                 PROVE  t[i].lo = fin /\ t[i].hi = fin /\ fin # NoFin
      BY <2>1
    <3>1. t[i] = data[i + 1] /\ i + 1 \in 1 .. Len(data)
      BY <1>a, <2>2
    <3>2. QED
      BY <1>0, <3>1 DEF CloseInv
  <2>4. h.fin => h.lo = fin /\ fin # NoFin
    BY <1>0, <1>a, <2>2 DEF CloseInv
  <2>5. ~eof => h.lo = QueueEnd
    <3> SUFFICES ASSUME ~eof PROVE h.lo = QueueEnd
      OBVIOUS
    <3>1. Chained(data, QueueEnd, pushed) /\ QueueEnd \in Nat
      BY <1>0, <1>b, <2>1 DEF StreamInv, Received, InHand
    <3>2. QED
      BY <1>a, <2>1, <3>1, ChainedTail DEF h
  <2>6. QueueEnd' = QueueEnd
    BY <2>1 DEF QueueEnd
  <2>7. stopped' => fin' # NoFin /\ (~eof' => fin' <= QueueEnd')
    <3>1. CASE h.fin
      BY <1>a, <1>b, <2>1, <2>4, <2>5, <2>6, <3>1
    <3>2. CASE ~h.fin
      BY <1>0, <2>1, <2>6, <3>2 DEF CloseInv
    <3>3. QED
      BY <3>1, <3>2
  <2>8. QED
    BY <1>0, <2>1, <2>3, <2>7 DEF CloseInv, EofComplete
<1>4. CASE PushElement
  <2>1. /\ q' = Append(q, seg) /\ vpc \in {"element", "element!"}
        /\ UNCHANGED <<cpc, fin, data, stopped, eof, got, el>>
    BY <1>4 DEF PushElement, Enqueued
  <2>2. seg \in Segment
    BY <1>0 DEF IInv, TypeOK
  <2>3. QueueEnd' = seg.hi
    BY <1>a, <2>1, <2>2 DEF QueueEnd
  <2>4. ~eof => QueueEnd <= seg.hi
    BY <1>b, <2>1 DEF Received, InHand
  <2>5. QED
    BY <1>0, <1>a, <1>b, <2>1, <2>3, <2>4 DEF CloseInv, EofComplete
<1>5. CASE Pop
  <2>1. /\ ~eof /\ q # <<>> /\ el' = Head(q) /\ q' = Tail(q)
        /\ UNCHANGED <<cpc, fin, data, stopped, eof, got>>
    BY <1>0, <1>5 DEF Pop, ReaderInv
  <2>2. Chained(q', el'.hi, QueueEnd)
    BY <1>0, <1>a, <1>b, <2>1, ChainedTail DEF StreamInv
  <2>3. QueueEnd' = QueueEnd
    BY <2>2 DEF QueueEnd, Chained
  <2>4. QED
    BY <1>0, <2>1, <2>3 DEF CloseInv, EofComplete
<1>6. CASE PopEof
  <2>1. /\ got = el.hi /\ stopped /\ rpc = "next" /\ ~eof /\ eof'
        /\ qlen = 0 \/ got >= fin
        /\ UNCHANGED <<cpc, fin, data, stopped, got, q, el>>
    BY <1>0, <1>6 DEF PopEof, Drained, ReaderInv
  <2>2. fin # NoFin /\ fin \in Nat /\ fin <= QueueEnd /\ QueueEnd \in Nat
    BY <1>0, <1>a, <1>b, <2>1 DEF CloseInv
  <2>3. CASE qlen = 0
    <3>1. qlen = (QueueEnd - el.hi)
                   + (IF vpc \in {"element", "element!"} THEN seg.hi - seg.lo ELSE 0)
      BY SMTT(30), <1>0, <1>a, <1>b, <2>1 DEF StreamInv, Size
    <3> DEFINE way == IF vpc \in {"element", "element!"} THEN seg.hi - seg.lo ELSE 0
    <3>a. way \in Nat
      BY <1>0, <1>a, <1>b DEF StreamInv
    <3>b. (QueueEnd - el.hi) + way = 0 /\ el.hi <= QueueEnd /\ el.hi \in Int
      BY <1>a, <1>b, <2>1, <2>3, <3>1
    <3> HIDE DEF way
    <3>2. got = QueueEnd
      BY <2>1, <2>2, <3>a, <3>b
    <3>3. QED
      BY <1>0, <2>1, <2>2, <3>2 DEF CloseInv, EofComplete
  <2>4. CASE got >= fin
    BY <1>0, <2>1, <2>2, <2>4 DEF CloseInv, EofComplete
  <2>5. QED
    BY <2>1, <2>3, <2>4
<1>7. CASE Copy
  <2>1. /\ ~eof /\ UNCHANGED <<cpc, fin, data, stopped, eof, q, el>>
    BY <1>0, <1>7 DEF Copy, ReaderInv
  <2>2. QED
    BY <1>0, <2>1 DEF CloseInv, EofComplete, QueueEnd
<1>8. CASE CloseDelete \/ CloseWindow
  <2>1. /\ UNCHANGED <<fin, data, stopped, eof, got, q, el>>
        /\ (cpc' \in {"open", "deleted"}) <=> (cpc \in {"open", "deleted"})
    BY <1>8 DEF CloseDelete, CloseWindow
  <2>2. QED
    BY <1>0, <2>1 DEF CloseInv, EofComplete, QueueEnd
<1>9. CASE \/ \E n \in 1 .. MaxWrite : Write(n)
           \/ Enter \/ TakeSegment \/ Sent \/ WaitClosed \/ Sender
           \/ CalcSize \/ LoadWindow \/ CasWindow \/ PushLength \/ AckWrite
           \/ \E n \in 1 .. MaxRead : Read(n)
           \/ Continue \/ PopLength \/ LoadStatus \/ CasStatus \/ AckStatus
           \/ UNCHANGED vars
  <2>1. UNCHANGED <<cpc, fin, data, stopped, eof, got, q, el>>
    BY <1>9
    DEF Write, Enter, TakeSegment, Sent, WaitClosed, Sender, TakeAck, SetSizeOnClosed,
        SetSize, Allow, AllowClosed, CalcSize, LoadWindow, CasWindow, PushLength,
        AckWrite, SendOk, Read, Continue, PopLength, LoadStatus, CasStatus, AckStatus, vars
  <2>2. QED
    BY <1>0, <2>1 DEF CloseInv, EofComplete, QueueEnd
<1>10. QED
  BY <1>1, <1>2, <1>3, <1>4, <1>5, <1>6, <1>7, <1>8, <1>9
  DEF Next, Writer, Closer, Receiver, Reader

-----------------------------------------------------------------------------
(* The credit.                                                             *)

\* The order of what CreditInv adds up.
LEMMA CreditTerms ==
    ASSUME Numbers, WriterInv, AckInv, ReaderInv
    PROVE  /\ Counted \in Nat /\ acct <= Counted /\ acct <= got
           /\ ackTaken <= ackPushed
           /\ Held \in Nat /\ Size(ack) \in Nat
           /\ InWriter \in Nat /\ Outstanding \in Nat
<1> USE DEF Numbers
<1>1. Counted \in Nat /\ pushed <= Counted
  BY DEF Counted, WriterInv
<1>2. acct <= got /\ acct <= pushed
  BY DEF ReaderInv, Accounted
<1>3. ackTaken <= ackPushed
  BY DEF AckInv, Chained
<1>4. Held \in Nat /\ Size(ack) \in Nat
  BY SMTT(30) DEF AckInv, Held, Size
<1>5. InWriter \in Nat
  BY DEF InWriter, WriterInv
<1>6. acct <= Counted
  BY <1>1, <1>2
<1>7. Outstanding \in Nat
  <2>1. Counted - acct \in Nat /\ ackPushed - ackTaken \in Nat
    BY <1>1, <1>3, <1>6
  <2>2. rw.done \in Nat /\ vread \in Nat /\ rread \in Nat
    OBVIOUS
  <2>3. QED
    BY ONLY <1>4, <2>1, <2>2 DEF Outstanding
<1>8. QED
  BY <1>1, <1>2, <1>3, <1>4, <1>5, <1>6, <1>7

\* The last two terms of a sum may be exchanged for two of the same sum.
LEMMA SameSum ==
  ASSUME NEW a \in Int, NEW b \in Int, NEW c \in Int, NEW d \in Int,
         NEW e \in Int, NEW f \in Int, NEW x \in Int, NEW y \in Int,
         e + f = x + y
  PROVE  a + b + c + d + e + f = a + b + c + d + x + y
  OBVIOUS

Largest(w) == w \in Windows /\ \A v \in Windows : v <= w

LEMMA StepCredit == IInv /\ [Next]_vars => CreditInv'
<1> SUFFICES ASSUME IInv, [Next]_vars PROVE CreditInv'
  OBVIOUS
<1> USE DEF wvars, svars, cvars, nvars, qvars, vvars, rvars
<1>0. TypeOK /\ WriterInv /\ AckInv /\ ReaderInv /\ CreditInv /\ Numbers
  BY TypesGiveNumbers DEF IInv
<1>a. /\ Counted \in Nat /\ acct <= Counted /\ acct <= got /\ ackTaken <= ackPushed
      /\ Held \in Nat /\ Size(ack) \in Nat /\ InWriter \in Nat /\ Outstanding \in Nat
  BY <1>0, CreditTerms
<1>b. /\ sw.max \in Nat /\ sw.done \in Nat /\ rw.done \in Nat /\ rword.done \in Nat
      /\ taken \in Nat /\ pushed \in Nat /\ pushed <= taken /\ acct \in Nat
      /\ el.lo \in Nat /\ el.hi \in Nat /\ vread \in Nat /\ rread \in Nat
      /\ ackPushed \in Nat /\ ackTaken \in Nat /\ bufEnd \in Nat /\ taken <= bufEnd
  BY <1>0 DEF Numbers, WriterInv
<1>c. /\ Outstanding <= sw.done
      /\ Open => sw.done = Outstanding
      /\ \A w : Largest(w) => w \in Nat /\ sw.done + InWriter <= w
  BY <1>0, WindowAssumption DEF CreditInv, Largest
\* It is enough to compare both sides before and after.
<1>d. ASSUME NEW n \in Int, sw'.done = sw.done + n, InWriter' \in Int,
             Outstanding' <= Outstanding + n,
             Open' => Open /\ Outstanding' = Outstanding + n,
             Outstanding' \in Int,
             \A w : Largest(w) => sw'.done + InWriter' <= w
      PROVE  CreditInv'
  <2>1. Outstanding' <= sw'.done
    BY <1>a, <1>b, <1>c, <1>d
  <2>2. Open' => sw'.done = Outstanding'
    BY <1>a, <1>b, <1>c, <1>d
  <2>3. QED
    BY <1>d, <2>1, <2>2 DEF CreditInv, Largest
\* A step that moves credit and leaves the send window alone.
<1>e. ASSUME UNCHANGED <<sw, wpc, taken, pushed>>, Outstanding' = Outstanding, Open' => Open
      PROVE  CreditInv'
  <2>1. InWriter' = InWriter
    BY <1>e DEF InWriter
  <2>2. QED
    BY <1>a, <1>b, <1>c, <1>e, <2>1 DEF CreditInv, Largest
<1>1. CASE TakeSegment
  <2>1. CASE Remaining(sw.max, sw.done) = 0
    <3>1. /\ sw'.done = sw.done /\ wpc = "load" /\ wpc' = "wait"
          /\ UNCHANGED <<taken, pushed, acct, rw, vread, rread, ackPushed, ackTaken, spc, ack,
                         cpc, eof>>
      BY <1>0, <1>1, <2>1 DEF TakeSegment, TypeOK, Word
    <3>2. Outstanding' = Outstanding /\ InWriter' = InWriter /\ (Open' => Open)
      BY <3>1 DEF Outstanding, Counted, Held, InWriter, Open
    <3>3. QED
      BY <1>0, <3>1, <3>2 DEF CreditInv
  <2>2. CASE Remaining(sw.max, sw.done) # 0
    <3> DEFINE n == Cut(Remaining(sw.max, sw.done))
    <3>1. /\ UNCHANGED <<sw, pushed, acct, rw, vread, rread, ackPushed, ackTaken, spc, ack,
                         cpc, eof>>
          /\ wpc = "load" /\ wpc' = "count" /\ taken' = taken + n
      BY <1>1, <2>2 DEF TakeSegment
    <3>2. pushed = taken
      BY <1>0, <3>1 DEF WriterInv
    <3>3. sw.done < sw.max /\ Remaining(sw.max, sw.done) = sw.max - sw.done
      BY <1>b, <2>2 DEF Remaining
    <3>4. n \in Nat /\ n <= sw.max - sw.done
      BY <1>b, <3>3, SegAssumption DEF Cut, Least
    <3> HIDE DEF n
    <3>5. Outstanding' = Outstanding /\ (Open' => Open)
      BY <3>1, <3>2 DEF Outstanding, Counted, Held, Open
    <3>6. InWriter' = n
      BY <1>b, <3>1, <3>2, <3>4 DEF InWriter
    <3>7. \A w : Largest(w) => sw.max <= w
      BY <1>0 DEF Largest, TypeOK, Word
    <3>8. \A w : Largest(w) => sw'.done + InWriter' <= w
      BY <1>b, <1>c, <3>1, <3>4, <3>6, <3>7
    <3>9. QED
      BY <1>a, <1>b, <1>c, <1>d, <3>1, <3>4, <3>5, <3>6, <3>8
  <2>3. QED
    BY <2>1, <2>2
<1>2. CASE Sent
  <2> DEFINE n == taken - pushed
  <2>1. /\ sw'.done = sw.done + n /\ wpc = "count" /\ wpc' = "push"
        /\ UNCHANGED <<taken, pushed, acct, rw, vread, rread, ackPushed, ackTaken, spc, ack,
                       cpc, eof>>
    BY <1>0, <1>2 DEF Sent, TypeOK, Word
  <2>2. n \in Nat /\ InWriter = n /\ InWriter' = 0 /\ (Open' => Open)
    BY <1>b, <2>1 DEF InWriter, Open
  <2>3. Counted' = Counted + n
    BY <1>b, <2>1 DEF Counted
  <2> HIDE DEF n
  <2>4. Outstanding' = Outstanding + n
    BY <1>a, <1>b, <2>1, <2>2, <2>3 DEF Outstanding, Held
  <2>5. QED
    BY <1>a, <1>b, <1>c, <1>d, <2>1, <2>2, <2>4
<1>3. CASE TakeAck
  <2>1. /\ UNCHANGED <<sw, wpc, taken, pushed, acct, rw, vread, rread, ackPushed, cpc, eof>>
        /\ spc = "idle" /\ acks # <<>> /\ ackTaken' = Head(acks).hi
    BY <1>3 DEF TakeAck
  <2>2. Head(acks).lo = ackTaken /\ ackTaken <= Head(acks).hi /\ Head(acks).hi \in Nat
    BY <1>0, <2>1, ChainedTail, SequencesOfRanges DEF AckInv, Numbers, Ranges
  <2>3. Held = 0 /\ Counted' = Counted /\ InWriter' = InWriter
    BY <2>1 DEF Held, Counted, InWriter
  <2>4. CASE cpc = "open"
    <3>1. Held' = Head(acks).hi - Head(acks).lo
      BY <1>3, <2>4 DEF TakeAck, Held, Size
    <3>2. (ackPushed' - ackTaken') + Held' = (ackPushed - ackTaken) + Held
      BY <1>b, <2>1, <2>2, <2>3, <3>1
    <3>3. Outstanding' = Outstanding
      <4>1. Outstanding' = (Counted - acct) + rw.done + vread + rread
                             + (ackPushed' - ackTaken') + Held'
        BY <2>1, <2>3 DEF Outstanding
      <4>2. /\ Counted - acct \in Int /\ ackPushed - ackTaken \in Int
            /\ ackPushed' - ackTaken' \in Int /\ Held' \in Int
        BY SMTT(30), <1>a, <1>b, <2>1, <2>2, <2>3, <3>1, SequencesOfRanges DEF Numbers, Ranges
      <4>3. QED
        BY <1>a, <1>b, <3>2, <4>1, <4>2, SameSum DEF Outstanding
    <3>4. QED
      BY <1>e, <2>1, <3>3 DEF Open
  <2>5. CASE cpc # "open"
    <3>1. Held' = 0 /\ ~Open'
      BY <1>3, <2>1, <2>5 DEF TakeAck, Held, Open
    <3> DEFINE left == ackPushed' - ackTaken'
    <3>2. left \in Int /\ left <= ackPushed - ackTaken
      BY <1>b, <2>1, <2>2
    <3>3. Outstanding' = (Counted - acct) + rw.done + vread + rread + left + 0
      BY <2>1, <2>3, <3>1 DEF Outstanding
    <3>4. Outstanding = (Counted - acct) + rw.done + vread + rread + (ackPushed - ackTaken) + 0
      BY <2>3 DEF Outstanding
    <3> HIDE DEF left
    <3>5. Outstanding' <= Outstanding /\ Outstanding' \in Int
      BY <1>a, <1>b, <3>2, <3>3, <3>4
    <3>6. QED
      BY <1>a, <1>b, <1>c, <1>d, <2>1, <2>3, <3>1, <3>5
  <2>6. QED
    BY <2>4, <2>5
<1>4. CASE SetSizeOnClosed
  <2>1. /\ UNCHANGED <<sw, wpc, taken, pushed, acct, rw, vread, rread, ackPushed, ackTaken,
                       cpc, eof>>
        /\ spc' = "idle" /\ cpc = "closed"
    BY <1>0, <1>4 DEF SetSizeOnClosed, WriterInv
  <2>2. Held' = 0 /\ Counted' = Counted /\ InWriter' = InWriter /\ ~Open'
    BY <2>1 DEF Held, Counted, InWriter, Open
  <2>3. Outstanding' <= Outstanding /\ Outstanding' \in Int
    BY <1>a, <1>b, <2>1, <2>2 DEF Outstanding
  <2>4. QED
    BY <1>a, <1>b, <1>c, <1>d, <2>1, <2>2, <2>3
<1>5. CASE SetSize
  <2>1. /\ UNCHANGED <<wpc, taken, pushed, acct, rw, vread, rread, ackPushed, ackTaken,
                       cpc, eof>>
        /\ spc = "set" /\ spc' # "set"
    BY <1>5 DEF SetSize
  <2>2. Held = Size(ack) /\ Held' = 0 /\ Counted' = Counted /\ InWriter' = InWriter
    BY <2>1 DEF Held, Counted, InWriter
  <2>3. Outstanding' = Outstanding - Size(ack) /\ (Open' => Open)
    BY <1>a, <1>b, <2>1, <2>2 DEF Outstanding, Open
  <2>4. Size(ack) <= Outstanding
    BY <1>a, <1>b, <2>2 DEF Outstanding
  <2>5. Size(ack) <= sw.done
    BY <1>a, <1>b, <1>c, <2>4
  <2>6. CASE SetSizeIgnored
    <3>1. Size(ack) = 0
      BY <1>a, <1>b, <2>5, <2>6 DEF SetSizeIgnored
    <3>2. UNCHANGED sw
      BY <1>5, <2>6 DEF SetSize
    <3>3. Outstanding' = Outstanding
      BY <1>a, <2>3, <3>1
    <3>4. QED
      BY <1>e, <2>1, <2>3, <3>2, <3>3
  <2>7. CASE ~SetSizeIgnored
    <3>1. sw'.done = sw.done + (- Size(ack))
      BY <1>5, <1>a, <1>b, <2>7 DEF SetSize
    <3>2. Outstanding' = Outstanding + (- Size(ack)) /\ - Size(ack) \in Int
      BY <1>a, <2>3
    <3>3. \A w : Largest(w) => sw'.done + InWriter' <= w
      BY <1>a, <1>b, <1>c, <2>2, <3>1
    <3>4. QED
      BY <1>a, <1>d, <2>2, <2>3, <3>1, <3>2, <3>3
  <2>8. QED
    BY <2>6, <2>7
<1>6. CASE CasWindow \/ LoadWindow \/ CalcSize
  <2>1. /\ UNCHANGED <<sw, wpc, taken, pushed, acct, rread, ackPushed, ackTaken, spc, ack,
                       cpc, eof>>
        /\ vread = 0
    BY <1>0, <1>6 DEF CasWindow, LoadWindow, CalcSize, AckInv
  <2>2. rw'.done + vread' = rw.done + vread
    <3>1. CASE CasWindow
      <4>1. CASE rw # vword
        BY <2>1, <3>1, <4>1 DEF CasWindow
      <4>2. CASE rw = vword /\ vremain = 0
        BY <1>0, <2>1, <3>1, <4>2 DEF CasWindow, TypeOK, Word
      <4>3. CASE rw = vword /\ vremain # 0
        BY <1>0, <1>b, <2>1, <3>1, <4>3 DEF CasWindow, Claimed, TypeOK, Word
      <4>4. QED
        BY <4>1, <4>2, <4>3
    <3>2. CASE LoadWindow
      BY <2>1, <3>2 DEF LoadWindow
    <3>3. CASE CalcSize
      BY <1>0, <3>3 DEF CalcSize, TypeOK, Word
    <3>4. QED
      BY <1>6, <3>1, <3>2, <3>3
  <2>3. rw'.done \in Int /\ vread' \in Int
    <3>1. rw' \in Word /\ vread' \in Nat
      BY StepTypeOK DEF TypeOK
    <3>2. QED
      BY <3>1, WordFields
  <2>4. Counted' = Counted /\ Held' = Held
    BY <2>1 DEF Counted, Held
  <2>5. Outstanding' = Outstanding
    BY <1>a, <1>b, <2>1, <2>2, <2>3, <2>4 DEF Outstanding
  <2>6. QED
    BY <1>e, <2>1, <2>5 DEF Open
<1>7. CASE AckWrite
  <2>1. /\ UNCHANGED <<sw, wpc, taken, pushed, acct, rw, rread, ackTaken, spc, ack, cpc, eof>>
        /\ vread' = 0 /\ ackPushed' = ackPushed + vread
    BY <1>7 DEF AckWrite, SendOk
  <2>2. Counted' = Counted /\ Held' = Held
    BY <2>1 DEF Counted, Held
  <2>3. Outstanding' = Outstanding
    BY <1>a, <1>b, <2>1, <2>2 DEF Outstanding
  <2>4. QED
    BY <1>e, <2>1, <2>3 DEF Open
<1>8. CASE AckStatus
  <2>1. /\ UNCHANGED <<sw, wpc, taken, pushed, acct, rw, vread, ackTaken, spc, ack, cpc, eof>>
        /\ rread' = 0 /\ ackPushed' = ackPushed + rread
    BY <1>8 DEF AckStatus, SendOk
  <2>2. Counted' = Counted /\ Held' = Held
    BY <2>1 DEF Counted, Held
  <2>3. Outstanding' = Outstanding
    BY <1>a, <1>b, <2>1, <2>2 DEF Outstanding
  <2>4. QED
    BY <1>e, <2>1, <2>3 DEF Open
<1>9. CASE CasStatus
  <2>1. /\ UNCHANGED <<sw, wpc, taken, pushed, vread, ackPushed, ackTaken, spc, ack, cpc, eof>>
        /\ rread = 0 /\ acct = el.lo
    BY <1>0, <1>9 DEF CasStatus, AckInv, ReaderInv, Accounted
  <2>2. Counted' = Counted /\ Held' = Held
    BY <2>1 DEF Counted, Held
  <2>3. CASE rw # rword
    <3>1. UNCHANGED <<rw, rread, acct>>
      BY <1>9, <2>3 DEF CasStatus
    <3>2. Outstanding' = Outstanding
      BY <2>1, <2>2, <3>1 DEF Outstanding
    <3>3. QED
      BY <1>e, <2>1, <3>2 DEF Open
  <2>4. CASE rw = rword
    <3> DEFINE read == rword.done + Size(el)
    <3>1. acct' = el.hi /\ read = rw.done + (el.hi - el.lo)
      BY <1>9, <2>4 DEF CasStatus, Size
    <3>2. \/ rw'.done = 0 /\ rread' = read
          \/ rw'.done = read /\ rread' = 0
      BY <1>0, <1>9, <2>1, <2>4 DEF CasStatus, TypeOK, Word
    <3> HIDE DEF read
    <3>3. Outstanding' = Outstanding
      BY <1>a, <1>b, <2>1, <2>2, <3>1, <3>2 DEF Outstanding
    <3>4. QED
      BY <1>e, <2>1, <3>3 DEF Open
  <2>5. QED
    BY <2>3, <2>4
<1>10. CASE PushSegment \/ Enter \/ WaitClosed \/ Allow \/ \E n \in 1 .. MaxWrite : Write(n)
  <2>1. /\ UNCHANGED <<sw, taken, acct, rw, vread, rread, ackPushed, ackTaken, cpc, eof>>
        /\ wpc # "count" /\ wpc' # "count"
        /\ Held' = Held
    BY <1>10 DEF PushSegment, Enter, WaitClosed, Allow, Write, Held
  <2>2. InWriter' = InWriter /\ Counted' = Counted /\ (Open' => Open)
    BY <2>1 DEF InWriter, Counted, Open
  <2>3. Outstanding' = Outstanding
    BY <2>1, <2>2 DEF Outstanding
  <2>4. QED
    BY <1>0, <2>1, <2>2, <2>3 DEF CreditInv
<1>11. CASE \/ CloseDelete \/ Closer \/ AllowClosed
            \/ TakePacket \/ PushLength \/ PushElement
            \/ \E n \in 1 .. MaxRead : Read(n)
            \/ Continue \/ Pop \/ PopLength \/ PopEof \/ Copy \/ LoadStatus
            \/ UNCHANGED vars
  <2>1. /\ UNCHANGED <<sw, wpc, taken, pushed, acct, rw, vread, rread, ackPushed, ackTaken>>
        /\ Held' = Held
        /\ Open' => Open
    BY <1>11
    DEF CloseDelete, Closer, CloseSend, CloseWindow, AllowClosed, TakePacket, PushLength,
        PushElement, Read, Continue, Pop, PopLength, PopEof, Copy, LoadStatus, vars,
        Held, Open
  <2>2. Outstanding' = Outstanding
    BY <2>1 DEF Outstanding, Counted
  <2>3. QED
    BY <1>e, <2>1, <2>2
<1>12. QED
  BY <1>1, <1>2, <1>3, <1>4, <1>5, <1>6, <1>7, <1>8, <1>9, <1>10, <1>11
  DEF Next, Writer, Sender, Receiver, Reader

-----------------------------------------------------------------------------
(* The theorems.                                                           *)

LEMMA InitInvariant == Init => IInv
<1> SUFFICES ASSUME Init PROVE IInv
  OBVIOUS
<1>1. TypeOK
  BY InitTypeOK
<1>2. WriterInv
  <2>1. ~closeOp
    BY Zenon DEF Init
  <2>2. QED
    BY <2>1 DEF Init, WriterInv
<1>3. AckInv /\ ReaderInv
  BY DEF Init, AckInv, ReaderInv, Accounted, Chained, NoAck, NoSegment
<1>4. QueueEnd = 0 /\ ~InHand
  BY DEF Init, QueueEnd, InHand, NoSegment
<1>5. StreamInv
  BY <1>4 DEF Init, StreamInv, Received, Chained, NoSegment
<1>6. CloseInv
  BY DEF Init, CloseInv, EofComplete
<1>7. CreditInv
  <2>1. Outstanding = 0 /\ InWriter = 0 /\ sw.done = 0
    BY DEF Init, Outstanding, Counted, Held, InWriter, FirstWord
  <2>2. \A w \in Windows : w \in Nat
    BY WindowAssumption
  <2>3. QED
    BY <2>1, <2>2 DEF CreditInv
<1>8. QED
  BY <1>1, <1>2, <1>3, <1>5, <1>6, <1>7 DEF IInv

LEMMA StepInvariant == IInv /\ [Next]_vars => IInv'
BY StepTypeOK, StepWriter, StepAck, StepReader, StepStream, StepClose, StepCredit DEF IInv

LEMMA Invariant == Spec => []IInv
BY InitInvariant, StepInvariant, PTL DEF Spec

\* Both windows, both queues and every goroutine stay within their types.
THEOREM TypeCorrect == Spec => []TypeOK
<1>1. IInv => TypeOK
  BY DEF IInv
<1>2. QED
  BY Invariant, <1>1, PTL

\* sendWindow and receiveWindow: the counter of the send window is what was sent
\* and not given back, whatever the order in which Write, Read and SetSize meet.
THEOREM CreditIsConserved == Spec => []CreditConserved
<1>1. IInv => CreditConserved
  BY DEF IInv, CreditInv, CreditConserved, Outstanding
<1>2. QED
  BY Invariant, <1>1, PTL

\* SetSize: the branch "window read > send" cannot be reached.
THEOREM ReadIsWithinSent == Spec => []ReadWithinSent
<1>1. IInv => ReadWithinSent
  <2> SUFFICES ASSUME IInv, spc = "set" PROVE Size(ack) <= sw.done
    BY DEF ReadWithinSent
  <2>1. Numbers /\ WriterInv /\ AckInv /\ ReaderInv /\ CreditInv
    BY TypesGiveNumbers DEF IInv
  <2>2. /\ acct <= Counted /\ ackTaken <= ackPushed /\ Counted \in Nat
        /\ Held = Size(ack) /\ Size(ack) \in Nat
    BY <2>1, CreditTerms DEF Held
  <2>3. Size(ack) <= Outstanding /\ Outstanding \in Nat
    <3>1. Counted - acct \in Nat /\ ackPushed - ackTaken \in Nat
      BY SMTT(30), <2>1, <2>2 DEF Numbers
    <3>2. rw.done \in Nat /\ vread \in Nat /\ rread \in Nat
      BY <2>1 DEF Numbers
    <3>3. QED
      BY ONLY <2>2, <3>1, <3>2 DEF Outstanding
  <2>4. QED
    BY <2>1, <2>2, <2>3 DEF CreditInv, Numbers
<1>2. QED
  BY Invariant, <1>1, PTL

\* The receive queue, which refuses nothing, is bounded by the largest window.
THEOREM WindowIsRespected == Spec => []WindowRespected
<1>1. IInv => WindowRespected
  <2> SUFFICES ASSUME IInv, NEW w \in Windows, \A v \in Windows : v <= w
               PROVE  Counted - got <= w
    BY DEF WindowRespected
  <2>1. Numbers /\ WriterInv /\ AckInv /\ ReaderInv /\ CreditInv
    BY TypesGiveNumbers DEF IInv
  <2>2. /\ acct <= got /\ acct <= Counted /\ ackTaken <= ackPushed /\ Counted \in Nat
        /\ Held \in Nat /\ InWriter \in Nat /\ Outstanding \in Nat
    BY <2>1, CreditTerms
  <2>3. /\ rw.done \in Nat /\ vread \in Nat /\ rread \in Nat /\ acct \in Nat /\ got \in Nat
        /\ sw.done \in Nat /\ ackPushed - ackTaken \in Nat /\ w \in Nat
    BY <2>1, <2>2, WindowAssumption DEF Numbers
  <2>4. Counted - acct <= Outstanding
    BY ONLY <2>2, <2>3 DEF Outstanding
  <2>5. Outstanding <= sw.done /\ sw.done + InWriter <= w
    BY <2>1 DEF CreditInv
  <2>6. QED
    BY ONLY <2>2, <2>3, <2>4, <2>5
<1>2. QED
  BY Invariant, <1>1, PTL

\* conn.Read: io.EOF comes behind the last byte queued before muxConnClose.
THEOREM EofIsComplete == Spec => []EofComplete
<1>1. IInv => EofComplete
  BY DEF IInv, CloseInv
<1>2. QED
  BY Invariant, <1>1, PTL

\* conn.Read: the bytes come in the order in which they were written, each once.
THEOREM BytesInOrder == Spec => InOrder
<1>1. IInv /\ [Next]_vars => (el' # el => el'.lo = got)
  <2> SUFFICES ASSUME IInv, [Next]_vars, el' # el PROVE el'.lo = got
    OBVIOUS
  <2> USE DEF wvars, svars, cvars, nvars, qvars, vvars, rvars
  <2>1. Pop
    <3>1. CASE \/ \E n \in 1 .. MaxWrite : Write(n)
               \/ Writer \/ CloseDelete \/ Closer \/ Sender
      BY <3>1
      DEF Write, Writer, Enter, TakeSegment, Sent, PushSegment, WaitClosed, CloseDelete,
          Closer, CloseSend, CloseWindow, Sender, TakeAck, SetSizeOnClosed, SetSize,
          Allow, AllowClosed
    <3>2. CASE Receiver
      BY <3>2
      DEF Receiver, TakePacket, CalcSize, LoadWindow, CasWindow, PushLength, PushElement,
          AckWrite
    <3>3. CASE Reader
      BY <3>3
      DEF Reader, Read, Continue, PopLength, PopEof, Copy, LoadStatus, CasStatus, AckStatus
    <3>4. CASE UNCHANGED vars
      BY <3>4 DEF vars
    <3>5. QED
      BY <3>1, <3>2, <3>3, <3>4 DEF Next
  <2>2. /\ ~eof /\ q # <<>> /\ el' = Head(q) /\ got = el.hi
    BY <2>1 DEF IInv, ReaderInv, Pop
  <2>3. Numbers /\ StreamInv
    BY TypesGiveNumbers DEF IInv
  <2>4. /\ q \in Seq(Segment) /\ Ranges(Segment) /\ el.hi \in Nat /\ QueueEnd \in Nat
        /\ Chained(q, el.hi, QueueEnd)
    BY <2>2, <2>3, Positions, SequencesOfRanges DEF Numbers, StreamInv
  <2>5. QED
    BY <2>2, <2>4, ChainedTail
<1>2. QED
  BY Invariant, <1>1, PTL DEF Spec, InOrder

-----------------------------------------------------------------------------
(* What holds the credit that is not given back, and whom a writer waits for. *)

\* Something of the stream will reach sendStatus after what it has counted.
Busy == rpc \in {"popped", "copy", "status", "cas"} \/ got < el.hi \/ el.hi < Received

QuietInv ==
    \* Read keeps credit only while more is to be read: the last one tells.
    /\ ~eof /\ rw.done > 0 => Busy
    /\ ~eof /\ rpc = "cas" /\ rremain # rword.max => el.hi < Received
    \* A writer waits in a full window, until somebody is there to wake it.
    /\ sw.wait => sw.done >= sw.max
    /\ cpc # "closed" /\ wpc = "wait" => sw.wait \/ spc = "allow"

\* What is received of the stream only grows, and only Pop takes an element.
LEMMA ReceivedGrows ==
    ASSUME IInv, [Next]_vars, ~eof, ~Pop
    PROVE  /\ el' = el /\ el.hi \in Nat /\ Received \in Nat
           /\ el.hi < Received => el.hi < Received'
<1> USE DEF wvars, svars, cvars, nvars, qvars, vvars, rvars
<1>0. StreamInv /\ Numbers
  BY TypesGiveNumbers DEF IInv
<1>a. /\ QueueEnd \in Nat /\ Received \in Nat /\ pushed \in Nat /\ el.hi \in Nat
      /\ Chained(data, Received, pushed)
      /\ data \in Seq(Segment) /\ q \in Seq(Segment) /\ Ranges(Segment)
  BY <1>0, Positions, SequencesOfRanges DEF StreamInv, Numbers
<1>b. ASSUME UNCHANGED <<el, q, seg>>, InHand' = InHand
      PROVE  el' = el /\ Received' = Received
  BY <1>b DEF Received, QueueEnd
<1> SUFFICES el' = el /\ (el.hi < Received => el.hi < Received')
  BY <1>a
<1>1. CASE TakePacket
  <2>1. /\ UNCHANGED <<el, q>> /\ Received = QueueEnd /\ data # <<>> /\ seg' = Head(data)
        /\ vpc' \in {"idle", "calc"} /\ vpc = "idle"
    BY <1>1 DEF TakePacket, Received, InHand
  <2>2. QueueEnd' = QueueEnd
    BY <2>1 DEF QueueEnd
  <2>3. Received <= Head(data).hi /\ Head(data) \in Segment
    BY <1>a, <2>1, ChainedTail
  <2>4. Head(data).hi \in Nat
    BY <2>3, RangeFields
  <2>5. Received' = QueueEnd' \/ Received' = seg'.hi
    BY DEF Received
  <2>6. QED
    BY <1>a, <2>1, <2>2, <2>3, <2>4, <2>5
<1>2. CASE PushElement
  <2>1. UNCHANGED <<el, seg>> /\ q' = Append(q, seg) /\ Received = seg.hi /\ ~InHand'
    BY <1>2 DEF PushElement, Enqueued, Received, InHand
  <2>2. q' # <<>> /\ q'[Len(q')] = seg
    BY <1>0, <1>a, <2>1
  <2>3. Received' = seg.hi
    BY <2>1, <2>2 DEF Received, QueueEnd
  <2>4. el' = el /\ Received' = Received
    BY <2>1, <2>3
  <2>5. QED
    BY <2>4, <1>a
<1>3. CASE CalcSize \/ LoadWindow \/ CasWindow \/ PushLength \/ AckWrite
  <2>1. UNCHANGED <<el, q, seg>> /\ InHand' = InHand
    <3>1. CASE CalcSize
      BY <3>1 DEF CalcSize, InHand
    <3>2. CASE LoadWindow
      BY <3>2 DEF LoadWindow, InHand
    <3>3. CASE CasWindow
      BY <3>3 DEF CasWindow, Retry, InHand
    <3>4. CASE PushLength
      BY <3>4 DEF PushLength, InHand
    <3>5. CASE AckWrite
      BY <3>5 DEF AckWrite, InHand
    <3>6. QED
      BY <1>3, <3>1, <3>2, <3>3, <3>4, <3>5
  <2>2. QED
    BY <2>1, <1>a, <1>b
<1>4. CASE Reader
  <2>1. UNCHANGED <<el, q, seg, vpc>>
    BY <1>4
    DEF Reader, Read, Continue, PopLength, PopEof, Copy, LoadStatus, CasStatus, AckStatus
  <2>2. QED
    BY <2>1, <1>a, <1>b DEF InHand
<1>5. CASE \/ \E n \in 1 .. MaxWrite : Write(n)
           \/ Writer \/ CloseDelete \/ Closer \/ Sender \/ UNCHANGED vars
  <2>1. UNCHANGED <<el, q, seg, vpc>>
    BY <1>5
    DEF Write, Writer, Enter, TakeSegment, Sent, PushSegment, WaitClosed, CloseDelete,
        Closer, CloseSend, CloseWindow, Sender, TakeAck, SetSizeOnClosed, SetSize,
        Allow, AllowClosed, vars
  <2>2. QED
    BY <2>1, <1>a, <1>b DEF InHand
<1>6. QED
  BY <1>a, <1>1, <1>2, <1>3, <1>4, <1>5 DEF Next, Receiver

\* Read gives its credit back, or there is more to read.
LEMMA StepBusy ==
    IInv /\ QuietInv /\ [Next]_vars =>
        /\ ~eof' /\ rw'.done > 0 => Busy'
        /\ ~eof' /\ rpc' = "cas" /\ rremain' # rword'.max => el'.hi < Received'
<1> SUFFICES ASSUME IInv, QuietInv, [Next]_vars, ~eof'
             PROVE  /\ rw'.done > 0 => Busy'
                    /\ rpc' = "cas" /\ rremain' # rword'.max => el'.hi < Received'
  OBVIOUS
<1> USE DEF wvars, svars, cvars, nvars, qvars, vvars, rvars
<1>0. StreamInv /\ ReaderInv /\ Numbers /\ rw \in Word
  BY TypesGiveNumbers DEF IInv, TypeOK
<1>a. ~eof
  BY DEF Next, Write, Writer, Enter, TakeSegment, Sent, PushSegment, WaitClosed, CloseDelete,
         Closer, CloseSend, CloseWindow, Sender, TakeAck, SetSizeOnClosed, SetSize, Allow,
         AllowClosed, Receiver, TakePacket, CalcSize, LoadWindow, CasWindow, PushLength,
         PushElement, AckWrite, Reader, Read, Continue, Pop, PopLength, PopEof, Copy,
         LoadStatus, CasStatus, AckStatus, vars
<1>b. /\ rw.done > 0 => Busy
      /\ rpc = "cas" /\ rremain # rword.max => el.hi < Received
  BY <1>a DEF QuietInv
<1>c. ~Pop => /\ el' = el /\ el.hi \in Nat /\ Received \in Nat
              /\ el.hi < Received => el.hi < Received'
  BY <1>a, ReceivedGrows
<1>d. /\ el.lo \in Nat /\ el.hi \in Nat /\ got \in Nat /\ room \in Nat /\ got <= el.hi
  BY <1>0 DEF Numbers, ReaderInv
<1> DEFINE G == /\ rw'.done > 0 => Busy'
                /\ rpc' = "cas" /\ rremain' # rword'.max => el'.hi < Received'
\* The reader is where it was, and no credit was added.
<1>e. ASSUME ~Pop, rw'.done > 0 => rw.done > 0, UNCHANGED <<rpc, got, rremain, rword>>
      PROVE  G
  BY <1>b, <1>c, <1>e DEF Busy
<1>1. CASE \/ \E n \in 1 .. MaxWrite : Write(n)
           \/ Writer \/ CloseDelete \/ Closer \/ Sender \/ UNCHANGED vars
  <2>1. UNCHANGED <<rw, rpc, got, rremain, rword>>
    BY <1>1
    DEF Write, Writer, Enter, TakeSegment, Sent, PushSegment, WaitClosed, CloseDelete,
        Closer, CloseSend, CloseWindow, Sender, TakeAck, SetSizeOnClosed, SetSize,
        Allow, AllowClosed, vars
  <2>2. UNCHANGED q
    BY <1>1
    DEF Write, Writer, Enter, TakeSegment, Sent, PushSegment, WaitClosed, CloseDelete,
        Closer, CloseSend, CloseWindow, Sender, TakeAck, SetSizeOnClosed, SetSize,
        Allow, AllowClosed, vars
  <2>3. ~Pop
    BY <2>1 DEF Pop
  <2>4. QED
    BY <1>e, <2>1, <2>3
<1>2. CASE Receiver
  <2>1. UNCHANGED <<rpc, got, rremain, rword>>
    BY <1>2
    DEF Receiver, TakePacket, CalcSize, LoadWindow, CasWindow, PushLength, PushElement, AckWrite
  <2>2. ~Pop
    BY <2>1 DEF Pop
  <2>3. rw'.done > 0 => rw.done > 0
    <3>1. CASE CalcSize
      BY <1>0, <3>1 DEF CalcSize, Word
    <3>2. CASE CasWindow
      BY <1>0, <3>2 DEF CasWindow, Claimed, Word
    <3>3. CASE UNCHANGED rw
      BY <3>3
    <3>4. QED
      BY <1>2, <3>1, <3>2, <3>3
      DEF Receiver, TakePacket, LoadWindow, PushLength, PushElement, AckWrite
  <2>4. QED
    BY <1>e, <2>1, <2>2, <2>3
<1>3. CASE Pop
  BY <1>3 DEF Pop, Busy
<1>4. CASE PopLength
  BY <1>4 DEF PopLength, Busy
<1>5. CASE Copy
  <2>1. el' = el /\ rpc' \in {"status", "idle"}
    BY <1>5 DEF Copy
  <2>2. rpc' = "idle" => got' < el.hi
    <3> DEFINE l == Least(room, el.hi - got)
    <3>1. l \in Int /\ l <= el.hi - got
      BY <1>d DEF Least
    <3>2. got' = got + l /\ (rpc' = "idle" => got + l # el.hi)
      BY <1>5 DEF Copy
    <3> HIDE DEF l
    <3>3. QED
      BY <1>d, <3>1, <3>2
  <2>3. QED
    BY <2>1, <2>2 DEF Busy
<1>6. CASE LoadStatus
  <2>1. /\ rword' = rw /\ rremain' = Remaining(rw.max, qlen) /\ rpc = "status" /\ rpc' = "cas"
        /\ UNCHANGED <<el, q, seg, vpc>>
    BY <1>6 DEF LoadStatus
  <2>2. Received' = Received /\ QueueEnd' = QueueEnd
    BY <2>1 DEF Received, QueueEnd, InHand
  <2>3. ASSUME rremain' # rword'.max PROVE el.hi < Received
    <3>1. qlen # 0 /\ qlen \in Nat
      BY <1>0, <2>1, <2>3, WindowAssumption DEF Remaining, Numbers
    <3>2. /\ QueueEnd \in Nat /\ el.hi <= QueueEnd /\ QueueEnd <= Received /\ Received \in Nat
          /\ seg.lo \in Nat /\ seg.hi \in Nat
      BY <1>0, <1>a, Positions DEF Numbers
    <3>3. qlen = (QueueEnd - el.hi) + (IF vpc \in {"element", "element!"} THEN Size(seg) ELSE 0)
      <4>1. /\ qlen = (QueueEnd - el.hi)
                        + (IF vpc \in {"element", "element!"} THEN Size(seg) ELSE 0)
                        + (IF rpc = "popped" THEN Size(el) ELSE 0)
        BY <1>0, <1>a DEF StreamInv
      <4>2. (IF vpc \in {"element", "element!"} THEN Size(seg) ELSE 0) \in Int
        BY <3>2 DEF Size
      <4>3. (IF rpc = "popped" THEN Size(el) ELSE 0) = 0
        BY <2>1
      <4> DEFINE x == IF vpc \in {"element", "element!"} THEN Size(seg) ELSE 0
      <4> HIDE DEF x
      <4>4. x \in Int /\ qlen = (QueueEnd - el.hi) + x + 0
        BY <4>1, <4>2, <4>3, Zenon DEF x
      <4>5. qlen = (QueueEnd - el.hi) + x
        BY <1>d, <3>2, <4>4
      <4>6. QED
        BY <4>5 DEF x
    <3>4. CASE vpc \in {"element", "element!"}
      <4>1. InHand /\ Received = seg.hi /\ seg.lo = QueueEnd
        BY <1>0, <1>a, <3>4 DEF InHand, Received, StreamInv
      <4>2. QED
        BY <1>d, <3>1, <3>2, <3>3, <3>4, <4>1 DEF Size
    <3>5. CASE vpc \notin {"element", "element!"}
      <4>1. qlen = QueueEnd - el.hi
        BY <1>d, <3>2, <3>3, <3>5
      <4>2. QED
        BY <1>d, <3>1, <3>2, <4>1
    <3>6. QED
      BY <3>4, <3>5
  <2>4. QED
    BY <2>1, <2>2, <2>3 DEF Busy
<1>7. CASE CasStatus
  <2>1. ~Pop /\ rpc' # "cas" /\ rpc = "cas"
    BY <1>7 DEF CasStatus, Pop, AfterElement
  <2>2. CASE rw # rword
    BY <1>7, <2>1, <2>2 DEF CasStatus, Busy
  <2>3. CASE rw = rword /\ Tell(rword, rremain, rword.done + Size(el))
    <3>1. rw'.done = 0
      BY <1>0, <1>7, <2>3 DEF CasStatus, Word
    <3>2. QED
      BY <2>1, <3>1
  <2>4. CASE rw = rword /\ ~Tell(rword, rremain, rword.done + Size(el))
    <3>1. el.hi < Received
      BY <1>b, <2>1, <2>4 DEF Tell
    <3>2. QED
      BY <1>c, <2>1, <3>1 DEF Busy
  <2>5. QED
    BY <2>2, <2>3, <2>4
<1>8. CASE (\E n \in 1 .. MaxRead : Read(n)) \/ Continue \/ AckStatus
  <2>1. /\ rpc \notin {"popped", "copy", "status", "cas"} /\ rpc' # "cas"
        /\ UNCHANGED <<rw, got>>
    BY <1>8 DEF Read, Continue, AckStatus, AfterElement
  <2>2. ~Pop
    BY <1>8 DEF Pop, Read, Continue, AckStatus, AfterElement
  <2>3. QED
    BY <1>b, <1>c, <2>1, <2>2 DEF Busy
<1>9. CASE PopEof
  BY <1>9 DEF PopEof
<1>10. QED
  BY <1>1, <1>2, <1>3, <1>4, <1>5, <1>6, <1>7, <1>8, <1>9 DEF Next, Reader

\* A writer that waits is woken by the SetSize that makes room.
LEMMA StepWaiting ==
    IInv /\ QuietInv /\ [Next]_vars =>
        /\ sw'.wait => sw'.done >= sw'.max
        /\ cpc' # "closed" /\ wpc' = "wait" => sw'.wait \/ spc' = "allow"
<1> SUFFICES ASSUME IInv, QuietInv, [Next]_vars
             PROVE  /\ sw'.wait => sw'.done >= sw'.max
                    /\ cpc' # "closed" /\ wpc' = "wait" => sw'.wait \/ spc' = "allow"
  OBVIOUS
<1> USE DEF wvars, svars, cvars, nvars, qvars, vvars, rvars
<1>0. WriterInv /\ Numbers /\ sw \in Word
  BY TypesGiveNumbers DEF IInv, TypeOK
<1>a. /\ sw.wait => sw.done >= sw.max
      /\ cpc # "closed" /\ wpc = "wait" => sw.wait \/ spc = "allow"
  BY DEF QuietInv
<1>b. /\ sw.max \in Nat /\ sw.done \in Nat /\ taken \in Nat /\ pushed \in Nat
      /\ pushed <= taken /\ ack.lo \in Nat /\ ack.hi \in Nat /\ ack.max \in Nat
  BY <1>0, WindowAssumption DEF Numbers, WriterInv
<1> DEFINE G == /\ sw'.wait => sw'.done >= sw'.max
                /\ cpc' # "closed" /\ wpc' = "wait" => sw'.wait \/ spc' = "allow"
<1>1. CASE TakeSegment
  <2>1. CASE Remaining(sw.max, sw.done) = 0
    <3>1. sw' = [sw EXCEPT !.wait = TRUE]
      BY <1>1, <2>1 DEF TakeSegment
    <3>2. sw'.wait /\ sw'.done = sw.done /\ sw'.max = sw.max
      BY <1>0, <3>1 DEF Word
    <3>3. sw.done >= sw.max
      BY <1>b, <2>1 DEF Remaining
    <3>4. QED
      BY <3>2, <3>3
  <2>2. CASE Remaining(sw.max, sw.done) # 0
    BY <1>1, <1>a, <2>2 DEF TakeSegment
  <2>3. QED
    BY <2>1, <2>2
<1>2. CASE Sent
  <2>1. /\ sw'.wait = sw.wait /\ sw'.max = sw.max /\ sw'.done = sw.done + (taken - pushed)
        /\ wpc' = "push"
    BY <1>0, <1>2 DEF Sent, Word
  <2>2. QED
    BY <1>a, <1>b, <2>1
<1>3. CASE SetSize
  <2>1. CASE SetSizeIgnored
    BY <1>3, <1>a, <2>1 DEF SetSize
  <2>2. CASE ~SetSizeIgnored
    <3>1. /\ sw'.max = ack.max /\ sw'.done = sw.done - Size(ack) /\ sw'.wait = StillFull
          /\ spc' = (IF Notify THEN "allow" ELSE "idle") /\ UNCHANGED <<wpc, cpc>> /\ spc = "set"
      BY <1>3, <2>2 DEF SetSize
    <3>2. StillFull => sw'.done >= sw'.max
      BY <1>b, <3>1 DEF StillFull, Remaining, Size
    <3>3. cpc # "closed" /\ wpc = "wait" => StillFull \/ Notify
      BY <1>a, <3>1 DEF Notify
    <3>4. QED
      BY <3>1, <3>2, <3>3
  <2>3. QED
    BY <2>1, <2>2
<1>4. CASE Allow \/ TakeAck \/ SetSizeOnClosed
  BY <1>4, <1>0, <1>a DEF Allow, TakeAck, SetSizeOnClosed, WriterInv
<1>5. CASE AllowClosed
  BY <1>5, <1>0, <1>a DEF AllowClosed, WriterInv
<1>6. CASE (\E n \in 1 .. MaxWrite : Write(n)) \/ Enter \/ PushSegment \/ WaitClosed
  BY <1>6, <1>a DEF Write, Enter, PushSegment, WaitClosed
<1>7. CASE CloseDelete \/ Closer \/ UNCHANGED vars
  BY <1>7, <1>a DEF CloseDelete, Closer, CloseSend, CloseWindow, vars
<1>8. CASE Receiver
  BY <1>8, <1>a
  DEF Receiver, TakePacket, CalcSize, LoadWindow, CasWindow, PushLength, PushElement, AckWrite
<1>9. CASE Reader
  BY <1>9, <1>a
  DEF Reader, Read, Continue, Pop, PopLength, PopEof, Copy, LoadStatus, CasStatus, AckStatus
<1>10. QED
  BY <1>1, <1>2, <1>3, <1>4, <1>5, <1>6, <1>7, <1>8, <1>9 DEF Next, Writer, Sender

LEMMA QuietInvariant == Spec => []QuietInv
<1>1. Init => QuietInv
  BY DEF Init, QuietInv, FirstWord
<1>2. IInv /\ QuietInv /\ [Next]_vars => QuietInv'
  BY StepBusy, StepWaiting DEF QuietInv
<1>3. QED
  BY Invariant, <1>1, <1>2, PTL DEF Spec

\* When all that was sent has been read and no message is on its way, the send window
\* is empty and no writer waits in it: no order of Write, Read and SetSize loses credit
\* or a wake-up.
THEOREM QuietWindowIsFree == Spec => []QuietMeansFree
<1>1. IInv /\ QuietInv => QuietMeansFree
  <2> SUFFICES ASSUME IInv, QuietInv, Open, Quiet
               PROVE  sw.done = 0 /\ rw.done = 0 /\ qlen = 0 /\ wpc = "idle"
    BY DEF QuietMeansFree
  <2>0. /\ Numbers /\ WriterInv /\ AckInv /\ ReaderInv /\ StreamInv /\ CreditInv
    BY TypesGiveNumbers DEF IInv
  <2>1. /\ data = <<>> /\ acks = <<>> /\ q = <<>>
        /\ spc = "idle" /\ vpc = "idle" /\ rpc \in {"idle", "next"} /\ got = el.hi
        /\ wpc \in {"idle", "wait"} /\ cpc = "open" /\ ~eof
    BY DEF Quiet, Open
  <2>2. el.hi \in Nat /\ pushed \in Nat /\ sw.max \in Nat /\ sw.done \in Nat /\ rw.done \in Nat
    BY <2>0 DEF Numbers
  <2>3. ~InHand /\ QueueEnd = el.hi /\ Received = el.hi
    BY <2>1 DEF InHand, QueueEnd, Received
  <2>4. pushed = el.hi /\ qlen = 0
    <3>1. Chained(data, Received, pushed)
      BY <2>0, <2>1 DEF StreamInv
    <3>2. pushed = Received
      BY <3>1, <2>1 DEF Chained
    <3>3. qlen = (QueueEnd - el.hi)
                   + (IF vpc \in {"element", "element!"} THEN Size(seg) ELSE 0)
                   + (IF rpc = "popped" THEN Size(el) ELSE 0)
      BY <2>0, <2>1 DEF StreamInv
    <3>4. qlen = (QueueEnd - el.hi) + 0 + 0
      BY <3>3, <2>1
    <3>5. QED
      BY <3>2, <3>4, <2>2, <2>3
  <2>5. rw.done = 0
    <3>1. ~Busy
      BY <2>1, <2>2, <2>3 DEF Busy
    <3>2. QED
      BY <2>1, <2>2, <3>1 DEF QuietInv
  <2>6. sw.done = 0
    <3>1. Counted = el.hi /\ acct = el.hi
      BY <2>0, <2>1, <2>2, <2>4 DEF Counted, WriterInv, ReaderInv, Accounted
    <3>2. vread = 0 /\ rread = 0 /\ Held = 0
      BY <2>0, <2>1 DEF AckInv, Held
    <3>3. ackPushed = ackTaken /\ ackPushed \in Nat
      BY <2>0, <2>1 DEF AckInv, Chained, Numbers
    <3>4. Outstanding = 0
      BY ONLY <2>2, <2>5, <3>1, <3>2, <3>3 DEF Outstanding
    <3>5. QED
      BY <2>0, <3>4 DEF CreditInv
  <2>7. wpc # "wait"
    <3>1. sw.max > 0
      BY <2>0, WindowAssumption, WordFields DEF IInv, TypeOK, Word
    <3>2. QED
      BY <2>1, <2>2, <2>6, <3>1 DEF QuietInv
  <2>8. QED
    BY <2>1, <2>4, <2>5, <2>6, <2>7
<1>2. QED
  BY Invariant, QuietInvariant, <1>1, PTL

=============================================================================
