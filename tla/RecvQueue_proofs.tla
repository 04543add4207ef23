-------------------------- MODULE RecvQueue_proofs ---------------------------
(***************************************************************************)
(* For any number of segments: the word lengthWait, the channels and the   *)
(* outcome of a Read are sound at any moment, and the receive queue takes  *)
(* no step that RecvFifo does not allow.                                   *)
(*                                                                         *)
(* Stop puts two tokens into stopOp, once.  They are enough because the    *)
(* wait of the reader is in one place at a time, the word, the pusher or   *)
(* allowPop: what allowPop takes of them, it takes once for a reader that  *)
(* waits, and the other is left.                                           *)
(***************************************************************************)
EXTENDS RecvQueue, TLAPS

\* Where a closer may be.
Stage == {"none", "check", "set", "token1", "token2", "stop", "release", "released", "done"}

\* The segments that are counted and not in the chain: the one that Push is
\* about to store, and those that Pop and release have taken out.
Stored == One(ppc = "element")
Held ==
    One(rpc = "taken") + One(cpc["reader"] = "released") + One(cpc["closer"] = "released")

\* The word counts them, each of them was pushed, and a pusher past the first
\* half of Push has room for its segment.
CountInv ==
    /\ length = Len(chain) + Stored + Held
    /\ Len(chain) + Held <= pushed
    /\ pushed + Stored <= MaxPush

\* Who closes the window has a reason: the reader its error, the other Close.
CloseInv ==
    /\ outcome = "none" <=> cpc["reader"] = "none"
    /\ rpc \in {"start", "wait", "spin", "taken"} => outcome = "none"
    /\ ~closing => cpc["closer"] = "none"

\* The wait of a reader is in the word, with the pusher or in allowPop, and in
\* one of them; it outlives only a Pop that timed out or was stopped.
WaitKnown == wait \/ popWaits \/ ppc = "allow"

WaitInv ==
    /\ popWaits => ppc = "element"
    /\ WaitKnown => rpc = "wait" \/ outcome # "none"
    /\ ~(wait /\ popWaits) /\ ~(wait /\ ppc = "allow")
    /\ wait /\ rpc = "wait" => chain = <<>> /\ ppc # "element"

\* Of the two tokens a stop leaves, allowPop has taken one at most while the
\* reader has no error, and then the reader is asleep.
TokenInv ==
    /\ ~stopped => stopOp = 0
    /\ stopped /\ outcome = "none" =>
          stopOp = 2 \/ (stopOp = 1 /\ rpc = "wait" /\ ~WaitKnown)

\* While nobody throws segments away the chain is what was pushed and not popped.
ChainInv ==
    ~closing /\ outcome = "none" =>
        /\ popped + Len(chain) = pushed
        /\ \A i \in 1 .. Len(chain) : chain[i] = popped + i

\* A stop without a close at this end came from the other end, and a reader
\* that sleeps through it has all that was sent before.
EndInv ==
    /\ end <= pushed
    /\ ~closing /\ outcome = "none" /\ stopped => end # NoEnd
    /\ ~closing /\ outcome = "none" /\ end # NoEnd /\ rpc = "wait" => popped >= end
    /\ ~closing /\ outcome = "eof" => end # NoEnd /\ popped >= end

IInv ==
    /\ TypeOK /\ CountInv /\ CloseInv
    /\ SleeperIsKnown /\ WaitInv /\ TokenInv /\ ChainInv /\ EndInv

-----------------------------------------------------------------------------
(* Sequences.                                                              *)

\* What the chain is when a segment is stored in it or taken out.
LEMMA SeqFacts ==
    ASSUME NEW s \in Seq(1 .. MaxPush)
    PROVE  /\ Len(s) \in Nat
           /\ s = <<>> <=> Len(s) = 0
           /\ \A i \in 1 .. Len(s) : s[i] \in 1 .. MaxPush
           /\ \A e \in 1 .. MaxPush :
                 /\ Append(s, e) \in Seq(1 .. MaxPush)
                 /\ Len(Append(s, e)) = Len(s) + 1
                 /\ Append(s, e)[Len(s) + 1] = e
                 /\ \A i \in 1 .. Len(s) : Append(s, e)[i] = s[i]
           /\ s # <<>> =>
                 /\ Head(s) = s[1] /\ Head(s) \in 1 .. MaxPush
                 /\ Tail(s) \in Seq(1 .. MaxPush)
                 /\ Len(Tail(s)) = Len(s) - 1
                 /\ \A i \in 1 .. Len(s) - 1 : Tail(s)[i] = s[i + 1]
BY MaxPushAssumption

LEMMA ChainLength == TypeOK => chain \in Seq(1 .. MaxPush) /\ Len(chain) \in Nat
<1>1. TypeOK => chain \in Seq(1 .. MaxPush)
  BY DEF TypeOK
<1>2. QED
  BY <1>1, SeqFacts

LEMMA NumberTypes ==
    TypeOK => length \in Int /\ pushed \in Nat /\ popped \in Nat /\ end \in Int
<1>1. TypeOK => /\ length \in 0 .. MaxPush /\ pushed \in 0 .. MaxPush
                /\ popped \in 0 .. MaxPush /\ end \in -1 .. MaxPush
  BY DEF TypeOK
<1>2. QED
  BY <1>1, MaxPushAssumption

-----------------------------------------------------------------------------
(* Counting.                                                               *)

LEMMA CountTypes == Stored \in {0, 1} /\ Held \in 0 .. 3
BY DEF Stored, Held, One

\* The sum of CountInv is the one LengthCounts states.
LEMMA CountsLength == TypeOK /\ CountInv => LengthCounts
<1> DEFINE taken == One(rpc = "taken")
           reader == One(cpc["reader"] = "released")
           closer == One(cpc["closer"] = "released")
<1> SUFFICES ASSUME TypeOK, CountInv PROVE LengthCounts
  OBVIOUS
<1>1. taken \in Int /\ reader \in Int /\ closer \in Int /\ Stored \in Int
  BY DEF Stored, One
<1>2. LengthCounts <=> length = Len(chain) + Stored + taken + reader + closer
  BY DEF LengthCounts, Stored
<1>3. Held = taken + reader + closer
  BY DEF Held
<1>4. Len(chain) \in Int /\ length = Len(chain) + Stored + Held
  BY ChainLength DEF CountInv
<1> HIDE DEF taken, reader, closer
<1>5. Len(chain) + Stored + (taken + reader + closer)
        = Len(chain) + Stored + taken + reader + closer
  BY <1>1, <1>4
<1>6. QED
  BY <1>2, <1>3, <1>4, <1>5

\* Whoever takes an element out holds it until he subtracts its length.
LEMMA ReleaserHolds ==
    ASSUME NEW c \in Closers, NEW from, NEW to, TypeOK, UNCHANGED rpc, At(c, from, to)
    PROVE  /\ from = "release" /\ to = "released" => Held' = Held + 1
           /\ from = "released" /\ to = "release" => Held' = Held - 1
           /\ from # "released" /\ to # "released" => Held' = Held
<1> DEFINE taken == One(rpc = "taken")
           reader == One(cpc["reader"] = "released")
           closer == One(cpc["closer"] = "released")
<1>1. taken \in Int /\ reader \in Int /\ closer \in Int /\ taken' = taken
  BY DEF One
<1>2. Held = taken + reader + closer /\ Held' = taken' + reader' + closer'
  BY DEF Held
<1>3. cpc' = [cpc EXCEPT ![c] = to] /\ cpc[c] = from /\ cpc \in [Closers -> Stage]
  BY DEF At, TypeOK, Stage
<1>4. CASE c = "reader"
  <2>1. cpc'["reader"] = to /\ cpc["reader"] = from /\ cpc'["closer"] = cpc["closer"]
    BY <1>3, <1>4 DEF Closers
  <2>2. closer' = closer /\ reader = One(from = "released") /\ reader' = One(to = "released")
    BY <2>1
  <2> HIDE DEF taken, reader, closer
  <2>3. QED
    BY <1>1, <1>2, <2>2 DEF One
<1>5. CASE c = "closer"
  <2>1. cpc'["closer"] = to /\ cpc["closer"] = from /\ cpc'["reader"] = cpc["reader"]
    BY <1>3, <1>5 DEF Closers
  <2>2. reader' = reader /\ closer = One(from = "released") /\ closer' = One(to = "released")
    BY <2>1
  <2> HIDE DEF taken, reader, closer
  <2>3. QED
    BY <1>1, <1>2, <2>2 DEF One
<1>6. QED
  BY <1>4, <1>5 DEF Closers

\* Every step that stores or takes a segment keeps the count.
LEMMA CountStep == IInv /\ [Next]_vars => CountInv'
<1> SUFFICES ASSUME IInv, [Next]_vars PROVE CountInv'
  OBVIOUS
<1> USE DEF wordvars, pvars, rvars, cvars, svars
<1>a. TypeOK /\ CountInv /\ CloseInv
  BY DEF IInv
<1>b. Len(chain) \in Nat /\ length \in Int /\ pushed \in Nat
  BY <1>a, ChainLength, NumberTypes
<1>c. ASSUME UNCHANGED <<length, chain, pushed>>, Stored' = Stored, Held' = Held
      PROVE  CountInv'
  BY <1>a, <1>c DEF CountInv
<1>d. ASSUME chain # <<>> PROVE Len(Tail(chain)) = Len(chain) - 1
  BY <1>a, <1>d, ChainLength, SeqFacts
<1>1. CASE PushLength
  <2>1. /\ length' = length + 1 /\ UNCHANGED <<chain, pushed>> /\ pushed < MaxPush
        /\ Stored = 0 /\ Stored' = 1 /\ Held' = Held
    BY <1>1 DEF PushLength, Stored, Held, One
  <2>2. QED
    BY <1>a, <1>b, <2>1, CountTypes, MaxPushAssumption DEF CountInv
<1>2. CASE PushElement
  <2>1. /\ UNCHANGED length /\ pushed' = pushed + 1 /\ chain' = Append(chain, pushed + 1)
        /\ Stored = 1 /\ Stored' = 0 /\ Held' = Held
    BY <1>2 DEF PushElement, Enqueued, Stored, Held, One
  <2>2. pushed + 1 \in 1 .. MaxPush
    BY <1>a, <1>b, <2>1, MaxPushAssumption DEF CountInv
  <2>3. Len(chain') = Len(chain) + 1
    BY <1>a, <2>1, <2>2, ChainLength, SeqFacts
  <2>4. QED
    BY <1>a, <1>b, <2>1, <2>3, CountTypes, MaxPushAssumption DEF CountInv
<1>3. CASE PopTaken
  <2>1. /\ UNCHANGED <<length, pushed>> /\ Len(chain') = Len(chain) - 1
        /\ Stored' = Stored /\ Held' = Held + 1
    BY <1>3, <1>d DEF PopTaken, Stored, Held, One
  <2>2. QED
    BY <1>a, <1>b, <2>1, CountTypes DEF CountInv
<1>4. CASE PopLength
  <2>1. /\ length' = length - 1 /\ UNCHANGED <<chain, pushed>>
        /\ Stored' = Stored /\ Held' = Held - 1
    BY <1>4 DEF PopLength, LengthTaken, Stored, Held, One
  <2>2. QED
    BY <1>a, <1>b, <2>1, CountTypes DEF CountInv
<1>5. ASSUME NEW c \in Closers, ReleaseElement(c) PROVE CountInv'
  <2>1. /\ UNCHANGED <<length, pushed>> /\ Len(chain') = Len(chain) - 1
        /\ Stored' = Stored /\ Held' = Held + 1
    BY <1>5, <1>a, <1>d, ReleaserHolds DEF ReleaseElement, Stored
  <2>2. QED
    BY <1>a, <1>b, <2>1, CountTypes DEF CountInv
<1>6. ASSUME NEW c \in Closers, ReleaseLength(c) PROVE CountInv'
  <2>1. /\ length' = length - 1 /\ UNCHANGED <<chain, pushed>>
        /\ Stored' = Stored /\ Held' = Held - 1
    BY <1>6, <1>a, ReleaserHolds DEF ReleaseLength, LengthTaken, Stored
  <2>2. QED
    BY <1>a, <1>b, <2>1, CountTypes DEF CountInv
<1>7. ASSUME NEW c \in Closers,
             CheckCloseOp(c) \/ SetCloseOp(c) \/ PutToken(c) \/ StopQueue(c) \/ Released(c)
      PROVE  CountInv'
  <2>1. UNCHANGED <<length, chain, pushed, rpc, ppc>>
    BY <1>7 DEF CheckCloseOp, SetCloseOp, PutToken, StopQueue, Released
  <2>2. Held' = Held
    <3>1. CASE CheckCloseOp(c)
      BY <3>1, <1>a, <2>1, ReleaserHolds DEF CheckCloseOp
    <3>2. CASE SetCloseOp(c)
      BY <3>2, <1>a, <2>1, ReleaserHolds DEF SetCloseOp
    <3>3. CASE PutToken(c)
      BY <3>3, <1>a, <2>1, ReleaserHolds DEF PutToken
    <3>4. CASE StopQueue(c)
      BY <3>4, <1>a, <2>1, ReleaserHolds DEF StopQueue
    <3>5. CASE Released(c)
      BY <3>5, <1>a, <2>1, ReleaserHolds DEF Released
    <3>6. QED
      BY <1>7, <3>1, <3>2, <3>3, <3>4, <3>5
  <2>3. QED
    BY <1>c, <2>1, <2>2 DEF Stored
<1>8. CASE PeerClose \/ AllowPop \/ AllowStopped \/ Read \/ PopStart \/ ReadReturnError \/ Close
  <2>1. UNCHANGED <<length, chain, pushed>> /\ Stored' = Stored
    BY <1>8 DEF PeerClose, AllowPop, AllowStopped, Read, PopStart, ReadReturnError, Close, Stored, One
  <2>2. Held' = Held
    BY <1>8, <1>a DEF PeerClose, AllowPop, AllowStopped, Read, PopStart, ReadReturnError, Close,
                      Held, One, TypeOK, CloseInv, Closers
  <2>3. QED
    BY <1>c, <2>1, <2>2
<1>9. CASE PopTimeout \/ PopStopped
  <2>1. UNCHANGED <<length, chain, pushed>> /\ Stored' = Stored
    BY <1>9 DEF PopTimeout, PopStopped, PopError, Stored
  <2>2. Held' = Held
    BY <1>9, <1>a DEF PopTimeout, PopStopped, PopError, Held, One, TypeOK, CloseInv, Closers
  <2>3. QED
    BY <1>c, <2>1, <2>2
<1>10. CASE UNCHANGED vars
  BY <1>10, <1>c DEF vars, Stored, Held
<1>11. QED
  BY <1>1, <1>2, <1>3, <1>4, <1>5, <1>6, <1>7, <1>8, <1>9, <1>10
     DEF Next, Pusher, Reader, CloseWindow

-----------------------------------------------------------------------------
(* Types.                                                                  *)

\* Stop adds its tokens once, to an empty channel.
LEMMA StopAddsOnce == TypeOK /\ TokenInv /\ Stop => stopped' = TRUE /\ stopOp' \in 0 .. OpCap
BY DEF TypeOK, TokenInv, Stop, StopTokens, OpCap

\* The count bounds the word and what is pushed.
LEMMA CountBounds ==
    ASSUME CountInv', Len(chain') \in Nat, pushed' \in Nat
    PROVE  length' \in 0 .. MaxPush /\ pushed' \in 0 .. MaxPush
<1>1. Stored' \in {0, 1} /\ Held' \in 0 .. 3
  BY DEF Stored, Held, One
<1>2. /\ length' = Len(chain') + Stored' + Held'
      /\ Len(chain') + Held' <= pushed' /\ pushed' + Stored' <= MaxPush
  BY DEF CountInv
<1>3. \A n, p \in Nat, s \in {0, 1}, h \in 0 .. 3 :
         n + h <= p /\ p + s <= MaxPush => n + s + h \in 0 .. MaxPush /\ p \in 0 .. MaxPush
  BY MaxPushAssumption
<1>4. QED
  BY <1>1, <1>2, <1>3

LEMMA TypeStep == IInv /\ [Next]_vars => TypeOK'
<1> SUFFICES ASSUME IInv, [Next]_vars PROVE TypeOK'
  OBVIOUS
<1> USE MaxPushAssumption DEF wordvars, pvars, rvars, cvars, svars, At, Closers, OpCap
<1>a. TypeOK /\ CountInv /\ TokenInv /\ CountInv'
  BY CountStep DEF IInv
<1>b. chain \in Seq(1 .. MaxPush) /\ Len(chain) \in Nat /\ pushed \in Nat
  BY <1>a, ChainLength, NumberTypes
<1>c. chain # <<>> => Head(chain) \in 1 .. MaxPush /\ Tail(chain) \in Seq(1 .. MaxPush)
  BY <1>b, SeqFacts
<1>d. UNCHANGED <<chain, pushed>> => length' \in 0 .. MaxPush
  BY <1>a, <1>b, CountBounds
<1>1. CASE PushLength
  <2>1. length' \in 0 .. MaxPush
    BY <1>1, <1>d DEF PushLength
  <2>2. QED
    BY <1>1, <1>a, <2>1 DEF PushLength, WaitPushed, TypeOK
<1>2. CASE PeerClose
  <2>1. stopped' = TRUE /\ stopOp' \in 0 .. OpCap
    BY <1>2, <1>a, StopAddsOnce DEF PeerClose
  <2>2. QED
    BY <1>2, <1>a, <2>1 DEF PeerClose, TypeOK
<1>3. CASE PushElement
  <2>1. pushed + 1 \in 1 .. MaxPush
    BY <1>3, <1>a, <1>b DEF PushElement, CountInv, Stored, One
  <2>2. chain' \in Seq(1 .. MaxPush) /\ pushed' \in 0 .. MaxPush
    BY <1>3, <1>b, <2>1, SeqFacts DEF PushElement, Enqueued
  <2>3. QED
    BY <1>3, <1>a, <2>2 DEF PushElement, TypeOK
<1>4. CASE AllowPop \/ Read \/ PopStart \/ ReadReturnError \/ Close
  <2>1. CASE AllowPop \/ Read \/ ReadReturnError
    BY <1>a, <2>1 DEF AllowPop, Read, ReadReturnError, TypeOK
  <2>2. CASE PopStart
    BY <1>a, <2>2 DEF PopStart, TypeOK
  <2>3. CASE Close
    BY <1>a, <2>3 DEF Close, TypeOK
  <2>4. QED
    BY <1>4, <2>1, <2>2, <2>3
<1>5. CASE AllowStopped
  BY <1>5, <1>a DEF AllowStopped, TypeOK
<1>6. CASE PopTaken
  BY <1>6, <1>a, <1>c DEF PopTaken, TypeOK
<1>7. CASE PopLength
  <2>1. length' \in 0 .. MaxPush
    BY <1>7, <1>d DEF PopLength
  <2>2. QED
    BY <1>7, <1>a, <2>1 DEF PopLength, TypeOK
<1>8. CASE PopStopped \/ PopTimeout
  BY <1>8, <1>a DEF PopStopped, PopTimeout, PopError, TypeOK
<1>9. ASSUME NEW c \in Closers, CheckCloseOp(c) \/ SetCloseOp(c) \/ PutToken(c) \/ Released(c)
      PROVE  TypeOK'
  <2>1. CASE CheckCloseOp(c)
    BY <1>a, <2>1 DEF CheckCloseOp, TypeOK
  <2>2. CASE SetCloseOp(c)
    BY <1>a, <2>2 DEF SetCloseOp, TypeOK
  <2>3. CASE PutToken(c)
    BY <1>a, <2>3 DEF PutToken, TypeOK
  <2>4. CASE Released(c)
    BY <1>a, <2>4 DEF Released, TypeOK
  <2>5. QED
    BY <1>9, <2>1, <2>2, <2>3, <2>4
<1>10. ASSUME NEW c \in Closers, StopQueue(c) PROVE TypeOK'
  <2>1. stopped' = TRUE /\ stopOp' \in 0 .. OpCap
    BY <1>10, <1>a, StopAddsOnce DEF StopQueue
  <2>2. QED
    BY <1>10, <1>a, <2>1 DEF StopQueue, TypeOK
<1>11. ASSUME NEW c \in Closers, ReleaseElement(c) PROVE TypeOK'
  BY <1>11, <1>a, <1>c DEF ReleaseElement, TypeOK
<1>12. ASSUME NEW c \in Closers, ReleaseLength(c) PROVE TypeOK'
  <2>1. length' \in 0 .. MaxPush
    BY <1>12, <1>d DEF ReleaseLength
  <2>2. QED
    BY <1>12, <1>a, <2>1 DEF ReleaseLength, TypeOK
<1>13. CASE UNCHANGED vars
  BY <1>13, <1>a DEF vars, TypeOK
<1>14. QED
  BY <1>1, <1>2, <1>3, <1>4, <1>5, <1>6, <1>7, <1>8, <1>9, <1>10, <1>11, <1>12, <1>13
     DEF Next, Pusher, Reader, CloseWindow

-----------------------------------------------------------------------------
(* Waiting.                                                                *)

\* A word of zero with the count right says that nothing is stored or on its way.
LEMMA EmptyWord ==
    ASSUME TypeOK, CountInv, PopIsEmpty(length)
    PROVE  chain = <<>> /\ ppc # "element"
<1>1. Len(chain) \in Nat /\ Len(chain) + Stored + Held = 0
  BY ChainLength DEF CountInv, PopIsEmpty
<1>2. Len(chain) = 0 /\ Stored = 0
  BY <1>1, CountTypes
<1>3. QED
  BY <1>2, ChainLength, SeqFacts DEF Stored, One

\* The steps of a closer that neither stop the queue nor take a segment out.
CloserIsQuiet(c) == CheckCloseOp(c) \/ SetCloseOp(c) \/ PutToken(c) \/ ReleaseLength(c) \/ Released(c)

\* The wait moves from the word to the pusher to allowPop, and is never doubled.
LEMMA WaitStep == IInv /\ [Next]_vars => CloseInv' /\ WaitInv'
<1> SUFFICES ASSUME IInv, [Next]_vars PROVE CloseInv' /\ WaitInv'
  OBVIOUS
<1> USE DEF wordvars, pvars, rvars, cvars, svars, At, Closers, CloseInv, WaitInv, WaitKnown
<1>a. TypeOK /\ CountInv /\ CloseInv /\ WaitInv
  BY DEF IInv
<1>1. CASE PushLength
  BY <1>1, <1>a DEF PushLength, WaitPushed, TypeOK
<1>2. CASE PeerClose
  BY <1>2, <1>a DEF PeerClose, TypeOK
<1>3. CASE PushElement
  BY <1>3, <1>a DEF PushElement, TypeOK
<1>4. CASE AllowPop \/ AllowStopped
  BY <1>4, <1>a DEF AllowPop, AllowStopped, TypeOK
<1>5. CASE Read \/ PopTaken \/ PopLength \/ ReadReturnError \/ Close
  BY <1>5, <1>a DEF Read, PopTaken, PopLength, ReadReturnError, Close, TypeOK
<1>6. CASE PopStart
  BY <1>6, <1>a, EmptyWord DEF PopStart, TypeOK
<1>7. CASE PopStopped \/ PopTimeout
  BY <1>7, <1>a DEF PopStopped, PopTimeout, PopError, TypeOK
<1>8. ASSUME NEW c \in Closers, CloserIsQuiet(c) \/ StopQueue(c) \/ ReleaseElement(c)
      PROVE  CloseInv' /\ WaitInv'
  BY <1>8, <1>a DEF CloserIsQuiet, CheckCloseOp, SetCloseOp, PutToken, StopQueue, ReleaseElement,
                    ReleaseLength, Released, TypeOK
<1>9. CASE UNCHANGED vars
  BY <1>9, <1>a DEF vars
<1>10. QED
  BY <1>1, <1>2, <1>3, <1>4, <1>5, <1>6, <1>7, <1>8, <1>9
     DEF Next, Pusher, Reader, CloseWindow, CloserIsQuiet

\* A stop leaves a token for the reader even when allowPop takes one first.
LEMMA TokenStep == IInv /\ [Next]_vars => TokenInv' /\ SleeperIsKnown'
<1> SUFFICES ASSUME IInv, [Next]_vars PROVE TokenInv' /\ SleeperIsKnown'
  OBVIOUS
<1> USE DEF wordvars, pvars, rvars, cvars, svars, At, Closers, TokenInv, SleeperIsKnown, WaitKnown
<1>a. TypeOK /\ CloseInv /\ WaitInv /\ TokenInv /\ SleeperIsKnown
  BY DEF IInv
<1>1. CASE PushLength
  BY <1>1, <1>a DEF PushLength, WaitPushed, WaitInv, TypeOK
<1>2. CASE PeerClose
  BY <1>2, <1>a DEF PeerClose, Stop, StopTokens, TypeOK
<1>3. CASE PushElement
  BY <1>3, <1>a DEF PushElement, WaitInv, TypeOK
<1>4. CASE AllowPop
  BY <1>4, <1>a DEF AllowPop, WaitInv, TypeOK
<1>5. CASE AllowStopped
  BY <1>5, <1>a DEF AllowStopped, CloseInv, WaitInv, TypeOK
<1>6. CASE Read \/ PopStart \/ PopTaken \/ PopLength \/ ReadReturnError \/ Close
  BY <1>6, <1>a DEF Read, PopStart, PopTaken, PopLength, ReadReturnError, Close, CloseInv, TypeOK
<1>7. CASE PopStopped \/ PopTimeout
  BY <1>7, <1>a DEF PopStopped, PopTimeout, PopError, CloseInv, TypeOK
<1>8. ASSUME NEW c \in Closers, CloserIsQuiet(c) \/ ReleaseElement(c)
      PROVE  TokenInv' /\ SleeperIsKnown'
  BY <1>8, <1>a DEF CloserIsQuiet, CheckCloseOp, SetCloseOp, PutToken, ReleaseElement,
                    ReleaseLength, Released
<1>9. ASSUME NEW c \in Closers, StopQueue(c) PROVE TokenInv' /\ SleeperIsKnown'
  BY <1>9, <1>a DEF StopQueue, Stop, StopTokens, TypeOK
<1>10. CASE UNCHANGED vars
  BY <1>10, <1>a DEF vars
<1>11. QED
  BY <1>1, <1>2, <1>3, <1>4, <1>5, <1>6, <1>7, <1>8, <1>9, <1>10
     DEF Next, Pusher, Reader, CloseWindow, CloserIsQuiet

-----------------------------------------------------------------------------
(* Order and end.                                                          *)

\* Push stores behind the last segment, Pop takes the one after the last popped.
LEMMA ChainStep == IInv /\ [Next]_vars => ChainInv'
<1> SUFFICES ASSUME IInv, [Next]_vars PROVE ChainInv'
  OBVIOUS
<1> USE DEF wordvars, pvars, rvars, cvars, svars, At, Closers, ChainInv
<1>a. TypeOK /\ CountInv /\ CloseInv /\ ChainInv
  BY DEF IInv
<1>b. chain \in Seq(1 .. MaxPush) /\ Len(chain) \in Nat /\ pushed \in Nat /\ popped \in Nat
  BY <1>a, ChainLength, NumberTypes
<1>1. CASE PushElement
  <2>1. pushed + 1 \in 1 .. MaxPush
    BY <1>1, <1>a, <1>b, MaxPushAssumption DEF PushElement, CountInv, Stored, One
  <2>2. /\ Len(chain') = Len(chain) + 1
        /\ chain'[Len(chain) + 1] = pushed + 1
        /\ \A i \in 1 .. Len(chain) : chain'[i] = chain[i]
    BY <1>1, <1>b, <2>1, SeqFacts DEF PushElement, Enqueued
  <2>3. QED
    BY <1>1, <1>a, <1>b, <2>2 DEF PushElement
<1>2. CASE PopTaken
  <2>1. /\ Head(chain) = chain[1] /\ Len(Tail(chain)) = Len(chain) - 1 /\ Len(chain) > 0
        /\ \A i \in 1 .. Len(chain) - 1 : Tail(chain)[i] = chain[i + 1]
    BY <1>2, <1>b, SeqFacts DEF PopTaken
  <2>2. ASSUME ~closing, outcome = "none"
        PROVE  /\ popped' = popped + 1 /\ pushed' = pushed /\ Len(chain') = Len(chain) - 1
               /\ \A i \in 1 .. Len(chain') : chain'[i] = popped' + i
    BY <1>2, <1>a, <1>b, <2>1, <2>2 DEF PopTaken
  <2>3. QED
    BY <1>2, <1>a, <1>b, <2>2 DEF PopTaken
<1>3. CASE PushLength \/ PeerClose \/ AllowPop \/ AllowStopped
  BY <1>3, <1>a DEF PushLength, PeerClose, AllowPop, AllowStopped
<1>4. CASE Read \/ PopStart \/ PopLength \/ ReadReturnError \/ Close
  BY <1>4, <1>a DEF Read, PopStart, PopLength, ReadReturnError, Close
<1>5. CASE PopStopped \/ PopTimeout
  BY <1>5, <1>a DEF PopStopped, PopTimeout, PopError
<1>6. ASSUME NEW c \in Closers, CloserIsQuiet(c) \/ StopQueue(c) PROVE ChainInv'
  BY <1>6, <1>a DEF CloserIsQuiet, CheckCloseOp, SetCloseOp, PutToken, StopQueue,
                    ReleaseLength, Released
<1>7. ASSUME NEW c \in Closers, ReleaseElement(c) PROVE ChainInv'
  BY <1>7, <1>a DEF ReleaseElement, CloseInv
<1>8. CASE UNCHANGED vars
  BY <1>8, <1>a DEF vars
<1>9. QED
  BY <1>1, <1>2, <1>3, <1>4, <1>5, <1>6, <1>7, <1>8
     DEF Next, Pusher, Reader, CloseWindow, CloserIsQuiet

\* A stop finds the reader awake, or asleep over an empty chain: all that was
\* sent before has been popped.
LEMMA EndStep == IInv /\ [Next]_vars => EndInv'
<1> SUFFICES ASSUME IInv, [Next]_vars PROVE EndInv'
  OBVIOUS
<1> USE DEF wordvars, pvars, rvars, cvars, svars, At, Closers, EndInv, NoEnd
<1>a. TypeOK /\ CountInv /\ CloseInv /\ SleeperIsKnown /\ WaitInv /\ TokenInv /\ ChainInv /\ EndInv
  BY DEF IInv
<1>b. /\ chain \in Seq(1 .. MaxPush) /\ Len(chain) \in Nat
      /\ pushed \in Nat /\ popped \in Nat /\ end \in Int
  BY <1>a, ChainLength, NumberTypes
<1>c. chain = <<>> => Len(chain) = 0
  BY <1>b, SeqFacts
<1>1. CASE PeerClose
  <2>1. /\ end = -1 /\ end' = pushed /\ ppc = "idle" /\ ~closing /\ ~closing'
        /\ UNCHANGED <<chain, pushed, rpc, popped, outcome>>
    BY <1>1 DEF PeerClose
  <2>2. outcome # "eof"
    BY <1>a, <2>1
  <2>3. ASSUME rpc = "wait" PROVE popped = pushed
    <3>1. outcome = "none" /\ ~stopped /\ stopOp = 0
      BY <1>a, <2>1, <2>3 DEF CloseInv, TokenInv
    <3>2. wait
      BY <1>a, <2>1, <2>3, <3>1 DEF SleeperIsKnown, WaitInv
    <3>3. QED
      BY <1>a, <1>b, <1>c, <2>1, <2>3, <3>1, <3>2 DEF WaitInv, ChainInv
  <2>4. QED
    BY <1>b, <2>1, <2>2, <2>3
<1>2. CASE PopStart
  <2>1. rpc' = "wait" /\ ~closing /\ outcome = "none" => popped = pushed
    BY <1>2, <1>a, <1>b, <1>c, EmptyWord DEF PopStart, ChainInv
  <2>2. QED
    BY <1>2, <1>a, <1>b, <2>1 DEF PopStart
<1>3. CASE PopStopped
  <2>1. ~closing /\ ~closing' /\ outcome = "none" /\ stopped
           => popped' >= end' /\ end' # -1
    BY <1>3, <1>a, <1>b DEF PopStopped, PopError
  <2>2. outcome = "none" /\ stopped /\ closing' = closing
    BY <1>3, <1>a DEF PopStopped, PopError, TokenInv, CloseInv, TypeOK
  <2>3. QED
    BY <1>3, <1>a, <1>b, <2>1, <2>2 DEF PopStopped, PopError
<1>4. CASE PopTimeout
  BY <1>4, <1>a DEF PopTimeout, PopError
<1>5. CASE PushElement
  BY <1>5, <1>a, <1>b DEF PushElement
<1>6. CASE PopTaken
  BY <1>6, <1>a, <1>b, <1>c DEF PopTaken, CloseInv, ChainInv
<1>7. CASE PushLength \/ AllowPop \/ AllowStopped \/ Read \/ PopLength \/ ReadReturnError \/ Close
  BY <1>7, <1>a DEF PushLength, AllowPop, AllowStopped, Read, PopLength, ReadReturnError, Close
<1>8. ASSUME NEW c \in Closers, CloserIsQuiet(c) \/ ReleaseElement(c) PROVE EndInv'
  BY <1>8, <1>a DEF CloserIsQuiet, CheckCloseOp, SetCloseOp, PutToken, ReleaseElement,
                    ReleaseLength, Released
<1>9. ASSUME NEW c \in Closers, StopQueue(c) PROVE EndInv'
  BY <1>9, <1>a DEF StopQueue, CloseInv
<1>10. CASE UNCHANGED vars
  BY <1>10, <1>a DEF vars
<1>11. QED
  BY <1>1, <1>2, <1>3, <1>4, <1>5, <1>6, <1>7, <1>8, <1>9, <1>10
     DEF Next, Pusher, Reader, CloseWindow, CloserIsQuiet

-----------------------------------------------------------------------------
(* The theorems.                                                           *)

LEMMA InitInvariant == Init => IInv
<1> SUFFICES ASSUME Init PROVE IInv
  OBVIOUS
<1> USE MaxPushAssumption DEF Init, Closers, NoEnd, OpCap
<1>1. Len(chain) = 0 /\ Stored = 0 /\ Held = 0
  BY DEF Stored, Held, One
<1>2. TypeOK
  <2>1. chain \in Seq(1 .. MaxPush) /\ cpc \in [Closers -> Stage]
    BY DEF Stage
  <2>2. end \in -1 .. MaxPush /\ length \in 0 .. MaxPush /\ pushed \in 0 .. MaxPush
        /\ popped \in 0 .. MaxPush /\ closeOpCh \in 0 .. OpCap /\ stopOp \in 0 .. OpCap
    OBVIOUS
  <2>3. QED
    BY <2>1, <2>2 DEF TypeOK, Stage
<1>3. CountInv
  BY <1>1 DEF CountInv
<1>4. CloseInv /\ SleeperIsKnown /\ WaitInv /\ TokenInv
  BY DEF CloseInv, SleeperIsKnown, WaitInv, WaitKnown, TokenInv
<1>5. ChainInv /\ EndInv
  BY <1>1 DEF ChainInv, EndInv
<1>6. QED
  BY <1>2, <1>3, <1>4, <1>5 DEF IInv

\* What holds between the word, the tokens, the chain and the three goroutines.
THEOREM Invariant == Spec => []IInv
<1>1. IInv /\ [Next]_vars => IInv'
  BY CountStep, TypeStep, WaitStep, TokenStep, ChainStep, EndStep DEF IInv
<1>2. QED
  BY InitInvariant, <1>1, PTL DEF Spec

\* At any moment lengthWait counts the segments, a sleeping reader is known to
\* the one who will wake it, and io.EOF comes behind the last segment sent.
THEOREM Sound == Spec => []QueueSound
<1>1. IInv => QueueSound
  <2>1. IInv => LengthCounts
    BY CountsLength DEF IInv
  <2>2. IInv => EofIsComplete
    BY DEF IInv, EndInv, EofIsComplete
  <2>3. QED
    BY <2>1, <2>2 DEF IInv, QueueSound
<1>2. QED
  BY Invariant, <1>1, PTL

\* Every step of the queue is one that RecvFifo allows: Push appends, Pop
\* returns the oldest segment, io.EOF only behind the last one, and nothing
\* is thrown away before an error or a close.
THEOREM StepsAreFifo == Spec => Fifo!Init /\ [][Fifo!Next]_(Fifo!vars)
<1> USE DEF wordvars, pvars, rvars, cvars, svars
<1>1. Init => Fifo!Init
  BY DEF Init, Fifo!Init, Fifo!NoEnd, NoEnd
<1>2. IInv /\ [Next]_vars => [Fifo!Next]_(Fifo!vars)
  <2> SUFFICES ASSUME IInv, [Next]_vars PROVE [Fifo!Next]_(Fifo!vars)
    OBVIOUS
  <2> USE DEF Fifo!vars, Fifo!cvars, NoEnd, Fifo!NoEnd
  <2>a. TypeOK /\ CloseInv /\ TokenInv /\ EndInv /\ pushed \in Nat
    BY NumberTypes DEF IInv
  <2>1. CASE PushElement
    <3>1. Fifo!Push
      BY <2>1 DEF PushElement, Enqueued, Fifo!Push
    <3>2. QED
      BY <3>1 DEF Fifo!Next
  <2>2. CASE PeerClose
    <3>1. Fifo!End
      BY <2>2, <2>a DEF PeerClose, Fifo!End
    <3>2. QED
      BY <3>1 DEF Fifo!Next
  <2>3. CASE Read
    <3>1. Fifo!Call
      BY <2>3 DEF Read, Fifo!Call
    <3>2. QED
      BY <3>1 DEF Fifo!Next
  <2>4. CASE PopTaken
    <3>1. Fifo!Return
      BY <2>4 DEF PopTaken, Fifo!Return
    <3>2. QED
      BY <3>1 DEF Fifo!Next
  <2>5. CASE PopStopped
    <3>1. outcome = "none" /\ stopped
      BY <2>5, <2>a DEF PopStopped, PopError, TokenInv, CloseInv, TypeOK
    <3>2. closing \/ (end # -1 /\ popped >= end)
      BY <2>5, <2>a, <3>1 DEF PopStopped, PopError, EndInv
    <3>3. Fifo!ReturnEof
      BY <2>5, <3>2 DEF PopStopped, PopError, Fifo!ReturnEof, Fifo!Fail
    <3>4. QED
      BY <3>3 DEF Fifo!Next
  <2>6. CASE PopTimeout
    <3>1. Fifo!ReturnTimeout
      BY <2>6 DEF PopTimeout, PopError, Fifo!ReturnTimeout, Fifo!Fail
    <3>2. QED
      BY <3>1 DEF Fifo!Next
  <2>7. CASE Close
    <3>1. Fifo!Close
      BY <2>7 DEF Close, Fifo!Close
    <3>2. QED
      BY <3>1 DEF Fifo!Next
  <2>8. ASSUME NEW c \in Closers, ReleaseElement(c) PROVE Fifo!Next
    <3>1. outcome # "none" \/ closing
      BY <2>8, <2>a DEF ReleaseElement, At, CloseInv, Closers
    <3>2. Fifo!Discard
      BY <2>8, <3>1 DEF ReleaseElement, Fifo!Discard
    <3>3. QED
      BY <3>2 DEF Fifo!Next
  <2>9. CASE PushLength \/ AllowPop \/ AllowStopped \/ PopStart \/ PopLength \/ ReadReturnError
    BY <2>9 DEF PushLength, AllowPop, AllowStopped, PopStart, PopLength, ReadReturnError
  <2>10. ASSUME NEW c \in Closers, CloserIsQuiet(c) \/ StopQueue(c) PROVE UNCHANGED Fifo!vars
    BY <2>10 DEF CloserIsQuiet, CheckCloseOp, SetCloseOp, PutToken, StopQueue, ReleaseLength, Released
  <2>11. CASE UNCHANGED vars
    BY <2>11 DEF vars
  <2>12. QED
    BY <2>1, <2>2, <2>3, <2>4, <2>5, <2>6, <2>7, <2>8, <2>9, <2>10, <2>11
       DEF Next, Pusher, Reader, CloseWindow, CloserIsQuiet
<1>3. QED
  BY Invariant, <1>1, <1>2, PTL DEF Spec

=============================================================================
