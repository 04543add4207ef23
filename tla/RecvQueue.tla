----------------------------- MODULE RecvQueue ------------------------------
(***************************************************************************)
(* How Push and Pop of receiveWindowQueue (lib/nps_mux/queue.go) wait for  *)
(* each other, and how a connection is closed under them (receiveWindow in *)
(* conn.go).                                                               *)
(*                                                                         *)
(* Three goroutines: readSession pushes segments and stops the queue when  *)
(* the other end sends muxConnClose (pusher); one goroutine reads; one     *)
(* closes the connection at this end.  The reader closes the window as     *)
(* well, after an error of Pop.                                            *)
(*                                                                         *)
(* A segment is its number and has length 1.  The chain under the queue is *)
(* a sequence here: with one producer it is one (BufChain).  The CAS loops *)
(* on lengthWait decide on that word alone and are one step.               *)
(*                                                                         *)
(* A definition named X_Y is a variant of X as a slip in the code would    *)
(* make it; the specification never uses it.                               *)
(***************************************************************************)
EXTENDS Integers, Sequences

CONSTANT MaxPush   \* bound on the segments pushed

ASSUME MaxPushAssumption == MaxPush \in Nat

Closers == {"reader", "closer"}
NoEnd == -1
OpCap == 2    \* capacity of closeOpCh and of stopOp

VARIABLES
    length, wait,     \* the word lengthWait
    chain,            \* the segments in the chain
    pushed,           \* number of segments pushed, which numbers them
    ppc, popWaits,    \* the pusher; the wait it found in the word
    end,              \* segments pushed when muxConnClose came, or NoEnd
    rpc, popped,      \* the reader; the last segment it got
    outcome,          \* the error of Pop, if there was one
    deadlines,        \* whether the reader sets deadlines
    cpc,              \* window.CloseWindow, Stop, release: by each of Closers
    closing,          \* Close was called at this end
    closeOp, closeOpCh,   \* of the receive window
    stopped, stopOp   \* Stop was called; the tokens in stopOp

wordvars == <<length, wait>>
pvars == <<pushed, ppc, popWaits, end>>
rvars == <<rpc, popped, outcome, deadlines>>
cvars == <<cpc, closing, closeOp, closeOpCh>>
svars == <<stopped, stopOp>>
vars == <<wordvars, chain, pvars, rvars, cvars, svars>>

Init ==
    /\ length = 0 /\ wait = FALSE /\ chain = <<>>
    /\ pushed = 0 /\ ppc = "idle" /\ popWaits = FALSE /\ end = NoEnd
    /\ rpc = "idle" /\ popped = 0 /\ outcome = "none" /\ deadlines \in BOOLEAN
    /\ cpc = [c \in Closers |-> "none"] /\ closing = FALSE
    /\ closeOp = FALSE /\ closeOpCh = 0
    /\ stopped = FALSE /\ stopOp = 0

-----------------------------------------------------------------------------
(* The pusher: receiveWindow.Write, Push, and muxConnClose.                *)

\* Push resets the wait it found.
WaitPushed_Kept(w) == w
WaitPushed(w) == FALSE

PushLength ==
    /\ ppc = "idle" /\ pushed < MaxPush
    /\ ~closing /\ ~closeOp
    /\ length' = length + 1
    /\ popWaits' = wait
    /\ wait' = WaitPushed(wait)
    /\ ppc' = "element"
    /\ UNCHANGED <<chain, pushed, end, rvars, cvars, svars>>

Enqueued_First(s, e) == <<e>> \o s
Enqueued(s, e) == Append(s, e)

PushElement ==
    /\ ppc = "element"
    /\ pushed' = pushed + 1
    /\ chain' = Enqueued(chain, pushed + 1)
    /\ ppc' = IF popWaits THEN "allow" ELSE "idle"
    /\ popWaits' = FALSE
    /\ UNCHANGED <<wordvars, end, rvars, cvars, svars>>

\* allowPop: the reader in waitPush receives from readOp, or a stop comes first.
AllowPop ==
    /\ ppc = "allow" /\ rpc = "wait"
    /\ ppc' = "idle" /\ rpc' = "start"
    /\ UNCHANGED <<wordvars, chain, pushed, popWaits, end, popped, outcome, deadlines,
                   cvars, svars>>

AllowStopped ==
    /\ ppc = "allow" /\ stopOp > 0
    /\ stopOp' = stopOp - 1
    /\ ppc' = "idle"
    /\ UNCHANGED <<wordvars, chain, pushed, popWaits, end, rvars, cvars, stopped>>

\* receiveWindow.Stop, by whoever comes first: a token for each goroutine that
\* may be waiting.
StopTokens_One == 1
StopTokens == 2

Stop ==
    /\ stopped' = TRUE
    /\ stopOp' = IF stopped THEN stopOp ELSE stopOp + StopTokens

PeerClose ==
    /\ end = NoEnd
    /\ ppc = "idle" /\ ~closing
    /\ end' = pushed
    /\ Stop
    /\ UNCHANGED <<wordvars, chain, pushed, ppc, popWaits, rvars, cvars>>

Pusher == PushElement \/ AllowPop \/ AllowStopped

-----------------------------------------------------------------------------
(* The reader: readFromQueue, Pop, TryPop, waitPush.                       *)

\* conn.Read on a closed connection, and readFromQueue in a closed window,
\* return at once.
Read ==
    /\ rpc = "idle" /\ ~closing /\ ~closeOp /\ outcome = "none"
    /\ rpc' = "start"
    /\ UNCHANGED <<wordvars, chain, pvars, popped, outcome, deadlines, cvars, svars>>

PopIsEmpty(l) == l = 0

\* The label startPop.
PopStart ==
    /\ rpc = "start"
    /\ IF PopIsEmpty(length)
       THEN wait' = TRUE /\ rpc' = "wait"
       ELSE rpc' = "spin" /\ UNCHANGED wait
    /\ UNCHANGED <<length, chain, pvars, popped, outcome, deadlines, cvars, svars>>

\* "length is not zero, so try to pop": while TryPop finds nothing it is tried
\* again, which changes no state.
PopTaken ==
    /\ rpc = "spin" /\ chain # <<>>
    /\ popped' = Head(chain)
    /\ chain' = Tail(chain)
    /\ rpc' = "taken"
    /\ UNCHANGED <<wordvars, pvars, outcome, deadlines, cvars, svars>>

\* TryPop takes the length of the segment out of the word.
LengthTaken(l) == l - 1

PopLength ==
    /\ rpc = "taken"
    /\ length' = LengthTaken(length)
    /\ rpc' = "idle"
    /\ UNCHANGED <<wait, chain, pvars, popped, outcome, deadlines, cvars, svars>>

\* After an error of Pop the reader closes the window.
PopError(err) ==
    /\ rpc = "wait"
    /\ outcome' = err
    /\ rpc' = "close"
    /\ cpc' = [cpc EXCEPT !["reader"] = "check"]
    /\ UNCHANGED <<wordvars, chain, pvars, popped, deadlines, closing, closeOp, closeOpCh>>

PopStopped ==
    /\ stopOp > 0 /\ stopOp' = stopOp - 1
    /\ PopError("eof")
    /\ UNCHANGED stopped

PopTimeout ==
    /\ deadlines
    /\ PopError("timeout")
    /\ UNCHANGED svars

ReadReturnError ==
    /\ rpc = "close" /\ cpc["reader"] = "done"
    /\ rpc' = "idle"
    /\ UNCHANGED <<wordvars, chain, pvars, popped, outcome, deadlines, cvars, svars>>

Reader == PopStart \/ PopTaken \/ PopLength \/ PopStopped \/ ReadReturnError

-----------------------------------------------------------------------------
(* receiveWindow.CloseWindow, by the reader or by conn.Close.              *)

\* conn.Close: isClose is set and the connection leaves connMap.  Who reads with
\* deadlines closes the connection himself; the copy loops close each other's.
Close ==
    /\ ~closing
    /\ deadlines => rpc = "idle"
    /\ closing' = TRUE
    /\ cpc' = [cpc EXCEPT !["closer"] = "check"]
    /\ UNCHANGED <<wordvars, chain, pvars, rvars, closeOp, closeOpCh, svars>>

At(c, from, to) == cpc[c] = from /\ cpc' = [cpc EXCEPT ![c] = to]

CheckCloseOp(c) ==
    /\ At(c, "check", IF closeOp THEN "stop" ELSE "set")
    /\ UNCHANGED <<wordvars, chain, pvars, rvars, closing, closeOp, closeOpCh, svars>>

SetCloseOp(c) ==
    /\ At(c, "set", "token1")
    /\ closeOp' = TRUE
    /\ UNCHANGED <<wordvars, chain, pvars, rvars, closing, closeOpCh, svars>>

\* Nobody receives from the closeOpCh of a receive window.
PutToken(c) ==
    /\ At(c, "token1", "token2") \/ At(c, "token2", "stop")
    /\ closeOpCh < OpCap
    /\ closeOpCh' = closeOpCh + 1
    /\ UNCHANGED <<wordvars, chain, pvars, rvars, closing, closeOp, svars>>

StopQueue(c) ==
    /\ At(c, "stop", "release")
    /\ Stop
    /\ UNCHANGED <<wordvars, chain, pvars, rvars, closing, closeOp, closeOpCh>>

\* release takes what is left, until TryPop finds nothing.
ReleaseElement(c) ==
    /\ At(c, "release", "released")
    /\ chain # <<>>
    /\ chain' = Tail(chain)
    /\ UNCHANGED <<wordvars, pvars, rvars, closing, closeOp, closeOpCh, svars>>

ReleaseLength(c) ==
    /\ At(c, "released", "release")
    /\ length' = LengthTaken(length)
    /\ UNCHANGED <<wait, chain, pvars, rvars, closing, closeOp, closeOpCh, svars>>

Released(c) ==
    /\ At(c, "release", "done")
    /\ chain = <<>>
    /\ UNCHANGED <<wordvars, chain, pvars, rvars, closing, closeOp, closeOpCh, svars>>

CloseWindow(c) ==
    \/ CheckCloseOp(c) \/ SetCloseOp(c) \/ PutToken(c) \/ StopQueue(c)
    \/ ReleaseElement(c) \/ ReleaseLength(c) \/ Released(c)

-----------------------------------------------------------------------------

Next ==
    \/ PushLength \/ PeerClose \/ Pusher
    \/ Read \/ PopTimeout \/ Reader
    \/ Close \/ \E c \in Closers : CloseWindow(c)

\* The runtime schedules every goroutine.  Nothing obliges anyone to push, to
\* close or to read, and a deadline may be as far away as one likes.
Spec ==
    /\ Init /\ [][Next]_vars
    /\ WF_vars(Pusher) /\ WF_vars(Reader)
    /\ \A c \in Closers : WF_vars(CloseWindow(c))

-----------------------------------------------------------------------------
(* Properties.                                                             *)

TypeOK ==
    /\ length \in 0 .. MaxPush /\ wait \in BOOLEAN
    /\ chain \in Seq(1 .. MaxPush)
    /\ pushed \in 0 .. MaxPush /\ ppc \in {"idle", "element", "allow"}
    /\ popWaits \in BOOLEAN /\ end \in -1 .. MaxPush
    /\ rpc \in {"idle", "start", "wait", "spin", "taken", "close"}
    /\ popped \in 0 .. MaxPush /\ outcome \in {"none", "eof", "timeout"}
    /\ deadlines \in BOOLEAN
    /\ cpc \in [Closers -> {"none", "check", "set", "token1", "token2", "stop",
                            "release", "released", "done"}]
    /\ closing \in BOOLEAN /\ closeOp \in BOOLEAN /\ closeOpCh \in 0 .. OpCap
    /\ stopped \in BOOLEAN /\ stopOp \in 0 .. OpCap

One(b) == IF b THEN 1 ELSE 0

\* The length in lengthWait counts the segments in the chain, the one about to
\* be stored, and those taken out and not yet subtracted, by whichever of Pop
\* and release: it never falls below zero and, once all are at rest, Pop
\* sleeps exactly when the chain is empty.
LengthCounts ==
    length = Len(chain) + One(ppc = "element") + One(rpc = "taken")
               + One(cpc["reader"] = "released") + One(cpc["closer"] = "released")

\* A reader asleep in waitPush is not forgotten: its wait is in the word, or
\* the pusher that took it from there is on its way to allowPop, or, when that
\* pusher was let go by a stop, there is a stop for the reader too.
SleeperIsKnown == rpc = "wait" => wait \/ popWaits \/ ppc = "allow" \/ stopOp > 0

\* io.EOF comes after the last segment the other end sent before it closed,
\* unless this end closed as well.
EofIsComplete == outcome = "eof" /\ ~closing => popped >= end

\* The word, the channels and the outcome of a Read are sound at any moment.
QueueSound == TypeOK /\ LengthCounts /\ SleeperIsKnown /\ EofIsComplete

\* While Pop tries again, "another goroutine is still pushing".
SpinMeansPushing == rpc = "spin" /\ chain = <<>> => ppc = "element"

\* readSession is not held up in allowPop by a segment that makes the reader go on.
PushReturns == ppc # "idle" ~> ppc = "idle"

\* "if server or user close the conn while reading, will Get a io.EOF": a Read
\* under way when this end closes returns.
ReadReturnsOnClose == closing ~> rpc = "idle"

\* The queue keeps what RecvFifo promises: segments in order, and a Pop that
\* returns as long as this end is not closed under it.
Fifo == INSTANCE RecvFifo WITH
    segments <- chain,
    next <- pushed + 1,
    popping <- rpc \in {"start", "wait", "spin"},
    last <- popped,
    end <- end,
    over <- outcome # "none",
    closed <- closing

FifoSpec == Fifo!Spec

=============================================================================
