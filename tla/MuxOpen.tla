------------------------------ MODULE MuxOpen -------------------------------
(***************************************************************************)
(* Connections inside a mux (lib/nps_mux/mux.go): one end, the opener,     *)
(* calls NewConn; the other, the acceptor, calls Accept; both send         *)
(* messages, and either closes.                                            *)
(*                                                                         *)
(* Packets of different chains of the write queue overtake each other, and *)
(* those of one chain do not: the link to an end is two sequences, and     *)
(* either head may come next.  NewConn, NewConnOk go in the middle chain,  *)
(* data and close in the low one.  Windows and the receive queue are in    *)
(* FlowWindow and RecvQueue: a message is only counted here, and a Write   *)
(* is over before its connection is closed at that end.                    *)
(*                                                                         *)
(* A definition named X_Y is a variant of X as a slip in the code would    *)
(* make it; the specification never uses it.                               *)
(***************************************************************************)
EXTENDS Integers, Sequences, FiniteSets

CONSTANTS
    MaxConns,     \* bound on the connections opened, whose ids are 1, 2, ...
    MaxMsgs       \* bound on the messages each end sends in a connection

ASSUME BoundAssumption == MaxConns \in Nat /\ MaxMsgs \in Nat

Conns == 1 .. MaxConns
NoConn == 0
Ends == {"opener", "acceptor"}
Chains == {"middle", "low"}
Other(e) == IF e = "opener" THEN "acceptor" ELSE "opener"

VARIABLES
    link,         \* link[e][chain]: packets on their way to e
    connMap,      \* connMap[e]: ids in the map of e
    app,          \* app[e][c]: the connection in the hands of the user at e
    closingFlag,  \* closingFlag[e][c]: muxConnClose has come, reads end
    ok,           \* readSession of the opener: the connection it says ok to
    newConnQueue, \* of the acceptor
    apc, accepted,   \* its goroutine that pops newConnQueue; the connection
    sent, received,  \* history: messages sent by e and received by e, in c
    dropped       \* history: messages for e that met no connection

avars == <<newConnQueue, apc, accepted>>
hvars == <<sent, received, dropped>>
vars == <<link, connMap, app, closingFlag, ok, avars, hvars>>

Packet == [kind : {"NewConn", "NewConnOk", "NewMsg", "ConnClose"}, id : Conns]

\* The chain a packet is pushed into.
ChainOf_CloseFirst(kind) == IF kind = "NewMsg" THEN "low" ELSE "middle"
ChainOf(kind) == IF kind \in {"NewConn", "NewConnOk"} THEN "middle" ELSE "low"

\* What sendInfo at e does to the link.
Sending(e, kind, c) ==
    [link EXCEPT ![Other(e)][ChainOf(kind)] = Append(@, [kind |-> kind, id |-> c])]

Init ==
    /\ link = [e \in Ends |-> [ch \in Chains |-> <<>>]]
    /\ connMap = [e \in Ends |-> {}]
    /\ app = [e \in Ends |-> [c \in Conns |-> "none"]]
    /\ closingFlag = [e \in Ends |-> [c \in Conns |-> FALSE]]
    /\ ok = NoConn
    /\ newConnQueue = <<>> /\ apc = "pop" /\ accepted = NoConn
    /\ sent = [e \in Ends |-> [c \in Conns |-> 0]]
    /\ received = [e \in Ends |-> [c \in Conns |-> 0]]
    /\ dropped = [e \in Ends |-> [c \in Conns |-> 0]]

-----------------------------------------------------------------------------
(* The opener: NewConn.                                                    *)

\* getId: ids are handed out in order, and none that is in the map.
NextId == CHOOSE c \in Conns : app["opener"][c] = "none"
                               /\ \A d \in 1 .. c - 1 : app["opener"][d] # "none"

\* "It must be set before send."
Register(c) == connMap["opener"] \cup {c}

NewConn ==
    /\ \E c \in Conns : app["opener"][c] = "none"
    /\ app' = [app EXCEPT !["opener"][NextId] = "waiting"]
    /\ connMap' = [connMap EXCEPT !["opener"] = Register(NextId)]
    /\ link' = Sending("opener", "NewConn", NextId)
    /\ UNCHANGED <<closingFlag, ok, avars, hvars>>

\* NewConn receives from connStatusOkCh what readSession sends.
Opened(c) ==
    /\ ok = c /\ app["opener"][c] = "waiting"
    /\ ok' = NoConn
    /\ app' = [app EXCEPT !["opener"][c] = "open"]
    /\ UNCHANGED <<link, connMap, closingFlag, avars, hvars>>

\* NewConn gives up after two minutes: the connection stays in the map.
GiveUp(c) ==
    /\ app["opener"][c] = "waiting"
    /\ app' = [app EXCEPT !["opener"][c] = "failed"]
    /\ UNCHANGED <<link, connMap, closingFlag, ok, avars, hvars>>

-----------------------------------------------------------------------------
(* The acceptor: the goroutine of readSession that pops newConnQueue.      *)

\* "It has been set before send ok", and handed over to Accept before that.
StepAfter_NoOk(pc) ==
    CASE pc = "pop" -> "set" [] pc = "set" -> "hand" [] pc = "hand" -> "pop"
StepAfter(pc) ==
    CASE pc = "pop" -> "set" [] pc = "set" -> "hand" [] pc = "hand" -> "ok" [] pc = "ok" -> "pop"

PopNewConn ==
    /\ apc = "pop" /\ newConnQueue # <<>>
    /\ accepted' = Head(newConnQueue)
    /\ newConnQueue' = Tail(newConnQueue)
    /\ apc' = StepAfter(apc)
    /\ UNCHANGED <<link, connMap, app, closingFlag, ok, hvars>>

SetAccepted ==
    /\ apc = "set"
    /\ connMap' = [connMap EXCEPT !["acceptor"] = @ \cup {accepted}]
    /\ apc' = StepAfter(apc)
    /\ UNCHANGED <<link, app, closingFlag, ok, newConnQueue, accepted, hvars>>

\* newConnCh: Accept returns the connection.
Accept ==
    /\ apc = "hand"
    /\ app' = [app EXCEPT !["acceptor"][accepted] = "open"]
    /\ apc' = StepAfter(apc)
    /\ UNCHANGED <<link, connMap, closingFlag, ok, newConnQueue, accepted, hvars>>

SendOk ==
    /\ apc = "ok"
    /\ link' = Sending("acceptor", "NewConnOk", accepted)
    /\ apc' = StepAfter(apc)
    /\ UNCHANGED <<connMap, app, closingFlag, ok, newConnQueue, accepted, hvars>>

Acceptor == PopNewConn \/ SetAccepted \/ Accept \/ SendOk

-----------------------------------------------------------------------------
(* readSession of either end.  It does nothing else while it says ok.      *)

Ready(e) == e = "acceptor" \/ ok = NoConn

Receive(e, ch) ==
    /\ link[e][ch] # <<>>
    /\ Ready(e)
    /\ link' = [link EXCEPT ![e][ch] = Tail(@)]

ReceiveNewConn(e, p) ==
    /\ p.kind = "NewConn"
    /\ newConnQueue' = Append(newConnQueue, p.id)
    /\ UNCHANGED <<connMap, app, closingFlag, ok, apc, accepted, hvars>>

\* A connection that left the map gets no packets.
ReceiveUnknown(e, p) ==
    /\ p.kind # "NewConn" /\ p.id \notin connMap[e]
    /\ dropped' = [dropped EXCEPT ![e][p.id] = @ + IF p.kind = "NewMsg" THEN 1 ELSE 0]
    /\ UNCHANGED <<connMap, app, closingFlag, ok, avars, sent, received>>

ReceiveOk(e, p) ==
    /\ p.kind = "NewConnOk" /\ p.id \in connMap[e]
    /\ ok' = p.id
    /\ UNCHANGED <<connMap, app, closingFlag, avars, hvars>>

ReceiveMsg(e, p) ==
    /\ p.kind = "NewMsg" /\ p.id \in connMap[e]
    /\ received' = [received EXCEPT ![e][p.id] = @ + 1]
    /\ UNCHANGED <<connMap, app, closingFlag, ok, avars, sent, dropped>>

ReceiveClose(e, p) ==
    /\ p.kind = "ConnClose" /\ p.id \in connMap[e]
    /\ closingFlag' = [closingFlag EXCEPT ![e][p.id] = TRUE]
    /\ UNCHANGED <<connMap, app, ok, avars, hvars>>

ReadSession(e) ==
    \E ch \in Chains :
        /\ Receive(e, ch)
        /\ LET p == Head(link[e][ch])
           IN  \/ ReceiveNewConn(e, p) \/ ReceiveUnknown(e, p) \/ ReceiveOk(e, p)
               \/ ReceiveMsg(e, p) \/ ReceiveClose(e, p)

-----------------------------------------------------------------------------
(* The user of a connection, at either end.                                *)

\* conn.Write is refused once closingFlag is set.
Send(e, c) ==
    /\ app[e][c] = "open" /\ ~closingFlag[e][c]
    /\ sent[e][c] < MaxMsgs
    /\ sent' = [sent EXCEPT ![e][c] = @ + 1]
    /\ link' = Sending(e, "NewMsg", c)
    /\ UNCHANGED <<connMap, app, closingFlag, ok, avars, received, dropped>>

\* conn.Close.
Unregister_Forgotten(e, c) == connMap[e]
Unregister(e, c) == connMap[e] \ {c}

Close(e, c) ==
    /\ app[e][c] = "open"
    /\ app' = [app EXCEPT ![e][c] = "closed"]
    /\ connMap' = [connMap EXCEPT ![e] = Unregister(e, c)]
    /\ link' = Sending(e, "ConnClose", c)
    /\ UNCHANGED <<closingFlag, ok, avars, hvars>>

\* The copy loops close a connection whose Read ended.
CloseOnEof(e) == \E c \in Conns : closingFlag[e][c] /\ Close(e, c)

-----------------------------------------------------------------------------

Next ==
    \/ NewConn \/ \E c \in Conns : Opened(c) \/ GiveUp(c)
    \/ Acceptor
    \/ \E e \in Ends : ReadSession(e) \/ \E c \in Conns : Send(e, c) \/ Close(e, c)

\* The runtime schedules every goroutine and the link delivers.  The user at
\* the acceptor keeps calling Accept, and users close what the other end closed.
Spec ==
    /\ Init /\ [][Next]_vars
    /\ WF_vars(Acceptor)
    /\ \A c \in Conns : WF_vars(Opened(c))
    /\ \A e \in Ends : WF_vars(ReadSession(e)) /\ WF_vars(CloseOnEof(e))

-----------------------------------------------------------------------------
(* Properties.                                                             *)

TypeOK ==
    /\ \A e \in Ends, ch \in Chains : link[e][ch] \in Seq(Packet)
    /\ \A e \in Ends : connMap[e] \subseteq Conns
    /\ app \in [Ends -> [Conns -> {"none", "waiting", "failed", "open", "closed"}]]
    /\ closingFlag \in [Ends -> [Conns -> BOOLEAN]]
    /\ ok \in Conns \cup {NoConn}
    /\ newConnQueue \in Seq(Conns) /\ accepted \in Conns \cup {NoConn}
    /\ apc \in {"pop", "set", "hand", "ok"}
    /\ \A e \in Ends, c \in Conns :
          sent[e][c] \in 0 .. MaxMsgs /\ received[e][c] + dropped[e][c] \in 0 .. MaxMsgs

\* NewConn succeeds only for a connection that Accept has returned.
OpenedIsAccepted ==
    \A c \in Conns : app["opener"][c] = "open" => app["acceptor"][c] \in {"open", "closed"}

\* A message is dropped only by an end whose user has closed the connection:
\* the first messages overtake neither the entry in the map nor the Ok.
DroppedOnlyAfterClose ==
    \A e \in Ends, c \in Conns : dropped[e][c] > 0 => app[e][c] = "closed"

\* Messages that were sent before the end of the stream are received before it.
CloseComesLast ==
    \A e \in Ends, c \in Conns :
        closingFlag[e][c] => received[e][c] = sent[Other(e)][c]

\* What an end has opened, received and dropped is sound at any moment.
SessionSound == TypeOK /\ OpenedIsAccepted /\ DroppedOnlyAfterClose /\ CloseComesLast

\* NewConn gave up.  Its Ok then stays in readSession, and the mux with it.
TimedOut == \E c \in Conns : app["opener"][c] = "failed"

\* Nothing is on its way, no goroutine is at work, and no user has an end of
\* stream to act on.
Quiet ==
    /\ \A e \in Ends, ch \in Chains : link[e][ch] = <<>>
    /\ ok = NoConn /\ apc = "pop" /\ newConnQueue = <<>>
    /\ \A e \in Ends, c \in Conns : closingFlag[e][c] => app[e][c] # "open"

\* Then, unless NewConn gave up, both ends agree on every connection and the maps
\* hold the open ones and nothing else: none is leaked, none half open.
EndsAgree ==
    Quiet /\ ~TimedOut =>
        \A c \in Conns, e \in Ends :
            /\ app["opener"][c] = app["acceptor"][c]
            /\ c \in connMap[e] <=> app[e][c] = "open"

\* NewConn succeeds, unless it or another one gives up.
OpenSucceeds ==
    \A c \in Conns :
        app["opener"][c] = "waiting" ~> (app["opener"][c] # "waiting" \/ TimedOut)

=============================================================================
