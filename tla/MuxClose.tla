------------------------------ MODULE MuxClose ------------------------------
(***************************************************************************)
(* The end of a mux (lib/nps_mux/mux.go): Close, which the goroutines that *)
(* read, write and ping all call, as does the owner of the mux, and what   *)
(* becomes of these goroutines, of the one that serves newConnQueue and of *)
(* the connections.                                                        *)
(*                                                                         *)
(* Close tests and sets IsClose without a lock and then takes several      *)
(* steps that other goroutines may fall between.  Pop of the two queues is *)
(* that of PriorityQueue: a look at the queue and at stop, then joining    *)
(* the list that Broadcast wakes.  A queue is the number of its packets,   *)
(* or the connections in it.                                               *)
(*                                                                         *)
(* A definition named X_Y is a variant of X as a slip in the code would    *)
(* make it; the specification never uses it.                               *)
(***************************************************************************)
EXTENDS Integers, FiniteSets

CONSTANTS
    Ids,            \* connections the other end opens
    MaxPackets      \* bound on the packets in the write queue

\* The goroutines: those of readSession (which also takes the packets), the one that
\* serves newConnQueue, writeSession, the two of ping, and the owner.
Closers == {"read", "write", "ping", "owner"}
Goroutines == Closers \cup {"accept", "pong"}

VARIABLES
    alive,          \* the process has not panicked
    IsClose,
    pc,             \* goroutine -> its step
    closeChan,      \* values in closeChan, which holds one
    newConnChOpen,
    connOpen,       \* the connection below the mux is not closed yet
    writeQueue, writeStop,        \* packets; stop
    newConnQueue, newConnStop,    \* connections; stop
    connMap,        \* connections in the map
    isClose,        \* connections that are closed
    user,           \* connections that Accept returned
    next,           \* the connection the accept goroutine has in hand, or none
    \* history
    missed,         \* goroutines that a Stop fell between the look and the list of
    late            \* connections set in the map after the map was closed

NoConn == "none"
mem == <<closeChan, newConnChOpen, connOpen>>
queues == <<writeQueue, writeStop, newConnQueue, newConnStop>>
conns == <<connMap, isClose, user, next>>
hist == <<missed, late>>
vars == <<alive, IsClose, pc, mem, queues, conns, hist>>

Init ==
    /\ alive = TRUE /\ IsClose = FALSE
    /\ pc = [g \in Goroutines |-> CASE g \in {"write", "accept"} -> "pop"
                                     [] g = "pong" -> "head" [] OTHER -> "run"]
    /\ closeChan = 0 /\ newConnChOpen = TRUE /\ connOpen = TRUE
    /\ writeQueue = 0 /\ writeStop = FALSE /\ newConnQueue = {} /\ newConnStop = FALSE
    /\ connMap = {} /\ isClose = {} /\ user = {} /\ next = NoConn
    /\ missed = {} /\ late = {}

At(g, step) == alive /\ pc[g] = step
Goto(g, step) == pc' = [pc EXCEPT ![g] = step]
Move(g, from, to) == At(g, from) /\ Goto(g, to)

\* Broadcast of a queue wakes its goroutine when it is on the list.
Woken(g, f) == IF f[g] = "asleep" THEN [f EXCEPT ![g] = "pop"] ELSE f

-----------------------------------------------------------------------------
(* readSession: the packets that matter here.                              *)

\* sendInfo of goroutine g, which then goes on to another step.
SendInfo(g, step) ==
    IF IsClose THEN Goto(g, step) /\ UNCHANGED writeQueue
    ELSE /\ writeQueue < MaxPackets /\ writeQueue' = writeQueue + 1
         /\ pc' = Woken("write", [pc EXCEPT ![g] = step])

ReadNewConn(c) ==
    /\ At("read", "run") /\ ~IsClose /\ connOpen
    /\ c \notin newConnQueue \cup connMap \cup isClose \cup user \cup {next}
    /\ newConnQueue' = newConnQueue \cup {c}
    /\ pc' = Woken("accept", pc)
    /\ UNCHANGED <<alive, IsClose, mem, writeQueue, writeStop, newConnStop, conns, hist>>

\* A ping is answered; the answer to one is handed to the second goroutine of ping.
ReadPing ==
    /\ At("read", "run") /\ ~IsClose /\ connOpen
    /\ SendInfo("read", "run")
    /\ UNCHANGED <<alive, IsClose, mem, writeStop, newConnQueue, newConnStop, conns, hist>>

ReadPingReturn ==
    /\ Move("read", "run", "pingCh")
    /\ ~IsClose /\ connOpen
    /\ UNCHANGED <<alive, IsClose, mem, queues, conns, hist>>

TakePing ==
    /\ At("read", "pingCh") /\ At("pong", "select")
    /\ pc' = [pc EXCEPT !["read"] = "run", !["pong"] = "head"]
    /\ UNCHANGED <<alive, IsClose, mem, queues, conns, hist>>

\* The goroutine of readSession sees IsClose at the head of its loop.
ReadEnds ==
    /\ Move("read", "run", "ended")
    /\ IsClose
    /\ UNCHANGED <<alive, IsClose, mem, queues, conns, hist>>

\* The second goroutine of ping: the head of its loop, and closeChan, whose break
\* leaves only the select.
PongLoops ==
    /\ Move("pong", "head", IF IsClose THEN "ended" ELSE "select")
    /\ UNCHANGED <<alive, IsClose, mem, queues, conns, hist>>

TakeCloseChan ==
    /\ Move("pong", "select", "head")
    /\ closeChan > 0
    /\ closeChan' = closeChan - 1
    /\ UNCHANGED <<alive, IsClose, newConnChOpen, connOpen, queues, conns, hist>>

Ping ==
    /\ At("ping", "run") /\ ~IsClose
    /\ SendInfo("ping", "run")
    /\ UNCHANGED <<alive, IsClose, mem, writeStop, newConnQueue, newConnStop, conns, hist>>

PingEnds ==
    /\ Move("ping", "run", "ended")
    /\ IsClose
    /\ UNCHANGED <<alive, IsClose, mem, queues, conns, hist>>

-----------------------------------------------------------------------------
(* Pop of the two queues.                                                  *)

Empty(g) == IF g = "write" THEN writeQueue = 0 ELSE newConnQueue = {}
Stop(g) == IF g = "write" THEN writeStop ELSE newConnStop

\* Nothing in the queue: away when it is stopped, or to the list.
Look(g) ==
    /\ g \in {"write", "accept"}
    /\ Move(g, "pop", IF Stop(g) THEN "ended" ELSE "enlist")
    /\ Empty(g)
    /\ UNCHANGED <<alive, IsClose, mem, queues, conns, hist>>

Enlist(g) ==
    /\ Move(g, "enlist", "asleep")
    /\ missed' = IF Stop(g) THEN missed \cup {g} ELSE missed
    /\ UNCHANGED <<alive, IsClose, mem, queues, conns, late>>

\* writeSession: a packet is written, or not any more, or the write fails.
PopPacket ==
    /\ At("write", "pop") /\ writeQueue > 0
    /\ writeQueue' = writeQueue - 1
    /\ \/ IsClose /\ Goto("write", "ended")
       \/ ~IsClose /\ Goto("write", "pop")
       \/ ~IsClose /\ Goto("write", "setIsClose")
    /\ UNCHANGED <<alive, IsClose, mem, writeStop, newConnQueue, newConnStop, conns, hist>>

PopConn(c) ==
    /\ At("accept", "pop") /\ c \in newConnQueue
    /\ newConnQueue' = newConnQueue \ {c}
    /\ next' = c
    /\ Goto("accept", IF IsClose THEN "ended" ELSE "set")
    /\ UNCHANGED <<alive, IsClose, mem, writeQueue, writeStop, newConnStop, connMap, isClose, user,
                   hist>>

MapClosed == \E g \in Closers : pc[g] \in {"chan", "newConnCh", "release", "stop", "ended"}

SetConn ==
    /\ Move("accept", "set", "handOver")
    /\ connMap' = connMap \cup {next}
    /\ late' = IF IsClose /\ MapClosed THEN late \cup {next} ELSE late
    /\ UNCHANGED <<alive, IsClose, mem, queues, isClose, user, next, missed>>

\* Somebody is in Accept.  Nobody may be, for as long as he likes.
Accept ==
    /\ Move("accept", "handOver", "ok")
    /\ newConnChOpen
    /\ user' = user \cup {next}
    /\ UNCHANGED <<alive, IsClose, mem, queues, connMap, isClose, next, hist>>

SendOk ==
    /\ At("accept", "ok")
    /\ SendInfo("accept", IF IsClose THEN "ended" ELSE "pop")
    /\ next' = NoConn
    /\ UNCHANGED <<alive, IsClose, mem, writeStop, newConnQueue, newConnStop, connMap, isClose, user,
                   hist>>

\* The user of a connection closes it.
CloseConn(c) ==
    /\ alive /\ c \in user \ isClose
    /\ isClose' = isClose \cup {c} /\ connMap' = connMap \ {c}
    /\ UNCHANGED <<alive, IsClose, pc, mem, queues, user, next, hist>>

-----------------------------------------------------------------------------
(* Close.                                                                  *)

\* Reading fails, no ping was answered for too long, or the owner calls it, and IsClose
\* is tested; that writing fails is in PopPacket.
CallClose(g) ==
    /\ g \in {"read", "ping", "owner"}
    /\ Move(g, "run", IF IsClose THEN "ended" ELSE "setIsClose")
    /\ UNCHANGED <<alive, IsClose, mem, queues, conns, hist>>

SetIsClose(g) ==
    /\ Move(g, "setIsClose", "map")
    /\ IsClose' = TRUE
    /\ UNCHANGED <<alive, mem, queues, conns, hist>>

CloseMap(g) ==
    /\ Move(g, "map", "chan")
    /\ isClose' = isClose \cup connMap
    /\ connMap' = {}
    /\ UNCHANGED <<alive, IsClose, mem, queues, user, next, hist>>

\* The map is read without its lock: another writer of it may end the process.
MapRace(g) ==
    /\ At(g, "map") /\ connMap # {}
    /\ pc["accept"] = "set" \/ \E f \in Closers \ {g} : pc[f] = "map"
    /\ alive' = FALSE
    /\ UNCHANGED <<IsClose, pc, mem, queues, conns, hist>>

SendCloseChan(g) ==
    /\ Move(g, "chan", "newConnCh")
    /\ closeChan = 0 /\ closeChan' = 1
    /\ UNCHANGED <<alive, IsClose, newConnChOpen, connOpen, queues, conns, hist>>

\* A goroutine that hands over a connection panics, as does a second close.
CloseNewConnCh(g) ==
    /\ Move(g, "newConnCh", "release")
    /\ newConnChOpen' = FALSE
    /\ alive' = (newConnChOpen /\ pc["accept"] # "handOver")
    /\ UNCHANGED <<IsClose, closeChan, connOpen, queues, conns, hist>>

HandOverPanics ==
    /\ At("accept", "handOver") /\ ~newConnChOpen
    /\ alive' = FALSE
    /\ UNCHANGED <<IsClose, pc, mem, queues, conns, hist>>

Release(g) ==
    /\ Move(g, "release", "stop")
    /\ connOpen' = FALSE
    /\ writeQueue' = 0 /\ newConnQueue' = {}
    /\ UNCHANGED <<alive, IsClose, closeChan, newConnChOpen, writeStop, newConnStop, conns, hist>>

Woken_OnlyWriter(f) == Woken("write", f)
WokenByStop(f) == Woken("accept", Woken("write", f))

StopQueues(g) ==
    /\ At(g, "stop")
    /\ writeStop' = TRUE /\ newConnStop' = TRUE
    /\ pc' = WokenByStop([pc EXCEPT ![g] = "ended"])
    /\ UNCHANGED <<alive, IsClose, mem, writeQueue, newConnQueue, conns, hist>>

CloseStep(g) ==
    \/ CallClose(g) \/ SetIsClose(g) \/ CloseMap(g) \/ MapRace(g)
    \/ SendCloseChan(g) \/ CloseNewConnCh(g) \/ Release(g) \/ StopQueues(g)

Next ==
    \/ \E c \in Ids : ReadNewConn(c) \/ PopConn(c) \/ CloseConn(c)
    \/ ReadPing \/ ReadPingReturn \/ TakePing \/ ReadEnds \/ PongLoops \/ TakeCloseChan \/ Ping \/ PingEnds
    \/ \E g \in {"write", "accept"} : Look(g) \/ Enlist(g)
    \/ PopPacket \/ SetConn \/ Accept \/ SendOk \/ HandOverPanics
    \/ \E g \in Closers : CloseStep(g)

Spec == Init /\ [][Next]_vars

-----------------------------------------------------------------------------
(* Properties.                                                             *)

TypeOK ==
    /\ alive \in BOOLEAN /\ IsClose \in BOOLEAN /\ newConnChOpen \in BOOLEAN /\ connOpen \in BOOLEAN
    /\ DOMAIN pc = Goroutines /\ closeChan \in 0 .. 1
    /\ writeQueue \in 0 .. MaxPackets /\ writeStop \in BOOLEAN /\ newConnStop \in BOOLEAN
    /\ newConnQueue \subseteq Ids /\ connMap \subseteq Ids /\ isClose \subseteq Ids
    /\ user \subseteq Ids /\ next \in Ids \cup {NoConn}
    /\ missed \subseteq {"write", "accept"} /\ late \subseteq Ids

\* When Close has stopped the queues, whichever goroutines found the end and in whatever
\* order: the connection below is closed; both queues are stopped, and what sleeps at one of them
\* was overtaken by the Stop; the goroutine that takes the pings was told; and every
\* connection the other end opened is closed or never reached anybody, but one set in
\* the map after the map was closed.
EverythingEnds ==
    writeStop =>
        /\ ~connOpen /\ ~newConnChOpen /\ newConnStop
        /\ \A g \in {"write", "accept"} : pc[g] = "asleep" => g \in missed
        /\ user \cup connMap \subseteq isClose \cup late
        /\ pc["pong"] = "select" => closeChan = 1

CloseSound == TypeOK /\ EverythingEnds

=============================================================================
