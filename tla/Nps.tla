-------------------------------- MODULE Nps ---------------------------------
(***************************************************************************)
(* The parts of nps and npc around the sessions.  The first state says     *)
(* which part runs; the variables stand for the variables of that part, so *)
(* that the states are those of the parts, one after another.              *)
(***************************************************************************)
EXTENDS Integers, Sequences, FiniteSets

CONSTANTS
    Web, TaskIds, TaskPorts, TakenPorts, Modes, MaxServers, MaxTaskOps, MaxCrashes,   \* Tasks
    Conns,                                                    \* ConnLimit, RateBucket, Https
    Owners, MaxConn, MaxResets, MaxAccepts,                   \* ConnLimit
    Editors, Sizes, Limits, MaxRates,                         \* RateBucket
    Addrs, Procs, UdpMaxConn, MaxDatagrams,                   \* UdpProxy
    PortConns, MaxHead, MaxBytes, Buffers,                    \* PortMux
    MuxConns, MaxPackets,                                     \* MuxClose
    Logins, MaxFails, MaxRecords, MaxCompared, MaxTicks,      \* Login
    Targets, Sharers, TargetStr, Within, Checkers, MaxFail, MaxResults, MaxSessions,   \* Health
    FlowLimit,                                                \* Link
    PunchPorts, MaxAttempts,                                  \* Punch
    HostIds, Certs, Bad, MaxListeners, MaxHostOps,            \* Https
    Scripts, MaxConfigs                                       \* ConfigSession

VARIABLES
    part,
    v1, v2, v3, v4, v5, v6, v7, v8, v9, v10, v11, v12, v13, v14, v15, v16, v17, v18, v19

T == INSTANCE Tasks WITH
    Ids <- TaskIds, Ports <- TaskPorts, Taken <- TakenPorts, MaxOps <- MaxTaskOps,
    up <- v1, clients <- v2, tasks <- v3, task <- v4, lastTask <- v5, lastClient <- v6, disk <- v7,
    runList <- v8, servers <- v9, h <- v10, ops <- v11, crashes <- v12, tangled <- v13, acked <- v14

L == INSTANCE ConnLimit WITH
    now <- v1, pc <- v2, kind <- v3, owner <- v4, isReset <- v5, readers <- v6, deferred <- v7, resets <- v8,
    accepts <- v9, peak <- v10, switched <- v11

R == INSTANCE RateBucket WITH
    rate <- v1, rates <- v2, limit <- v3, surplus <- v4, session <- v5, res <- v6, pc <- v7, uses <- v8,
    size <- v9, epc <- v10

U == INSTANCE UdpProxy WITH
    MaxConn <- UdpMaxConn,
    serving <- v1, listening <- v2, addrMap <- v3, now <- v4, pc <- v5, addr <- v6, to <- v7, link <- v8,
    datagrams <- v9, writeFailed <- v10, crossed <- v11

P == INSTANCE PortMux WITH
    Conns <- PortConns,
    isClose <- v1, alive <- v2, pc <- v3, kind <- v4, waiting <- v5, listenerClosed <- v6, rs <- v7,
    start <- v8, taken <- v9, delivered <- v10, short <- v11

X == INSTANCE MuxClose WITH
    Ids <- MuxConns,
    alive <- v1, IsClose <- v2, pc <- v3, closeChan <- v4, newConnChOpen <- v5, connOpen <- v6,
    writeQueue <- v7, writeStop <- v8, newConnQueue <- v9, newConnStop <- v10, connMap <- v11,
    isClose <- v12, user <- v13, next <- v14, missed <- v15, late <- v16

G == INSTANCE Login WITH
    Handlers <- Logins,
    now <- v1, ipRecord <- v2, made <- v3, fails <- v4, last <- v5, req <- v6, compared <- v7, lost <- v8,
    restored <- v9

H == INSTANCE Health WITH
    Owners <- Sharers,
    up <- v1, sessions <- v2, fails <- v3, check <- v4, results <- v5, chan <- v6, apply <- v7, arr <- v8,
    removeArr <- v9, pick <- v10, nowIndex <- v11, alive <- v12

K == INSTANCE Link WITH
    kind <- v1, direct <- v2, open <- v3, gone <- v4, session <- v5, pc <- v6, spent <- v7, clientAddr <- v8,
    empty <- v9, limited <- v10, unclosed <- v11, refused <- v12

V == INSTANCE Punch WITH
    Ports <- PunchPorts,
    attempt <- v1, st <- v2, told <- v3, asks <- v4, replies <- v5, entry <- v6, ent <- v7, polls <- v8,
    net <- v9, served <- v10, stale <- v11, reached <- v12, okWith <- v13, byEnd <- v14

S == INSTANCE Https WITH
    Ids <- HostIds, MaxOps <- MaxHostOps,
    hosts <- v1, lastHost <- v2, cert <- v3, listenerMap <- v4, certMap <- v5, listeners <- v6,
    alive <- v7, pc <- v8, host <- v9, file <- v10, todo <- v11, val <- v12, own <- v13, ops <- v14,
    tangled <- v15

C == INSTANCE ConfigSession WITH
    MaxSessions <- MaxConfigs,
    items <- v1, isPub <- v2, session <- v3, npc <- v4, at <- v5, main <- v6, toServer <- v7, answers <- v8,
    broken <- v9, srv <- v10, item <- v11, piece <- v12, tasks <- v13, running <- v14, connected <- v15,
    deleted <- v16, orphaned <- v17, overtaken <- v18, missing <- v19

-----------------------------------------------------------------------------
(* What the proofs need of the constants.                                  *)

\* Ids count from one, and are numbers of 32 bits; the handlers of the console are neither
\* main nor DealBridgeTask.
ASSUME TaskAssumption ==
    /\ TaskIds \subseteq Nat \ {0} /\ 1 \in TaskIds
    /\ \E n \in TaskIds : \A t \in TaskIds : t <= n
    /\ T!Bridge \notin Web /\ T!Main \notin Web /\ MaxServers \in Nat

\* As many connections at a time as memory has room for; a limit of 0 is none.
ASSUME LimitAssumption ==
    /\ IsFiniteSet(Conns) /\ Owners # {} /\ MaxConn \in [Owners -> Nat]

\* A read or a write brings no more than its buffer holds.
ASSUME RateAssumption ==
    /\ IsFiniteSet(Conns) /\ Conns # {}
    /\ Sizes \subseteq Nat /\ \E n \in Sizes : \A m \in Sizes : m <= n
    /\ Limits \subseteq Nat /\ MaxRates \in Nat \ {0}

\* As many goroutines at a time as memory has room for.
ASSUME UdpAssumption == IsFiniteSet(Procs) /\ UdpMaxConn \in Nat

\* A connection sends at least the head that tells its kind.
ASSUME PortAssumption ==
    /\ MaxHead \in Nat \ {0} /\ MaxBytes \in Nat /\ MaxHead <= MaxBytes
    /\ Buffers \subseteq Nat

\* As many requests at a time as memory has room for.
ASSUME LoginAssumption ==
    /\ IsFiniteSet(Logins) /\ MaxFails \in Nat \ {0}
    /\ {MaxRecords, MaxCompared, MaxTicks} \subseteq Nat

ASSUME FlowAssumption == FlowLimit \in Nat

\* The ids of hosts count from one; no text is the certificate of no host.
ASSUME HostsAssumption == HostIds \subseteq Nat \ {0} /\ S!None \notin Certs

\* npc checks one target at least, and MaxFail is positive, or there are no checks.  A task or
\* host names each of its targets once; the text of each is in the text of all of them.
\* No target is called "nil".
ASSUME HealthAssumption ==
    /\ IsFiniteSet(Checkers) /\ MaxFail \in Nat \ {0} /\ MaxResults \in Nat
    /\ Targets \in Seq(STRING \ {"nil"}) /\ Targets # <<>>
    /\ \A o \in Sharers :
          /\ TargetStr[o] \in Seq(STRING \ {"nil"})
          /\ \A i, j \in 1 .. Len(TargetStr[o]) : TargetStr[o][i] = TargetStr[o][j] => i = j
          /\ \A i \in 1 .. Len(TargetStr[o]) : TargetStr[o][i] \in Within[o]

ASSUME AttemptsAssumption == MaxAttempts \in Nat

ASSUME PacketsAssumption == MaxPackets \in Nat

\* A task of a configuration has one port or several, of which two are modelled.
ASSUME ScriptAssumption ==
    /\ \A script \in Scripts : script \in Seq([kind : STRING, pieces : 1 .. 2])
    /\ MaxConfigs \in Nat

-----------------------------------------------------------------------------
\* The variables that a part has no use for.
Unused == 0

Init ==
    \/ /\ part = "tasks" /\ T!Init
       /\ v15 = Unused /\ v16 = Unused /\ v17 = Unused /\ v18 = Unused
       /\ v19 = Unused
    \/ /\ part = "limit" /\ L!Init
       /\ v12 = Unused /\ v13 = Unused /\ v14 = Unused /\ v15 = Unused
       /\ v16 = Unused /\ v17 = Unused /\ v18 = Unused /\ v19 = Unused
    \/ /\ part = "rate" /\ R!Init
       /\ v11 = Unused /\ v12 = Unused /\ v13 = Unused /\ v14 = Unused
       /\ v15 = Unused /\ v16 = Unused /\ v17 = Unused /\ v18 = Unused /\ v19 = Unused
    \/ /\ part = "udp" /\ U!Init
       /\ v12 = Unused /\ v13 = Unused /\ v14 = Unused /\ v15 = Unused
       /\ v16 = Unused /\ v17 = Unused /\ v18 = Unused /\ v19 = Unused
    \/ /\ part = "port" /\ P!Init
       /\ v12 = Unused /\ v13 = Unused /\ v14 = Unused /\ v15 = Unused
       /\ v16 = Unused /\ v17 = Unused /\ v18 = Unused /\ v19 = Unused
    \/ /\ part = "close" /\ X!Init
       /\ v17 = Unused /\ v18 = Unused /\ v19 = Unused
    \/ /\ part = "login" /\ G!Init
       /\ v10 = Unused /\ v11 = Unused /\ v12 = Unused /\ v13 = Unused
       /\ v14 = Unused /\ v15 = Unused /\ v16 = Unused /\ v17 = Unused /\ v18 = Unused
       /\ v19 = Unused
    \/ /\ part = "health" /\ H!Init
       /\ v13 = Unused /\ v14 = Unused /\ v15 = Unused /\ v16 = Unused
       /\ v17 = Unused /\ v18 = Unused /\ v19 = Unused
    \/ /\ part = "link" /\ K!Init
       /\ v13 = Unused /\ v14 = Unused /\ v15 = Unused /\ v16 = Unused
       /\ v17 = Unused /\ v18 = Unused /\ v19 = Unused
    \/ /\ part = "punch" /\ V!Init
       /\ v15 = Unused /\ v16 = Unused /\ v17 = Unused /\ v18 = Unused
       /\ v19 = Unused
    \/ /\ part = "https" /\ S!Init
       /\ v16 = Unused /\ v17 = Unused /\ v18 = Unused /\ v19 = Unused
    \/ /\ part = "config" /\ C!Init

Next ==
    \/ /\ part = "tasks" /\ T!Next
       /\ UNCHANGED <<part, v15, v16, v17, v18, v19>>
    \/ /\ part = "limit" /\ L!Next
       /\ UNCHANGED <<part, v12, v13, v14, v15, v16, v17, v18, v19>>
    \/ /\ part = "rate" /\ R!Next
       /\ UNCHANGED <<part, v11, v12, v13, v14, v15, v16, v17, v18, v19>>
    \/ /\ part = "udp" /\ U!Next
       /\ UNCHANGED <<part, v12, v13, v14, v15, v16, v17, v18, v19>>
    \/ /\ part = "port" /\ P!Next
       /\ UNCHANGED <<part, v12, v13, v14, v15, v16, v17, v18, v19>>
    \/ /\ part = "close" /\ X!Next
       /\ UNCHANGED <<part, v17, v18, v19>>
    \/ /\ part = "login" /\ G!Next
       /\ UNCHANGED <<part, v10, v11, v12, v13, v14, v15, v16, v17, v18, v19>>
    \/ /\ part = "health" /\ H!Next
       /\ UNCHANGED <<part, v13, v14, v15, v16, v17, v18, v19>>
    \/ /\ part = "link" /\ K!Next
       /\ UNCHANGED <<part, v13, v14, v15, v16, v17, v18, v19>>
    \/ /\ part = "punch" /\ V!Next
       /\ UNCHANGED <<part, v15, v16, v17, v18, v19>>
    \/ /\ part = "https" /\ S!Next
       /\ UNCHANGED <<part, v16, v17, v18, v19>>
    \/ /\ part = "config" /\ C!Next
       /\ UNCHANGED <<part>>

vars == <<part, v1, v2, v3, v4, v5, v6, v7, v8, v9, v10, v11, v12, v13, v14, v15, v16, v17, v18, v19>>

Spec == Init /\ [][Next]_vars

-----------------------------------------------------------------------------
(* The properties, as the modules state them.                                *)

\* What listens, RunList, the database and the files agree on each task (server.go, db.go,
\* file.go), when no two activities on it overlapped.
TasksSound == part = "tasks" => T!TasksSound

\* A task that was stopped or deleted does not listen again, also after a crash
\* (server.go, file.go).
StaysDown == part = "tasks" => T!StaysDown

\* A client, or a port, is charged for the connections it has, and its limit is exceeded
\* by no more than the race between the test and the count (obj.go GetConn, http.go).
LimitSound == part = "limit" => L!LimitSound

\* A bucket never holds more than its limit allows, and one session fills it (rate.go).
RateSound == part = "rate" => R!RateSound

\* A user's address leads to a link that is served, and each link is counted (udp.go).
UdpSound == part = "udp" => U!UdpSound

\* Who accepts a connection of the shared port reads it from its first byte, each byte
\* once (pmux.go, pconn.go).
PortSound == part = "port" => P!PortSound

\* Once a session is closed everything of it ends (mux.go, map.go, queue.go).
CloseSound == part = "close" => X!CloseSound

\* An address that failed too often is locked out (login.go).
LoginSound == part = "login" => G!LoginSound

\* nps offers the targets that npc finds healthy (health.go, bridge.go).
HealthSound == part = "health" => H!HealthSound

\* Nothing of a link that is over is left open at either end (pool.go, client.go,
\* socks5.go).
LinkSound == part = "link" => K!LinkSound

\* A path of two clients works both ways, and they are told each other's addresses
\* (p2p.go, control.go).
PunchSound == part = "punch" => V!PunchSound

\* A connection gets the certificate of its own host, and the maps agree (https.go).
HttpsSound == part = "https" => S!HttpsSound

\* What npc was told of its configuration is so, and a refused one leaves nothing behind
\* (control.go, bridge.go).
ConfigSound == part = "config" => C!ConfigSound

=============================================================================
