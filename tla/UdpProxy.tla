------------------------------ MODULE UdpProxy ------------------------------
(***************************************************************************)
(* A UDP task (server/proxy/udp.go): every datagram is processed in a      *)
(* goroutine of its own.  It goes into the link that addrMap has for its   *)
(* address, or the goroutine opens a link, stores it and then serves it:   *)
(* what the link brings is sent to the address, until nothing came for     *)
(* 60 s.                                                                   *)
(*                                                                         *)
(* The loads and stores of addrMap, the count of connections of the client *)
(* and the link are separate steps.  When the link is silent, when it      *)
(* breaks and what the bridge answers is free.                             *)
(*                                                                         *)
(* A definition named X_Y is a variant of X as a slip in the code would    *)
(* make it; the specification never uses it.                               *)
(***************************************************************************)
EXTENDS Integers, FiniteSets

CONSTANTS
    Addrs,          \* addresses of users
    Procs,          \* goroutines: bound on the datagrams at a time
    MaxConn,        \* Client.MaxConn, 0 for none
    MaxDatagrams    \* bound on the datagrams received

None == "none"

VARIABLES
    serving,        \* the loop of Start runs
    listening,      \* the listener is open
    addrMap,        \* address -> the goroutine whose link is stored, or None
    now,            \* Client.NowConn
    pc, addr, to,   \* goroutine -> its step, its address, the link it found
    link,           \* goroutine -> its link: "none", "open" or "closed"
    datagrams,
    \* history
    writeFailed,    \* addresses for which a goroutine left at a failed write
    crossed         \* addresses at which two goroutines had a link at a time

vars == <<serving, listening, addrMap, now, pc, addr, to, link, datagrams, writeFailed, crossed>>
server == <<serving, listening>>
hist == <<writeFailed, crossed>>

Init ==
    /\ serving = TRUE /\ listening = TRUE
    /\ addrMap = [a \in Addrs |-> None] /\ now = 0
    /\ pc = [p \in Procs |-> "idle"] /\ addr = [p \in Procs |-> None]
    /\ to = [p \in Procs |-> None] /\ link = [p \in Procs |-> "none"]
    /\ datagrams = 0 /\ writeFailed = {} /\ crossed = {}

Move(p, from, dest) == pc[p] = from /\ pc' = [pc EXCEPT ![p] = dest]

-----------------------------------------------------------------------------
(* Start and Close.                                                        *)

Receive(p, a) ==
    /\ serving /\ listening /\ datagrams < MaxDatagrams
    /\ Move(p, "idle", "load")
    /\ addr' = [addr EXCEPT ![p] = a]
    /\ datagrams' = datagrams + 1
    /\ UNCHANGED <<server, addrMap, now, to, link, hist>>

\* A datagram from a blacklisted address ends the loop, for all addresses; the
\* listener stays open.
Blacklisted ==
    /\ serving /\ listening
    /\ serving' = FALSE
    /\ UNCHANGED <<listening, addrMap, now, pc, addr, to, link, datagrams, hist>>

Close ==
    /\ listening
    /\ listening' = FALSE /\ serving' = FALSE
    /\ UNCHANGED <<addrMap, now, pc, addr, to, link, datagrams, hist>>

-----------------------------------------------------------------------------
(* process.                                                                *)

Load(p) ==
    /\ Move(p, "load", IF addrMap[addr[p]] = None THEN "check" ELSE "forward")
    /\ to' = [to EXCEPT ![p] = addrMap[addr[p]]]
    /\ UNCHANGED <<server, addrMap, now, addr, link, datagrams, hist>>

\* Into the link of another goroutine; an error is only logged.
Forward(p) ==
    /\ Move(p, "forward", "idle")
    /\ to' = [to EXCEPT ![p] = None]
    /\ UNCHANGED <<server, addrMap, now, addr, link, datagrams, hist>>

\* CheckFlowAndConnNum; the test and the count of GetConn are one step here, the
\* interleaving of the two being that of ConnLimit.
Check(p) ==
    \/ /\ Move(p, "check", "open")
       /\ MaxConn = 0 \/ now < MaxConn
       /\ now' = now + 1
       /\ UNCHANGED <<server, addrMap, addr, to, link, datagrams, hist>>
    \/ /\ Move(p, "check", "idle")
       /\ UNCHANGED <<server, addrMap, now, addr, to, link, datagrams, hist>>

Linked(a) == {q \in Procs : addr[q] = a /\ pc[q] \in {"store", "write", "read"}}

SendLinkInfo(p) ==
    \/ /\ Move(p, "open", "store")
       /\ link' = [link EXCEPT ![p] = "open"]
       /\ crossed' = IF Linked(addr[p]) # {} THEN crossed \cup {addr[p]} ELSE crossed
       /\ UNCHANGED <<server, addrMap, now, addr, to, datagrams, writeFailed>>
    \/ /\ Move(p, "open", "return")
       /\ UNCHANGED <<server, addrMap, now, addr, to, link, datagrams, hist>>

Store(p) ==
    /\ Move(p, "store", "write")
    /\ addrMap' = [addrMap EXCEPT ![addr[p]] = p]
    /\ UNCHANGED <<server, now, addr, to, link, datagrams, hist>>

\* The first datagram goes into the link; a failure leaves the entry where it is.
Write(p) ==
    \/ /\ Move(p, "write", "read")
       /\ UNCHANGED <<server, addrMap, now, addr, to, link, datagrams, hist>>
    \/ /\ Move(p, "write", "return")
       /\ writeFailed' = writeFailed \cup {addr[p]}
       /\ UNCHANGED <<server, addrMap, now, addr, to, link, datagrams, crossed>>

\* 60 s of silence, or the link breaks: the entry of the address is deleted, whoever
\* stored it.
Forget_Not(a) == addrMap
Forget(a) == [addrMap EXCEPT ![a] = None]

ReadFails(p) ==
    /\ Move(p, "read", "return")
    /\ addrMap' = Forget(addr[p])
    /\ UNCHANGED <<server, now, addr, to, link, datagrams, hist>>

\* What the link brings cannot be sent once the listener is closed.  When it can,
\* the goroutine is where it was.
SendBackFails(p) ==
    /\ ~listening
    /\ Move(p, "read", "return")
    /\ writeFailed' = writeFailed \cup {addr[p]}
    /\ UNCHANGED <<server, addrMap, now, addr, to, link, datagrams, crossed>>

\* The deferred calls.
Return(p) ==
    /\ Move(p, "return", "idle")
    /\ now' = now - 1
    /\ link' = [link EXCEPT ![p] = "none"]
    /\ UNCHANGED <<server, addrMap, addr, to, datagrams, hist>>

Next ==
    \/ Blacklisted \/ Close
    \/ \E p \in Procs :
        \/ \E a \in Addrs : Receive(p, a)
        \/ Load(p) \/ Forward(p) \/ Check(p) \/ SendLinkInfo(p) \/ Store(p)
        \/ Write(p) \/ ReadFails(p) \/ SendBackFails(p) \/ Return(p)

Spec == Init /\ [][Next]_vars

-----------------------------------------------------------------------------
(* Properties.                                                             *)

TypeOK ==
    /\ serving \in BOOLEAN /\ listening \in BOOLEAN
    /\ addrMap \in [Addrs -> Procs \cup {None}] /\ now \in 0 .. Cardinality(Procs)
    /\ pc \in [Procs -> {"idle", "load", "forward", "check", "open", "store", "write", "read",
                         "return"}]
    /\ to \in [Procs -> Procs \cup {None}] /\ link \in [Procs -> {"none", "open"}]
    /\ writeFailed \subseteq Addrs /\ crossed \subseteq Addrs

\* An address finds a link that its goroutine still serves, so that a datagram is not
\* written into one that is closed, unless a write failed for it or two datagrams of
\* a new address opened a link each: only then an entry may outlive its link, or a
\* link its entry.
EntryIsServed ==
    \A a \in Addrs \ (writeFailed \cup crossed) :
        /\ addrMap[a] # None => addr[addrMap[a]] = a /\ pc[addrMap[a]] \in {"write", "read"}
        /\ \A p \in Procs : addr[p] = a /\ pc[p] \in {"write", "read"} => addrMap[a] = p

\* The client is charged one connection for every goroutine that has a link or asks
\* for one, and MaxConn bounds them.
LinksAreCounted ==
    /\ now = Cardinality({p \in Procs : pc[p] \in {"open", "store", "write", "read", "return"}})
    /\ MaxConn # 0 => now <= MaxConn

UdpSound == TypeOK /\ EntryIsServed /\ LinksAreCounted

=============================================================================
