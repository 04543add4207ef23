-------------------------------- MODULE Link --------------------------------
(***************************************************************************)
(* The life of one link, at both ends: the handler of a TCP task or of a   *)
(* SOCKS5 task (server/proxy/tcp.go, socks5.go, base.go DealClient), the   *)
(* bridge that opens a connection of the session for it (SendLinkInfo),    *)
(* the client's handler of that connection (client.go handleChan and       *)
(* handleUdp), and the goroutines that copy (lib/goroutine/pool.go).       *)
(*                                                                         *)
(*   user -- up --> near ==session== far -- cup --> target                 *)
(*   user <- down - near ==session== far <- cdown - target                 *)
(*                                                                         *)
(* For a SOCKS5 association the datagrams go through `reply', `user' is    *)
(* the TCP connection that asked for it, and `target' the client's UDP     *)
(* socket.  With LocalProxy the server dials the target itself: `near' is  *)
(* then that connection and there is no `far'.                             *)
(*                                                                         *)
(* The bytes are left out, but for how many copies the client's flow       *)
(* limit allows.  What a user asks for, whether a dial succeeds, when the  *)
(* user, the target or the session goes are free.                          *)
(*                                                                         *)
(* A definition named X_Y is a variant of X as a slip in the code would    *)
(* make it; the specification never uses it.                               *)
(***************************************************************************)
EXTENDS Naturals, FiniteSets

CONSTANT FlowLimit      \* copies that the flow limit of the client allows

Ends == {"user", "reply", "near", "far", "target"}
Copies == {"up", "down", "cup", "cdown"}

VARIABLES
    kind,       \* "tcp", "connect", "udp", or "socks5" before the request is read
    direct,     \* LocalProxy of the task
    open,       \* the ends that are open
    gone,       \* those of user, near (direct) and target whose other side has left
    session,    \* the session between the bridge and the client is up
    pc,         \* step of the handlers, of the copies
    spent,      \* ExportFlow + InletFlow, in copies
    clientAddr, \* handleUDP knows where the user's datagrams come from
    empty,      \* datagrams of no target: "none", "sent" by the client, "given" to the user
    \* history
    limited,    \* the copies the flow limit has ended
    unclosed,   \* the handler left without closing the user's connection
    refused     \* the client could not unpack, or not send, a datagram

vars == <<kind, direct, open, gone, session, pc, spent, clientAddr, empty, limited, unclosed, refused>>
udpvars == <<clientAddr, empty, refused>>
flow == <<spent, limited>>

Init ==
    /\ kind \in {"tcp", "socks5"} /\ direct \in BOOLEAN
    /\ open = {"user"} /\ gone = {} /\ session = TRUE
    /\ pc = [w \in Copies \cup {"server", "client"} |-> IF w = "server" THEN "request" ELSE "none"]
    /\ spent = 0 /\ clientAddr = FALSE /\ empty = "none"
    /\ limited = {} /\ unclosed = FALSE /\ refused = FALSE

Goes(w, from, to) == pc[w] = from /\ pc' = [pc EXCEPT ![w] = to]

\* A read of the end fails.
Broken(e) ==
    \/ e \notin open \/ e \in gone
    \/ e = "near" /\ ~direct /\ "far" \notin open
    \/ e = "far" /\ "near" \notin open

Source(w) ==
    CASE w = "up" -> IF kind = "udp" THEN "reply" ELSE "user"
      [] w = "down" -> "near" [] w = "cup" -> "far" [] w = "cdown" -> "target"
Dest(w) ==
    CASE w = "up" -> "near" [] w = "down" -> IF kind = "udp" THEN "reply" ELSE "user"
      [] w = "cup" -> "target" [] w = "cdown" -> "far"

-----------------------------------------------------------------------------
(* The server's handler up to the link.                                    *)

\* A blacklisted address, no target, a greeting, an authentication or a command that
\* is refused, for an association also an address type, or no UDP port.
Refuse ==
    /\ Goes("server", "request", "left")
    /\ open' = open \ {"user"}
    /\ UNCHANGED <<kind, direct, gone, session, flow, udpvars, unclosed>>

\* ProcessTunnel, and handleRequest: handleBind does nothing, and doConnect returns
\* after the reply to an address type it does not know.
AskTcp ==
    /\ kind = "tcp" /\ Goes("server", "request", "link")
    /\ UNCHANGED <<kind, direct, open, gone, session, flow, udpvars, unclosed>>

AskConnect ==
    /\ kind = "socks5" /\ kind' = "connect" /\ Goes("server", "request", "link")
    /\ UNCHANGED <<direct, open, gone, session, flow, udpvars, unclosed>>

AskNothing ==
    /\ kind = "socks5" /\ Goes("server", "request", "left")
    /\ unclosed' = TRUE
    /\ UNCHANGED <<kind, direct, open, gone, session, flow, udpvars>>

AskUdp ==
    /\ kind = "socks5" /\ kind' = "udp" /\ Goes("server", "request", "link")
    /\ direct' = FALSE
    /\ open' = open \cup {"reply"}
    /\ UNCHANGED <<gone, session, flow, udpvars, unclosed>>

-----------------------------------------------------------------------------
(* SendLinkInfo, and what its callers do with the answer.                  *)

NoLink ==
    /\ Goes("server", "link", "left")
    /\ open' = open \ {"user", "reply"}
    /\ UNCHANGED <<kind, direct, gone, session, flow, udpvars, unclosed>>

SendLinkInfo ==
    /\ pc["server"] = "link"
    /\ direct \/ session
    /\ pc' = [pc EXCEPT !["server"] = IF kind = "udp" THEN "control" ELSE "wait",
                        !["up"] = "copy", !["down"] = "copy",
                        !["client"] = IF direct THEN "none" ELSE "accept"]
    /\ open' = open \cup IF direct THEN {"near"} ELSE {"near", "far"}
    /\ UNCHANGED <<kind, direct, gone, session, flow, udpvars, unclosed>>

\* copyConns is done, so CopyWaitGroup, DealClient and the handler return.
CopyWaitGroup(h, w1, w2) ==
    /\ pc[w1] = "ended" /\ pc[w2] = "ended"
    /\ Goes(h, "wait", "left")
    /\ UNCHANGED <<kind, direct, open, gone, session, flow, udpvars, unclosed>>

\* handleUDP reads the user's connection until that fails; the deferred calls.
Control ==
    /\ Broken("user") /\ Goes("server", "control", "left")
    /\ open' = open \ {"user", "near", "reply"}
    /\ UNCHANGED <<kind, direct, gone, session, flow, udpvars, unclosed>>

-----------------------------------------------------------------------------
(* The client's handler.                                                   *)

\* No link information, no connection to the target, or no UDP port.
RejectLink ==
    /\ Goes("client", "accept", "left")
    /\ open' = open \ {"far"}
    /\ UNCHANGED <<kind, direct, gone, session, flow, udpvars, unclosed>>

AcceptLink ==
    /\ pc["client"] = "accept" /\ "far" \in open
    /\ pc' = [pc EXCEPT !["client"] = IF kind = "udp" THEN "udp" ELSE "wait",
                        !["cup"] = "copy", !["cdown"] = "copy"]
    /\ open' = open \cup {"target"}
    /\ UNCHANGED <<kind, direct, gone, session, flow, udpvars, unclosed>>

\* After handleUdp, handleChan goes on to dial "udp5", a network there is not, and
\* closes the connection once more.
DialUdp5 ==
    /\ pc["cup"] = "ended" /\ Goes("client", "udp", "left")
    /\ open' = open \ {"far"}
    /\ UNCHANGED <<kind, direct, gone, session, flow, udpvars, unclosed>>

-----------------------------------------------------------------------------
(* copyConnGroup of either side, and the goroutines of handleUDP and       *)
(* handleUdp, which stand for it in an association.                        *)

\* CopyBuffer counts and breaks off at the limit, without an error.
Copy(w) ==
    /\ pc[w] = "copy" /\ w \in {"up", "down"} /\ kind # "udp"
    /\ {Source(w), Dest(w)} \subseteq open
    /\ spent' = spent + 1
    /\ IF spent' > FlowLimit
       THEN Goes(w, "copy", "ended") /\ limited' = limited \cup {w}
       ELSE UNCHANGED <<pc, limited>>
    /\ UNCHANGED <<kind, direct, open, gone, session, udpvars, unclosed>>

\* What a copy closes when a read or a write fails.
Closed_OnlySource(w) == {Source(w)}
Closed(w) ==
    IF kind # "udp" THEN {Source(w), Dest(w)}
    ELSE CASE w \in {"up", "down"} -> {"user"}
           [] w = "cup" -> {"target"}
           [] OTHER -> {"far"}

\* The client's goroutine goes on when its socket is closed: only a failed write
\* ends it.  A datagram of a stranger comes before the user's first one: handleUDP
\* has no address to send it to.
CopyFails(w) ==
    /\ \/ kind = "udp" /\ w = "cdown" /\ Broken("far")
       \/ (kind = "udp" => w # "cdown") /\ (Broken(Source(w)) \/ Broken(Dest(w)))
       \/ kind = "udp" /\ w = "down" /\ ~clientAddr
    /\ Goes(w, "copy", IF kind = "udp" /\ w = "cup" THEN "closing" ELSE "ended")
    /\ open' = open \ Closed(w)
    /\ UNCHANGED <<kind, direct, gone, session, flow, udpvars, unclosed>>

\* The two deferred calls of handleUdp: its socket, then the connection.
CloseServerConn ==
    /\ Goes("cup", "closing", "ended")
    /\ open' = open \ {"far"}
    /\ UNCHANGED <<kind, direct, gone, session, flow, udpvars, unclosed>>

Datagram ==
    /\ kind = "udp" /\ pc["up"] = "copy" /\ {"reply", "near"} \subseteq open
    /\ clientAddr' = TRUE
    /\ UNCHANGED <<kind, direct, open, gone, session, pc, flow, empty, refused, unclosed>>

\* The client cannot unpack the datagram, or not send it.
BadDatagram ==
    /\ kind = "udp" /\ clientAddr /\ "far" \in open
    /\ Goes("cup", "copy", "closing")
    /\ refused' = TRUE
    /\ open' = open \ {"target"}
    /\ UNCHANGED <<kind, direct, gone, session, flow, clientAddr, empty, unclosed>>

\* A failed ReadFrom is only logged: what it returned, nothing from nobody, is sent.
SendEmpty ==
    /\ kind = "udp" /\ pc["cdown"] = "copy" /\ "target" \notin open /\ ~Broken("far")
    /\ empty = "none" /\ empty' = "sent"
    /\ UNCHANGED <<kind, direct, open, gone, session, pc, flow, clientAddr, refused, unclosed>>

GiveEmpty ==
    /\ pc["down"] = "copy" /\ {"near", "reply"} \subseteq open /\ clientAddr
    /\ empty = "sent" /\ empty' = "given"
    /\ UNCHANGED <<kind, direct, open, gone, session, pc, flow, clientAddr, refused, unclosed>>

-----------------------------------------------------------------------------
(* External: the user and the target leave, the session ends and takes its *)
(* connections with it.                                                    *)

Leave(e) ==
    /\ e \in open \ gone
    /\ \/ e = "user"
       \/ e = "near" /\ direct
       \/ e = "target" /\ kind # "udp"
    /\ gone' = gone \cup {e}
    /\ UNCHANGED <<kind, direct, open, session, pc, flow, udpvars, unclosed>>

SessionEnds ==
    /\ session /\ session' = FALSE
    /\ open' = IF direct THEN open ELSE open \ {"near", "far"}
    /\ UNCHANGED <<kind, direct, gone, pc, flow, udpvars, unclosed>>

Next ==
    \/ Refuse \/ AskTcp \/ AskConnect \/ AskNothing \/ AskUdp
    \/ NoLink \/ SendLinkInfo \/ Control
    \/ CopyWaitGroup("server", "up", "down") \/ CopyWaitGroup("client", "cup", "cdown")
    \/ RejectLink \/ AcceptLink \/ DialUdp5
    \/ \E w \in Copies : Copy(w) \/ CopyFails(w)
    \/ CloseServerConn \/ Datagram \/ BadDatagram \/ SendEmpty \/ GiveEmpty
    \/ \E e \in Ends : Leave(e)
    \/ SessionEnds

Spec == Init /\ [][Next]_vars

-----------------------------------------------------------------------------
(* Properties.                                                             *)

TypeOK ==
    /\ kind \in {"tcp", "socks5", "connect", "udp"} /\ direct \in BOOLEAN /\ session \in BOOLEAN
    /\ open \subseteq Ends /\ gone \subseteq {"user", "near", "target"}
    /\ \A w \in Copies : pc[w] \in {"none", "copy", "closing", "ended"}
    /\ pc["server"] \in {"request", "link", "wait", "control", "left"}
    /\ pc["client"] \in {"none", "accept", "wait", "udp", "left"}
    /\ spent \in 0 .. FlowLimit + 2 /\ limited \subseteq {"up", "down"}
    /\ empty \in {"none", "sent", "given"} /\ clientAddr \in BOOLEAN

\* Nobody has a step left to do but to go on reading from an end that is whole.
Settled ==
    /\ pc["server"] \in {"left", "wait", "control"} /\ pc["client"] # "accept"
    /\ pc["server"] = "wait" => {pc["up"], pc["down"]} # {"ended"}
    /\ pc["server"] = "control" => ~Broken("user")
    /\ pc["client"] = "wait" => {pc["cup"], pc["cdown"]} # {"ended"}
    /\ pc["client"] = "udp" => pc["cup"] # "ended"
    /\ \A w \in Copies : pc[w] # "closing" /\ (pc[w] = "copy" => ~Broken(Source(w)))

\* Something of the link has come to its end.
Over ==
    \/ gone # {} \/ "left" \in {pc["server"], pc["client"]}
    \/ ~session /\ ~direct

\* When one side of a link is over, and everything that follows from it has been
\* done, nothing of the link is left open at either end: no descriptor, connection of
\* the session or goroutine that stays for ever.  There are two exceptions: the
\* requests that are answered but not closed, and the copies that the flow limit
\* ended, which close nothing.
NothingLeft == Settled /\ Over => open = {} \/ unclosed \/ limited # {}

\* A user of an association gets a datagram that no target has sent only after the
\* client has given up on one of the user's.
NothingMadeUp == empty = "given" => refused

LinkSound == TypeOK /\ NothingLeft /\ NothingMadeUp

=============================================================================
