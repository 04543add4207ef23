----------------------------- MODULE ConnLimit ------------------------------
(***************************************************************************)
(* The count of connections under way, NowConn, which GetConn and AddConn  *)
(* (lib/file/obj.go) keep for a client, or for a port of socks5, along the *)
(* paths of the proxy servers (server/proxy): tcp.go and socks5.go serve   *)
(* one connection for one owner; http.go may find in a later request of    *)
(* the connection that it is for another host, of another client, and      *)
(* starts over for that one (the label reset).                             *)
(*                                                                         *)
(* A goroutine per connection takes these steps; the goroutine of http.go  *)
(* that reads a link writes isReset as well.  What a request asks for, and *)
(* whether flow, expiry, a blacklist, authentication or the bridge refuse  *)
(* it, is a free choice.                                                   *)
(*                                                                         *)
(* A definition named X_Y is a variant of X as a slip in the code would    *)
(* make it; the specification never uses it.                               *)
(***************************************************************************)
EXTENDS Integers, FiniteSets

CONSTANTS
    Conns,         \* connections of users
    Owners,        \* what has a NowConn: clients, and the ports of socks5
    MaxConn,       \* Owners -> the limit, 0 for none
    MaxResets,     \* bound on the changes of host in a connection
    MaxAccepts     \* bound on the connections accepted

VARIABLES
    now,           \* Owners -> NowConn
    pc,            \* the goroutine of a connection
    kind,          \* "single" (tcp, socks5) or "http"
    owner,         \* whom it is counted for: host.Client in http.go
    isReset,
    readers,       \* http: goroutines started that have not yet set isReset
    deferred,      \* http: the owners that a deferred AddConn gives back to
    resets,        \* http: changes of host so far
    accepts,
    \* history
    peak,          \* most connections ever between the test and the count of GetConn
    switched       \* owners that a connection was reset to

lvars == <<kind, owner, isReset, readers, deferred, resets>>
hist == <<peak, switched>>
vars == <<now, pc, lvars, accepts, hist>>

Init ==
    /\ now = [o \in Owners |-> 0]
    /\ pc = [c \in Conns |-> "idle"] /\ kind = [c \in Conns |-> "single"]
    /\ owner = [c \in Conns |-> CHOOSE o \in Owners : TRUE]
    /\ isReset = [c \in Conns |-> FALSE] /\ readers = [c \in Conns |-> 0]
    /\ deferred = [c \in Conns |-> {}] /\ resets = [c \in Conns |-> 0]
    /\ accepts = 0
    /\ peak = [o \in Owners |-> 0] /\ switched = {}

Move(c, from, to) == pc[c] = from /\ pc' = [pc EXCEPT ![c] = to]

Accept(c, k, o) ==
    /\ accepts < MaxAccepts /\ accepts' = accepts + 1
    /\ Move(c, "idle", "check")
    /\ kind' = [kind EXCEPT ![c] = k]
    /\ owner' = [owner EXCEPT ![c] = o]
    /\ isReset' = [isReset EXCEPT ![c] = FALSE]
    /\ resets' = [resets EXCEPT ![c] = 0]
    /\ UNCHANGED <<now, readers, deferred, hist>>

-----------------------------------------------------------------------------
(* CheckFlowAndConnNum, CheckFlowAndConnNumByPort and GetConn.             *)

Passed(o) == Cardinality({c \in Conns : pc[c] = "count" /\ owner[c] = o})
Larger(a, b) == IF a > b THEN a ELSE b

Below(o) == MaxConn[o] = 0 \/ now[o] < MaxConn[o]

TestLimit(c) ==
    LET o == owner[c]
    IN  /\ Move(c, "check", "count")
        /\ Below(o)
        /\ peak' = [peak EXCEPT ![o] = Larger(@, Passed(o) + 1)]
        /\ UNCHANGED <<now, lvars, accepts, switched>>

\* CutConn adds one.  http.go defers the AddConn of a connection's first client.
CutConn(c) ==
    /\ Move(c, "count", "open")
    /\ now' = [now EXCEPT ![owner[c]] = @ + 1]
    /\ UNCHANGED <<lvars, accepts, hist>>

\* The connection is closed and what was deferred is called: at once when it is over
\* the limit, expired or out of flow.  A reader that begins later finds its isReset
\* a variable that nobody reads any more.
ToGiveBack_Last(c) == IF deferred[c] = {} THEN {} ELSE {owner[c]}
ToGiveBack(c) == deferred[c]

Return(c) ==
    /\ now' = [o \in Owners |-> IF o \in ToGiveBack(c) THEN now[o] - 1 ELSE now[o]]
    /\ deferred' = [deferred EXCEPT ![c] = {}]
    /\ readers' = [readers EXCEPT ![c] = 0]
    /\ UNCHANGED <<kind, owner, isReset, resets, accepts, hist>>

Refuse(c) == Move(c, "check", "idle") /\ Return(c)

-----------------------------------------------------------------------------
(* tcp.go and socks5.go: process, then AddConn, whatever became of it.     *)

AddConn(c) ==
    /\ kind[c] = "single"
    /\ Move(c, "open", "idle")
    /\ now' = [now EXCEPT ![owner[c]] = @ - 1]
    /\ UNCHANGED <<lvars, accepts, hist>>

-----------------------------------------------------------------------------
(* http.go: handleHttp.                                                    *)

Defer(c) ==
    /\ kind[c] = "http"
    /\ Move(c, "open", "link")
    /\ deferred' = [deferred EXCEPT ![c] = IF isReset[c] THEN @ ELSE @ \cup {owner[c]}]
    /\ UNCHANGED <<now, kind, owner, isReset, readers, resets, accepts, hist>>

\* Authentication, the targets, the blacklist or the bridge refuse.
LinkFails(c) == Move(c, "link", "idle") /\ Return(c)

\* The goroutine that reads the link starts; it sets isReset when it runs.
Link(c) ==
    /\ Move(c, "link", "serve")
    /\ readers' = [readers EXCEPT ![c] = @ + 1]
    /\ UNCHANGED <<now, kind, owner, isReset, deferred, resets, accepts, hist>>

ReaderBegins(c) ==
    /\ readers[c] > 0
    /\ readers' = [readers EXCEPT ![c] = @ - 1]
    /\ isReset' = [isReset EXCEPT ![c] = FALSE]
    /\ UNCHANGED <<now, pc, kind, owner, deferred, resets, accepts, hist>>

\* A request for another host: "goto reset".
OtherHost(c, o) ==
    /\ Move(c, "serve", "reset")
    /\ resets[c] < MaxResets
    /\ resets' = [resets EXCEPT ![c] = @ + 1]
    /\ owner' = [owner EXCEPT ![c] = o]
    /\ isReset' = [isReset EXCEPT ![c] = TRUE]
    /\ switched' = switched \cup {o}
    /\ UNCHANGED <<now, kind, readers, deferred, accepts, peak>>

\* The client to give back to is read from host, which is the new one by now.  The
\* host is looked up again, and may be gone by now, or blocked.
Reset(c) ==
    \/ /\ Move(c, "reset", "check")
       /\ now' = IF isReset[c] THEN [now EXCEPT ![owner[c]] = @ - 1] ELSE now
       /\ UNCHANGED <<lvars, accepts, hist>>
    \/ /\ Move(c, "reset", "idle")
       /\ now' = [o \in Owners |->
                     now[o] - (IF o \in ToGiveBack(c) THEN 1 ELSE 0)
                            - (IF isReset[c] /\ o = owner[c] THEN 1 ELSE 0)]
       /\ deferred' = [deferred EXCEPT ![c] = {}]
       /\ readers' = [readers EXCEPT ![c] = 0]
       /\ UNCHANGED <<kind, owner, isReset, resets, accepts, hist>>

\* The connection or the link breaks, or a request cannot be parsed.
Finish(c) == Move(c, "serve", "idle") /\ Return(c)

Next ==
    \E c \in Conns :
        \/ \E k \in {"single", "http"}, o \in Owners : Accept(c, k, o)
        \/ TestLimit(c) \/ CutConn(c) \/ Refuse(c) \/ AddConn(c)
        \/ Defer(c) \/ LinkFails(c) \/ Link(c) \/ ReaderBegins(c)
        \/ \E o \in Owners : OtherHost(c, o)
        \/ Reset(c) \/ Finish(c)

Spec == Init /\ [][Next]_vars

-----------------------------------------------------------------------------
(* Properties.                                                             *)

TypeOK ==
    /\ now \in [Owners -> Int] /\ peak \in [Owners -> 0 .. Cardinality(Conns)]
    /\ pc \in [Conns -> {"idle", "check", "count", "open", "link", "serve", "reset"}]
    /\ kind \in [Conns -> {"single", "http"}] /\ owner \in [Conns -> Owners]
    /\ isReset \in [Conns -> BOOLEAN] /\ readers \in [Conns -> Nat]
    /\ deferred \in [Conns -> SUBSET Owners] /\ switched \subseteq Owners

\* A connection holds one of the connections of o.
Holds(c, o) ==
    \/ o \in deferred[c]
    \/ o = owner[c] /\ pc[c] = "open"

\* NowConn is the number of connections counted and not yet given back, on every
\* path through the servers, for an owner that no connection was switched to: there
\* the code gives back to the new client what it took from the old one.
CountIsExact ==
    \A o \in Owners \ switched : now[o] = Cardinality({c \in Conns : Holds(c, o)})

\* The limit is exceeded by no more connections than were ever accepted between the
\* test and the count of another one.
LimitHolds ==
    \A o \in Owners :
        MaxConn[o] > 0 => now[o] + Passed(o) <= MaxConn[o] + Larger(peak[o] - 1, 0)

LimitSound == TypeOK /\ CountIsExact /\ LimitHolds

=============================================================================
