-------------------------------- MODULE Punch -------------------------------
(***************************************************************************)
(* Two clients look for a path of their own: the visitor of a p2p task     *)
(* (client/local.go) asks the bridge, which tells the provider; both send  *)
(* a datagram from one socket to each of the server's ports                *)
(* (server/proxy/p2p.go), which tells each of them the address of the      *)
(* other, and then try that address (client/control.go handleP2PUdp,       *)
(* sendP2PTestMsg).                                                        *)
(*                                                                         *)
(* A client is its address: 0 is the visitor, whose monitor keeps one      *)
(* address for all its attempts, k the provider's socket of attempt k.     *)
(* All datagrams may be lost or late, those between the clients doubled    *)
(* too.  There is one visitor and one password; the server's ports are     *)
(* told apart, the ports a NAT gives to a client are not.                  *)
(*                                                                         *)
(* A definition named X_Y is a variant of X as a slip in the code would    *)
(* make it; the specification never uses it.                               *)
(***************************************************************************)
EXTENDS Integers, FiniteSets

CONSTANTS
    Ports,          \* the ports of the server, three in the code
    MaxAttempts     \* bound on the visitor's attempts

Visitor == 0
Attempts == 1 .. MaxAttempts
Clients == 0 .. MaxAttempts
Nobody == -1

VARIABLES
    attempt,    \* the visitor's present attempt
    st,         \* client -> "off", "ask", "test", "ok" or "failed"
    told,       \* client -> port -> the address it was told, or Nobody
    asks,       \* datagrams on their way to the server: port, client, attempt
    replies,    \* datagrams of the server: port, to, address
    entry,      \* port -> the entry of the password in its map, or Nobody
    ent,        \* port -> entry -> [visitor, provider]
    polls,      \* visitor goroutines of the server: port, entry, attempt
    net,        \* test messages ever sent: from, to, message
    \* history
    served,     \* port, attempt: the attempts a port has served
    stale,      \* an attempt began before the one before was served and heard
    reached,    \* from, to: a test message got through
    okWith,     \* client, address: it succeeded
    byEnd       \* client, address: it succeeded on an END

vars == <<attempt, st, told, asks, replies, entry, ent, polls, net,
          served, stale, reached, okWith, byEnd>>
server == <<entry, ent, polls, served>>
tests == <<net, reached, okWith, byEnd>>

\* An entry is named after the datagram that made it: k for the provider's of
\* attempt k, -k - 1 for the visitor's.
Entries == Attempts \cup {-k - 1 : k \in Attempts}

Blank == [visitor |-> Nobody, provider |-> Nobody]

Init ==
    /\ attempt = 0 /\ st = [c \in Clients |-> "off"]
    /\ told = [c \in Clients |-> [p \in Ports |-> Nobody]]
    /\ asks = {} /\ replies = {}
    /\ entry = [p \in Ports |-> Nobody]
    /\ ent = [p \in Ports |-> [e \in Entries |-> Blank]]
    /\ polls = {} /\ net = {}
    /\ served = {} /\ stale = FALSE /\ reached = {} /\ okWith = {} /\ byEnd = {}

-----------------------------------------------------------------------------
(* The clients ask.                                                        *)

\* newUdpConn of the visitor, under its lock: so the attempt before is over, or the
\* client was started again.
VisitorAsks ==
    /\ attempt < MaxAttempts
    /\ attempt' = attempt + 1
    /\ st' = [st EXCEPT ![Visitor] = "ask"]
    /\ told' = [told EXCEPT ![Visitor] = [p \in Ports |-> Nobody]]
    /\ asks' = asks \cup {<<p, Visitor, attempt'>> : p \in Ports}
    /\ stale' = (\/ stale \/ st[Visitor] = "ask"
                 \/ \E p \in Ports, k \in 1 .. attempt : <<p, k>> \notin served)
    /\ UNCHANGED <<replies, server, tests>>

\* typeDeal for WORK_P2P: the bridge has written NEW_UDP_CONN to the provider's signal
\* before it told the visitor where to ask.
Notified(k) == k <= attempt

\* The message has come: newUdpConn of the provider.
ProviderAsks(k) ==
    /\ Notified(k) /\ st[k] = "off"
    /\ st' = [st EXCEPT ![k] = "ask"]
    /\ asks' = asks \cup {<<p, k, k>> : p \in Ports}
    /\ UNCHANGED <<attempt, told, replies, server, stale, tests>>

-----------------------------------------------------------------------------
(* handleP2P, a goroutine for each datagram.                               *)

\* The loop of Start reads a datagram.
Arrives(m) == m \in asks /\ asks' = asks \ {m}

Delete_Never(p) == entry
Delete(p) == [entry EXCEPT ![p] = Nobody]

\* What no goroutine holds is gone when the map has it no more.
Held(p) ==
    IF entry'[p] # Nobody THEN ent
    ELSE [ent EXCEPT ![p] = [e \in Entries |-> IF \E h \in polls' : h[1] = p /\ h[2] = e
                                               THEN ent[p][e] ELSE Blank]]

\* The entry of the password, a new one if there is none.
Found(p, new) == IF entry[p] = Nobody THEN new ELSE entry[p]

HandleVisitor(p, k) ==
    LET e == Found(p, -k - 1) IN
    /\ Arrives(<<p, Visitor, k>>)
    /\ entry' = [entry EXCEPT ![p] = e]
    /\ ent' = [ent EXCEPT ![p][e].visitor = Visitor]
    /\ polls' = polls \cup {<<p, e, k>>}
    /\ UNCHANGED <<attempt, st, told, replies, served, stale, tests>>

HandleProvider(p, k) ==
    LET e == Found(p, k) IN
    /\ Arrives(<<p, k, k>>)
    /\ entry' = [entry EXCEPT ![p] = e]
    /\ ent' = [ent EXCEPT ![p][e].provider = k]
    /\ UNCHANGED <<attempt, st, told, replies, polls, served, stale, tests>>

\* The provider is known: each is told the address of the other, and the entry that
\* the password has now is deleted, whoever made it.
Serve(p, e, k) ==
    LET q == ent[p][e].provider IN
    /\ <<p, e, k>> \in polls /\ q # Nobody
    /\ polls' = polls \ {<<p, e, k>>}
    /\ replies' = replies \cup {<<p, Visitor, q>>, <<p, q, Visitor>>}
    /\ entry' = Delete(p) /\ ent' = Held(p)
    /\ served' = served \cup {<<p, k>>}
    /\ UNCHANGED <<attempt, st, told, asks, stale, tests>>

\* Twenty seconds without a provider.
GiveUp(p, e, k) ==
    /\ <<p, e, k>> \in polls
    /\ polls' = polls \ {<<p, e, k>>}
    /\ entry' = Delete(p) /\ ent' = Held(p)
    /\ UNCHANGED <<attempt, st, told, asks, replies, served, stale, tests>>

-----------------------------------------------------------------------------
(* handleP2PUdp and sendP2PTestMsg.                                        *)

\* The reads have no deadline; with the last of the addresses the tests begin.
Hear(m) ==
    LET c == m[2] IN
    /\ m \in replies /\ st[c] = "ask"
    /\ replies' = replies \ {m}
    /\ told' = [told EXCEPT ![c][m[1]] = m[3]]
    /\ st' = [st EXCEPT ![c] = IF \A p \in Ports : told'[c][p] # Nobody THEN "test" ELSE "ask"]
    /\ UNCHANGED <<attempt, asks, server, stale, tests>>

\* The address the tests go to is worked out from all that were told (getAddrInterval,
\* getNextAddr): when they are not of one client, it is an address of nobody.
WorkedOut(c, a) == \A p \in Ports : told[c][p] = a

Connect(c) ==
    /\ st[c] = "test"
    /\ \E a \in Clients :
        /\ WorkedOut(c, a)
        /\ <<c, a, "CONNECT">> \notin net
        /\ net' = net \cup {<<c, a, "CONNECT">>}
    /\ UNCHANGED <<attempt, st, told, asks, replies, server, stale, reached, okWith, byEnd>>

\* What is answered to a message; SUCCESS and END end the tests.
Answer(m) ==
    CASE m[3] = "CONNECT" -> {<<m[2], m[1], "SUCCESS">>}
      [] m[3] = "SUCCESS" -> {<<m[2], m[1], "END">>}
      [] OTHER -> {}

Receive(m) ==
    LET c == m[2] IN
    /\ m \in net /\ st[c] = "test"
    /\ net' = net \cup Answer(m)
    /\ reached' = reached \cup {<<m[1], c>>}
    /\ IF m[3] = "CONNECT"
       THEN UNCHANGED <<st, okWith, byEnd>>
       ELSE /\ st' = [st EXCEPT ![c] = "ok"]
            /\ okWith' = okWith \cup {<<c, m[1]>>}
            /\ byEnd' = IF m[3] = "END" THEN byEnd \cup {<<c, m[1]>>} ELSE byEnd
    /\ UNCHANGED <<attempt, told, asks, replies, server, stale>>

\* Ten seconds without a message, or the addresses make no sense.
TestFails(c) ==
    /\ st[c] = "test"
    /\ st' = [st EXCEPT ![c] = "failed"]
    /\ UNCHANGED <<attempt, told, asks, replies, server, stale, tests>>

Next ==
    \/ VisitorAsks
    \/ \E k \in Attempts :
        \/ ProviderAsks(k)
        \/ \E p \in Ports :
            \/ HandleVisitor(p, k) \/ HandleProvider(p, k)
            \/ \E e \in Entries : Serve(p, e, k) \/ GiveUp(p, e, k)
    \/ \E m \in replies : Hear(m)
    \/ \E c \in Clients : Connect(c) \/ TestFails(c)
    \/ \E m \in net : Receive(m)

Spec == Init /\ [][Next]_vars

-----------------------------------------------------------------------------
(* Properties.                                                             *)

TypeOK ==
    /\ attempt \in 0 .. MaxAttempts
    /\ st \in [Clients -> {"off", "ask", "test", "ok", "failed"}]
    /\ told \in [Clients -> [Ports -> Clients \cup {Nobody}]]
    /\ entry \in [Ports -> Entries \cup {Nobody}]
    /\ polls \subseteq Ports \X Entries \X Attempts
    /\ net \subseteq Clients \X Clients \X {"CONNECT", "SUCCESS", "END"}
    /\ okWith \subseteq Clients \X Clients /\ byEnd \subseteq okWith

\* As long as every attempt was served by all the ports, and the visitor heard them,
\* before the next began, each port tells the visitor the provider's socket of the
\* present attempt: nothing of an attempt that was served is left at the server.
OwnAttempt ==
    ~stale => \A p \in Ports : told[Visitor][p] \in {Nobody, attempt}

\* A client that says it has a path has one: messages got through both ways between
\* it and the address it will use.  And when it was an END that told it, the other
\* one has succeeded with it too.
BothWays ==
    /\ \A x \in okWith : {x, <<x[2], x[1]>>} \subseteq reached
    /\ \A x \in byEnd : <<x[2], x[1]>> \in okWith

PunchSound == TypeOK /\ OwnAttempt /\ BothWays

=============================================================================
