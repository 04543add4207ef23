------------------------------- MODULE Bridge -------------------------------
(***************************************************************************)
(* The sessions of one client id at the bridge (bridge/bridge.go) and at   *)
(* their clients (client/client.go): how they are registered, noticed to   *)
(* be dead, removed and replaced.                                          *)
(*                                                                         *)
(* A session is one TRPClient: a signal connection, and a tunnel that is   *)
(* dialled once the signal is up.  The server handles each of the two in a *)
(* goroutine of its own, so either may be registered first.  Sessions of   *)
(* one id follow each other (npc starts again after Close) or run at the   *)
(* same time (a second npc with the same key).                             *)
(*                                                                         *)
(* s.Client maps the id to a *Client.  A goroutine may still hold one that *)
(* was deleted from the map meanwhile; nobody reads it there any more, so  *)
(* what that goroutine writes to it is lost.  DelClient acts on the id: it *)
(* removes what the map holds, whoever calls it.  It reports to            *)
(* CloseClient, where DealBridgeTask always comes to receive; the tasks    *)
(* that removes are not in this module.                                    *)
(*                                                                         *)
(* A connection is open or closed; which end or what failure closed it     *)
(* makes no difference to the reader that notices.                         *)
(***************************************************************************)
EXTENDS Integers

CONSTANTS
    Sessions,     \* the sessions ever started: a bound
    NoSession,    \* the nil of a signal or tunnel field
    NoEntry,      \* the id is not in s.Client
    Ping,         \* a caller of DelClient that is no session
    MaxRetry      \* 3

ASSUME SessionAssumption ==
    NoSession \notin Sessions /\ Ping \notin Sessions
ASSUME RetryAssumption == MaxRetry \in Nat \ {0}

Deleters == Sessions \cup {Ping}
Entry == [signal : Sessions \cup {NoSession}, tunnel : Sessions \cup {NoSession},
          retryTime : 0 .. MaxRetry]

ASSUME EntryAssumption == NoEntry \notin Entry

VARIABLES
    \* the server
    client,      \* what s.Client holds for the id, or NoEntry
    main,        \* cliProcess of the signal, in typeDeal
    chan,        \* cliProcess of the tunnel, in typeDeal
    del,         \* DelClient in each of its callers; for a session its
                 \* GetHealthFromClient
    \* the connections
    signal, tunnel,
    \* the clients
    life,        \* TRPClient: not started, running, Close done
    newChan      \* its goroutine newChan

servers == <<client, main, chan>>
clients == <<life, newChan>>
vars == <<servers, del, signal, tunnel, clients>>

Registered(s) == client # NoEntry /\ client.signal = s
NewClient(t, c) == [signal |-> c, tunnel |-> t, retryTime |-> 0]

\* getConfig stores an empty entry for a client it has just made (NEW_CONF).
Init ==
    /\ client \in {NoEntry, NewClient(NoSession, NoSession)}
    /\ main = [s \in Sessions |-> "none"] /\ chan = [s \in Sessions |-> "none"]
    /\ del = [d \in Deleters |-> IF d \in Sessions THEN "none" ELSE "idle"]
    /\ signal = [s \in Sessions |-> "none"] /\ tunnel = [s \in Sessions |-> "none"]
    /\ life = [s \in Sessions |-> "none"] /\ newChan = [s \in Sessions |-> "none"]

-----------------------------------------------------------------------------
(* The client: Start, newChan, handleMain, ping, Close.                    *)

\* NewConn(WORK_MAIN) returns when the flag is written; the server may look at
\* it later.
Start(s) ==
    /\ life[s] = "none"
    /\ life' = [life EXCEPT ![s] = "running"]
    /\ signal' = [signal EXCEPT ![s] = "open"]
    /\ main' = [main EXCEPT ![s] = "typeDeal"]
    /\ newChan' = [newChan EXCEPT ![s] = "dial"]
    /\ UNCHANGED <<client, chan, del, tunnel>>

\* NewConn(WORK_CHAN); it may fail, and then newChan just returns.
DialTunnel(s) ==
    /\ newChan[s] = "dial"
    /\ \/ /\ newChan' = [newChan EXCEPT ![s] = "assign"]
          /\ tunnel' = [tunnel EXCEPT ![s] = "open"]
          /\ chan' = [chan EXCEPT ![s] = "typeDeal"]
       \/ /\ newChan' = [newChan EXCEPT ![s] = "done"]
          /\ UNCHANGED <<tunnel, chan>>
    /\ UNCHANGED <<client, main, del, signal, life>>

\* s.tunnel = NewMux(...), and Accept.
AssignTunnel(s) ==
    /\ newChan[s] = "assign"
    /\ newChan' = [newChan EXCEPT ![s] = "accept"]
    /\ UNCHANGED <<servers, del, signal, tunnel, life>>

\* Close, once: the signal, and the tunnel if it is there already.
Close(s) ==
    /\ life[s] = "running"
    /\ life' = [life EXCEPT ![s] = "closed"]
    /\ signal' = [signal EXCEPT ![s] = "closed"]
    /\ tunnel' = IF newChan[s] = "accept" THEN [tunnel EXCEPT ![s] = "closed"] ELSE tunnel
    /\ UNCHANGED <<servers, del, newChan>>

\* The read of handleMain fails.
HandleMain(s) == signal[s] = "closed" /\ Close(s)

\* Accept fails, or the ticker of ping finds tunnel.IsClose.
TunnelLost(s) == newChan[s] = "accept" /\ tunnel[s] = "closed" /\ Close(s)

ClientStep(s) == DialTunnel(s) \/ AssignTunnel(s) \/ HandleMain(s) \/ TunnelLost(s)

\* A connection breaks, or npc is killed and both do.
Break(s) ==
    /\ \/ signal[s] = "open" /\ signal' = [signal EXCEPT ![s] = "closed"] /\ UNCHANGED tunnel
       \/ tunnel[s] = "open" /\ tunnel' = [tunnel EXCEPT ![s] = "closed"] /\ UNCHANGED signal
    /\ UNCHANGED <<servers, del, clients>>

-----------------------------------------------------------------------------
(* The server: typeDeal.                                                   *)

\* WORK_MAIN, LoadOrStore.
RegisterMain(s) ==
    /\ main[s] = "typeDeal"
    /\ IF client = NoEntry
       THEN /\ client' = NewClient(NoSession, s)
            /\ main' = [main EXCEPT ![s] = "health"]
       ELSE /\ main' = [main EXCEPT ![s] = "replace"]
            /\ UNCHANGED client
    /\ UNCHANGED <<chan, del, signal, tunnel, clients>>

\* The entry was there: WriteClose on its signal, which no client listens to
\* (handleMain knows NEW_UDP_CONN only), then the new signal.
ReplaceSignal(s) ==
    /\ main[s] \in {"replace", "detached"}
    /\ client' = IF main[s] = "replace" THEN [client EXCEPT !.signal = s] ELSE client
    /\ main' = [main EXCEPT ![s] = "health"]
    /\ UNCHANGED <<chan, del, signal, tunnel, clients>>

\* go GetHealthFromClient(id, c)
WatchSignal_Forgotten(s) ==
    /\ main[s] = "health"
    /\ main' = [main EXCEPT ![s] = "done"]
    /\ del' = [del EXCEPT ![s] = "done"]
    /\ UNCHANGED <<client, chan, signal, tunnel, clients>>
WatchSignal(s) ==
    /\ main[s] = "health"
    /\ main' = [main EXCEPT ![s] = "done"]
    /\ del' = [del EXCEPT ![s] = "read"]
    /\ UNCHANGED <<client, chan, signal, tunnel, clients>>

\* WORK_CHAN, LoadOrStore.
RegisterChan(s) ==
    /\ chan[s] = "typeDeal"
    /\ IF client = NoEntry
       THEN /\ client' = NewClient(s, NoSession)
            /\ chan' = [chan EXCEPT ![s] = "done"]
       ELSE /\ chan' = [chan EXCEPT ![s] = "replace"]
            /\ UNCHANGED client
    /\ UNCHANGED <<main, del, signal, tunnel, clients>>

ReplaceTunnel(s) ==
    /\ chan[s] \in {"replace", "detached"}
    /\ client' = IF chan[s] = "replace" THEN [client EXCEPT !.tunnel = s] ELSE client
    /\ chan' = [chan EXCEPT ![s] = "done"]
    /\ UNCHANGED <<main, del, signal, tunnel, clients>>

TypeDeal(s) ==
    \/ RegisterMain(s) \/ ReplaceSignal(s) \/ WatchSignal(s)
    \/ RegisterChan(s) \/ ReplaceTunnel(s)

-----------------------------------------------------------------------------
(* The server: the callers of DelClient.                                   *)

\* GetHealthFromClient: the read of the signal fails.
HealthEnds(s) ==
    /\ del[s] = "read" /\ signal[s] = "closed"
    /\ del' = [del EXCEPT ![s] = "load"]
    /\ UNCHANGED <<servers, signal, tunnel, clients>>

\* What ping does with an entry: count the times a part is missing, or delete it.
Incomplete(e) == e.tunnel = NoSession \/ e.signal = NoSession
IsClose_Never(e) == FALSE
IsClose(e) == tunnel[e.tunnel] = "closed"
GivesUp_Late(n) == n > MaxRetry
GivesUp(n) == n >= MaxRetry

PingTick ==
    /\ del[Ping] = "idle" /\ client # NoEntry
    /\ \/ /\ Incomplete(client)
          /\ client' = [client EXCEPT !.retryTime = @ + 1]
          /\ del' = [del EXCEPT ![Ping] = IF GivesUp(client.retryTime + 1)
                                          THEN "load" ELSE "idle"]
       \/ /\ ~Incomplete(client) /\ IsClose(client)
          /\ del' = [del EXCEPT ![Ping] = "load"]
          /\ UNCHANGED client
    /\ UNCHANGED <<main, chan, signal, tunnel, clients>>

Return(d) == IF d \in Sessions THEN "done" ELSE "idle"

\* DelClient: Load, and the signal is closed; the tunnel is not.
DelLoad(d) ==
    /\ del[d] = "load"
    /\ del' = [del EXCEPT ![d] = IF client = NoEntry THEN Return(d) ELSE "delete"]
    /\ signal' = [s \in Sessions |-> IF Registered(s) THEN "closed" ELSE signal[s]]
    /\ UNCHANGED <<servers, tunnel, clients>>

\* A goroutine that holds the entry holds it alone from now on.
Detached(pc) == [s \in Sessions |-> IF pc[s] = "replace" THEN "detached" ELSE pc[s]]

\* DelClient: Delete, whatever the id maps to by now, and CloseClient <- id.
DelDelete(d) ==
    /\ del[d] = "delete"
    /\ client' = NoEntry
    /\ main' = Detached(main) /\ chan' = Detached(chan)
    /\ del' = [del EXCEPT ![d] = Return(d)]
    /\ UNCHANGED <<signal, tunnel, clients>>

DelClient(d) == DelLoad(d) \/ DelDelete(d)

-----------------------------------------------------------------------------

Next ==
    \/ \E s \in Sessions :
          Start(s) \/ ClientStep(s) \/ Break(s) \/ TypeDeal(s) \/ HealthEnds(s)
    \/ PingTick
    \/ \E d \in Deleters : DelClient(d)

\* Every goroutine at work goes on and the ticker of ping fires for ever.
\* Nobody has to start a session or to break one.
Fairness ==
    /\ \A s \in Sessions :
          WF_vars(ClientStep(s)) /\ WF_vars(TypeDeal(s)) /\ WF_vars(HealthEnds(s))
    /\ WF_vars(PingTick)
    /\ \A d \in Deleters : WF_vars(DelClient(d))

Spec == Init /\ [][Next]_vars /\ Fairness

-----------------------------------------------------------------------------
(* Properties.                                                             *)

TypeOK ==
    /\ client \in Entry \cup {NoEntry}
    /\ main \in [Sessions -> {"none", "typeDeal", "replace", "detached", "health", "done"}]
    /\ chan \in [Sessions -> {"none", "typeDeal", "replace", "detached", "done"}]
    /\ del \in [Deleters -> {"none", "idle", "read", "load", "delete", "done"}]
    /\ signal \in [Sessions -> {"none", "open", "closed"}]
    /\ tunnel \in [Sessions -> {"none", "open", "closed"}]
    /\ life \in [Sessions -> {"none", "running", "closed"}]
    /\ newChan \in [Sessions -> {"none", "dial", "assign", "accept", "done"}]

\* The signal of the registered entry is being watched, or is about to be: its
\* goroutine has not gone through Delete.
SignalIsWatched ==
    \A s \in Sessions :
        Registered(s) => main[s] = "health" \/ del[s] \in {"read", "load", "delete"}

\* An entry that cannot serve a link.
Stale(e) ==
    \/ e.signal = NoSession \/ e.tunnel = NoSession
    \/ e.signal # NoSession /\ signal[e.signal] = "closed"
    \/ e.tunnel # NoSession /\ tunnel[e.tunnel] = "closed"

\* An entry that has lost its signal or its tunnel, or never got one, does not
\* stay in the map: it is completed by another session or removed.
StaleGoes == []<>(client = NoEntry \/ ~Stale(client))

\* bridge.go 268: "the vKey connect by another ,close the client of before".
BeforeIsClosed ==
    \A s \in Sessions :
        (del[s] = "read" /\ client # NoEntry /\ client.signal \notin {NoSession, s})
            ~> signal[s] = "closed"

=============================================================================
