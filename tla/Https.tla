------------------------------- MODULE Https --------------------------------
(***************************************************************************)
(* The certificates of the HTTPS proxy (server/proxy/https.go) under the   *)
(* host operations of the web console (web/controllers/index.go).          *)
(*                                                                         *)
(* Each connection has a goroutine.  For a host with a certificate (kept   *)
(* as PEM text in CertFilePath and KeyFilePath) it looks for the           *)
(* HttpsListener of the certificate in two shared maps, making the         *)
(* listener and its server when there is none, and hands the connection    *)
(* over.  Every goroutine also sweeps the maps for hosts that were         *)
(* deleted.  Each change of a map is a step of its own, after the one that *)
(* looked; HttpsListener.Close does nothing, so the server of a listener   *)
(* never ends.                                                             *)
(*                                                                         *)
(* A definition named X_Y is a variant of X as a slip in the code would    *)
(* make it; the specification never uses it.                               *)
(***************************************************************************)
EXTENDS Naturals, Sequences

CONSTANTS
    Conns,          \* goroutines of connections
    Ids,            \* bound: ids of hosts, 1 .. n
    Certs, Bad,     \* certificates, those that cannot be loaded
    MaxListeners,   \* bound on the listeners made
    MaxOps          \* bound on the operations of the console

None == "none"      \* no certificate; no entry

VARIABLES
    hosts, lastHost, cert,   \* JsonDb.Hosts, HostIncreaseId, id -> CertFilePath
    listenerMap,             \* httpsListenerMap: certificate -> number of its listener, or 0
    certMap,                 \* hostIdCertMap: id -> certificate, or None
    listeners,               \* sequence of [cert, server]
    alive,                   \* no goroutine has panicked
    pc, host, file,          \* connection -> its step, its host and the certificate it was read with
    todo, val, own,          \* ids to sweep; a certificate it looked up; an id of the sweep, or the
                             \* number of a listener
    ops,
    tangled                  \* history: a certificate of two hosts, or a host changed under a connection

maps == <<listenerMap, certMap>>
database == <<hosts, lastHost, cert>>
hist == <<ops, tangled>>
vars == <<database, maps, listeners, alive, pc, host, file, todo, val, own, hist>>

Init ==
    /\ hosts = {} /\ lastHost = 0 /\ cert = [h \in Ids |-> None]
    /\ listenerMap = [c \in Certs |-> 0] /\ certMap = [h \in Ids |-> None]
    /\ listeners = <<>> /\ alive = TRUE
    /\ pc = [p \in Conns |-> "idle"] /\ host = [p \in Conns |-> 0]
    /\ file = [p \in Conns |-> None] /\ todo = [p \in Conns |-> {}]
    /\ val = [p \in Conns |-> None] /\ own = [p \in Conns |-> 0]
    /\ ops = 0 /\ tangled = FALSE

-----------------------------------------------------------------------------
(* A connection.                                                           *)

Move(p, from, to) == alive /\ pc[p] = from /\ pc' = [pc EXCEPT ![p] = to]

\* GetInfoByHost: which of the hosts a name leads to is free.
Found(h) == h \in hosts

\* The host has a certificate of its own: the Range of cert begins.
Accept(p, h) ==
    /\ Found(h) /\ cert[h] # None
    /\ Move(p, "idle", "visit")
    /\ host' = [host EXCEPT ![p] = h] /\ file' = [file EXCEPT ![p] = cert[h]]
    /\ todo' = [todo EXCEPT ![p] = {g \in Ids : certMap[g] # None}]
    /\ UNCHANGED <<database, maps, listeners, alive, val, own, hist>>

\* The entry of a host that is there stays, and so does that of one that was deleted
\* but whose listener is gone.
Visit(p, g) ==
    /\ g \in todo[p] /\ todo' = [todo EXCEPT ![p] = @ \ {g}]
    /\ IF certMap[g] # None /\ g \notin hosts /\ listenerMap[certMap[g]] # 0
       THEN Move(p, "visit", "drop") /\ val' = [val EXCEPT ![p] = certMap[g]]
                                     /\ own' = [own EXCEPT ![p] = g]
       ELSE Move(p, "visit", "visit") /\ UNCHANGED <<val, own>>
    /\ UNCHANGED <<database, maps, listeners, alive, host, file, hist>>

Dropped_Never(c) == listenerMap
Dropped(c) == [listenerMap EXCEPT ![c] = 0]

Drop(p) ==
    /\ Move(p, "drop", "forget")
    /\ listenerMap' = Dropped(val[p])
    /\ UNCHANGED <<database, certMap, listeners, alive, host, file, todo, val, own, hist>>

Forget(p) ==
    /\ Move(p, "forget", "visit")
    /\ certMap' = [certMap EXCEPT ![own[p]] = None]
    /\ val' = [val EXCEPT ![p] = None] /\ own' = [own EXCEPT ![p] = 0]
    /\ UNCHANGED <<database, listenerMap, listeners, alive, host, file, todo, hist>>

\* What is known of the host's certificate: nothing, this one, or another one.
Load(p) ==
    LET c == certMap[host[p]] IN
    /\ todo[p] = {}
    /\ Move(p, "visit", IF c = None THEN "make" ELSE IF c = file[p] THEN "take" ELSE "remake")
    /\ val' = [val EXCEPT ![p] = IF c \in {None, file[p]} THEN None ELSE c]
    /\ UNCHANGED <<database, maps, listeners, alive, host, file, todo, own, hist>>

\* The listener is not looked at before it is used: without one the process panics.
Take(p) ==
    LET l == listenerMap[file[p]] IN
    /\ Move(p, "take", IF l = 0 THEN "take" ELSE "send")
    /\ own' = [own EXCEPT ![p] = l]
    /\ alive' = (l # 0)
    /\ UNCHANGED <<database, maps, listeners, host, file, todo, val, hist>>

\* NewHttpsListener, and NewHttps: the server starts in a goroutine of its own.
Make(p) ==
    /\ Len(listeners) < MaxListeners
    /\ \/ Move(p, "make", "store") \/ Move(p, "remake", "replace")
    /\ listeners' = Append(listeners, [cert |-> file[p], server |-> "starts"])
    /\ own' = [own EXCEPT ![p] = Len(listeners) + 1]
    /\ UNCHANGED <<database, maps, alive, host, file, todo, val, hist>>

\* The certificate was changed: the listener of the old one goes.
Replace(p) ==
    /\ Move(p, "replace", "store")
    /\ listenerMap' = Dropped(val[p])
    /\ val' = [val EXCEPT ![p] = None]
    /\ UNCHANGED <<database, certMap, listeners, alive, host, file, todo, own, hist>>

StoreListener(p) ==
    /\ Move(p, "store", "storeCert")
    /\ listenerMap' = [listenerMap EXCEPT ![file[p]] = own[p]]
    /\ UNCHANGED <<database, certMap, listeners, alive, host, file, todo, val, own, hist>>

StoreCert(p) ==
    /\ Move(p, "storeCert", "send")
    /\ certMap' = [certMap EXCEPT ![host[p]] = file[p]]
    /\ UNCHANGED <<database, listenerMap, listeners, alive, host, file, todo, val, own, hist>>

\* acceptConn has no buffer: the send needs a server that accepts.
Send(p) ==
    /\ Move(p, "send", "idle")
    /\ listeners[own[p]].server = "accepts"
    /\ host' = [host EXCEPT ![p] = 0] /\ file' = [file EXCEPT ![p] = None]
    /\ own' = [own EXCEPT ![p] = 0]
    /\ UNCHANGED <<database, maps, listeners, alive, todo, val, hist>>

\* NewServerWithTls parses the certificate and accepts, or returns.
Serve(l) ==
    /\ alive /\ listeners[l].server = "starts"
    /\ listeners' = [listeners EXCEPT ![l].server =
                        IF listeners[l].cert \in Bad THEN "ended" ELSE "accepts"]
    /\ UNCHANGED <<database, maps, alive, pc, host, file, todo, val, own, hist>>

-----------------------------------------------------------------------------
(* The console.                                                            *)

Operation == alive /\ ops < MaxOps /\ ops' = ops + 1

Serving(h) == \E p \in Conns : host[p] = h

\* The certificate belongs to another host, in the database, a map, or a goroutine.
Shared(c, h) ==
    /\ c # None
    /\ \/ \E g \in Ids \ {h} : certMap[g] = c \/ (g \in hosts /\ cert[g] = c)
       \/ \E p \in Conns : val[p] = c \/ (host[p] # h /\ file[p] = c)

AddHost(c) ==
    LET h == lastHost + 1 IN
    /\ Operation
    /\ h \in Ids /\ lastHost' = h
    /\ hosts' = hosts \cup {h} /\ cert' = [cert EXCEPT ![h] = c]
    /\ tangled' = (tangled \/ Shared(c, h))
    /\ UNCHANGED <<maps, listeners, alive, pc, host, file, todo, val, own>>

EditHost(h, c) ==
    /\ Operation
    /\ h \in hosts /\ c # cert[h]
    /\ cert' = [cert EXCEPT ![h] = c]
    /\ tangled' = (tangled \/ Serving(h) \/ Shared(c, h))
    /\ UNCHANGED <<hosts, lastHost, maps, listeners, alive, pc, host, file, todo, val, own>>

DelHost(h) ==
    /\ Operation
    /\ h \in hosts /\ hosts' = hosts \ {h}
    /\ tangled' = (tangled \/ Serving(h))
    /\ UNCHANGED <<lastHost, cert, maps, listeners, alive, pc, host, file, todo, val, own>>

Next ==
    \/ \E p \in Conns :
          \/ \E h \in Ids : Accept(p, h) \/ Visit(p, h)
          \/ Drop(p) \/ Forget(p) \/ Load(p) \/ Take(p) \/ Make(p) \/ Replace(p)
          \/ StoreListener(p) \/ StoreCert(p) \/ Send(p)
    \/ \E l \in 1 .. Len(listeners) : Serve(l)
    \/ \E c \in Certs \cup {None} : AddHost(c) \/ \E h \in Ids : EditHost(h, c)
    \/ \E h \in Ids : DelHost(h)

Spec == Init /\ [][Next]_vars

-----------------------------------------------------------------------------
(* Properties.                                                             *)

TypeOK ==
    /\ hosts \subseteq 1 .. lastHost /\ lastHost \in Ids \cup {0}
    /\ \A h \in Ids : {cert[h], certMap[h]} \subseteq Certs \cup {None}
    /\ \A c \in Certs : listenerMap[c] \in 0 .. Len(listeners)
    /\ \A p \in Conns : host[p] \in Ids \cup {0} /\ todo[p] \subseteq Ids

\* A connection is never given the certificate of another host, or an old one: it
\* goes to a listener of the certificate its host had when it came.
OwnCertificate ==
    \A p \in Conns : pc[p] = "send" => listeners[own[p]].cert = file[p]

\* The maps agree once no goroutine is in cert: what is known of a host leads to a
\* listener, and a listener is known of some host.  Without it the next connection
\* panics.  The code keeps it unless two hosts have the same certificate, or a host is changed
\* under a connection.
MapsAgree ==
    ~tangled =>
        /\ alive
        /\ (\A p \in Conns : pc[p] \in {"idle", "send"}) =>
              /\ \A h \in Ids : certMap[h] # None => listenerMap[certMap[h]] # 0
              /\ \A c \in Certs : listenerMap[c] # 0 => \E h \in Ids : certMap[h] = c

HttpsSound == TypeOK /\ OwnCertificate /\ MapsAgree

=============================================================================
