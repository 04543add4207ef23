---------------------------- MODULE ConfigSession ---------------------------
(***************************************************************************)
(* npc with a configuration file (client/control.go StartFromFile): on a   *)
(* connection of its own it gives the bridge its hosts and tasks one by    *)
(* one and reads an answer for each (bridge.go getConfig), then starts the *)
(* client proper; when an answer is a refusal it begins again.  A refused  *)
(* session ends in DelClient; what the bridge starts and deletes goes      *)
(* through DealBridgeTask (server/server.go).                              *)
(*                                                                         *)
(* With the public key every session makes a client of its own, else it is *)
(* client 1.  Which ports are busy, when a name is refused, and when a     *)
(* connection breaks are free.                                             *)
(*                                                                         *)
(* A definition named X_Y is a variant of X as a slip in the code would    *)
(* make it; the specification never uses it.                               *)
(***************************************************************************)
EXTENDS Integers, Sequences

CONSTANTS
    Scripts,        \* configurations: sequences of [kind, pieces]
    MaxSessions     \* bound on the sessions

VARIABLES
    items,          \* the configuration
    isPub,          \* the key is the public one
    session,        \* sessions so far
    npc, at,        \* step of npc: "dial", "conf", "send", "await", "running"; its item
    main,           \* the client that npc runs has been let in
    toServer,       \* items on their way to the bridge
    answers,        \* answers on their way to npc
    broken,         \* the connection has been closed, or is broken
    srv, item, piece,   \* getConfig: its step, the item, the port of the item
    tasks, running, \* <<client, item, piece>>: stored; started
    connected,      \* clients in Bridge.Client
    deleted,        \* clients of the public key that are deleted from the database
    \* history
    orphaned,       \* clients whose tasks nobody was told to delete
    overtaken,      \* clients the bridge found stale during their session
    missing         \* npc was done with its items and something was not stored

vars == <<items, isPub, session, npc, at, main, toServer, answers, broken, srv, item, piece,
          tasks, running, connected, deleted, orphaned,
          overtaken, missing>>
wire == <<toServer, answers, broken>>
client == <<npc, at, main, session, missing>>
server == <<srv, item, piece>>
stored == <<tasks, running, connected, deleted, orphaned, overtaken>>

Me == IF isPub THEN session ELSE 1

Init ==
    /\ items \in Scripts /\ isPub \in BOOLEAN
    /\ session = 0 /\ npc = "dial" /\ at = 1 /\ main = FALSE
    /\ toServer = <<>> /\ answers = <<>> /\ broken = TRUE
    /\ srv = "off" /\ item = 1 /\ piece = 1
    /\ tasks = {} /\ running = {} /\ connected = {} /\ deleted = {}
    /\ orphaned = {} /\ overtaken = {}
    /\ missing = FALSE

-----------------------------------------------------------------------------
(* StartFromFile.                                                          *)

\* NewConn, and typeDeal for WORK_CONFIG.  It sleeps five seconds first: the bridge is
\* done with the session before.
Dial ==
    /\ npc = "dial" /\ srv = "off" /\ session < MaxSessions
    /\ session' = session + 1
    /\ npc' = (IF isPub THEN "conf" ELSE "send") /\ at' = 1
    /\ srv' = (IF isPub THEN "conf" ELSE "read") /\ item' = 1 /\ piece' = 1
    /\ toServer' = <<>> /\ answers' = <<>> /\ broken' = FALSE
    /\ UNCHANGED <<items, isPub, stored, missing, main>>

Send ==
    /\ npc = "send" /\ at <= Len(items)
    /\ npc' = "await"
    /\ toServer' = IF broken THEN toServer ELSE Append(toServer, at)
    /\ UNCHANGED <<items, isPub, session, at, answers, broken, server, stored, missing, main>>

Pieces(c) == {<<c, i, p>> : i \in 1 .. Len(items), p \in 1 .. 2}
Wanted(c) == {t \in Pieces(c) : t[3] <= items[t[2]].pieces}

\* GetAddStatus; a failed read counts as a refusal.
ReadAnswer ==
    /\ npc \in {"conf", "await"}
    /\ \/ /\ answers # <<>> /\ Head(answers)
          /\ answers' = Tail(answers)
          /\ npc' = "send" /\ at' = IF npc = "conf" THEN at ELSE at + 1
       \/ /\ IF answers = <<>> THEN broken ELSE ~Head(answers)
          /\ npc' = "dial"
          /\ UNCHANGED <<answers, at>>
    /\ UNCHANGED <<items, isPub, session, toServer, broken, server, stored, missing, main>>

\* All items are answered: the connection is closed, the client starts.
Start ==
    /\ npc = "send" /\ at > Len(items)
    /\ npc' = "running" /\ broken' = TRUE
    /\ missing' = (missing \/ ~(Wanted(Me) \subseteq tasks))
    /\ UNCHANGED <<items, isPub, session, at, toServer, answers, server, stored, main>>

\* The main connection (typeDeal for WORK_MAIN), and its end.
\* cliProcess lets a session in whose key is that of a client.
LetIn == Me \notin deleted

Connect ==
    /\ npc = "running" /\ ~main /\ LetIn
    /\ main' = TRUE
    /\ connected' = connected \cup {Me}
    /\ UNCHANGED <<items, isPub, wire, npc, at, session, missing, server, tasks, running, deleted,
                   orphaned, overtaken>>

Disconnect ==
    /\ npc = "running" /\ main
    /\ npc' = "dial" /\ main' = FALSE
    /\ UNCHANGED <<items, isPub, session, at, wire, server, stored, missing>>

\* External: the connection breaks.
Break ==
    /\ ~broken /\ broken' = TRUE
    /\ toServer' = <<>> /\ answers' = <<>>
    /\ UNCHANGED <<items, isPub, client, server, stored>>

-----------------------------------------------------------------------------
(* getConfig.                                                              *)

Answer(ok) == answers' = IF broken THEN answers ELSE Append(answers, ok)

\* WriteAddFail closes the connection; what is left to do is DelClient.
Fail ==
    /\ srv' = "delete"
    /\ answers' = (IF broken THEN answers ELSE Append(answers, FALSE)) /\ broken' = TRUE
    /\ UNCHANGED <<item, piece, connected, orphaned>>

\* NEW_CONF: the web user name may be taken, and then there is no client to delete.
NewConf ==
    /\ srv = "conf"
    /\ \/ /\ srv' = "read" /\ connected' = connected \cup {Me}
          /\ Answer(TRUE) /\ UNCHANGED broken
       \/ /\ srv' = "off"
          /\ Answer(FALSE) /\ broken' = TRUE /\ UNCHANGED connected
    /\ UNCHANGED <<items, isPub, client, toServer, item, piece, tasks, running, orphaned, deleted, overtaken>>

ReadItem ==
    /\ srv = "read" /\ toServer # <<>>
    /\ srv' = "item" /\ item' = Head(toServer) /\ piece' = 1
    /\ toServer' = Tail(toServer)
    /\ UNCHANGED <<items, isPub, client, answers, broken, stored>>

\* A failed read leaves the loop without fail: what is stored stays.  For a client the
\* bridge has no entry of, nobody comes to delete it.
ReadFails ==
    /\ srv \in {"conf", "read"} /\ broken /\ toServer = <<>>
    /\ srv' = "off"
    /\ orphaned' = IF npc = "running" \/ Me \in connected THEN orphaned ELSE orphaned \cup {Me}
    /\ UNCHANGED <<items, isPub, client, wire, item, piece, tasks, running, connected, deleted, overtaken>>

Taken(kind) == items[item].kind = kind /\ (\E t \in tasks : t[2] = item)

Now == <<Me, item, piece>>

\* The client has the host or the port already, so nothing is added.
Has == Now \in tasks /\ items[item].kind # "secret"

\* On with the next port, or item.
Proceed ==
    /\ Answer(TRUE)
    /\ IF piece < items[item].pieces
       THEN srv' = "item" /\ piece' = piece + 1
       ELSE srv' = "read" /\ piece' = 1
    /\ UNCHANGED <<item, broken>>

Skip ==
    /\ srv = "item" /\ Has
    /\ Proceed
    /\ UNCHANGED <<items, isPub, client, toServer, stored>>

\* The item makes no sense, another client has the host, or a task has the key.
Refuse ==
    /\ srv = "item" /\ ~Has /\ piece = 1
    /\ Fail
    /\ UNCHANGED <<items, isPub, client, toServer, tasks, running, deleted, overtaken>>

NewHost ==
    /\ srv = "item" /\ items[item].kind = "host" /\ ~Taken("host")
    /\ tasks' = tasks \cup {Now}
    /\ Proceed
    /\ UNCHANGED <<items, isPub, client, toServer, running, connected, orphaned, deleted, overtaken>>

\* The task is stored before its port is tried.
NewTask ==
    /\ srv = "item" /\ items[item].kind # "host" /\ ~Has /\ ~Taken("secret")
    /\ tasks' = tasks \cup {Now}
    /\ UNCHANGED <<items, isPub, client, toServer, running, deleted, overtaken>>
    /\ \/ items[item].kind = "tcp" /\ Fail
       \/ /\ srv' = "open"
          /\ UNCHANGED <<item, piece, answers, broken, connected, orphaned>>

\* OpenTask has no buffer: the answer comes when DealBridgeTask has taken the task.
OpenTask ==
    /\ srv = "open"
    /\ running' = running \cup ({Now} \cap tasks)
    /\ Proceed
    /\ UNCHANGED <<items, isPub, client, toServer, tasks, connected, orphaned, deleted, overtaken>>

-----------------------------------------------------------------------------
(* Bridge.DelClient and DealBridgeTask.                                    *)

\* Only for a client in Bridge.Client is DealBridgeTask told.
Told_Never(c) == FALSE
Told(c) == c \in connected

DelClient ==
    /\ srv = "delete"
    /\ srv' = (IF Told(Me) THEN "close" ELSE "off")
    /\ connected' = connected \ {Me}
    /\ orphaned' = IF Me \in connected THEN orphaned ELSE orphaned \cup {Me}
    /\ UNCHANGED <<items, isPub, client, wire, item, piece, tasks, running, deleted, overtaken>>

Of(c, S) == {t \in S : t[1] = c}

\* Its tasks go, and the client itself when a session made it.
DealClose(c) ==
    /\ tasks' = tasks \ Of(c, tasks) /\ running' = running \ Of(c, running)
    /\ deleted' = IF isPub THEN deleted \cup {c} ELSE deleted

CloseClient ==
    /\ srv = "close" /\ srv' = "off"
    /\ DealClose(Me)
    /\ UNCHANGED <<items, isPub, client, wire, item, piece, connected, orphaned, overtaken>>

\* Bridge.ping: a client without its connections for three ticks, which a session that
\* takes long may see too.
Stale(c) ==
    /\ c \in connected /\ ~(main /\ c = Me)
    /\ connected' = connected \ {c}
    /\ DealClose(c)
    /\ overtaken' = IF c = Me /\ {srv, npc} # {"off", "dial"} THEN overtaken \cup {c} ELSE overtaken
    /\ UNCHANGED <<items, isPub, client, wire, server, orphaned>>

Next ==
    \/ Dial \/ Send \/ ReadAnswer \/ Start \/ Connect \/ Disconnect \/ Break
    \/ NewConf \/ ReadItem \/ ReadFails \/ Skip \/ Refuse \/ NewHost \/ NewTask \/ OpenTask
    \/ DelClient \/ CloseClient \/ \E c \in 1 .. MaxSessions : Stale(c)

Spec == Init /\ [][Next]_vars

-----------------------------------------------------------------------------
(* Properties.                                                             *)

TypeOK ==
    /\ session \in 0 .. MaxSessions /\ at \in 1 .. Len(items) + 1
    /\ npc \in {"dial", "conf", "send", "await", "running"}
    /\ srv \in {"off", "conf", "read", "item", "open", "delete", "close"}
    /\ running \subseteq tasks /\ connected \cup deleted \subseteq 1 .. MaxSessions
    /\ \A t \in tasks : t \in Wanted(t[1])

\* What npc believes when it starts is so, unless the bridge has deleted the client
\* during a session: everything in its file is stored at the server, and the client
\* whose key it will show, again and again until it is let in, exists.  Only a task
\* with several ports breaks that: each port is answered, npc reads one answer for the
\* task, and takes the others for answers to what it sends next.
AnswersFit ==
    overtaken = {} /\ (missing \/ (npc = "running" /\ ~main /\ Me \in deleted))
        => \E i \in 1 .. Len(items) : items[i].pieces > 1

\* Nothing is stored for a client that is neither connected nor about to be, but for
\* a client the bridge had no entry of when its session was refused or broke.
NoOrphan ==
    srv = "off" /\ npc = "dial" => \A t \in tasks : t[1] \in connected \cup orphaned \cup overtaken

ConfigSound == TypeOK /\ AnswersFit /\ NoOrphan

=============================================================================
