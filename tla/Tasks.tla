------------------------------- MODULE Tasks --------------------------------
(***************************************************************************)
(* The tasks of nps (server/server.go, lib/file, web/controllers): the     *)
(* database in memory, its files, RunList, and the servers that listen.    *)
(*                                                                         *)
(* Handlers are goroutines that run one request at a time: those of the    *)
(* web console and of getConfig (bridge), the single DealBridgeTask, and   *)
(* main, which starts the stored tasks.  Each access to the database, to a *)
(* file or to RunList is a step; nothing but the lock of a file orders     *)
(* them.  A server listens in a goroutine of its own, after it was listed. *)
(* The process may crash between any two steps and starts from the files.  *)
(*                                                                         *)
(* A task is one listener on one port ("tcp" stands for every mode that    *)
(* has one) or a "secret" task, which has none.  Hosts are stored like     *)
(* tasks and run nothing.  A task created by a client's own configuration  *)
(* is NoStore: never in the file, and deleted when its client goes.        *)
(*                                                                         *)
(* A definition named X_Y is a variant of X as a slip in the code would    *)
(* make it; the specification never uses it.                               *)
(***************************************************************************)
EXTENDS Integers, Sequences, FiniteSets

CONSTANTS
    Web,           \* handlers of the web console and of getConfig
    Ids,           \* bound: ids of tasks, and of clients
    Ports, Modes,
    Taken,         \* ports that are not allowed, or that other programs hold
    MaxServers,    \* bound on the servers started
    MaxOps,        \* bound on the requests begun
    MaxCrashes     \* bound on the crashes

Bridge == "bridge"     \* DealBridgeTask
Main == "main"         \* InitFromCsv
Handlers == Web \cup {Bridge, Main}
None == 0              \* not in RunList; no server
Secret == -1           \* the nil that RunList holds for a secret task

VARIABLES
    up,            \* whether the process runs
    clients,       \* JsonDb.Clients
    tasks,         \* JsonDb.Tasks: the ids in the map
    task,          \* the Tunnel behind each id, which requests share
    lastTask, lastClient,     \* TaskIncreaseId, ClientIncreaseId
    disk,          \* [clients, tasks]: the files
    runList,       \* id -> None, Secret or the number of its server
    servers,       \* sequence of [task, port, state]
    h,             \* handler -> the request it serves
    ops, crashes,  \* the bounds used up
    tangled,       \* history: tasks on which two activities overlapped, or whose port
                   \* an edit that was refused changed while they were listed
    acked          \* history: what the last request on a task was told

dbvars == <<clients, tasks, task, lastTask, lastClient>>
runvars == <<runList, servers>>
bounds == <<ops, crashes>>
vars == <<up, dbvars, disk, runvars, h, bounds, tangled, acked>>

Idle == [op |-> "none", pc |-> "idle", task |-> 0, client |-> 0, svr |-> None,
         then |-> "done", todo |-> {}]
NoTunnel == [status |-> FALSE, port |-> 0, mode |-> "tcp", client |-> 0, noStore |-> FALSE]

Init ==
    /\ up = TRUE
    /\ clients = {1} /\ lastClient = 1
    /\ tasks = {} /\ task = [t \in Ids |-> NoTunnel] /\ lastTask = 0
    /\ disk = [clients |-> {1}, tasks |-> {}]
    /\ runList = [t \in Ids |-> None] /\ servers = <<>>
    /\ h = [x \in Handlers |-> Idle]
    /\ ops = 0 /\ crashes = 0
    /\ tangled = {} /\ acked = [t \in Ids |-> "nothing"]

-----------------------------------------------------------------------------
(* Which tasks are being worked on.                                        *)

ClientOps == {"delClient", "closeClient"}

Works(x, t) ==
    /\ h[x].pc # "idle"
    /\ \/ h[x].task = t \/ t \in h[x].todo
       \/ h[x].op = "delClient" /\ task[t].client = h[x].client
       \/ h[x].op = "closeClient" /\ task[t].client = h[x].client /\ task[t].noStore

Starting(t) == \E s \in 1 .. Len(servers) : servers[s].task = t /\ servers[s].state = "new"
Busy(t) == Starting(t) \/ \E x \in Handlers : Works(x, t)

-----------------------------------------------------------------------------
(* The steps of a request.                                                 *)

At(x, pc) == up /\ h[x].pc = pc

\* What a request that has done all its steps has done to its task.
Outcome(x) ==
    CASE h[x].op \in {"add", "start", "edit", "open"} -> "started"
      [] h[x].op = "stop" -> "stopped"
      [] OTHER -> "deleted"

\* A request is answered: a handler of the console is free again, one that
\* deletes the tasks of a client, or starts the stored ones, goes on with the next.
\* The start of a stored task answers nobody.
Answer(x, ok) ==
    LET t == h[x].task
    IN  /\ acked' = IF t # 0 /\ ok /\ h[x].op # "boot" THEN [acked EXCEPT ![t] = Outcome(x)] ELSE acked
        /\ h' = IF h[x].op \in ClientOps \cup {"boot"}
                THEN [h EXCEPT ![x].task = 0, ![x].pc = "next"]
                ELSE [h EXCEPT ![x] = Idle]

Goto(x, pc) ==
    IF pc \in {"done", "failed"} THEN Answer(x, pc = "done")
    ELSE h' = [h EXCEPT ![x].pc = pc] /\ UNCHANGED acked

\* storeSyncMapToFile: a temporary file takes the place of the old one.
StoredTasks ==
    {[id |-> t, status |-> task[t].status, port |-> task[t].port, mode |-> task[t].mode,
      client |-> task[t].client] : t \in {t \in tasks : ~task[t].noStore}}

Save(x) ==
    /\ At(x, "save")
    /\ disk' = [disk EXCEPT !.tasks = StoredTasks]
    /\ Goto(x, h[x].then)
    /\ UNCHANGED <<up, dbvars, runvars, bounds, tangled>>

SaveClients(x) ==
    /\ At(x, "saveClients")
    /\ disk' = [disk EXCEPT !.clients = clients]
    /\ Goto(x, h[x].then)
    /\ UNCHANGED <<up, dbvars, runvars, bounds, tangled>>

PortFree(p) ==
    p \notin Taken /\ \A s \in 1 .. Len(servers) : servers[s].state = "open" => servers[s].port # p

\* AddTask: a secret task is only listed; a port is tried before the server is
\* made.  StartTask and Edit do not look at its result.
AfterAdd(x, listed) ==
    IF h[x].op \in {"start", "edit"} THEN "status" ELSE IF listed THEN "done" ELSE "failed"

AddTask(x) ==
    LET t == h[x].task
    IN  /\ At(x, "add")
        /\ IF task[t].mode = "secret"
           THEN runList' = [runList EXCEPT ![t] = Secret] /\ Goto(x, AfterAdd(x, TRUE))
           ELSE /\ UNCHANGED runList
                /\ Goto(x, IF PortFree(task[t].port) THEN "list" ELSE AfterAdd(x, FALSE))
        /\ UNCHANGED <<up, dbvars, disk, servers, bounds, tangled>>

ListServer(x) ==
    LET t == h[x].task
    IN  /\ At(x, "list")
        /\ Len(servers) < MaxServers
        /\ servers' = Append(servers, [task |-> t, port |-> 0, state |-> "new"])
        /\ runList' = [runList EXCEPT ![t] = Len(servers) + 1]
        /\ Goto(x, AfterAdd(x, TRUE))
        /\ UNCHANGED <<up, dbvars, disk, bounds, tangled>>

\* The goroutine of a server: svr.Start listens, or fails and unlists the task.
Unlisted_Never(t) == runList
Unlisted(t) == [runList EXCEPT ![t] = None]

Listen(s) ==
    LET t == servers[s].task
    IN  /\ up /\ servers[s].state = "new"
        /\ IF PortFree(task[t].port)
           THEN /\ servers' = [servers EXCEPT ![s] =
                                  [task |-> t, port |-> task[t].port, state |-> "open"]]
                /\ UNCHANGED runList
           ELSE /\ servers' = [servers EXCEPT ![s].state = "failed"]
                /\ runList' = Unlisted(t)
        /\ UNCHANGED <<up, dbvars, disk, h, bounds, tangled, acked>>

\* StartTask.
FindToStart(x) ==
    /\ At(x, "find")
    /\ Goto(x, IF h[x].task \in tasks THEN "add" ELSE "failed")
    /\ UNCHANGED <<up, dbvars, disk, runvars, bounds, tangled>>

SetStatus(x, b) ==
    /\ task' = [task EXCEPT ![h[x].task].status = b]
    /\ tasks' = tasks \cup {h[x].task}

Started(x) ==
    /\ At(x, "status")
    /\ SetStatus(x, TRUE)
    /\ h' = [h EXCEPT ![x].pc = "save", ![x].then = "done"]
    /\ UNCHANGED <<up, clients, lastTask, lastClient, disk, runvars, bounds, tangled, acked>>

\* StopServer, as a part of stop, edit and DelTask; the error of a stop.
StopFailed(x) ==
    CASE h[x].op = "edit" -> "find"
      [] OTHER -> "failed"

StopLoad(x) ==
    LET entry == runList[h[x].task]
    IN  /\ At(x, "load")
        /\ \/ /\ entry # None
              /\ h' = [h EXCEPT ![x].svr = entry, ![x].pc = "close"] /\ UNCHANGED acked
           \/ entry = None /\ Goto(x, StopFailed(x))
        /\ UNCHANGED <<up, dbvars, disk, runvars, bounds, tangled>>

StopClose(x) ==
    /\ At(x, "close")
    /\ \/ /\ h[x].svr = Secret
          /\ Goto(x, "look") /\ UNCHANGED servers
       \/ /\ h[x].svr # Secret /\ servers[h[x].svr].state = "open"
          /\ servers' = [servers EXCEPT ![h[x].svr].state = "closed"]
          /\ Goto(x, "look")
       \/ /\ h[x].svr # Secret /\ servers[h[x].svr].state # "open"
          /\ Goto(x, StopFailed(x)) /\ UNCHANGED servers
    /\ UNCHANGED <<up, dbvars, disk, runList, bounds, tangled>>

\* Close of a server that has no listener yet is an error for UDP and a panic for
\* TCP, which ends the request of the console, with the tasks it had still to delete,
\* or the process (BridgePanics).
StopPanics(x) ==
    /\ x # Bridge
    /\ At(x, "close")
    /\ h[x].svr # Secret /\ servers[h[x].svr].state \in {"new", "failed"}
    /\ h' = [h EXCEPT ![x] = Idle]
    /\ tangled' = tangled \cup h[x].todo
    /\ UNCHANGED <<up, dbvars, disk, runvars, bounds, acked>>

StopLook(x) ==
    /\ At(x, "look")
    /\ Goto(x, IF h[x].task \in tasks THEN "unset" ELSE StopFailed(x))
    /\ UNCHANGED <<up, dbvars, disk, runvars, bounds, tangled>>

AfterUnset_Unsaved == "unlist"
AfterUnset == "save"

Stopped(x) ==
    /\ At(x, "unset")
    /\ SetStatus(x, FALSE)
    /\ h' = [h EXCEPT ![x].pc = AfterUnset, ![x].then = "unlist"]
    /\ UNCHANGED <<up, clients, lastTask, lastClient, disk, runvars, bounds, tangled, acked>>

Unlist(x) ==
    /\ At(x, "unlist")
    /\ runList' = Unlisted(h[x].task)
    /\ Goto(x, CASE h[x].op = "stop" -> "done" [] h[x].op = "edit" -> "find" [] OTHER -> "remove")
    /\ UNCHANGED <<up, dbvars, disk, servers, bounds, tangled>>

\* DelTask: what is listed is stopped first.
DelLoad(x) ==
    /\ At(x, "listed")
    /\ Goto(x, IF runList[h[x].task] # None THEN "load" ELSE "remove")
    /\ UNCHANGED <<up, dbvars, disk, runvars, bounds, tangled>>

Remove(x) ==
    /\ At(x, "remove")
    /\ tasks' = tasks \ {h[x].task}
    /\ h' = [h EXCEPT ![x].pc = "save", ![x].then = "done"]
    /\ UNCHANGED <<up, clients, task, lastTask, lastClient, disk, runvars, bounds, tangled, acked>>

\* NewTask, after the checks of Add or getConfig; getConfig tries the port now.
Create(x) ==
    /\ At(x, "create")
    /\ tasks' = tasks \cup {h[x].task}
    /\ h' = [h EXCEPT ![x].pc = "save", ![x].then = IF h[x].op = "config" THEN "try" ELSE "add"]
    /\ UNCHANGED <<up, clients, task, lastTask, lastClient, disk, runvars, bounds, tangled, acked>>

\* getConfig hands the task over to DealBridgeTask, whose select takes it to
\* AddTask or to StartTask; when the port is taken the client is thrown out.
TryPort(x) ==
    LET t == h[x].task
    IN  /\ At(x, "try")
        /\ \/ /\ task[t].mode = "secret" \/ PortFree(task[t].port)
              /\ h[Bridge].pc = "idle"
              /\ \E b \in {[op |-> "open", pc |-> "add"], [op |-> "start", pc |-> "find"]} :
                    h' = [h EXCEPT ![x] = Idle,
                             ![Bridge] = [Idle EXCEPT !.op = b.op, !.pc = b.pc, !.task = t]]
           \/ /\ task[t].mode # "secret" /\ ~PortFree(task[t].port)
              /\ h' = [h EXCEPT ![x] = Idle]
        /\ UNCHANGED <<up, dbvars, disk, runvars, bounds, tangled, acked>>

\* DelTunnelAndHostByClientId: the ids are collected first, then DelTask one by one.
Range(x) ==
    /\ At(x, "range")
    /\ h' = [h EXCEPT ![x].pc = "next",
                      ![x].todo = {t \in tasks : /\ task[t].client = h[x].client
                                                 /\ h[x].op = "closeClient" => task[t].noStore}]
    /\ UNCHANGED <<up, dbvars, disk, runvars, bounds, tangled, acked>>

TakesUp(w, t) ==
    [w EXCEPT !.task = t, !.todo = w.todo \ {t},
              !.pc = IF w.op = "boot" THEN "add" ELSE "listed"]

NextTask(x) ==
    /\ At(x, "next")
    /\ \/ h[x].todo = {} /\ h' = [h EXCEPT ![x] = Idle]
       \/ \E t \in h[x].todo : h' = [h EXCEPT ![x] = TakesUp(h[x], t)]
    /\ UNCHANGED <<up, dbvars, disk, runvars, bounds, tangled, acked>>

Step(x) ==
    \/ Save(x) \/ SaveClients(x) \/ AddTask(x) \/ ListServer(x)
    \/ FindToStart(x) \/ Started(x) \/ StopLoad(x) \/ StopClose(x) \/ StopPanics(x)
    \/ StopLook(x) \/ Stopped(x) \/ Unlist(x) \/ DelLoad(x) \/ Remove(x) \/ Create(x)
    \/ TryPort(x) \/ Range(x) \/ NextTask(x)

-----------------------------------------------------------------------------
(* Requests.                                                               *)

MayBegin(x) == up /\ h[x].pc = "idle" /\ ops < MaxOps /\ ops' = ops + 1

\* The console is served once main has started the stored tasks.
Console(x) == x \in Web /\ h[Main].pc = "idle" /\ MayBegin(x)

\* Requests on a task; Edit stores the task with its new port, then restarts it.
First(op) ==
    CASE op = "start" -> "find" [] op = "stop" -> "load" [] op = "delete" -> "listed"
      [] op = "edit" -> "save"

Request(x, op, t) ==
    /\ Console(x)
    /\ t \in tasks
    /\ h' = [h EXCEPT ![x] = [Idle EXCEPT !.op = op, !.pc = First(op), !.task = t,
                                          !.then = "load"]]
    /\ tangled' = IF Busy(t) THEN tangled \cup {t} ELSE tangled
    /\ acked' = [acked EXCEPT ![t] = "nothing"]
    /\ IF op = "edit"
       THEN \E p \in Ports : /\ p = task[t].port \/ PortFree(p)
                             /\ task' = [task EXCEPT ![t].port = p]
       ELSE UNCHANGED task
    /\ UNCHANGED <<up, clients, tasks, lastTask, lastClient, disk, runvars, crashes>>

\* Edit of the port to one that cannot be opened: the error comes after the
\* assignment, and nothing is stored.  When the task listens, on its old port, a start
\* of it may find the new one free and list a second server.
EditRefused(x, t, p) ==
    /\ Console(x)
    /\ t \in tasks /\ task[t].mode # "secret" /\ p # task[t].port /\ ~PortFree(p)
    /\ task' = [task EXCEPT ![t].port = p]
    /\ tangled' = IF Busy(t) \/ runList[t] # None THEN tangled \cup {t} ELSE tangled
    /\ UNCHANGED <<up, clients, tasks, lastTask, lastClient, disk, runvars, h, crashes, acked>>

\* Add by the console, or a task in the configuration of a client.
NewTask(x, op, c, p, m) ==
    /\ x \in Web /\ MayBegin(x)
    /\ c \in clients
    /\ op = "add" => h[Main].pc = "idle" /\ (m = "secret" \/ PortFree(p))
    /\ lastTask + 1 \in Ids
    /\ lastTask' = lastTask + 1
    /\ task' = [task EXCEPT ![lastTask + 1] =
                   [status |-> TRUE, port |-> p, mode |-> m, client |-> c,
                    noStore |-> op = "config"]]
    /\ h' = [h EXCEPT ![x] = [Idle EXCEPT !.op = op, !.pc = "create", !.task = lastTask + 1]]
    /\ tangled' = IF \E y \in Handlers : h[y].op \in ClientOps /\ h[y].client = c
                  THEN tangled \cup {lastTask + 1} ELSE tangled \ {lastTask + 1}
    /\ acked' = [acked EXCEPT ![lastTask + 1] = "nothing"]
    /\ UNCHANGED <<up, clients, tasks, lastClient, disk, runvars, crashes>>

\* The console creates a client (NewClient) or deletes one with its tasks; the end
\* of a client's session comes to DealBridgeTask by CloseClient.
NewClient(x) ==
    /\ Console(x)
    /\ lastClient + 1 \in Ids
    /\ lastClient' = lastClient + 1
    /\ clients' = clients \cup {lastClient + 1}
    /\ h' = [h EXCEPT ![x] = [Idle EXCEPT !.op = "client", !.pc = "saveClients"]]
    /\ UNCHANGED <<up, tasks, task, lastTask, disk, runvars, crashes, tangled, acked>>

Mine(c) == {t \in Ids : task[t].client = c}

DelClient(x, c) ==
    /\ Console(x)
    /\ c \in clients
    /\ clients' = clients \ {c}
    /\ h' = [h EXCEPT ![x] = [Idle EXCEPT !.op = "delClient", !.pc = "saveClients",
                                          !.then = "range", !.client = c]]
    /\ tangled' = tangled \cup {t \in Mine(c) : Busy(t)}
    /\ acked' = [t \in Ids |-> IF t \in Mine(c) \cap tasks THEN "nothing" ELSE acked[t]]
    /\ UNCHANGED <<up, tasks, task, lastTask, lastClient, disk, runvars, crashes>>

CloseClient(c) ==
    /\ MayBegin(Bridge)
    /\ h' = [h EXCEPT ![Bridge] = [Idle EXCEPT !.op = "closeClient", !.pc = "range", !.client = c]]
    /\ tangled' = tangled \cup {t \in Mine(c) : task[t].noStore /\ Busy(t)}
    /\ UNCHANGED <<up, dbvars, disk, runvars, crashes, acked>>

-----------------------------------------------------------------------------
(* Crash and start.                                                        *)

Down ==
    /\ up' = FALSE
    /\ servers' = [s \in 1 .. Len(servers) |-> [servers[s] EXCEPT !.state = "closed"]]
    /\ runList' = [t \in Ids |-> None]
    /\ h' = [x \in Handlers |-> Idle]
    /\ UNCHANGED <<dbvars, disk, ops, tangled, acked>>

Crash == up /\ crashes < MaxCrashes /\ crashes' = crashes + 1 /\ Down

BridgePanics ==
    /\ At(Bridge, "close")
    /\ h[Bridge].svr # Secret /\ servers[h[Bridge].svr].state \in {"new", "failed"}
    /\ Down /\ UNCHANGED crashes

Largest(S) == IF S = {} THEN 0 ELSE CHOOSE n \in S : \A m \in S : m <= n

\* A stored task whose client is not stored is left out.
Loaded == {r \in disk.tasks : r.client \in disk.clients}

\* Which of the loaded tasks InitFromCsv adds.
ToBoot == {r.id : r \in {r \in Loaded : r.status}}

Restart ==
    /\ ~up /\ up' = TRUE
    /\ clients' = disk.clients /\ lastClient' = Largest(disk.clients)
    /\ tasks' = {r.id : r \in Loaded} /\ lastTask' = Largest({r.id : r \in Loaded})
    /\ task' = [t \in Ids |-> IF \E r \in Loaded : r.id = t
                              THEN LET r == CHOOSE r \in Loaded : r.id = t
                                   IN  [status |-> r.status, port |-> r.port, mode |-> r.mode,
                                        client |-> r.client, noStore |-> FALSE]
                              ELSE NoTunnel]
    /\ h' = [h EXCEPT ![Main] = [Idle EXCEPT !.op = "boot", !.pc = "next", !.todo = ToBoot]]
    /\ UNCHANGED <<disk, runvars, bounds, tangled, acked>>

Next ==
    \/ \E x \in Handlers : Step(x)
    \/ \E s \in 1 .. Len(servers) : Listen(s)
    \/ \E x \in Web, t \in Ids, op \in {"start", "stop", "delete", "edit"} : Request(x, op, t)
    \/ \E x \in Web, t \in Ids, p \in Ports \cup Taken : EditRefused(x, t, p)
    \/ \E x \in Web, op \in {"add", "config"}, c \in Ids, p \in Ports, m \in Modes :
          NewTask(x, op, c, p, m)
    \/ \E x \in Web : NewClient(x) \/ \E c \in Ids : DelClient(x, c)
    \/ \E c \in Ids : CloseClient(c)
    \/ Crash \/ BridgePanics \/ Restart

Spec == Init /\ [][Next]_vars

-----------------------------------------------------------------------------
(* Properties.                                                             *)

Entry == {None, Secret} \cup 1 .. MaxServers

TypeOK ==
    /\ up \in BOOLEAN /\ clients \subseteq Ids /\ tasks \subseteq Ids
    /\ \A t \in Ids : task[t].mode \in Modes \cup {"tcp"} /\ task[t].status \in BOOLEAN
    /\ disk.clients \subseteq Ids /\ \A r \in disk.tasks : r.id \in Ids
    /\ runList \in [Ids -> Entry]
    /\ \A s \in 1 .. Len(servers) : servers[s].state \in {"new", "open", "failed", "closed"}
    /\ \A x \in Handlers : h[x].task \in Ids \cup {0} /\ h[x].todo \subseteq Ids
    /\ tangled \subseteq Ids

Open(t) == {s \in 1 .. Len(servers) : servers[s].task = t /\ servers[s].state = "open"}

\* Once nothing is done to a task, no two activities on it ever overlapped, and no
\* edit of it was refused while it was listed, RunList, the listeners, the database and
\* the file agree on it: what is listed listens and what listens is listed, for a task
\* that is there, with its Status set, of a client that is there; and the file has the
\* task as it is.
Agree ==
    \A t \in Ids :
        up /\ ~Busy(t) /\ t \notin tangled =>
            /\ Open(t) = (IF runList[t] \in {None, Secret} THEN {} ELSE {runList[t]})
            /\ runList[t] # None => t \in tasks /\ task[t].status
            /\ t \in tasks /\ ~task[t].noStore =>
                  /\ \E r \in disk.tasks : r.id = t /\ r.status = task[t].status
                  /\ task[t].client \in clients

\* A task that was stopped or deleted, and the request answered so, does not listen
\* again until somebody starts it, whatever crashes in between.
StaysDown ==
    \A t \in Ids :
        acked[t] \in {"stopped", "deleted"} /\ t \notin tangled => Open(t) = {}

TasksSound == TypeOK /\ Agree

=============================================================================
