# nps, modelled in TLA+

nps is a reverse proxy. A client (`npc`) behind a firewall keeps connections
to the server (`nps`); users connect to ports of the server, which opens a
connection inside the client's tunnel for each of them, and the client connects
that to the target. This directory holds TLA+ modules of the parts in which
goroutines, messages and failures meet, TLC runs on small instances of them, and
proofs for every value of the constants.

Sources are named as in the repository, under `src/`.

## The system

| Component (sources) | State it keeps | Operations |
| --- | --- | --- |
| Write queue of a mux (`lib/nps_mux/queue.go` 13-147) | three chains by class of packet, the counter `starving`, `stop` | Push, Pop, TryPop, Stop |
| Lock-free chain (`queue.go` 394-595) | rings `bufDequeue` linked by `next`, each with a packed word of two indexes | pushHead, popTail, growth and dropping of rings |
| Receive queue (`queue.go` 187-392, `conn.go` 136-162, 390-410) | packed word `lengthWait`, a chain, channels `readOp` and `stopOp`, the deadline | Push, Pop, waitPush, allowPop, Stop, release, CloseWindow |
| Windows of a connection (`conn.go` 121-618) | packed word `maxSizeDone` at either end, the receive queue, `setSizeCh` | Write, WriteTo, SetSize, calcSize, Read, sendStatus |
| Mux session (`mux.go`, `map.go`, `netpackager.go`) | `connMap`, ids, `newConnCh`, `newConnQueue`, ping state, `IsClose` | NewConn, Accept, readSession, writeSession, ping, Close |
| Bridge (`bridge/bridge.go`) | `Client`: id -> {signal, tunnel, file, retryTime} | typeDeal, DelClient, GetHealthFromClient, ping, SendLinkInfo, getConfig |
| Task lifecycle (`server/server.go`) | `RunList`, the tasks in the database | AddTask, StartTask, StopServer, DelTask, DealBridgeTask |
| Database (`lib/file`) | maps of clients, tasks, hosts, their JSON files, counters of connections and flow | New/Update/Del of each, Load, Store, GetConn, AddConn |
| Proxy servers (`server/proxy`) | listeners, connections under way, UDP address map | accept, DealClient, per-protocol loops |
| Rate limit (`lib/rate`) | bucket and its refill goroutine | Get, ReturnBucket, Stop |
| Health checks (`client/health.go`, `bridge.go` 119-181) | heap of checks; `TargetArr`, `HealthRemoveArr` | check, remove and restore a target |
| Port multiplexer (`lib/pmux`) | channels per protocol, replayed first bytes | process, Accept, Close |
| Client (`client`, `cmd/npc`) | signal, tunnel, P2P addresses | Start, handleMain, newChan, ping, Close, reconnect |
| Web console (`web`) | sessions, failed logins per address | requests that call the database and the task lifecycle |
| Cache (`lib/cache`) | LRU list and index | Add, Get, Remove |
| Configuration, crypt, install, daemon, gui | none that outlives a call | parsing, encryption, process control |

How they interact. A user's connection is accepted by a proxy server, counted
against its client's limit, and given to `Bridge.SendLinkInfo`, which calls
`Mux.NewConn` on the tunnel of that client. The client's `Accept` returns the
other end and two copy goroutines per side move the data, each closing both
connections when its Read ends (`lib/goroutine/pool.go` 108-126), so the
connection at one end is read by one goroutine, written by another and closed by
either. Inside a mux one goroutine reads the socket (`readSession`) and serves
every connection, so whatever blocks it blocks the whole tunnel; one writes the
socket (`writeSession`) from the priority queue, into which every goroutine
pushes; one pings. The server learns of clients through `typeDeal`; the end of a
client reaches the task lifecycle by channels (`OpenTask`, `CloseClient`, ...)
that `DealBridgeTask` serves alone.

What is hard here: two packed words changed by CAS from both sides with decisions
taken on what was loaded before; hand-overs between a flag in a word and an
unbuffered channel; close at any moment, by either end and by two goroutines of
one end; packets of different classes overtaking each other; sessions of one
client that replace each other while the goroutines of the old one still run.
`PROJECT.json` lists these hazards with their lines and the properties that
watch them.

## Modules

    PriorityQueue            write queue: classes, starving, cond.Wait
    BufChain  -> Fifo        the lock-free chain, and the queue it implements
    RecvQueue -> RecvFifo    the receive queue, and the blocking queue it implements
    FlowWindow               the two windows of one direction of a connection
    MuxOpen                  NewConn, Accept, dispatch and close between two ends
    MuxClose                 the end of a mux, which any of its goroutines may bring about
    Bridge                   sessions of one client id, at the server and at the client
    ConfigSession            the configuration that npc sends, and its answers
    Health                   health checks of npc, and the target lists of nps
    Link                     one link from the user to the target, at both ends
    Punch                    the UDP hole punch of two clients
    Tasks                    tasks, their files, RunList and what listens
    ConnLimit                the count of connections, along the paths of the proxies
    RateBucket               the token bucket of a client, used and replaced
    UdpProxy                 the address map of a UDP task
    Https                    certificates and listeners of the HTTPS hosts
    PortMux                  the shared port: dispatch, hand-over, replay
    Login                    the lockout of the console's login
    Nps                      an instance of each of the eleven around the sessions, and MuxClose
    X_proofs                 theorems about module X; Session_proofs and Proxy_proofs about
                             parts of Nps: Link, MuxClose, ConfigSession, Tasks; ConnLimit,
                             UdpProxy, RateBucket, PortMux, Login, Https, Health, Punch
    MCX, MCX*.cfg            instances of X for TLC

`->` is refinement, checked by TLC. The layers are used as assumptions upwards:
PriorityQueue and RecvQueue take a chain for a sequence, which BufChain shows;
FlowWindow takes the receive queue for the blocking FIFO of RecvFifo, and the
order of packets within a chain from PriorityQueue; MuxOpen counts the messages
that FlowWindow moves; Bridge, Link and ConfigSession know of a mux, or of a connection of
it, only whether it is closed.

The modules from MuxClose down to Login, except Bridge, meet each other only through
values that each takes as free (whether a link is opened, whether a request is
refused), so they are checked beside one another: Nps has an instance of each, over
variables `v1`, `v2`, ... that stand for those of the one that `part` names. Its states
are the states of the parts, one part after another, and each of its properties is
about one part: `LinkSound` is `part = "link" => K!LinkSound`, where `K` is the instance
of Link. MCNps gives the constants their values.

A definition named `X_Y` is the definition `X` with a slip (`Y` says which). No
specification uses it: it is there to try whether the properties notice, and each
property of a passing run fails when one of them replaces its original.

### PriorityQueue

State: how many packets wait in each of the three chains, `starving` (a uint8:
`Modulus`), `stop`, and the program counter of the one consumer, `writeSession`,
inside `Pop`: two tries, then the lock, one more try, `cond.Wait`. `Push` is one
action per class of packet and carries its `Broadcast`, which is called without
the lock; a Broadcast between the last try and `cond.Wait` is lost. `overtaken`
is history: the packets that left before the oldest waiting one of a class.

### BufChain and Fifo

Every atomic access is an action: for a producer the gate `newChain`, the load of
the head ring, the CAS that reserves a slot, the store of the value, and the
growth (make a ring twice the size, link it, publish the head); for a
consumer the load of the indexes, the CAS on the tail, the load of the slot, its
reset, and the dropping of an empty ring. Indexes wrap at `IndexMod` (2^32 in the
code). `Fifo` is the queue: an element is in it from the reservation of its slot.

The chain was written for one producer (`queue.go` 428, 490), and the receive
queue uses it so, but every goroutine that writes to a mux pushes into the chains
of the write queue. That is what two of the runs below are about.

### RecvQueue and RecvFifo

One pusher (`readSession`), one reader, and the closer of this end. The word
`lengthWait` is `length` and `wait`; `allowPop`/`waitPush` is a rendezvous on
`readOp`, with `stopOp` and the deadline as ways out. `CloseWindow`, `Stop` and
`release` run in the reader (after an error of Pop) and in the closer at the same
time, one step per access to shared state. `RecvFifo` promises: segments come in
order, a Read ends when there is a segment, io.EOF comes after the last one.

### FlowWindow

One direction of a connection: `sw` and `rw` are the words `maxSizeDone` of the
sending and the receiving window; `data` and `acks` the packets on their way. Five
goroutines, each with a program counter: the writer (`Write`, `WriteFull`,
`WriteTo`, `waitReceiveWindow`), the closer of the writing end, its `readSession`
(`SetSize`, `allow`), the `readSession` of the reading end (`receiveWindow.Write`,
`calcSize`, `Push`) and the reader (`Read`, `readFromQueue`, `sendStatus`). Bytes
are positions and segments are ranges, so order and loss show without payloads.
The size `calcSize` finds is any of `Windows`; the code computes it from measured
bandwidth and latency, between 30 and several thousand segments.

### MuxOpen

Two ends, `opener` and `acceptor`. The link to each is two sequences, the middle
and the low chain of the other end's write queue, either of which may deliver
next. NewConn registers the id, sends, and waits for the Ok; the goroutine of the
acceptor registers, hands over to Accept, then sends the Ok; data may follow at
once and overtake or be overtaken; either end closes.

### Bridge

One client id and its sessions. At the server: what `s.Client` holds for the id
(`client`), the goroutines of `cliProcess` that register the signal and the tunnel
of a session (`main`, `chan`), and every caller of `DelClient` (`del`: the
`GetHealthFromClient` of each session, and ping). At the client: `Start`, `newChan`,
`handleMain`, ping and `Close`. A `*Client` that was deleted from the map is still
held by a goroutine between its LoadOrStore and its assignment; `detached` is that
state, and what is assigned then is lost. `DelClient` reads the signal of the entry in
one step and deletes in another, so a session can be registered in between.

### MuxClose

`readSession`, `writeSession`, the two goroutines of `ping`, the one that serves
`newConnQueue` and the owner of the mux. `Close` is one action per step (test of
`IsClose`, its assignment, the map, `closeChan`, `newConnCh`, the socket, the queues),
so that two of them may be under way. A queue is what is in it and the list that
`cond.Wait` joins; `missed` are sleepers that a Broadcast came too early for. A second
close of a channel, a send on a closed one and the concurrent iteration of the map end
the process (`alive`).

### ConfigSession

npc sends its hosts and tasks one at a time (`StartFromFile`) and `getConfig` checks,
stores and answers each; `answers` is the stream back. A task may have several ports
(`pieces`), which `getConfig` answers one by one. `DelClient` and `DealBridgeTask`
follow as steps. With the public key each session makes a client of its own.

### Health

npc: `fails` is `HealthMap`, `check` the goroutines in `check`, the message of a change is
sent under the lock. nps: `chan` is the signal connection, `apply` the message in hand,
`arr`, `removeArr` and `nowIndex` the lists of a task or a host and where the proxies
are in them, read in `GetRandomTarget` under a lock that `GetHealthFromClient` does not
take. `Within` gives the targets whose text `strings.Contains` finds in a list.

### Link

`open` are the descriptors: the user's connection, the UDP socket of an association,
the two ends of the connection of the session, the target. `pc` has the handler of
the server, that of the client and the four copies. An end that is closed makes the
reads of it and of its peer fail (`Broken`). What follows, in which order and what is
left open, is the code's: `copyConnGroup` closes both ends of a copy, unless it was the
flow limit that ended it.

### Punch

One visitor, whose monitor tries again and again, and the provider's socket of each
attempt. `entry` and `ent` are the map of each port of the server and the records
behind it, `polls` the goroutines that wait for the provider, `net` the test messages
between the two clients, of which any may be lost, late or doubled.

### Tasks

The maps in memory (`clients`, `tasks`, and `task`, the record that requests share),
the files (`disk`), `runList` and the servers (`servers`: made, listening, failed,
closed). A handler runs a request of the console, a task of `getConfig`, the deletion
of a client, the channel of `DealBridgeTask` or the start of nps, one access at a time.
`Crash` ends the process at any step; `Restart` loads the files. `tangled` (history)
are the tasks on which two activities overlapped, or whose change of port was refused
while they were listed: the code orders these by nothing, so only the process, not the
pair, is expected to agree.

### ConnLimit, RateBucket, UdpProxy

ConnLimit: `now` is `NowConn`; a connection tests, counts, opens, serves and gives
back, and one of HTTP may find that it is for another host and start over; the
deferred calls are a set that is run on return. RateBucket: Get as test and subtraction, the
refill as a decision and an addition, the edit of a client as Stop, make and Start, with
any number of connections and editors between. UdpProxy: each datagram is a goroutine with
its own load, check, open, store and write; the goroutine that opened a link reads it
until it ends and removes the entry.

### Https, PortMux, Login

Https: a connection sweeps the two maps for deleted hosts, looks up the certificate and
the listener, makes both, and sends, one change of a map at a time, under the host
operations of the console. PortMux: a connection's goroutine reads until it knows the
kind, and hands over; `PortConn` replays the units it was made with to a reader with
buffers of any size. Login: handlers load, test and write the record of an address.
A record is a pointer that several handlers may hold: one that counts a failure stores
the record it loaded again (`login.go` 121), also after a right login deleted it or
another record took its place. Who then finds no record, or the other one, passes the
test and counts on the one that is put back, so `restored` (history) names these, and
`LockedOut` is about the others.

## Runs

| Run | What it shows | Instance |
| --- | --- | --- |
| priority_queue | bounds on overtaking, for every class; a lost wake-up is made up for by the next ping | `MaxStarving` 2, `Modulus` 8, two packets per class; the code has 8 and 256, and the same number of halvings bring the counter down |
| buf_chain | a FIFO, no slot overwritten, no ring lost, `next` set once, and every Push ends: with one producer and growth, and with two producers without | rings of 1 and 2 slots that grow, or one ring of 4; indexes wrap and each ring is filled |
| buf_chain_next | violation, see Findings | two producers and growth |
| recv_queue | implements RecvFifo with its liveness; the length, the sleeping reader, readSession is not held up; with deadlines, or with a close of this end at any moment | three segments, close by the peer as well |
| recv_queue_spin, recv_queue_eof | violations, see Findings | the same |
| flow_window | credit is conserved, window respected, nobody left waiting | windows of 2 and 4 bytes resized at every second segment, segments of 1 or 2, five bytes written: the window fills, shrinks below what is in flight and grows again |
| flow_close | close at any moment or never: everything before it is read, Write returns, readSession is not left in `allow` | windows of 1 and 2, segments of 1: the reader keeps credit back |
| mux_open | ends agree in the end, every open succeeds, a message is lost by a close only | two connections, a message each way |
| bridge | the registered signal is watched, retries are bounded, a stale entry does not stay | two sessions that break at any moment, `MaxRetry` 2 (3 in the code) |
| bridge_before | violation, see Findings | the same |
| nps_parts | thirteen properties of twelve parts, below | below |

The parts of nps_parts (2.8 million states in all):

| Property | What it says | Instance |
| --- | --- | --- |
| TasksSound | listeners, RunList, database and file agree on a task that nothing is being done to | two handlers, two tasks, one usable port and one that is taken, three requests, one crash |
| StaysDown | a task that was stopped or deleted, and answered so, does not listen again, crash or not | the same |
| LimitSound | NowConn is the connections counted; the limit is exceeded only by those accepted between test and count | two connections, two clients with limit 1, one change of host |
| RateSound | a bucket stays within two seconds' worth and within one request per other connection below zero; one bucket is filled | two connections, two edits, sizes 1 and 2 |
| UdpSound | an entry leads to a link that is served, and each link is counted | two addresses, three goroutines, limit 2, four datagrams |
| PortSound | a connection is read from its first byte, each byte once | up to three units kept, buffers of 1, 2 and 4: shorter than, and across, the kept ones |
| CloseSound | once a mux is closed everything of it ends | all six goroutines, one packet, one connection of the peer |
| LoginSound | an address is refused after its failures, but for those written over one another and for a record that was put back | limit 2 (10 in the code), three handlers, a pause, five failures compared on one record |
| HealthSound | nps uses a target exactly when npc counts it healthy | two targets, a task with both and a host with one, seven results, two sessions |
| LinkSound | nothing of a link that is over is left open; no datagram is made up | one link of every kind, flow limit 1 |
| PunchSound | a served attempt leaves nothing; a path works both ways | two ports (three in the code), two attempts |
| HttpsSound | a connection gets its host's certificate; the maps agree and nothing panics | two hosts, a good and a bad certificate, three operations |
| ConfigSound | what npc was told is so; nothing is stored for nobody | a secret and a tcp task, one with two ports, a host; two sessions |

Two actors of each kind are what these races need: each is between one that tested and
another that changes. The counts (requests, results, datagrams) are the least with which
every action and branch of the part is taken. Larger instances hold as well: two more results
for Health, one more operation and listener for Https, one more datagram for UdpProxy.
Login needs three handlers: with two no record that was put back is compared more often
than the bound allows, with three it is. Tasks with a fourth request is too large to be
finished.

Deadlock is not checked: each of these programs may rest (nothing written, the
queue stopped, no session). What must not rest is stated as a property instead
(`QuietMeansFree`, `EndsAgree`, the liveness properties).

A behaviour of RecvQueue either has deadlines or may close this end (the variable
`deadlines`, chosen at the start): the only code that sets a read deadline on a mux
connection (`server/proxy/udp.go` 102) closes it in the same goroutine.

Two sessions are enough for Bridge because an entry has two parts: a third
session could only replace what one of two has already replaced. The safety
properties are proved for any number.

### Fairness

Every step of a goroutine that has begun an operation is weakly fair: the Go
scheduler runs every runnable goroutine, and a rendezvous on a channel is one
step of both. Beginning an operation is not: nobody is obliged to write, to open
or to close. Exceptions, each said at its `Spec`: the ping ticker of the mux
fires for ever (PriorityQueue), readers keep reading as the copy loops do
(FlowWindow, RecvQueue), a user closes the connection whose peer closed
(MuxOpen), as `copyConnGroup` does, and the ticker of the bridge fires for ever
(Bridge), while nobody has to start a session or to break a connection. CAS retries are under the same weak fairness:
a lock-free loop could starve under an adversarial scheduler only if others
succeed for ever, which the bounds exclude in the model.

Nps states no fairness: its properties are of single states. Several of them are about
what is so once nobody has a step left (`EverythingEnds`, `NothingLeft`, `Agree`), which
says of an end that is reached what it looks like, without a promise of when.

## Findings

Four comments of the source say what the code does not keep; each is a run that
TLC refutes, described in `PROJECT.json`.

- `queue.go:278`: Pop spins because "another goroutine is still pushing"; with a
  release by conn.Close nobody is (recv_queue_spin).
- `conn.go:76`: a Read under way gets io.EOF on close; two goroutines in
  CloseWindow can fill `closeOpCh` and stay (recv_queue_eof).
- `queue.go:490`: `next` is set once; two producers set it twice and lose a ring
  with its packets (buf_chain_next).
- `bridge.go:268`: the client of before is closed; it is sent a flag it ignores and
  stays connected (bridge_before).

MuxOpen also shows, under no property since no line says otherwise, that an Ok
which arrives after NewConn gave up blocks `readSession` on `connStatusOkCh`. Bridge
shows likewise that a session whose signal is assigned to a detached entry stays
connected and unregistered, and that a client closed between the dial of its tunnel
and the assignment of it leaves that tunnel open.

The parts of nps_parts meet behaviours that no line of the source speaks against, so
that no run refutes one; the properties say where they end, in the exception each of
them names.

- Https (`tangled`): two hosts with one certificate, of which one is deleted or given
  another, or a host deleted under a connection, leave an entry without its listener. The
  next connection sends on a nil listener (`https.go` 171) and nps ends. The server of a
  listener that was replaced never ends (`https.go` 264), and a certificate that cannot
  be parsed leaves every connection of its host waiting in that send.
- Tasks (`tangled`): two requests on one task leave a listener that RunList does not
  have, or an entry that does not listen; a task of an npc that goes before its
  server listens ends nps (`tcp.go` 50). Edit of the console assigns the new port before
  it tests it (`index.go` 188), and a refused edit leaves it: a start of the task, which
  listens on its old port, finds the new one free by then and lists a second server
  (`server.go` 187-209); the first listens on, unlisted, and a stop closes the second
  only. It takes two usable ports, one more than the run has.
- ConnLimit (`switched`): a request for a host of another client gives back to the new
  one what it took from the old one, so that the count of the one goes down and
  that of the other stays.
- RateBucket: after an edit, connections opened before it wait for ever for a bucket that
  nobody fills, and the second of two edits at once waits for ever in Stop.
- UdpProxy (`crossed`, `writeFailed`): two first datagrams of one address open a link
  each; a write that fails leaves the entry of a link that nobody serves.
- PortMux (`short`): the second read that is shorter than what is left is given the first
  bytes again. The timer of the hand-over counts nanoseconds (`pmux.go` 133), and a
  connection it gives up is not closed.
- MuxClose: two calls of Close at once may close `newConnCh` twice, and Close may fall
  between the test and the hand-over of readSession; either ends the process.
- Login (`lost`, `restored`): failures that two handlers count at once count as one. A
  handler that counts a failure on a record which a right login has deleted meanwhile
  puts it back, and those that found no record before have passed the test without it.
- Health: a target named within the text of another one's is taken out with it
  (`bridge.go` 126); a pick while the list gets shorter indexes beyond it (`obj.go` 223).
- Link (`unclosed`, `limited`, `refused`): refused SOCKS5 requests leave the connection
  open (`socks5.go` 129, 155); a copy ended by the flow limit closes nothing
  (`pool.go` 83); a datagram that the client cannot read is answered by empty ones.
- Punch (`stale`): an entry that an unserved attempt left is given to the next one; a
  client that is told only some of the addresses waits for ever, with its lock held
  (`control.go` 364).
- ConfigSession (`overtaken`, `orphaned`, `missing`): a task with several ports puts
  the answers out of step; a refused session of a client without an entry leaves its
  tasks; npc asks for ever with a key that was deleted.

## Proofs

`tlapm` checks these for every value of the constants. What is assumed of the constants
are the named assumptions of the modules, which TLC evaluates on every run, and nothing
else, but for the condition `Served` of BufChain_proofs, which is said there. Each proof
has the same shape: an inductive invariant `IInv` (`Invariant` says that it holds in every
behaviour), one lemma per action or group of actions, and from it the properties.

**PriorityQueue_proofs.** The type invariant; `LowestBounded`, that a packet of the
low chain is overtaken by at most `MaxStarving + 1` others; `MiddleBounded`, that one of
the middle chain is overtaken by no more low ones than it takes halvings to bring the
largest `starving` down; `PingFirst`, that a ping waits for at most one packet. The
bounds are not inductive alone. They are strengthened by relating, at each program
counter of the consumer, the history `overtaken` to `starving` and to what the consumer
has already found empty. For `MiddleBounded` that is that `starving` is at most
`Modulus - 1` halved as often as the packet was overtaken (`MidInv`).

**BufChain_proofs.** For rings of any size and any modulus of the indexes: `Sound` (no
ring is overfull, no element overwritten, no ring dropped that has or will have elements,
no wrong answer of nothing), `NextIsSetOnce`, and `StepsAreQueue`, that every step is a
step of Fifo or a stutter. They are under the condition `Served`: one consumer, as
everywhere in the code; and either one producer, as in the receive queue and
newConnQueue, or any number that never fill the first ring. Without it they are false,
which the run buf_chain_next shows, so it is the exact use in which the chain is right.
The indexes of a ring wrap, so that neither their order nor the number of elements can be
read from them. `IInv` therefore says that there are numbers that do not wrap (`GhostInv`):
`H[i]` and `T[i]`, the elements ever placed in ring `i` and taken from it, `b[i]`, those
placed before it, and `J[p]`, the place that producer `p` has reserved. The state has
their remainders, every place `T[i] <= j < H[i]` of a ring is a hole or has the element
`order[b[i] + j + 1]`, and the rings before the tail are used up, those after it
untouched. The sizes divide the modulus and `H - T` is at most the size, which is smaller
than the modulus; six lemmas about remainders (`ModMod`, `Differ`, `HeldIs`, ...) bring
back from this what the code computes. What a consumer has loaded of `next`, head and tail
stays true enough until it acts (`ConsumerInv`).

**RecvQueue_proofs.** For any number of segments: `Sound` (the word `lengthWait` counts
the segments, a sleeping reader is known to who will wake it, io.EOF comes behind the
last segment) and `StepsAreFifo`, that every step is one of RecvFifo or a stutter. The
wait of a reader is in one place at a time, the word, the pusher's loaded copy or
`allowPop` (`WaitInv`); that is why the two tokens that Stop leaves are enough
(`TokenInv`): `allowPop` takes one at most while the reader has no error.

**FlowWindow_proofs**, from the assumptions on the constants in FlowWindow (segments
and windows are at least 1, the first window is one of `Windows`): the type invariant,
`CreditIsConserved`, `ReadIsWithinSent` (the branch "window read > send" of SetSize is
dead while both ends are open), `WindowIsRespected`, `EofIsComplete`, `BytesInOrder` and
`QuietWindowIsFree` (when all was read and no message is on its way, the send window is
empty and no writer waits). None is inductive alone. The inductive invariant `IInv` says
where every byte is: the segments in `data`, the one in readSession's hands and the
receive queue are a chain of ranges (`Chained`) from the reader's position to the
writer's, and the credit in `acks` is another; `qlen` is the length of the queue,
corrected by what Push has announced and Pop has not yet taken off; `acct` is at one of
two places of the element in the reader's hands, by its program counter. Then
`Outstanding`, the sum in CreditConserved, is at most the counter of the send window
(equal while both ends are open) and its terms are not negative, from which the rest
follows: a credit that SetSize handles is a term of the sum, and what is counted but not
read another. `Chained` says the order of every pair of ranges, so its two lemmas
(append, tail) need no induction. `QuietWindowIsFree` needs that the reader keeps credit
back only while something of the stream is still to reach it, and that a writer waits only
in a full window or while readSession is about to wake it (`QuietInv`).

**MuxOpen_proofs.** For any number of connections and messages: `Sound` (NewConn returns
only what Accept has returned, a message is dropped only for a closed connection, a close
comes behind all messages) and `Agreement` (when nothing is on its way and nobody has
timed out, both ends agree on every connection, and `connMap` holds the open ones). `IInv`
follows an id through the places it can be in while it is opened: its NewConn on the link,
`newConnQueue`, the goroutine that pops it, its Ok on the link, readSession. It is in the
first three at most once (`OnceInv`), so that nothing puts it back after a close; in the
low chain nothing of a connection follows its close.

**Bridge_proofs.** The type invariant, which holds because an entry that has used up its
retries is about to be removed by the only goroutine that counts them (`RetryInv`),
and `SignalHasWatcher`, for any number of sessions.

**Session_proofs.** Three parts of a session, and the tasks:

- `LinkIsSound`, for every flow limit: the invariant says of each side, server and client,
  what it has closed by the time it is at each of its steps, and what the end of the
  session or of a copy takes along.
- `CloseIsSound`, for any number of packets and of connections of the peer: the invariant
  says what is closed once a call of Close is past each of its steps, or the queues are
  stopped (`Past`), whichever of the four goroutines made the call.
- `ConfigIsSound`, for any configuration and number of sessions: with one port to a task,
  an item is in one place until it is answered (on its way, in the bridge's hands, its
  answer on its way: `Awaiting`), and what is answered is stored (`Stored`), so that npc
  and the bridge stay in step (`InStep`). Who is to delete the tasks of a client is
  followed apart (`KeeperInv`).
- `TasksAreSound` and `TasksStayDown`, for any ids, ports, handlers, requests and
  crashes. `Agree` speaks of a task at rest only; what keeps it is what holds in between,
  of a task that is not in `tangled`. `AtWork` says for each step of a request what it
  finds of its task (that it is there, with or without a server, listed or not, with
  which status), and `Alone` that nobody else works on it and that its server starts
  alone or while the request that started it stores the status; an ended request leaves
  what rest means (`Settled`). The file has the status of each task but of one that is
  about to be saved (`FileAt`), and the client of a task is there or the request that
  deleted it is still to delete the task (`ClientAt`). What was stopped or deleted is
  down in memory and in the file (`AckAt`): a crash at any step loads a status that is
  not set, since the stop is stored before the task is unlisted (`UnlistInv`). It is
  proved in two layers: what a step does (`SaveDoes`, `ListenDoes`, ...), with the
  definitions of Tasks expanded once, and from that what it keeps.
  `TaskAssumption` is that ids are numbers from 1 up to a largest one, and that main and
  `DealBridgeTask` are not handlers of the console.

**Proxy_proofs.** Eight parts, for any finite number of goroutines:

- `LimitIsSound`: NowConn of an owner is the number of connections that will give one
  back, and it exceeds MaxConn by no more than were between the test and the count.
  Each step changes the set of holders by one connection at most (`CardinalityStep`).
- `UdpIsSound`: at most one goroutine of an address that no two met at has a link
  (`OneLink`), which is why the entry leads to it.
- `RateIsSound`: of those that tested a bucket and have not taken from it yet, the one
  that tested last finds what it tested for, but for what the others take before it
  (`DebtInv`); so the debt is bounded by one read or write for each connection but one.
- `PortIsSound`: until a second read is short, what was delivered is a prefix of the
  stream, of a length that `start` and `taken` tell (`ConnInv`).
- `LoginIsSound`: what was compared on a record is in its count, was written over, or is
  in the hands of a handler that has not written (`CountedInv`), and who has passed the
  test counts as compared already (`PassedInv`).
- `HttpsIsSound`, for any hosts and certificates: until two hosts share a certificate or
  one is changed under a connection, a certificate is of one host (`HolderInv`), so what a
  goroutine is about to take out of the maps is nobody else's (`ValInv`); each map leads to
  the other but where a goroutine is between its two changes (`MapInv`).
- `HealthIsSound`, for any targets and lists: the last message under way about a target
  says how npc counts it (`SaidInv`), which is why a check sends one message at most and
  sends one whenever the count crosses MaxFail (`ReportSays`, `Multiples`); when none is
  under way, the one being applied, or else the list, agrees (`AgreeInv`). A list names a
  target once, and a target of a task that is not in its list is in its `removeArr`
  (`ListInv`), so a list that was emptied is not made anew. It assumes that a task names
  each of its targets once: nothing in the code sees to it, and one that is named twice
  stays in the list once when it is down.
- `PunchIsSound`, for any ports and attempts: the question of a client to a port is in one
  place (`OnceInv`), so an attempt that was served at a port has left nothing there
  (`CleanInv`); a test message tells what its sender had received (`TestInv`).

Three of these proofs corrected the model. `Closed` of Link was a CASE with overlapping
arms, of which TLC took the first. `LockedOut` of Login, which was stated without
`restored` and held with the two handlers of its run, could not be proved, and TLC found
its counterexample with three; the run has three since. `Agree` of Tasks left the refused
edit out of `tangled`, and a stop that found nothing listed was never answered, which kept
its task busy.

Only model-checked:

- liveness under fairness, which is out of the prover's reach: `PushEnds`, the fairness of
  FifoSpec and of RecvFifo, `StaleGoes` and the liveness properties of FlowWindow,
  PriorityQueue, MuxOpen;
- the violations under Findings, which are single behaviours.

## Not modelled

The measurements behind the window size, buffer pools and the byte format of
packets; the parsing of HTTP, SOCKS5 and configuration; encryption and
compression; installation, daemon and GUI. They either keep no state between
calls or are reached here as a free choice of their result.

The file tunnel of a client is registered as its tunnel is, and is left out of Bridge.
The LRU cache (`lib/cache`) is never filled by any caller. The counters of flow are not
modelled beyond the limit that ends a copy, nor are `NowRate` and the data of the
dashboard, which are displayed only. The reader of HTTP in `handleChan` of the client
(`client.go` 183-211), the header rewriting of `http.go` and `websocket.go` are sequential
transformations of bytes between the steps of Link. Which check of the health scheduler is
due (`lib/sheap`) is a free choice. The pages of the console and the rights of its
users are request handling without shared state but the database.

## Plan

Every invariant of the runs is proved. What is left:

1. FlowWindow as the refinement of a byte stream.
2. An abstract specification "a task runs iff its status says so", which Tasks implements
   but for the tasks in `tangled`; `AtWork` has what the refinement needs.
3. Liveness of the parts: under fairness of their goroutines, a closed mux comes to
   rest, and a link that is over is closed.
