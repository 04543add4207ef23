------------------------------ MODULE BufChain ------------------------------
(***************************************************************************)
(* bufDequeue and bufChain (lib/nps_mux/queue.go): a ring of slots between *)
(* two wrapping indexes, in a list of rings of growing size.  Producers    *)
(* push to the ring the chain calls head, consumers pop from the one it    *)
(* calls tail and drop a ring that is used up and has a successor.         *)
(*                                                                         *)
(* Each atomic access is a step.  A CAS loop that decides on the word it   *)
(* swaps alone is one step: the reservation of a slot, and the take of a   *)
(* slot's value.  Rings are numbered as they are allocated and never       *)
(* freed; prev, which only helps the garbage collector, and the Gosched of *)
(* starving are left out.                                                  *)
(*                                                                         *)
(* A definition named X_Y is a variant of X as a slip in the code would    *)
(* make it; the specification never uses it.                               *)
(***************************************************************************)
EXTENDS Integers, Sequences

CONSTANTS
    Producers, Consumers,
    MaxPush,       \* bound on the elements pushed
    Setups         \* the uses of a chain to check: see setup

\* Rings double from initSize up to sizeLimit: the sizes are powers of two in the code.
Doubled(s, sizes) ==
    /\ s.initSize \in sizes
    /\ \A n \in sizes : s.sizeLimit % n = 0 /\ (n = s.sizeLimit \/ 2 * n \in sizes)

ASSUME SetupAssumption == \A s \in Setups :
    /\ s.producers \subseteq Producers
    /\ s.initSize \in Nat \ {0} /\ s.sizeLimit \in Nat \ {0} /\ s.indexMod \in Nat
    /\ \E sizes \in SUBSET (1 .. s.sizeLimit) : Doubled(s, sizes)
    /\ s.indexMod % s.sizeLimit = 0 /\ s.sizeLimit < s.indexMod
    /\ s.maxInside \in Nat
ASSUME BoundAssumption == MaxPush \in Nat

Nil == 0       \* an empty slot, a pointer to no ring, a pop that found nothing

VARIABLES
    setup,         \* who pushes, the parameters and a bound: chosen at the start
    rings,         \* sequence of [size, head, tail, vals, next]
    headPtr, tailPtr, newChain,   \* the fields of bufChain
    ppc,           \* producer: where it is
    val,           \* producer: the element it pushes
    pring,         \* producer: d, the ring it has loaded
    slot,          \* producer: the index it has reserved
    fresh,         \* producer: d2, the ring it has made
    kpc,           \* consumer: where it is
    kring, knext,  \* consumer: d and d2
    ktail,         \* consumer: the tail it has loaded
    begun,         \* number of pushes begun, which names the elements
    order,         \* history: the elements in the order of their places
    popped,        \* history: number of elements taken
    last,          \* history: the element taken last
    wasEmpty,      \* history: whether a popTail has met an empty queue
    dropped        \* history: the rings that consumers have dropped

cvars == <<headPtr, tailPtr, newChain>>
pvars == <<ppc, val, pring, slot, fresh, begun, order>>
kvars == <<kpc, kring, knext, ktail, popped, last, wasEmpty, dropped>>
vars == <<setup, rings, cvars, pvars, kvars>>

InitSize == setup.initSize     \* the size given to bufChain.new
SizeLimit == setup.sizeLimit   \* dequeueLimit
IndexMod == setup.indexMod     \* 2^dequeueBits: head and tail wrap to 0 there
MaxInside == setup.maxInside   \* bound on the elements being pushed or not yet popped

EmptyRing(size) ==
    [size |-> size, head |-> 0, tail |-> 0, next |-> Nil,
     vals |-> [i \in 0 .. size - 1 |-> Nil]]

\* new(bufChainElt) in pushHead: the new ring already has the element.
Least(a, b) == IF a < b THEN a ELSE b
GrownRing(size, e) ==
    [EmptyRing(Least(2 * size, SizeLimit)) EXCEPT !.head = 1, !.vals[0] = e]

Init ==
    /\ setup \in Setups
    /\ rings = <<EmptyRing(InitSize)>>
    /\ headPtr = 1 /\ tailPtr = 1 /\ newChain = FALSE
    /\ ppc = [p \in Producers |-> "idle"] /\ val = [p \in Producers |-> Nil]
    /\ pring = [p \in Producers |-> Nil] /\ slot = [p \in Producers |-> 0]
    /\ fresh = [p \in Producers |-> Nil]
    /\ kpc = [k \in Consumers |-> "idle"] /\ kring = [k \in Consumers |-> Nil]
    /\ knext = [k \in Consumers |-> Nil] /\ ktail = [k \in Consumers |-> 0]
    /\ begun = 0 /\ order = <<>> /\ popped = 0 /\ last = Nil /\ dropped = {}
    /\ wasEmpty = [k \in Consumers |-> FALSE]

-----------------------------------------------------------------------------
(* The ring.                                                               *)

Full_Unwrapped(r) == r.tail + r.size = r.head
Full(r) == (r.tail + r.size) % IndexMod = r.head

Empty(r) == r.tail = r.head

\* The tail moves on: where it wraps, one must not be carried into the head.
TailMoved_Carried(r) ==
    [r EXCEPT !.tail = (@ + 1) % IndexMod,
              !.head = IF r.tail + 1 = IndexMod THEN (@ + 1) % IndexMod ELSE @]
TailMoved(r) == [r EXCEPT !.tail = (@ + 1) % IndexMod]

-----------------------------------------------------------------------------
(* Producers: bufChain.pushHead, bufDequeue.pushHead.                      *)

PMove(p, from, to) == ppc[p] = from /\ ppc' = [ppc EXCEPT ![p] = to]

PushBegin(p) ==
    /\ PMove(p, "idle", "gate")
    /\ p \in setup.producers
    /\ begun < MaxPush /\ begun - popped < MaxInside
    /\ begun' = begun + 1
    /\ val' = [val EXCEPT ![p] = begun + 1]
    /\ UNCHANGED <<setup, rings, cvars, pring, slot, fresh, order, kvars>>

\* The label startPush: wait while a ring is being added.
PassGate(p) ==
    /\ PMove(p, "gate", "head")
    /\ ~newChain
    /\ UNCHANGED <<rings, cvars, val, pring, slot, fresh, begun, order, kvars>>

RingToPush_Tail(p) == tailPtr
RingToPush(p) == headPtr

LoadHead(p) ==
    /\ PMove(p, "head", "reserve")
    /\ pring' = [pring EXCEPT ![p] = RingToPush(p)]
    /\ UNCHANGED <<rings, cvars, val, slot, fresh, begun, order, kvars>>

\* A slot is reserved: from here the element has its place in the order.
Reserve(p) ==
    LET r == rings[pring[p]]
    IN  /\ PMove(p, "reserve", "store")
        /\ ~Full(r)
        /\ rings' = [rings EXCEPT ![pring[p]].head = (@ + 1) % IndexMod]
        /\ slot' = [slot EXCEPT ![p] = r.head % r.size]
        /\ order' = Append(order, val[p])
        /\ UNCHANGED <<cvars, val, pring, fresh, begun, kvars>>

\* The producer forgets what it had in hand.
Finish(p) ==
    /\ val' = [val EXCEPT ![p] = Nil]
    /\ pring' = [pring EXCEPT ![p] = Nil]
    /\ slot' = [slot EXCEPT ![p] = 0]
    /\ fresh' = [fresh EXCEPT ![p] = Nil]

Store(p) ==
    /\ PMove(p, "store", "idle")
    /\ rings' = [rings EXCEPT ![pring[p]].vals[slot[p]] = val[p]]
    /\ Finish(p)
    /\ UNCHANGED <<cvars, begun, order, kvars>>

\* The ring is full: whoever sets newChain adds one, the others start again.
Grow(p) ==
    /\ ppc[p] = "reserve" /\ Full(rings[pring[p]])
    /\ \/ /\ PMove(p, "reserve", "gate")
          /\ newChain
          /\ pring' = [pring EXCEPT ![p] = Nil]
          /\ UNCHANGED <<newChain, fresh, rings>>
       \/ /\ PMove(p, "reserve", "publishHead")
          /\ ~newChain
          /\ newChain' = TRUE
          /\ rings' = Append(rings, GrownRing(rings[pring[p]].size, val[p]))
          /\ fresh' = [fresh EXCEPT ![p] = Len(rings) + 1]
          /\ UNCHANGED pring
    /\ UNCHANGED <<headPtr, tailPtr, val, slot, begun, order, kvars>>

PublishHead(p) ==
    /\ PMove(p, "publishHead", "publishNext")
    /\ headPtr' = fresh[p]
    /\ UNCHANGED <<rings, tailPtr, newChain, val, pring, slot, fresh, begun, order, kvars>>

PublishNext(p) ==
    /\ PMove(p, "publishNext", "openGate")
    /\ rings' = [rings EXCEPT ![pring[p]].next = fresh[p]]
    /\ order' = Append(order, val[p])
    /\ UNCHANGED <<cvars, val, pring, slot, fresh, begun, kvars>>

GateAfterGrowth_Shut == newChain
GateAfterGrowth == FALSE

PushDone(p) ==
    /\ PMove(p, "openGate", "idle")
    /\ newChain' = GateAfterGrowth
    /\ Finish(p)
    /\ UNCHANGED <<rings, headPtr, tailPtr, begun, order, kvars>>

Producer(p) ==
    /\ \/ PassGate(p) \/ LoadHead(p) \/ Reserve(p) \/ Store(p)
       \/ Grow(p) \/ PublishHead(p) \/ PublishNext(p) \/ PushDone(p)
    /\ UNCHANGED setup

-----------------------------------------------------------------------------
(* Consumers: bufChain.popTail, bufDequeue.popTail.                        *)

KMove(k, from, to) == kpc[k] = from /\ kpc' = [kpc EXCEPT ![k] = to]

PopBegin(k) ==
    /\ KMove(k, "idle", "next")
    /\ kring' = [kring EXCEPT ![k] = tailPtr]
    /\ UNCHANGED <<rings, cvars, pvars, knext, ktail, popped, last, wasEmpty, dropped>>

\* "It's important that we load the next pointer before popping the tail."
LoadNext(k) ==
    /\ KMove(k, "next", "look")
    /\ knext' = [knext EXCEPT ![k] = rings[kring[k]].next]
    /\ wasEmpty' = [wasEmpty EXCEPT ![k] = (popped = Len(order))]
    /\ UNCHANGED <<rings, cvars, pvars, kring, ktail, popped, last, dropped>>

PopDone(k) ==
    /\ kring' = [kring EXCEPT ![k] = Nil]
    /\ knext' = [knext EXCEPT ![k] = Nil]
    /\ ktail' = [ktail EXCEPT ![k] = 0]
    /\ wasEmpty' = [wasEmpty EXCEPT ![k] = FALSE]

Look(k) ==
    LET r == rings[kring[k]]
    IN  /\ KMove(k, "look", "slot")
        /\ ~Empty(r)
        /\ ktail' = [ktail EXCEPT ![k] = r.tail]
        /\ UNCHANGED <<rings, cvars, pvars, kring, knext, popped, last, wasEmpty, dropped>>

LookEmpty(k) ==
    /\ KMove(k, "look", "empty")
    /\ Empty(rings[kring[k]])
    /\ wasEmpty' = [wasEmpty EXCEPT ![k] = @ \/ popped = Len(order)]
    /\ UNCHANGED <<rings, cvars, pvars, kring, knext, ktail, popped, last, dropped>>

NextSeen(k) == knext[k]

\* The only ring: it "could be pushed to in the future".
FoundEmpty(k) ==
    /\ KMove(k, "empty", "idle")
    /\ NextSeen(k) = Nil
    /\ PopDone(k)
    /\ UNCHANGED <<rings, cvars, pvars, popped, last, dropped>>

\* "The tail of the chain has been drained, so move on."
Drop(k) ==
    /\ KMove(k, "empty", "next")
    /\ NextSeen(k) # Nil
    /\ kring' = [kring EXCEPT ![k] = NextSeen(k)]
    /\ IF tailPtr = kring[k]
       THEN tailPtr' = NextSeen(k) /\ dropped' = dropped \cup {kring[k]}
       ELSE UNCHANGED <<tailPtr, dropped>>
    /\ UNCHANGED <<rings, headPtr, newChain, pvars, knext, ktail, popped, last, wasEmpty>>

\* The slot has a value: take it, and leave the slot to the producers.
Place(k) == ktail[k] % rings[kring[k]].size

Take(k) ==
    LET v == rings[kring[k]].vals[Place(k)]
    IN  /\ KMove(k, "slot", "move")
        /\ v # Nil
        /\ rings' = [rings EXCEPT ![kring[k]].vals[Place(k)] = Nil]
        /\ popped' = popped + 1
        /\ last' = v
        /\ UNCHANGED <<cvars, pvars, kring, knext, ktail, wasEmpty, dropped>>

\* "Maybe the value was taken by other goroutine or not push yet."
LookAgain(k) ==
    /\ KMove(k, "slot", "look")
    /\ rings[kring[k]].vals[Place(k)] = Nil
    /\ UNCHANGED <<rings, cvars, pvars, kring, knext, ktail, popped, last, wasEmpty, dropped>>

MoveTail(k) ==
    /\ KMove(k, "move", "idle")
    /\ rings' = [rings EXCEPT ![kring[k]] = TailMoved(@)]
    /\ PopDone(k)
    /\ UNCHANGED <<cvars, pvars, popped, last, dropped>>

Consumer(k) ==
    /\ \/ PopBegin(k) \/ LoadNext(k) \/ Look(k) \/ LookEmpty(k) \/ FoundEmpty(k) \/ Drop(k)
       \/ Take(k) \/ LookAgain(k) \/ MoveTail(k)
    /\ UNCHANGED setup

-----------------------------------------------------------------------------

Next ==
    \/ \E p \in Producers : PushBegin(p) \/ Producer(p)
    \/ \E k \in Consumers : Consumer(k)

\* The runtime schedules every goroutine, and consumers keep popping.
Spec ==
    /\ Init /\ [][Next]_vars
    /\ \A p \in Producers : WF_vars(Producer(p))
    /\ \A k \in Consumers : WF_vars(Consumer(k))

-----------------------------------------------------------------------------
(* Properties.                                                             *)

RingNo == 1 .. Len(rings)

TypeOK ==
    /\ setup \in Setups
    /\ \A i \in RingNo :
          /\ rings[i].size \in 1 .. SizeLimit
          /\ rings[i].head \in 0 .. IndexMod - 1 /\ rings[i].tail \in 0 .. IndexMod - 1
          /\ rings[i].vals \in [0 .. rings[i].size - 1 -> 0 .. MaxPush]
          /\ rings[i].next \in RingNo \cup {Nil}
    /\ headPtr \in RingNo /\ tailPtr \in RingNo /\ newChain \in BOOLEAN
    /\ \A p \in Producers :
          /\ ppc[p] \in {"idle", "gate", "head", "reserve", "store", "publishHead",
                         "publishNext", "openGate"}
          /\ val[p] \in 0 .. MaxPush /\ slot[p] \in 0 .. SizeLimit - 1
          /\ pring[p] \in RingNo \cup {Nil} /\ fresh[p] \in RingNo \cup {Nil}
    /\ \A k \in Consumers :
          /\ kpc[k] \in {"idle", "next", "look", "empty", "slot", "move"}
          /\ kring[k] \in RingNo \cup {Nil} /\ knext[k] \in RingNo \cup {Nil}
          /\ ktail[k] \in 0 .. IndexMod - 1
    /\ begun \in 0 .. MaxPush /\ order \in Seq(1 .. MaxPush)
    /\ popped \in 0 .. MaxPush /\ last \in 0 .. MaxPush /\ dropped \subseteq RingNo
    /\ wasEmpty \in [Consumers -> BOOLEAN]

\* A ring never holds more than its size, however its indexes wrap.
Held(r) == (r.head - r.tail + IndexMod) % IndexMod
NeverOverfull == \A i \in RingNo : Held(rings[i]) <= rings[i].size

\* "The head slot is free, so we own it": no element is overwritten.
SlotIsFree ==
    \A p \in Producers : ppc[p] = "store" => rings[pring[p]].vals[slot[p]] = Nil

\* A ring is dropped only when "d is permanently empty".
PermanentlyEmpty == \A i \in dropped : Empty(rings[i])

\* A pop that finds nothing is right: at some moment since it began every
\* element whose place was taken had been popped.
NothingIsRight == \A k \in Consumers : kpc[k] = "empty" /\ knext[k] = Nil => wasEmpty[k]

\* The rings, the slots and the answers of the chain are sound at any moment.
ChainSound == TypeOK /\ NeverOverfull /\ SlotIsFree /\ PermanentlyEmpty /\ NothingIsRight

\* next "only transitions from nil to non-nil".
NextSetOnce == [][\A i \in RingNo : rings[i].next # Nil => rings'[i].next = rings[i].next]_vars

\* A push does not wait for ever while rings are added.
PushEnds == \A p \in Producers : ppc[p] # "idle" ~> ppc[p] = "idle"

\* The chain is a queue.
Abstract == INSTANCE Fifo WITH
    Elements <- 1 .. MaxPush,
    queue <- SubSeq(order, popped + 1, Len(order)),
    last <- last

FifoSpec == Abstract!Spec

=============================================================================
