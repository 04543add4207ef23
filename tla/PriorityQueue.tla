--------------------------- MODULE PriorityQueue ---------------------------
(***************************************************************************)
(* The write queue of a mux (lib/nps_mux/queue.go, priorityQueue): three   *)
(* chains of packets, pushed to by every goroutine that calls sendInfo and *)
(* popped by the one goroutine of writeSession.                            *)
(*                                                                         *)
(* A chain is its number of packets: which packet of a chain comes first   *)
(* is the business of BufChain.  What matters here is which chain the next *)
(* packet comes from, so TryPop is taken apart into its looks at the       *)
(* chains, with pushes in between, and Pop into its attempts.              *)
(*                                                                         *)
(* sync.Cond.Wait first joins the list of waiters and sleeps afterwards;   *)
(* Broadcast wakes those already on the list.  Push and Stop call          *)
(* Broadcast without holding cond.L, so they can fall between the last     *)
(* look of Pop and its joining the list (the step Enlist).                 *)
(*                                                                         *)
(* A definition named X_Y is a variant of X as a slip in the code would    *)
(* make it; the specification never uses it.  PROJECT.json says which      *)
(* property notices which variant.                                         *)
(***************************************************************************)
EXTENDS Naturals

CONSTANTS
    MaxStarving,   \* maxStarving, 8 in the code
    Modulus,       \* starving is a uint8: 256 in the code
    ChainBound     \* bound on the packets of a chain; the code has none

ASSUME MaxStarvingAssumption == MaxStarving \in Nat \ {0}
ASSUME ModulusAssumption == Modulus \in Nat /\ MaxStarving < Modulus
ASSUME ChainBoundAssumption == ChainBound \in Nat /\ ChainBound >= 2

Class == {"high", "mid", "low"}

Flag == {"ping", "pingReturn", "newConn", "newConnOk", "newConnFail",
         "newMsg", "newMsgPart", "msgSendOk", "connClose"}

\* The chain push chooses for a packet.
ChainOf(flag) ==
    CASE flag \in {"ping", "pingReturn"}                   -> "high"
      [] flag \in {"newConn", "newConnOk", "newConnFail"}  -> "mid"
      [] OTHER                                             -> "low"

VARIABLES
    chain,      \* the number of packets in each chain
    starving,   \* packets of mid popped ahead of low, halved at every low
    stop,       \* set by Stop
    pc,         \* where writeSession is: outside Pop ("idle"), at one of the
                \* looks of TryPop, at the stop test, or in cond.Wait
    attempt,    \* 1 and 2: the tries without the lock; 3: those with it
    out,        \* the class of the packet the last Pop returned
    overtaken   \* history: rivals that left while a packet of this class waited

vars == <<chain, starving, stop, pc, attempt, out, overtaken>>

TypeOK ==
    /\ chain \in [Class -> Nat]
    /\ starving \in 0 .. Modulus - 1
    /\ stop \in BOOLEAN
    /\ pc \in {"idle", "high", "mid", "low", "mid2", "empty", "enlist", "asleep", "gone"}
    /\ attempt \in 1 .. 3
    /\ out \in Class \cup {"none"}
    /\ overtaken \in [Class -> Nat]

Init ==
    /\ chain = [c \in Class |-> 0]
    /\ starving = 0
    /\ stop = FALSE
    /\ pc = "idle"
    /\ attempt = 1
    /\ out = "none"
    /\ overtaken = [c \in Class |-> 0]

-----------------------------------------------------------------------------
(* The goroutines that push.                                               *)

\* A sleeper woken by Broadcast goes on with TryPop, under the lock.
Broadcast_Dropped == pc' = pc
Broadcast == pc' = IF pc = "asleep" THEN "high" ELSE pc

\* A tick of the ping goroutine can only come this late once in 5 seconds, so
\* one place of the high chain is kept for the tick after it.
PastHigh == attempt = 3 /\ pc \in {"mid", "low", "mid2", "empty", "enlist"}

HasRoom(c) ==
    chain[c] < IF c = "high" /\ PastHigh THEN ChainBound - 1 ELSE ChainBound

Push(flag) ==
    /\ HasRoom(ChainOf(flag))
    /\ chain' = [chain EXCEPT ![ChainOf(flag)] = @ + 1]
    /\ Broadcast
    /\ UNCHANGED <<starving, stop, attempt, out, overtaken>>

\* The ping goroutine pushes one ping at every tick, until the mux is closed.
PushPing == ~stop /\ Push("ping")

Stop ==
    /\ ~stop
    /\ stop' = TRUE
    /\ Broadcast
    /\ UNCHANGED <<chain, starving, attempt, out, overtaken>>

-----------------------------------------------------------------------------
(* Pop, called by writeSession in a loop.                                  *)

\* A packet of class d overtakes those of class c: everything overtakes a ping,
\* and the two lower chains overtake each other.
Rival(c, d) ==
    \/ c = "high" /\ d # "high"
    \/ c = "mid" /\ d = "low"
    \/ c = "low" /\ d = "mid"

\* The successful popTail of a chain; Pop returns the packet.
Take(c) ==
    /\ chain[c] > 0
    /\ chain' = [chain EXCEPT ![c] = @ - 1]
    /\ out' = c
    /\ pc' = "idle"
    /\ overtaken' = [d \in Class |->
          IF d = c \/ chain[d] = 0 THEN 0
          ELSE IF Rival(d, c) THEN overtaken[d] + 1 ELSE overtaken[d]]
    /\ UNCHANGED <<stop, attempt>>

\* The look at a chain finds it empty, or is not made; TryPop goes on.
Skip(next) ==
    /\ pc' = next
    /\ UNCHANGED <<chain, starving, stop, attempt, out, overtaken>>

\* The chain TryPop looks at first.
FirstLook_NotPings == "mid"
FirstLook == "high"

\* writeSession leaves its loop when IsClose is set, which Stop comes after.
StartPop ==
    /\ pc = "idle"
    /\ ~stop
    /\ pc' = FirstLook
    /\ attempt' = 1
    /\ out' = "none"
    /\ UNCHANGED <<chain, starving, stop, overtaken>>

Leave == pc = "idle" /\ stop /\ Skip("gone")

LookHigh ==
    /\ pc = "high"
    /\ \/ Take("high") /\ UNCHANGED starving
       \/ chain["high"] = 0 /\ Skip("mid")

\* "not pop too much, lowestChain will wait too long"
MidMayGo_Always == TRUE
MidMayGo == starving < MaxStarving

\* starving++ of a uint8, and its halving.
Bumped_Wide == starving + 1
Bumped == (starving + 1) % Modulus

Relieved_Never == starving
Relieved == starving \div 2

LookMid ==
    /\ pc = "mid"
    /\ \/ MidMayGo /\ Take("mid") /\ starving' = Bumped
       \/ ~(MidMayGo /\ chain["mid"] > 0) /\ Skip("low")

LookLow ==
    /\ pc = "low"
    /\ \/ Take("low") /\ starving' = Relieved
       \/ chain["low"] = 0 /\ Skip(IF starving > 0 THEN "mid2" ELSE "empty")

LookMidAgain ==
    /\ pc = "mid2"
    /\ \/ Take("mid") /\ starving' = Bumped
       \/ chain["mid"] = 0 /\ Skip("empty")

\* TryPop returned nil.
FoundEmpty ==
    /\ pc = "empty"
    /\ \/ stop /\ pc' = "gone" /\ UNCHANGED attempt
       \/ ~stop /\ attempt < 3 /\ attempt' = attempt + 1 /\ pc' = "high"
       \/ ~stop /\ attempt = 3 /\ pc' = "enlist" /\ UNCHANGED attempt
    /\ UNCHANGED <<chain, starving, stop, out, overtaken>>

\* cond.Wait joins the list of those Broadcast wakes.
Enlist == pc = "enlist" /\ Skip("asleep")

Pop ==
    \/ StartPop
    \/ Leave
    \/ LookHigh
    \/ LookMid
    \/ LookLow
    \/ LookMidAgain
    \/ FoundEmpty
    \/ Enlist

Next ==
    \/ \E flag \in Flag \ {"ping"} : Push(flag)
    \/ PushPing
    \/ Stop
    \/ Pop

\* The runtime schedules writeSession, and the ticker of the ping goroutine
\* never stops before the mux is closed.
Spec == Init /\ [][Next]_vars /\ WF_vars(Pop) /\ WF_vars(PushPing)

-----------------------------------------------------------------------------
(* Properties.                                                             *)

\* A waiting packet of the low chain (data, window updates, closes) is
\* overtaken by at most MaxStarving packets of the middle chain, and one more
\* when the low chain was found empty just before it came (TryPop, the second
\* look at middleChain, which also lets starving wrap around to 0).
LowestBypass == chain["low"] > 0 => overtaken["low"] <= MaxStarving + 1

\* The halvings that bring any starving below MaxStarving.
Halvings == CHOOSE k \in 0 .. Modulus :
    /\ (Modulus - 1) \div (2^k) < MaxStarving
    /\ \A j \in 0 .. k - 1 : (Modulus - 1) \div (2^j) >= MaxStarving

\* A waiting packet of the middle chain is overtaken by at most Halvings packets
\* of the low chain, however far starving had grown while low was empty
\* (TryPop grows it without limit at its second look at middleChain).
MiddleBypass == chain["mid"] > 0 => overtaken["mid"] <= Halvings

\* A ping waits for at most the one packet that TryPop was taking when it came
\* ("the ping package need highest priority", push).
PingBypass == chain["high"] > 0 => overtaken["high"] <= 1

\* Pings do not come so fast that TryPop never gets past the high chain.
PingsDoNotFlood == []<>(pc = "mid") \/ <>[](out # "high")

\* A packet that waits is popped, unless the mux is closed: a wake-up lost
\* between Pop's last look and cond.Wait is made up for by the next ping.
WaitingLeaves ==
    PingsDoNotFlood =>
        \A c \in Class : chain[c] > 0 ~> (out = c \/ stop)

=============================================================================
