---------------------------- MODULE Proxy_proofs ----------------------------
(***************************************************************************)
(* What TLAPS proves of the parts that stand between a user and a session: *)
(* the limit on connections, the proxy of a UDP task, the rate of a        *)
(* client, the port multiplexer, the certificates of the HTTPS proxy, and  *)
(* the lists of targets that the health checks change; and of the lockout  *)
(* of the web login.                                                       *)
(* Each part is an instance of its module in Nps, and has an inductive     *)
(* invariant of its own; nothing here relates two parts.                   *)
(*                                                                         *)
(* Two clients that look for a path of their own (Punch): an attempt of    *)
(* the visitor meets its own provider, and who says it has a path has one, *)
(* for any ports and number of attempts.  The invariant follows the        *)
(* question of a client to a port, and the test messages, to their ends.   *)
(***************************************************************************)
EXTENDS Nps, FiniteSetTheorems, SequenceTheorems, TLAPS

(* The variables of the parts.                                             *)

\* ConnLimit
held == v1
lpc == v2
lkind == v3
owner == v4
isReset == v5
deferred == v7
peak == v10
switched == v11
\* UdpProxy
addrMap == v3
charged == v4
upc == v5
addr == v6
writeFailed == v10
crossed == v11
\* RateBucket
rate == v1
rates == v2
limit == v3
surplus == v4
session == v5
res == v6
rpc == v7
uses == v8
size == v9
epc == v10
\* PortMux
isClose == v1
alive == v2
ppc == v3
waiting == v5
listenerClosed == v6
rs == v7
start == v8
taken == v9
delivered == v10
short == v11
\* Login
clock == v1
inMap == v2
made == v3
fails == v4
last == v5
req == v6
compared == v7
lost == v8
restored == v9

USE DEF held, lpc, lkind, owner, isReset, deferred, peak, switched, addrMap, charged, upc, addr,
        writeFailed, crossed, rate, rates, limit, surplus, session, res, rpc, uses, size, epc,
        isClose, alive, ppc, waiting, listenerClosed, rs, start, taken, delivered, short,
        clock, inMap, made, fails, last, req, compared, lost, restored

\* Two sets of connections that differ in one connection at most.
LEMMA CardinalityStep ==
    ASSUME NEW D, IsFiniteSet(D), NEW A \in SUBSET D, NEW B \in SUBSET D, NEW c \in D,
           \A d \in D \ {c} : d \in A <=> d \in B
    PROVE  /\ Cardinality(A) \in Nat /\ Cardinality(B) \in Nat
           /\ (c \in A <=> c \in B) => Cardinality(B) = Cardinality(A)
           /\ c \notin A /\ c \in B => Cardinality(B) = Cardinality(A) + 1
           /\ c \in A /\ c \notin B => Cardinality(B) = Cardinality(A) - 1
<1>1. IsFiniteSet(A) /\ IsFiniteSet(B)
  BY FS_Subset
<1>2. Cardinality(A) \in Nat /\ Cardinality(B) \in Nat
  BY <1>1, FS_CardinalityType
<1>3. (c \in A <=> c \in B) => Cardinality(B) = Cardinality(A)
  <2>1. (c \in A <=> c \in B) => A = B
    OBVIOUS
  <2>2. QED
    BY <2>1
<1>4. c \notin A /\ c \in B => Cardinality(B) = Cardinality(A) + 1
  <2>1. c \notin A /\ c \in B => B = A \cup {c}
    OBVIOUS
  <2>2. QED
    BY <1>1, <2>1, FS_AddElement
<1>5. c \in A /\ c \notin B => Cardinality(B) = Cardinality(A) - 1
  <2>1. c \in A /\ c \notin B => B = A \ {c}
    OBVIOUS
  <2>2. QED
    BY <1>1, <2>1, FS_RemoveElement
<1>6. QED
  BY <1>2, <1>3, <1>4, <1>5

\* The cardinality of an instance is that of the library.
LEMMA SameCardinality ==
    /\ \A set : L!Cardinality(set) = Cardinality(set)
    /\ \A set : U!Cardinality(set) = Cardinality(set)
    /\ \A set : R!Cardinality(set) = Cardinality(set)
    /\ \A set : G!Cardinality(set) = Cardinality(set)
    /\ \A set : H!Cardinality(set) = Cardinality(set)
  BY DEF L!Cardinality, U!Cardinality, R!Cardinality, G!Cardinality, H!Cardinality, Cardinality

-----------------------------------------------------------------------------
(* The limit on connections (ConnLimit).                                  *)

\* What a connection gives back when it ends.
DeferInv ==
    \A c \in Conns :
        /\ lpc[c] = "idle" => deferred[c] = {}
        /\ lkind[c] = "single" => deferred[c] = {} /\ lpc[c] \in {"idle", "check", "count", "open"}
        /\ isReset[c] \/ lpc[c] = "reset" => owner[c] \in switched
        /\ lpc[c] \in {"check", "count", "open"} /\ owner[c] \notin switched => deferred[c] = {}

LimitInv == L!TypeOK /\ DeferInv /\ L!CountIsExact /\ L!LimitHolds

LimitStep(c) ==
    \/ \E k \in {"single", "http"}, o \in Owners : L!Accept(c, k, o)
    \/ L!TestLimit(c) \/ L!CutConn(c) \/ L!Refuse(c) \/ L!AddConn(c)
    \/ L!Defer(c) \/ L!LinkFails(c) \/ L!Link(c) \/ L!ReaderBegins(c)
    \/ \E o \in Owners : L!OtherHost(c, o)
    \/ L!Reset(c) \/ L!Finish(c)

\* The connections that hold one of o, and those that have passed the test for it.
Holders(o) == {c \in Conns : L!Holds(c, o)}
PassedSet(o) == {c \in Conns : lpc[c] = "count" /\ owner[c] = o}

\* As many pass between the test and the count as there are connections, at most.
LEMMA PassedFacts ==
    ASSUME NEW o
    PROVE  /\ L!Passed(o) = Cardinality(PassedSet(o)) /\ L!Passed(o) \in Nat
           /\ L!Passed(o) <= Cardinality(Conns) /\ Cardinality(Conns) \in Nat
           /\ \A c \in Conns \ PassedSet(o) : L!Passed(o) + 1 <= Cardinality(Conns)
<1>1. PassedSet(o) \subseteq Conns /\ IsFiniteSet(Conns)
  BY LimitAssumption DEF PassedSet
<1>2. /\ IsFiniteSet(PassedSet(o)) /\ Cardinality(PassedSet(o)) <= Cardinality(Conns)
      /\ Cardinality(PassedSet(o)) = Cardinality(Conns) => PassedSet(o) = Conns
  BY <1>1, FS_Subset
<1>3. Cardinality(PassedSet(o)) \in Nat /\ Cardinality(Conns) \in Nat
  BY <1>1, <1>2, FS_CardinalityType
<1>4. L!Passed(o) = Cardinality(PassedSet(o))
  BY SameCardinality DEF L!Passed, PassedSet
<1>5. QED
  BY <1>2, <1>3, <1>4

\* A step of c leaves the other connections alone.
LEMMA LimitOneConnection ==
    ASSUME L!TypeOK, NEW c \in Conns, LimitStep(c), NEW d \in Conns \ {c}
    PROVE  /\ lpc'[d] = lpc[d] /\ owner'[d] = owner[d] /\ lkind'[d] = lkind[d]
           /\ isReset'[d] = isReset[d] /\ deferred'[d] = deferred[d]
<1> USE DEF L!lvars, L!hist, L!Move, L!TypeOK
<1>1. CASE \E k \in {"single", "http"}, o \in Owners : L!Accept(c, k, o)
  BY <1>1 DEF L!Accept
<1>2. CASE L!TestLimit(c) \/ L!CutConn(c) \/ L!AddConn(c)
  BY <1>2 DEF L!TestLimit, L!CutConn, L!AddConn
<1>3. CASE L!Refuse(c) \/ L!LinkFails(c) \/ L!Finish(c)
  BY <1>3 DEF L!Refuse, L!LinkFails, L!Finish, L!Return
<1>4. CASE L!Defer(c) \/ L!Link(c) \/ L!ReaderBegins(c)
  BY <1>4 DEF L!Defer, L!Link, L!ReaderBegins
<1>5. CASE \E o \in Owners : L!OtherHost(c, o)
  BY <1>5 DEF L!OtherHost
<1>6. CASE L!Reset(c)
  BY <1>6 DEF L!Reset
<1>7. QED
  BY <1>1, <1>2, <1>3, <1>4, <1>5, <1>6 DEF LimitStep

\* Every step keeps the types.
LEMMA LimitType == L!TypeOK /\ DeferInv /\ [L!Next]_(L!vars) => L!TypeOK'
<1> SUFFICES ASSUME L!TypeOK, [L!Next]_(L!vars) PROVE L!TypeOK'
  OBVIOUS
<1> USE DEF L!lvars, L!hist, L!Move, L!TypeOK
<1>1. ASSUME NEW c \in Conns, LimitStep(c) PROVE L!TypeOK'
  <2>1. CASE \E k \in {"single", "http"}, o \in Owners : L!Accept(c, k, o)
    BY <2>1 DEF L!Accept
  <2>2. CASE L!TestLimit(c)
    <3> DEFINE o == owner[c]
    <3>1. /\ peak' = [peak EXCEPT ![o] = L!Larger(@, L!Passed(o) + 1)] /\ o \in Owners
          /\ UNCHANGED <<held, L!lvars, switched>> /\ lpc' = [lpc EXCEPT ![c] = "count"]
          /\ lpc[c] = "check"
      BY <2>2 DEF L!TestLimit
    <3>2. L!Passed(o) \in Nat /\ L!Passed(o) + 1 <= Cardinality(Conns) /\ Cardinality(Conns) \in Nat
      <4>1. c \notin PassedSet(o)
        BY <3>1 DEF PassedSet
      <4>2. QED
        BY <4>1, PassedFacts
    <3>3. L!Larger(peak[o], L!Passed(o) + 1) \in 0 .. Cardinality(Conns)
      BY <3>1, <3>2, SameCardinality DEF L!Larger
    <3>4. peak' \in [Owners -> 0 .. Cardinality(Conns)]
      BY <3>1, <3>3, SameCardinality
    <3>5. QED
      BY <3>1, <3>4, SameCardinality
  <2>3. CASE L!CutConn(c) \/ L!AddConn(c)
    BY <2>3 DEF L!CutConn, L!AddConn
  <2>4. CASE L!Refuse(c) \/ L!LinkFails(c) \/ L!Finish(c)
    BY <2>4 DEF L!Refuse, L!LinkFails, L!Finish, L!Return
  <2>5. CASE L!Defer(c) \/ L!Link(c) \/ L!ReaderBegins(c)
    <3>1. CASE L!Defer(c)
      BY <3>1 DEF L!Defer
    <3>2. CASE L!Link(c)
      BY <3>2 DEF L!Link
    <3>3. CASE L!ReaderBegins(c)
      BY <3>3 DEF L!ReaderBegins
    <3>4. QED
      BY <2>5, <3>1, <3>2, <3>3
  <2>6. CASE \E o \in Owners : L!OtherHost(c, o)
    BY <2>6 DEF L!OtherHost
  <2>7. CASE L!Reset(c)
    BY <2>7 DEF L!Reset
  <2>8. QED
    BY <1>1, <2>1, <2>2, <2>3, <2>4, <2>5, <2>6, <2>7 DEF LimitStep
<1>2. CASE UNCHANGED L!vars
  BY <1>2 DEF L!vars
<1>3. QED
  BY <1>1, <1>2 DEF L!Next, LimitStep

\* What a connection gives back, it was counted for.
LEMMA LimitDefer == L!TypeOK /\ DeferInv /\ [L!Next]_(L!vars) => DeferInv'
<1> SUFFICES ASSUME L!TypeOK, DeferInv, [L!Next]_(L!vars) PROVE DeferInv'
  OBVIOUS
<1> DEFINE I(c) ==
        /\ lpc[c] = "idle" => deferred[c] = {}
        /\ lkind[c] = "single" => deferred[c] = {} /\ lpc[c] \in {"idle", "check", "count", "open"}
        /\ isReset[c] \/ lpc[c] = "reset" => owner[c] \in switched
        /\ lpc[c] \in {"check", "count", "open"} /\ owner[c] \notin switched => deferred[c] = {}
<1>0. DeferInv <=> \A c \in Conns : I(c)
  BY DEF DeferInv
<1>1. ASSUME NEW c \in Conns, LimitStep(c) PROVE DeferInv'
  <2>1. switched \subseteq switched'
    BY <1>1 DEF LimitStep, L!Accept, L!TestLimit, L!CutConn, L!AddConn, L!Refuse, L!LinkFails,
       L!Finish, L!Return,
                L!Defer, L!Link, L!ReaderBegins, L!OtherHost, L!Reset, L!hist, L!lvars
  <2>2. \A d \in Conns \ {c} : I(d)'
    <3> SUFFICES ASSUME NEW d \in Conns \ {c} PROVE I(d)'
      OBVIOUS
    <3>1. I(d)
      BY <1>0
    <3>2. /\ lpc'[d] = lpc[d] /\ owner'[d] = owner[d] /\ lkind'[d] = lkind[d]
          /\ isReset'[d] = isReset[d] /\ deferred'[d] = deferred[d]
      BY <1>1, LimitOneConnection
    <3>3. QED
      BY <2>1, <3>1, <3>2
  <2>3. I(c)'
    <3>1. I(c)
      BY <1>0
    <3> USE DEF L!lvars, L!hist, L!Move, L!TypeOK
    <3>2. CASE \E k \in {"single", "http"}, o \in Owners : L!Accept(c, k, o)
      BY <3>1, <3>2 DEF L!Accept
    <3>3. CASE L!TestLimit(c) \/ L!CutConn(c) \/ L!AddConn(c)
      BY <3>1, <3>3 DEF L!TestLimit, L!CutConn, L!AddConn
    <3>4. CASE L!Refuse(c) \/ L!LinkFails(c) \/ L!Finish(c)
      BY <3>1, <3>4 DEF L!Refuse, L!LinkFails, L!Finish, L!Return
    <3>5. CASE L!Defer(c) \/ L!Link(c) \/ L!ReaderBegins(c)
      BY <3>1, <3>5 DEF L!Defer, L!Link, L!ReaderBegins
    <3>6. CASE \E o \in Owners : L!OtherHost(c, o)
      BY <3>1, <3>6 DEF L!OtherHost
    <3>7. CASE L!Reset(c)
      BY <3>1, <3>7 DEF L!Reset
    <3>8. QED
      BY <1>1, <3>2, <3>3, <3>4, <3>5, <3>6, <3>7 DEF LimitStep
  <2>4. QED
    BY <1>0, <2>2, <2>3 DEF DeferInv
<1>2. CASE UNCHANGED L!vars
  BY <1>2 DEF L!vars, L!lvars, L!hist, DeferInv
<1>3. QED
  BY <1>1, <1>2 DEF L!Next, LimitStep

\* now[o] goes with the connections that hold one of o.
LEMMA LimitCount ==
    L!TypeOK /\ DeferInv /\ L!CountIsExact /\ [L!Next]_(L!vars) => L!CountIsExact'
<1> SUFFICES ASSUME L!TypeOK, DeferInv, L!CountIsExact, [L!Next]_(L!vars),
                    NEW o \in Owners \ switched'
             PROVE  held'[o] = Cardinality(Holders(o)')
  BY SameCardinality DEF L!CountIsExact, Holders
<1>1. ASSUME NEW c \in Conns, LimitStep(c)
      PROVE  held'[o] = Cardinality(Holders(o)')
  <2> USE DEF L!lvars, L!hist, L!Move, L!TypeOK
  <2>1. switched \subseteq switched'
    BY <1>1 DEF LimitStep, L!Accept, L!TestLimit, L!CutConn, L!AddConn, L!Refuse, L!LinkFails,
       L!Finish, L!Return,
                L!Defer, L!Link, L!ReaderBegins, L!OtherHost, L!Reset
  <2>2. held[o] = Cardinality(Holders(o)) /\ held[o] \in Int
    BY <2>1, SameCardinality DEF L!CountIsExact, Holders
  <2>3. /\ lpc[c] = "idle" => deferred[c] = {}
        /\ lkind[c] = "single" => deferred[c] = {} /\ lpc[c] \in {"idle", "check", "count", "open"}
        /\ isReset[c] \/ lpc[c] = "reset" => owner[c] # o
        /\ lpc[c] \in {"check", "count", "open"} /\ owner[c] = o => deferred[c] = {}
    BY <2>1 DEF DeferInv
  <2>4. \A d \in Conns \ {c} : L!Holds(d, o) <=> L!Holds(d, o)'
    BY <1>1, LimitOneConnection DEF L!Holds
  <2>5. /\ (L!Holds(c, o) <=> L!Holds(c, o)') => Cardinality(Holders(o)') = Cardinality(Holders(o))
        /\ ~L!Holds(c, o) /\ L!Holds(c, o)' => Cardinality(Holders(o)') = Cardinality(Holders(o)) + 1
        /\ L!Holds(c, o) /\ ~L!Holds(c, o)' => Cardinality(Holders(o)') = Cardinality(Holders(o)) - 1
    <3>1. Holders(o) \in SUBSET Conns /\ Holders(o)' \in SUBSET Conns /\ IsFiniteSet(Conns)
      BY LimitAssumption DEF Holders
    <3>2. \A d \in Conns : (d \in Holders(o) <=> L!Holds(d, o)) /\ (d \in Holders(o)' <=> L!Holds(d, o)')
      BY DEF Holders
    <3>3. \A d \in Conns \ {c} : d \in Holders(o) <=> d \in Holders(o)'
      BY <2>4, <3>2
    <3> HIDE DEF Holders, L!Holds
    <3>4. QED
      BY <3>1, <3>2, <3>3, CardinalityStep
  <2>6. \/ (L!Holds(c, o) <=> L!Holds(c, o)') /\ held'[o] = held[o]
        \/ ~L!Holds(c, o) /\ L!Holds(c, o)' /\ held'[o] = held[o] + 1
        \/ L!Holds(c, o) /\ ~L!Holds(c, o)' /\ held'[o] = held[o] - 1
    <3>1. CASE \E k \in {"single", "http"}, b \in Owners : L!Accept(c, k, b)
      BY <2>3, <3>1 DEF L!Accept, L!Holds
    <3>2. CASE L!TestLimit(c)
      BY <2>3, <3>2 DEF L!TestLimit, L!Holds
    <3>3. CASE L!CutConn(c)
      BY <2>3, <3>3 DEF L!CutConn, L!Holds
    <3>4. CASE L!AddConn(c)
      BY <2>3, <3>4 DEF L!AddConn, L!Holds
    <3>5. CASE L!Refuse(c) \/ L!LinkFails(c) \/ L!Finish(c)
      BY <2>3, <3>5 DEF L!Refuse, L!LinkFails, L!Finish, L!Return, L!ToGiveBack, L!Holds
    <3>6. CASE L!Defer(c)
      BY <2>3, <3>6 DEF L!Defer, L!Holds
    <3>7. CASE L!Link(c) \/ L!ReaderBegins(c)
      BY <2>3, <3>7 DEF L!Link, L!ReaderBegins, L!Holds
    <3>8. CASE \E b \in Owners : L!OtherHost(c, b)
      BY <2>3, <3>8 DEF L!OtherHost, L!Holds
    <3>9. CASE L!Reset(c)
      BY <2>3, <3>9 DEF L!Reset, L!ToGiveBack, L!Holds
    <3>10. QED
      BY <1>1, <3>1, <3>2, <3>3, <3>4, <3>5, <3>6, <3>7, <3>8, <3>9 DEF LimitStep
  <2>7. QED
    BY <2>2, <2>5, <2>6
<1>2. CASE UNCHANGED L!vars
  BY <1>2, SameCardinality DEF L!vars, L!lvars, L!hist, L!CountIsExact, Holders, L!Holds
<1>3. QED
  BY <1>1, <1>2 DEF L!Next, LimitStep

\* GetConn passes no more than the limit, but for those that had tested it before.
LEMMA LimitLimit ==
    L!TypeOK /\ L!LimitHolds /\ [L!Next]_(L!vars) => L!LimitHolds'
<1> SUFFICES ASSUME L!TypeOK, L!LimitHolds, [L!Next]_(L!vars),
                    NEW o \in Owners, MaxConn[o] > 0
             PROVE  held'[o] + L!Passed(o)' <= MaxConn[o] + L!Larger(peak'[o] - 1, 0)
  BY DEF L!LimitHolds
<1>0. /\ MaxConn[o] \in Nat /\ held[o] \in Int /\ peak[o] \in Nat
      /\ L!Passed(o) \in Nat /\ L!Passed(o) = Cardinality(PassedSet(o))
      /\ held[o] + L!Passed(o) <= MaxConn[o] + L!Larger(peak[o] - 1, 0)
  BY PassedFacts, LimitAssumption DEF L!LimitHolds, L!TypeOK
<1>1. ASSUME NEW c \in Conns, LimitStep(c)
      PROVE  held'[o] + L!Passed(o)' <= MaxConn[o] + L!Larger(peak'[o] - 1, 0)
  <2> DEFINE Counting == lpc[c] = "count" /\ owner[c] = o
  <2>1. /\ (Counting <=> Counting') => L!Passed(o)' = L!Passed(o)
        /\ ~Counting /\ Counting' => L!Passed(o)' = L!Passed(o) + 1
        /\ Counting /\ ~Counting' => L!Passed(o)' = L!Passed(o) - 1
    <3>1. PassedSet(o) \in SUBSET Conns /\ PassedSet(o)' \in SUBSET Conns /\ IsFiniteSet(Conns)
      BY LimitAssumption DEF PassedSet
    <3>2. (c \in PassedSet(o) <=> Counting) /\ (c \in PassedSet(o)' <=> Counting')
      BY DEF PassedSet
    <3>3. \A d \in Conns \ {c} : d \in PassedSet(o) <=> d \in PassedSet(o)'
      BY <1>1, LimitOneConnection DEF PassedSet
    <3>4. L!Passed(o)' = Cardinality(PassedSet(o)')
      BY SameCardinality DEF L!Passed, PassedSet
    <3> HIDE DEF Counting
    <3>5. QED
      BY <1>0, <3>1, <3>2, <3>3, <3>4, CardinalityStep
  <2> USE DEF L!lvars, L!hist, L!Move, L!TypeOK
  <2>2. CASE \E k \in {"single", "http"}, b \in Owners : L!Accept(c, k, b)
    <3>1. ~Counting /\ ~Counting' /\ held' = held /\ peak' = peak
      BY <2>2 DEF L!Accept
    <3>2. QED
      BY <1>0, <2>1, <3>1
  <2>3. CASE L!TestLimit(c)
    <3>1. CASE owner[c] = o
      <4>1. /\ ~Counting /\ Counting' /\ held' = held /\ peak'[o] = L!Larger(peak[o], L!Passed(o) + 1)
            /\ held[o] < MaxConn[o]
        BY <1>0, <2>3, <3>1 DEF L!TestLimit, L!Below
      <4>2. L!Passed(o)' = L!Passed(o) + 1
        BY <2>1, <4>1
      <4>3. QED
        BY <1>0, <4>1, <4>2 DEF L!Larger
    <3>2. CASE owner[c] # o
      <4>1. ~Counting /\ ~Counting' /\ held' = held /\ peak'[o] = peak[o]
        BY <2>3, <3>2 DEF L!TestLimit
      <4>2. QED
        BY <1>0, <2>1, <4>1
    <3>3. QED
      BY <3>1, <3>2
  <2>4. CASE L!CutConn(c)
    <3>1. CASE owner[c] = o
      <4>1. Counting /\ ~Counting' /\ held'[o] = held[o] + 1 /\ peak' = peak
        BY <2>4, <3>1 DEF L!CutConn
      <4>2. QED
        BY <1>0, <2>1, <4>1
    <3>2. CASE owner[c] # o
      <4>1. ~Counting /\ ~Counting' /\ held'[o] = held[o] /\ peak' = peak
        BY <2>4, <3>2 DEF L!CutConn
      <4>2. QED
        BY <1>0, <2>1, <4>1
    <3>3. QED
      BY <3>1, <3>2
  <2>5. CASE L!AddConn(c) \/ L!Refuse(c) \/ L!LinkFails(c) \/ L!Finish(c) \/ L!Reset(c)
    <3>1. ~Counting /\ ~Counting' /\ peak' = peak
      BY <2>5 DEF L!AddConn, L!Refuse, L!LinkFails, L!Finish, L!Reset, L!Return
    <3>2. held'[o] \in Int /\ held'[o] <= held[o]
      BY <1>0, <2>5 DEF L!AddConn, L!Refuse, L!LinkFails, L!Finish, L!Reset, L!Return
    <3>3. QED
      BY <1>0, <2>1, <3>1, <3>2 DEF L!Larger
  <2>6. CASE \/ L!Defer(c) \/ L!Link(c) \/ L!ReaderBegins(c)
             \/ \E b \in Owners : L!OtherHost(c, b)
    <3>1. (Counting <=> Counting') /\ held' = held /\ peak' = peak
      BY <2>6 DEF L!Defer, L!Link, L!ReaderBegins, L!OtherHost
    <3>2. QED
      BY <1>0, <2>1, <3>1
  <2>7. QED
    BY <1>1, <2>2, <2>3, <2>4, <2>5, <2>6 DEF LimitStep
<1>2. CASE UNCHANGED L!vars
  BY <1>0, <1>2 DEF L!vars, L!lvars, L!hist, L!Passed
<1>3. QED
  BY <1>1, <1>2 DEF L!Next, LimitStep

\* At the start nothing is counted.
LEMMA LimitInit == L!Init => LimitInv
<1> SUFFICES ASSUME L!Init PROVE LimitInv
  OBVIOUS
<1>1. Cardinality(Conns) \in Nat /\ IsFiniteSet(Conns)
  BY FS_CardinalityType, LimitAssumption
<1>2. L!TypeOK
  <2>1. (CHOOSE o \in Owners : TRUE) \in Owners
    BY LimitAssumption
  <2>2. QED
    BY <1>1, <2>1, SameCardinality DEF L!Init, L!TypeOK
<1>3. DeferInv
  BY DEF L!Init, DeferInv
<1>4. \A o \in Owners : Holders(o) = {} /\ PassedSet(o) = {}
  BY DEF L!Init, Holders, L!Holds, PassedSet
<1>5. Cardinality({}) = 0
  BY FS_EmptySet
<1>6. L!CountIsExact
  BY <1>4, <1>5, SameCardinality DEF L!CountIsExact, Holders, L!Init
<1>7. L!LimitHolds
  <2> SUFFICES ASSUME NEW o \in Owners, MaxConn[o] > 0
               PROVE  held[o] + L!Passed(o) <= MaxConn[o] + L!Larger(peak[o] - 1, 0)
    BY DEF L!LimitHolds
  <2>1. held[o] = 0 /\ peak[o] = 0 /\ L!Passed(o) = 0 /\ MaxConn[o] \in Nat
    BY <1>4, <1>5, SameCardinality, LimitAssumption DEF L!Init, L!Passed, PassedSet
  <2>2. QED
    BY <2>1 DEF L!Larger
<1>8. QED
  BY <1>2, <1>3, <1>6, <1>7 DEF LimitInv

\* The counts are exact and the limits hold in every behaviour.
THEOREM LimitInvariant == Spec => [](part = "limit" => LimitInv)
<1>1. Init => (part = "limit" => LimitInv)
  BY LimitInit DEF Init
<1>2. (part = "limit" => LimitInv) /\ [Next]_vars => (part = "limit" => LimitInv)'
  <2> SUFFICES ASSUME part = "limit" => LimitInv, [Next]_vars, part' = "limit"
               PROVE  LimitInv'
    OBVIOUS
  <2>1. part = "limit" /\ [L!Next]_(L!vars)
    BY DEF Next, vars, L!vars, L!lvars, L!hist
  <2>2. QED
    BY <2>1, LimitType, LimitDefer, LimitCount, LimitLimit DEF LimitInv
<1>3. QED
  BY <1>1, <1>2, PTL DEF Spec

\* GetConn and AddConn: what NowConn counts are the connections that are to give one back,
\* but for the owners a keep-alive request has switched to, and MaxConn is overrun by no more
\* connections than were between the test and the count at a time.
THEOREM LimitIsSound == Spec => []LimitSound
<1>1. LimitInv => L!LimitSound
  BY DEF LimitInv, L!LimitSound
<1>2. QED
  <2>1. (part = "limit" => LimitInv) => LimitSound
    BY <1>1 DEF LimitSound
  <2>2. QED
    BY <2>1, LimitInvariant, PTL

-----------------------------------------------------------------------------
(* The proxy of a UDP task (UdpProxy).                                    *)

\* The steps of a goroutine that has a link; of one that NowConn counts.
LinkedSteps == {"store", "write", "read"}
CountedSteps == {"open", "store", "write", "read", "return"}

\* A goroutine at work has an address, and at most one of an address that was never
\* crossed has a link.
AddrInv ==
    /\ addr \in [Procs -> Addrs \cup {U!None}]
    /\ \A p \in Procs : upc[p] # "idle" => addr[p] \in Addrs
OneLink ==
    \A a \in Addrs \ crossed : \A p, q \in Procs :
        addr[p] = a /\ addr[q] = a /\ upc[p] \in LinkedSteps /\ upc[q] \in LinkedSteps => p = q

UdpInv == U!TypeOK /\ AddrInv /\ OneLink /\ U!EntryIsServed /\ U!LinksAreCounted

\* The steps of goroutine p.
UdpStep(p) ==
    \/ \E a \in Addrs : U!Receive(p, a)
    \/ U!Load(p) \/ U!Forward(p) \/ U!Check(p) \/ U!SendLinkInfo(p) \/ U!Store(p)
    \/ U!Write(p) \/ U!ReadFails(p) \/ U!SendBackFails(p) \/ U!Return(p)

\* The goroutines that NowConn counts.
Paying == {p \in Procs : upc[p] \in CountedSteps}

\* A step of p leaves the other goroutines alone.
LEMMA OneGoroutine ==
    ASSUME U!TypeOK, AddrInv, NEW p \in Procs, UdpStep(p), NEW q \in Procs \ {p}
    PROVE  upc'[q] = upc[q] /\ addr'[q] = addr[q]
<1>1. DOMAIN upc = Procs
  BY DEF U!TypeOK
<1>2. \/ \E dest : upc' = [upc EXCEPT ![p] = dest]
  BY DEF UdpStep, U!Receive, U!Load, U!Forward, U!Check, U!SendLinkInfo, U!Store, U!Write,
     U!ReadFails,
         U!SendBackFails, U!Return, U!Move
<1>3. addr' = addr \/ \E a \in Addrs : addr' = [addr EXCEPT ![p] = a]
  BY DEF UdpStep, U!Receive, U!Load, U!Forward, U!Check, U!SendLinkInfo, U!Store, U!Write,
     U!ReadFails,
         U!SendBackFails, U!Return
<1>4. QED
  BY <1>1, <1>2, <1>3 DEF U!TypeOK, AddrInv

\* A goroutine at work keeps its address.
LEMMA UdpAddr == U!TypeOK /\ AddrInv /\ [U!Next]_(U!vars) => AddrInv'
<1> SUFFICES ASSUME U!TypeOK, AddrInv, [U!Next]_(U!vars) PROVE AddrInv'
  OBVIOUS
<1> USE DEF U!server, U!hist, U!Move, U!TypeOK, AddrInv
<1>1. ASSUME NEW p \in Procs, UdpStep(p) PROVE AddrInv'
  BY <1>1 DEF UdpStep, U!Receive, U!Load, U!Forward, U!Check, U!SendLinkInfo, U!Store, U!Write,
     U!ReadFails,
              U!SendBackFails, U!Return
<1>2. CASE U!Blacklisted \/ U!Close \/ UNCHANGED U!vars
  BY <1>2 DEF U!Blacklisted, U!Close, U!vars
<1>3. QED
  BY <1>1, <1>2 DEF U!Next, UdpStep

\* A second link for an address makes it one that was crossed.
LEMMA UdpOneLink == U!TypeOK /\ AddrInv /\ OneLink /\ [U!Next]_(U!vars) => OneLink'
<1> SUFFICES ASSUME U!TypeOK, AddrInv, OneLink, [U!Next]_(U!vars),
                    NEW a \in Addrs \ crossed', NEW q \in Procs, NEW r \in Procs,
                    addr'[q] = a, addr'[r] = a,
                    upc'[q] \in LinkedSteps, upc'[r] \in LinkedSteps
             PROVE  q = r
  BY DEF OneLink
<1>1. ASSUME NEW p \in Procs, UdpStep(p) PROVE q = r
  <2>0. crossed \subseteq crossed'
    BY <1>1 DEF UdpStep, U!Receive, U!Load, U!Forward, U!Check, U!SendLinkInfo, U!Store, U!Write,
       U!ReadFails,
                U!SendBackFails, U!Return, U!hist
  <2>1. \A o \in Procs \ {p} : upc'[o] = upc[o] /\ addr'[o] = addr[o]
    BY <1>1, OneGoroutine
  <2>2. \A o, n \in Procs :
           addr[o] = a /\ addr[n] = a /\ upc[o] \in LinkedSteps /\ upc[n] \in LinkedSteps => o = n
    BY <2>0 DEF OneLink
  <2>3. CASE U!SendLinkInfo(p)
    <3>1. addr' = addr
      BY <2>3 DEF U!SendLinkInfo
    <3>2. CASE upc'[p] \in LinkedSteps /\ addr[p] = a
      <4>1. U!Linked(a) = {}
        BY <2>3, <3>2 DEF U!SendLinkInfo, U!Move, U!TypeOK, LinkedSteps, U!hist
      <4>2. \A o \in Procs \ {p} : ~(addr'[o] = a /\ upc'[o] \in LinkedSteps)
        BY <2>1, <4>1 DEF U!Linked, LinkedSteps
      <4>3. QED
        BY <4>2
    <3>3. CASE ~(upc'[p] \in LinkedSteps /\ addr[p] = a)
      BY <2>1, <2>2, <3>1, <3>3
    <3>4. QED
      BY <3>2, <3>3
  <2>4. CASE ~U!SendLinkInfo(p)
    <3>1. upc'[p] \in LinkedSteps => upc[p] \in LinkedSteps /\ addr'[p] = addr[p]
      BY <1>1, <2>4 DEF UdpStep, U!Receive, U!Load, U!Forward, U!Check, U!Store, U!Write,
         U!ReadFails,
                  U!SendBackFails, U!Return, U!Move, U!TypeOK, AddrInv, LinkedSteps
    <3>2. QED
      BY <2>1, <2>2, <3>1
  <2>5. QED
    BY <2>3, <2>4
<1>2. CASE U!Blacklisted \/ U!Close \/ UNCHANGED U!vars
  BY <1>2 DEF U!Blacklisted, U!Close, U!vars, U!hist, OneLink
<1>3. QED
  BY <1>1, <1>2 DEF U!Next, UdpStep

\* The entry of an address is a goroutine that serves it, but where a write failed.
LEMMA UdpEntry ==
    U!TypeOK /\ AddrInv /\ OneLink /\ U!EntryIsServed /\ [U!Next]_(U!vars) => U!EntryIsServed'
<1> SUFFICES ASSUME U!TypeOK, AddrInv, OneLink, U!EntryIsServed, [U!Next]_(U!vars),
                    NEW a \in Addrs \ (writeFailed' \cup crossed')
             PROVE  /\ addrMap'[a] # U!None =>
                          addr'[addrMap'[a]] = a /\ upc'[addrMap'[a]] \in {"write", "read"}
                    /\ \A q \in Procs :
                          addr'[q] = a /\ upc'[q] \in {"write", "read"} => addrMap'[a] = q
  BY DEF U!EntryIsServed
<1>1. ASSUME NEW p \in Procs, UdpStep(p)
      PROVE  /\ addrMap'[a] # U!None =>
                   addr'[addrMap'[a]] = a /\ upc'[addrMap'[a]] \in {"write", "read"}
             /\ \A q \in Procs :
                   addr'[q] = a /\ upc'[q] \in {"write", "read"} => addrMap'[a] = q
  <2>0. crossed \subseteq crossed' /\ writeFailed \subseteq writeFailed'
    BY <1>1 DEF UdpStep, U!Receive, U!Load, U!Forward, U!Check, U!SendLinkInfo, U!Store, U!Write,
       U!ReadFails,
                U!SendBackFails, U!Return, U!hist
  <2>1. \A o \in Procs \ {p} : upc'[o] = upc[o] /\ addr'[o] = addr[o]
    BY <1>1, OneGoroutine
  <2>2. /\ addrMap[a] # U!None => /\ addr[addrMap[a]] = a /\ upc[addrMap[a]] \in {"write", "read"}
                                  /\ addrMap[a] \in Procs
        /\ \A q \in Procs : addr[q] = a /\ upc[q] \in {"write", "read"} => addrMap[a] = q
    BY <2>0 DEF U!EntryIsServed, U!TypeOK
  <2>3. \A o, n \in Procs :
           addr[o] = a /\ addr[n] = a /\ upc[o] \in LinkedSteps /\ upc[n] \in LinkedSteps => o = n
    BY <2>0 DEF OneLink
  <2>4. CASE U!Store(p)
    <3>1. /\ upc[p] = "store" /\ upc'[p] = "write" /\ addr' = addr /\ addr[p] \in Addrs
          /\ addrMap' = [addrMap EXCEPT ![addr[p]] = p]
      BY <2>4 DEF U!Store, U!Move, U!TypeOK, AddrInv
    <3>2. CASE addr[p] = a
      <4>1. addrMap'[a] = p
        BY <3>1, <3>2 DEF U!TypeOK
      <4>2. \A q \in Procs \ {p} : ~(addr[q] = a /\ upc[q] \in {"write", "read"})
        BY <2>3, <3>1, <3>2 DEF LinkedSteps
      <4>3. QED
        BY <2>1, <3>1, <3>2, <4>1, <4>2
    <3>3. CASE addr[p] # a
      <4>1. addrMap'[a] = addrMap[a]
        BY <3>1, <3>3 DEF U!TypeOK
      <4>2. QED
        BY <2>1, <2>2, <3>1, <3>3, <4>1
    <3>4. QED
      BY <3>2, <3>3
  <2>5. CASE U!ReadFails(p)
    <3>1. /\ upc[p] = "read" /\ upc'[p] = "return" /\ addr' = addr /\ addr[p] \in Addrs
          /\ addrMap' = [addrMap EXCEPT ![addr[p]] = U!None]
      BY <2>5 DEF U!ReadFails, U!Forget, U!Move, U!TypeOK, AddrInv
    <3>2. CASE addr[p] = a
      <4>1. addrMap'[a] = U!None
        BY <3>1, <3>2 DEF U!TypeOK
      <4>2. \A q \in Procs \ {p} : ~(addr[q] = a /\ upc[q] \in {"write", "read"})
        BY <2>3, <3>1, <3>2 DEF LinkedSteps
      <4>3. QED
        BY <2>1, <3>1, <3>2, <4>1, <4>2
    <3>3. CASE addr[p] # a
      <4>1. addrMap'[a] = addrMap[a]
        BY <3>1, <3>3 DEF U!TypeOK
      <4>2. QED
        BY <2>1, <2>2, <3>1, <3>3, <4>1
    <3>4. QED
      BY <3>2, <3>3
  <2>6. CASE ~U!Store(p) /\ ~U!ReadFails(p)
    <3>1. addrMap' = addrMap
      BY <1>1, <2>6 DEF UdpStep, U!Receive, U!Load, U!Forward, U!Check, U!SendLinkInfo, U!Write,
         U!SendBackFails,
                        U!Return
    <3>2. \/ /\ upc'[p] \in {"write", "read"} <=> upc[p] \in {"write", "read"}
             /\ upc[p] \in {"write", "read"} => addr'[p] = addr[p]
          \/ addr[p] \in writeFailed' /\ addr' = addr /\ upc'[p] = "return"
      BY <1>1, <2>6 DEF UdpStep, U!Receive, U!Load, U!Forward, U!Check, U!SendLinkInfo, U!Write,
         U!SendBackFails,
                        U!Return, U!Move, U!TypeOK, AddrInv
    <3>3. QED
      BY <2>1, <2>2, <3>1, <3>2
  <2>7. QED
    BY <2>4, <2>5, <2>6
<1>2. CASE U!Blacklisted \/ U!Close \/ UNCHANGED U!vars
  BY <1>2 DEF U!Blacklisted, U!Close, U!vars, U!hist, U!EntryIsServed
<1>3. QED
  BY <1>1, <1>2 DEF U!Next, UdpStep

\* NowConn goes with the goroutines that were charged for.
LEMMA UdpCharged ==
    U!TypeOK /\ AddrInv /\ U!LinksAreCounted /\ [U!Next]_(U!vars) => U!LinksAreCounted'
<1> SUFFICES ASSUME U!TypeOK, AddrInv, U!LinksAreCounted, [U!Next]_(U!vars)
             PROVE  U!LinksAreCounted'
  OBVIOUS
<1>0. /\ charged = Cardinality(Paying) /\ charged \in Nat /\ UdpMaxConn \in Nat
      /\ UdpMaxConn # 0 => charged <= UdpMaxConn
  <2>1. charged = Cardinality(Paying) /\ (UdpMaxConn # 0 => charged <= UdpMaxConn)
    BY SameCardinality DEF U!LinksAreCounted, Paying, CountedSteps
  <2>2. IsFiniteSet(Paying)
    BY FS_Subset, UdpAssumption DEF Paying
  <2>3. QED
    BY <2>1, <2>2, FS_CardinalityType, UdpAssumption
<1>1. ASSUME NEW p \in Procs, UdpStep(p) PROVE U!LinksAreCounted'
  <2>1. /\ (p \in Paying <=> p \in Paying') => Cardinality(Paying') = Cardinality(Paying)
        /\ p \notin Paying /\ p \in Paying' => Cardinality(Paying') = Cardinality(Paying) + 1
        /\ p \in Paying /\ p \notin Paying' => Cardinality(Paying') = Cardinality(Paying) - 1
    <3>1. Paying \in SUBSET Procs /\ Paying' \in SUBSET Procs /\ IsFiniteSet(Procs)
      BY UdpAssumption DEF Paying
    <3>2. \A q \in Procs \ {p} : q \in Paying <=> q \in Paying'
      BY <1>1, OneGoroutine DEF Paying
    <3>3. QED
      BY <3>1, <3>2, CardinalityStep
  <2>2. (p \in Paying <=> upc[p] \in CountedSteps) /\ (p \in Paying' <=> upc'[p] \in CountedSteps)
    BY DEF Paying
  <2>3. \/ (p \in Paying <=> p \in Paying') /\ charged' = charged
        \/ p \notin Paying /\ p \in Paying' /\ charged' = charged + 1 /\ (UdpMaxConn = 0 \/ charged < UdpMaxConn)
        \/ p \in Paying /\ p \notin Paying' /\ charged' = charged - 1
    BY <1>1, <2>2
    DEF UdpStep, U!Receive, U!Load, U!Forward, U!Check, U!SendLinkInfo, U!Store, U!Write,
    U!ReadFails,
        U!SendBackFails, U!Return, U!Move, U!TypeOK, CountedSteps
  <2>4. charged' = Cardinality(Paying') /\ (UdpMaxConn # 0 => charged' <= UdpMaxConn)
    BY <1>0, <2>1, <2>3
  <2>5. QED
    BY <2>4, SameCardinality DEF U!LinksAreCounted, Paying, CountedSteps
<1>2. CASE U!Blacklisted \/ U!Close \/ UNCHANGED U!vars
  BY <1>2 DEF U!Blacklisted, U!Close, U!vars, U!LinksAreCounted
<1>3. QED
  BY <1>1, <1>2 DEF U!Next, UdpStep

\* Every step keeps the types.
LEMMA UdpType ==
    U!TypeOK /\ AddrInv /\ U!LinksAreCounted' /\ [U!Next]_(U!vars) => U!TypeOK'
<1> SUFFICES ASSUME U!TypeOK, AddrInv, U!LinksAreCounted', [U!Next]_(U!vars)
             PROVE  U!TypeOK'
  OBVIOUS
<1>0. charged' \in 0 .. Cardinality(Procs)
  <2>1. Paying' \subseteq Procs /\ IsFiniteSet(Procs)
    BY UdpAssumption DEF Paying
  <2>2. IsFiniteSet(Paying') /\ Cardinality(Paying') <= Cardinality(Procs)
    BY <2>1, FS_Subset
  <2>3. charged' = Cardinality(Paying')
    BY SameCardinality DEF U!LinksAreCounted, Paying, CountedSteps
  <2>4. QED
    BY <2>1, <2>2, <2>3, FS_CardinalityType
<1> USE DEF U!server, U!hist, U!Move, U!TypeOK, AddrInv
<1>1. ASSUME NEW p \in Procs, UdpStep(p) PROVE U!TypeOK'
  <2>1. CASE \/ \E a \in Addrs : U!Receive(p, a)
             \/ U!Load(p) \/ U!Forward(p)
    BY <1>0, <2>1 DEF U!Receive, U!Load, U!Forward
  <2>2. CASE U!Check(p) \/ U!SendLinkInfo(p)
    BY <1>0, <2>2, SameCardinality DEF U!Check, U!SendLinkInfo
  <2>3. CASE U!Store(p) \/ U!Write(p)
    BY <1>0, <2>3 DEF U!Store, U!Write
  <2>4. CASE U!ReadFails(p) \/ U!SendBackFails(p) \/ U!Return(p)
    BY <1>0, <2>4, SameCardinality DEF U!ReadFails, U!SendBackFails, U!Return, U!Forget
  <2>5. QED
    BY <1>1, <2>1, <2>2, <2>3, <2>4 DEF UdpStep
<1>2. CASE U!Blacklisted \/ U!Close \/ UNCHANGED U!vars
  BY <1>0, <1>2 DEF U!Blacklisted, U!Close, U!vars
<1>3. QED
  BY <1>1, <1>2 DEF U!Next, UdpStep

\* At the start there is no goroutine.
LEMMA UdpInit == U!Init => UdpInv
<1> SUFFICES ASSUME U!Init PROVE UdpInv
  OBVIOUS
<1>1. Cardinality(Procs) \in Nat /\ IsFiniteSet(Procs)
  BY FS_CardinalityType, UdpAssumption
<1>2. U!TypeOK /\ AddrInv /\ OneLink
  BY <1>1, SameCardinality DEF U!Init, U!TypeOK, AddrInv, OneLink, LinkedSteps
<1>3. U!EntryIsServed
  BY DEF U!Init, U!EntryIsServed
<1>4. U!LinksAreCounted
  <2>1. Paying = {}
    BY DEF U!Init, Paying, CountedSteps
  <2>2. charged = Cardinality(Paying)
    BY <2>1, FS_EmptySet DEF U!Init
  <2>3. QED
    BY <2>2, SameCardinality, UdpAssumption DEF U!LinksAreCounted, Paying, CountedSteps, U!Init
<1>5. QED
  BY <1>2, <1>3, <1>4 DEF UdpInv

\* The invariant of the UDP proxy holds in every behaviour.
THEOREM UdpInvariant == Spec => [](part = "udp" => UdpInv)
<1>1. Init => (part = "udp" => UdpInv)
  BY UdpInit DEF Init
<1>2. (part = "udp" => UdpInv) /\ [Next]_vars => (part = "udp" => UdpInv)'
  <2> SUFFICES ASSUME part = "udp" => UdpInv, [Next]_vars, part' = "udp"
               PROVE  UdpInv'
    OBVIOUS
  <2>1. part = "udp" /\ [U!Next]_(U!vars)
    BY DEF Next, vars, U!vars, U!server, U!hist
  <2>2. QED
    BY <2>1, UdpType, UdpAddr, UdpOneLink, UdpEntry, UdpCharged DEF UdpInv
<1>3. QED
  BY <1>1, <1>2, PTL DEF Spec

\* udp.go: the address table leads to a goroutine that still has a link for the address, unless
\* its write failed or two of them had met; NowConn is the number of those charged for and
\* stays within MaxConn.
THEOREM UdpIsSound == Spec => []UdpSound
<1>1. UdpInv => U!UdpSound
  BY DEF UdpInv, U!UdpSound
<1>2. QED
  <2>1. (part = "udp" => UdpInv) => UdpSound
    BY <1>1 DEF UdpSound
  <2>2. QED
    BY <2>1, UdpInvariant, PTL

-----------------------------------------------------------------------------
(* The rate of a client (RateBucket).                                     *)

\* The connections that have seen enough in bucket r; what t of them leave room to owe.
Takers(r) == {c \in Conns : rpc[c] = "take" /\ uses[c] = r}
Debt(t) == R!LargestSize * (Cardinality(Conns) - t)

\* One handler at a time is between Stop and Start; a bucket that is not made yet is empty.
EditInv ==
    /\ rate = rates
    /\ \A r \in R!Rates : /\ r < rate => session[r] = "ended"
                          /\ r > rate => session[r] = "new" /\ surplus[r] = 0
    /\ \A e \in Editors : /\ epc[e] = "make" => session[rate] = "ended"
                          /\ epc[e] = "start" => session[rate] = "new"
    /\ session[rate] \in {"new", "ended"} => \E e \in Editors : epc[e] \in {"make", "start"}
    /\ \A e, f \in Editors : epc[e] \in {"make", "start"} /\ epc[f] \in {"make", "start"} => e = f
    /\ \A c \in Conns : uses[c] <= rates

\* What a session adds leaves the bucket within its size.
FullInv ==
    \A r \in R!Rates :
        /\ surplus[r] <= R!BucketSize(r)
        /\ session[r] = "add" => res[r] >= 0 /\ surplus[r] + res[r] <= R!BucketSize(r)

\* Of those that have tested a bucket and not taken from it yet, the one that tested it
\* last finds what it tested for, but for what the others take before it.
DebtInv ==
    \A r \in R!Rates :
        /\ surplus[r] >= -Debt(1)
        /\ Takers(r) # {} =>
              \E c \in Takers(r) : surplus[r] >= size[c] - Debt(Cardinality(Takers(r)))

RateInv == R!TypeOK /\ EditInv /\ FullInv /\ DebtInv

\* The steps of connection c, and of handler e.
ConnStep(c) ==
    R!NewRateConn(c) \/ R!Close(c) \/ R!Test(c) \/ R!Take(c) \/ \E n \in Sizes : R!ReadOrWrite(c, n)
EditorStep(e) == R!BeginEdit(e) \/ R!Stop(e) \/ R!Start(e) \/ \E l \in Limits : R!NewRate(e, l)

\* LargestSize is the largest of the sizes.
LEMMA LargestFacts ==
    R!LargestSize \in Nat /\ \A m \in Sizes : m <= R!LargestSize
<1>1. \E n \in Sizes : \A m \in Sizes : m <= n
  BY RateAssumption
<1>2. R!LargestSize \in Sizes /\ \A m \in Sizes : m <= R!LargestSize
  BY <1>1 DEF R!LargestSize
<1>3. QED
  BY <1>2, RateAssumption

\* There are no more takers than connections.
LEMMA TakersFacts ==
    ASSUME NEW r
    PROVE  /\ Takers(r) \in SUBSET Conns /\ IsFiniteSet(Takers(r))
           /\ Cardinality(Takers(r)) \in Nat /\ Cardinality(Conns) \in Nat
           /\ Cardinality(Takers(r)) <= Cardinality(Conns) /\ Cardinality(Conns) >= 1
           /\ Takers(r) # {} => Cardinality(Takers(r)) >= 1
<1>1. Takers(r) \in SUBSET Conns /\ IsFiniteSet(Conns) /\ Conns # {}
  BY RateAssumption DEF Takers
<1>2. IsFiniteSet(Takers(r)) /\ Cardinality(Takers(r)) <= Cardinality(Conns)
  BY <1>1, FS_Subset
<1>3. Cardinality(Takers(r)) \in Nat /\ Cardinality(Conns) \in Nat
  BY <1>1, <1>2, FS_CardinalityType
<1>4. Cardinality(Conns) # 0 /\ (Takers(r) # {} => Cardinality(Takers(r)) # 0)
  BY <1>1, <1>2, FS_EmptySet
<1>5. QED
  BY <1>1, <1>2, <1>3, <1>4

\* The debt allowed falls by one largest size with each taker.
LEMMA DebtFacts ==
    \A t \in 0 .. Cardinality(Conns) :
       /\ Debt(t) \in Nat
       /\ t >= 1 => Debt(t) <= Debt(1)
       /\ t >= 1 => Debt(t - 1) = Debt(t) + R!LargestSize
<1>1. R!LargestSize \in Nat /\ Cardinality(Conns) \in Nat
  BY LargestFacts, FS_CardinalityType, RateAssumption
<1> SUFFICES ASSUME NEW t \in 0 .. Cardinality(Conns)
             PROVE  /\ Debt(t) \in Nat
                    /\ t >= 1 => Debt(t) <= Debt(1)
                    /\ t >= 1 => Debt(t - 1) = Debt(t) + R!LargestSize
  OBVIOUS
<1> DEFINE n == Cardinality(Conns)
<1>2. \A a, b \in Nat : a * b \in Nat
  OBVIOUS
<1>3. \A a, b, d \in Nat : b <= d => a * b <= a * d
  OBVIOUS
<1>4. \A a, b \in Nat : a * (b + 1) = a * b + a
  OBVIOUS
<1>5. n - t \in Nat /\ (t >= 1 => n - 1 \in Nat /\ n - t <= n - 1 /\ n - (t - 1) = (n - t) + 1)
  BY <1>1
<1>6. QED
  BY <1>1, <1>2, <1>3, <1>4, <1>5 DEF Debt

\* The sums that the steps of a bucket make.
LEMMA Numbers ==
    ASSUME R!TypeOK
    PROVE  /\ \A r \in R!Rates : limit[r] \in Nat
           /\ \A c \in Conns : size[c] \in Nat /\ size[c] <= R!LargestSize
<1>1. ASSUME NEW r \in R!Rates PROVE limit[r] \in Nat
  <2>1. limit[r] \in Limits
    BY DEF R!TypeOK
  <2>2. QED
    BY <2>1, Zenon, RateAssumption
<1>2. ASSUME NEW c \in Conns PROVE size[c] \in Nat /\ size[c] <= R!LargestSize
  <2>1. size[c] \in Sizes \cup {0}
    BY DEF R!TypeOK
  <2>2. CASE size[c] \in Sizes
    <3>1. size[c] \in Nat
      BY <2>2, Zenon, RateAssumption
    <3>2. QED
      BY <2>2, <3>1, LargestFacts
  <2>3. CASE size[c] = 0
    BY <2>3, LargestFacts
  <2>4. QED
    BY <2>1, <2>2, <2>3
<1>3. QED
  BY <1>1, <1>2

\* Every step keeps the types.
LEMMA RateType == R!TypeOK /\ EditInv /\ [R!Next]_(R!vars) => R!TypeOK'
<1> SUFFICES ASSUME R!TypeOK, EditInv, [R!Next]_(R!vars) PROVE R!TypeOK'
  OBVIOUS
<1> USE DEF R!buckets, R!conns, R!TypeOK
<1>0. \A r \in R!Rates : limit[r] \in Nat /\ \A c \in Conns : size[c] \in Nat
  BY Numbers
<1>1. ASSUME NEW c \in Conns, ConnStep(c) PROVE R!TypeOK'
  <2>1. CASE R!NewRateConn(c) \/ R!Close(c) \/ R!Test(c)
    BY <2>1 DEF R!NewRateConn, R!Close, R!Test
  <2>2. CASE R!Take(c)
    BY <1>0, <2>2 DEF R!Take
  <2>3. CASE \E m \in Sizes : R!ReadOrWrite(c, m)
    BY <2>3 DEF R!ReadOrWrite
  <2>4. QED
    BY <1>1, <2>1, <2>2, <2>3 DEF ConnStep
<1>2. ASSUME NEW r \in R!Rates, R!Tick(r) \/ R!Add(r) PROVE R!TypeOK'
  <2>1. limit[r] \in Nat /\ surplus[r] \in Int /\ res[r] \in Int
    BY <1>0
  <2>2. R!Refill(r) \in Int
    BY <2>1 DEF R!Refill, R!BucketSize
  <2>3. QED
    <3>1. CASE R!Tick(r)
      BY <2>2, <3>1 DEF R!Tick
    <3>2. CASE R!Add(r)
      <4>1. surplus[r] + res[r] \in Int
        BY <2>1
      <4>2. QED
        BY <3>2, <4>1 DEF R!Add
    <3>3. QED
      BY <1>2, <3>1, <3>2
<1>3. ASSUME NEW e \in Editors, EditorStep(e) PROVE R!TypeOK'
  <2>1. CASE R!BeginEdit(e) \/ R!Stop(e) \/ R!Start(e)
    BY <2>1 DEF R!BeginEdit, R!Stop, R!Start
  <2>2. CASE \E l \in Limits : R!NewRate(e, l)
    <3>1. rates + 1 \in R!Rates
      BY <2>2, RateAssumption DEF R!NewRate, R!Rates
    <3>2. QED
      BY <2>2, <3>1 DEF R!NewRate
  <2>3. QED
    BY <1>3, <2>1, <2>2 DEF EditorStep
<1>4. CASE UNCHANGED R!vars
  BY <1>4 DEF R!vars
<1>5. QED
  BY <1>1, <1>2, <1>3, <1>4 DEF R!Next, ConnStep, EditorStep

\* A bucket that is edited stays one whose session runs or ran.
LEMMA RateEdit == R!TypeOK /\ EditInv /\ [R!Next]_(R!vars) => EditInv'
<1> SUFFICES ASSUME R!TypeOK, EditInv, [R!Next]_(R!vars) PROVE EditInv'
  OBVIOUS
<1> USE RateAssumption DEF R!buckets, R!conns, R!TypeOK, R!Rates, EditInv
<1>1. ASSUME NEW c \in Conns, ConnStep(c) PROVE EditInv'
  <2>1. UNCHANGED <<rate, rates, session, epc>> /\ \A d \in Conns : uses'[d] <= rates'
    <3>1. CASE R!NewRateConn(c)
      BY <3>1 DEF R!NewRateConn
    <3>2. CASE ~R!NewRateConn(c)
      BY <1>1, <3>2 DEF ConnStep, R!Close, R!Test, R!Take, R!ReadOrWrite
    <3>3. QED
      BY <3>1, <3>2
  <2>2. \A r \in R!Rates : r > rate => surplus'[r] = surplus[r]
    BY <1>1 DEF ConnStep, R!NewRateConn, R!Close, R!Test, R!Take, R!ReadOrWrite
  <2>3. QED
    BY <2>1, <2>2
<1>2. ASSUME NEW r \in R!Rates, R!Tick(r) \/ R!Add(r) PROVE EditInv'
  <2>1. /\ UNCHANGED <<rate, rates, epc, uses>>
        /\ session[r] \in {"select", "add"} /\ session'[r] \in {"select", "add"}
        /\ \A s \in R!Rates \ {r} : session'[s] = session[s] /\ surplus'[s] = surplus[s]
    BY <1>2 DEF R!Tick, R!Add
  <2>2. r = rate
    <3>1. rate \in Nat /\ r \in Nat /\ session[r] # "ended" /\ session[r] # "new"
      BY <2>1
    <3>2. ~(r < rate) /\ ~(r > rate)
      BY <3>1
    <3>3. QED
      BY <3>1, <3>2
  <2>3. QED
    BY <2>1, <2>2
<1>3. ASSUME NEW e \in Editors, EditorStep(e) PROVE EditInv'
  <2>1. CASE R!BeginEdit(e)
    BY <2>1 DEF R!BeginEdit
  <2>2. CASE R!Stop(e)
    BY <2>2 DEF R!Stop, R!CanStop
  <2>3. CASE R!Start(e)
    BY <2>3 DEF R!Start
  <2>4. CASE \E l \in Limits : R!NewRate(e, l)
    BY <2>4 DEF R!NewRate
  <2>5. QED
    BY <1>3, <2>1, <2>2, <2>3, <2>4 DEF EditorStep
<1>4. CASE UNCHANGED R!vars
  BY <1>4 DEF R!vars
<1>5. QED
  BY <1>1, <1>2, <1>3, <1>4 DEF R!Next, ConnStep, EditorStep

\* What a session adds keeps the bucket below its limit.
LEMMA RateFull == R!TypeOK /\ EditInv /\ FullInv /\ [R!Next]_(R!vars) => FullInv'
<1> SUFFICES ASSUME R!TypeOK, EditInv, FullInv, [R!Next]_(R!vars), NEW r \in R!Rates
             PROVE  /\ surplus'[r] <= R!BucketSize(r)'
                    /\ session'[r] = "add" =>
                         res'[r] >= 0 /\ surplus'[r] + res'[r] <= R!BucketSize(r)'
  BY DEF FullInv
<1>0. /\ surplus[r] \in Int /\ res[r] \in Int /\ limit[r] \in Nat /\ R!BucketSize(r) = 2 * limit[r]
      /\ surplus[r] <= R!BucketSize(r)
      /\ session[r] = "add" => res[r] >= 0 /\ surplus[r] + res[r] <= R!BucketSize(r)
  <2>1. surplus[r] \in Int /\ res[r] \in Int
    BY DEF R!TypeOK
  <2>2. limit[r] \in Nat
    BY Numbers
  <2>3. QED
    BY <2>1, <2>2 DEF FullInv, R!BucketSize
<1> USE DEF R!buckets, R!conns, R!TypeOK
<1>1. ASSUME NEW c \in Conns, ConnStep(c)
      PROVE  /\ surplus'[r] \in Int /\ surplus'[r] <= surplus[r]
             /\ UNCHANGED <<session, res, limit>>
  <2>1. size[c] \in Nat
    BY Numbers
  <2>2. QED
    BY <1>0, <1>1, <2>1 DEF ConnStep, R!NewRateConn, R!Close, R!Test, R!Take, R!ReadOrWrite
<1>2. ASSUME NEW s \in R!Rates, R!Tick(s)
      PROVE  /\ surplus' = surplus /\ limit' = limit
             /\ s # r => session'[r] = session[r] /\ res'[r] = res[r]
             /\ s = r => res'[r] = R!Refill(r)
  BY <1>2 DEF R!Tick
<1>3. ASSUME NEW s \in R!Rates, R!Add(s)
      PROVE  /\ limit' = limit /\ res' = res
             /\ s # r => session'[r] = session[r] /\ surplus'[r] = surplus[r]
             /\ s = r => /\ surplus'[r] = surplus[r] + res[r] /\ session[r] = "add"
                         /\ session'[r] = "select"
  BY <1>3 DEF R!Add
<1>4. ASSUME NEW e \in Editors, EditorStep(e)
      PROVE  /\ surplus' = surplus /\ res' = res /\ (session'[r] = "add" => session[r] = "add")
             /\ \/ limit'[r] = limit[r]
                \/ surplus[r] = 0 /\ limit'[r] \in Nat /\ session'[r] # "add"
  <2>1. CASE R!BeginEdit(e) \/ R!Stop(e) \/ R!Start(e)
    BY <2>1 DEF R!BeginEdit, R!Stop, R!Start
  <2>2. CASE \E l \in Limits : R!NewRate(e, l)
    BY <2>2, RateAssumption DEF R!NewRate, EditInv, R!Rates
  <2>3. QED
    BY <1>4, <2>1, <2>2 DEF EditorStep
<1>5. R!Refill(r) \in Nat /\ surplus[r] + R!Refill(r) <= R!BucketSize(r)
  BY <1>0 DEF R!Refill
<1>6. CASE UNCHANGED R!vars
  BY <1>0, <1>6 DEF R!vars, R!BucketSize
<1>7. CASE \E c \in Conns : ConnStep(c)
  BY <1>0, <1>1, <1>7 DEF R!BucketSize
<1>8. CASE \E s \in R!Rates : R!Tick(s)
  BY <1>0, <1>2, <1>5, <1>8 DEF R!BucketSize
<1>9. CASE \E s \in R!Rates : R!Add(s)
  BY <1>0, <1>3, <1>9 DEF R!BucketSize
<1>10. CASE \E e \in Editors : EditorStep(e)
  BY <1>0, <1>4, <1>10 DEF R!BucketSize
<1>11. QED
  BY <1>6, <1>7, <1>8, <1>9, <1>10 DEF R!Next, ConnStep, EditorStep

\* Those that take may overdraw by one size each, and the last of them saw what there was.
LEMMA RateDebt ==
    R!TypeOK /\ EditInv /\ FullInv /\ DebtInv /\ [R!Next]_(R!vars) => DebtInv'
<1> SUFFICES ASSUME R!TypeOK, EditInv, FullInv, DebtInv, [R!Next]_(R!vars), NEW r \in R!Rates
             PROVE  /\ surplus'[r] >= -Debt(1)
                    /\ Takers(r)' # {} =>
                          \E c \in Takers(r)' :
                              surplus'[r] >= size'[c] - Debt(Cardinality(Takers(r)'))
  BY DEF DebtInv, Debt
<1> DEFINE Takes == Takers(r)
           n == Cardinality(Takes)
           Owed == /\ surplus'[r] >= -Debt(1)
                   /\ Takes' # {} => \E c \in Takes' : surplus'[r] >= size'[c] - Debt(Cardinality(Takes'))
<1>0. /\ surplus[r] \in Int /\ surplus[r] >= -Debt(1) /\ \A c \in Conns : size[c] \in Nat
      /\ \A c \in Conns : size[c] <= R!LargestSize
      /\ R!LargestSize \in Nat
      /\ Takes # {} => \E c \in Takes : surplus[r] >= size[c] - Debt(n)
  <2>1. /\ surplus[r] \in Int /\ surplus[r] >= -Debt(1)
        /\ Takes # {} => \E c \in Takes : surplus[r] >= size[c] - Debt(n)
    BY DEF DebtInv, R!TypeOK
  <2>4. QED
    BY <2>1, Numbers, LargestFacts
<1>a. /\ Takes \in SUBSET Conns /\ n \in 0 .. Cardinality(Conns) /\ (Takes # {} => n >= 1)
      /\ Cardinality(Conns) \in Nat /\ Cardinality(Conns) >= 1 /\ IsFiniteSet(Conns)
  BY TakersFacts, RateAssumption
<1>b. /\ Debt(n) \in Nat /\ Debt(1) \in Nat
      /\ n >= 1 => Debt(n) <= Debt(1) /\ Debt(n - 1) = Debt(n) + R!LargestSize
  BY <1>a, DebtFacts
<1>c. ASSUME Takes' = Takes, \A c \in Takes : size'[c] = size[c],
             surplus'[r] \in Int, surplus'[r] >= surplus[r]
      PROVE  Owed
  <2>1. surplus'[r] >= -Debt(1)
    BY <1>0, <1>b, <1>c
  <2>2. ASSUME Takes' # {}
        PROVE  \E c \in Takes' : surplus'[r] >= size'[c] - Debt(Cardinality(Takes'))
    <3>1. PICK c \in Takes : surplus[r] >= size[c] - Debt(n)
      BY <1>0, <1>c, <2>2
    <3>2. size[c] \in Nat
      BY <1>0, <1>a
    <3> HIDE DEF Takes
    <3>3. surplus'[r] >= size'[c] - Debt(Cardinality(Takes'))
      BY <1>0, <1>b, <1>c, <3>1, <3>2
    <3>4. QED
      BY <1>c, <3>3
  <2>3. QED
    BY <2>1, <2>2
<1>1. ASSUME NEW c \in Conns, R!Test(c)
      PROVE  Owed
  <2>1. surplus' = surplus /\ size' = size /\ uses' = uses /\ rpc' = [rpc EXCEPT ![c] = "take"]
        /\ rpc[c] = "get" /\ surplus[uses[c]] >= size[c]
    BY <1>1 DEF R!Test, R!Enough, R!conns, R!buckets
  <2>2. CASE uses[c] = r
    <3>1. c \in Takes' /\ Takes' \in SUBSET Conns
      BY <2>1, <2>2 DEF Takers, R!TypeOK
    <3>2. Cardinality(Takes') \in Nat /\ Cardinality(Takes') <= Cardinality(Conns)
      BY <1>a, <3>1, FS_Subset, FS_CardinalityType
    <3>3. Debt(Cardinality(Takes')) \in Nat
      BY <1>a, <3>2, DebtFacts
    <3> HIDE DEF Takes
    <3>4. surplus'[r] >= size'[c] - Debt(Cardinality(Takes'))
      BY <1>0, <2>1, <2>2, <3>3
    <3>5. QED
      BY <1>0, <2>1, <3>1, <3>4
  <2>3. CASE uses[c] # r
    <3>1. Takes' = Takes
      BY <2>1, <2>3 DEF Takers, R!TypeOK
    <3>2. QED
      BY <1>0, <1>c, <2>1, <3>1
  <2>4. QED
    BY <2>2, <2>3
<1>2. ASSUME NEW c \in Conns, R!Take(c)
      PROVE  Owed
  <2>1. /\ rpc' = [rpc EXCEPT ![c] = "io"] /\ rpc[c] = "take" /\ uses' = uses
        /\ surplus' = [surplus EXCEPT ![uses[c]] = @ - size[c]]
        /\ size' = [size EXCEPT ![c] = 0]
    BY <1>2 DEF R!Take, R!buckets
  <2>2. CASE uses[c] # r
    <3>1. Takes' = Takes /\ c \notin Takes /\ surplus'[r] = surplus[r]
      BY <2>1, <2>2 DEF Takers, R!TypeOK
    <3>2. \A d \in Takes : size'[d] = size[d]
      BY <1>a, <2>1, <3>1 DEF R!TypeOK
    <3>3. QED
      BY <1>0, <1>c, <3>1, <3>2
  <2>3. CASE uses[c] = r
    <3>1. /\ c \in Takes /\ Takes' = Takes \ {c} /\ surplus'[r] = surplus[r] - size[c]
          /\ \A d \in Takes' : size'[d] = size[d]
      BY <2>1, <2>3 DEF Takers, R!TypeOK
    <3>2. Cardinality(Takes') = n - 1 /\ n >= 1
      <4>1. IsFiniteSet(Takes)
        BY TakersFacts
      <4> HIDE DEF Takes
      <4>2. QED
        BY <1>a, <3>1, <4>1, FS_RemoveElement
    <3>3. PICK w \in Takes : surplus[r] >= size[w] - Debt(n)
      BY <1>0, <3>1
    <3>4. \A d \in Takes : size[d] \in Nat /\ size[d] <= R!LargestSize
      BY <1>0, <1>a
    <3>5. Debt(n) <= Debt(1) /\ Debt(n - 1) = Debt(n) + R!LargestSize /\ Debt(n) \in Nat
      BY <1>b, <3>2
    <3> HIDE DEF Takes
    <3>6. CASE w = c
      <4>1. surplus'[r] >= -Debt(n)
        BY <1>0, <3>1, <3>3, <3>4, <3>5, <3>6
      <4>2. \A d \in Takes' : surplus'[r] >= size'[d] - Debt(Cardinality(Takes'))
        BY <1>0, <3>1, <3>2, <3>4, <3>5, <4>1
      <4>3. surplus'[r] >= -Debt(1)
        BY <1>0, <1>b, <3>1, <3>4, <3>5, <4>1
      <4>4. QED
        BY <4>2, <4>3
    <3>7. CASE w # c
      <4>1. w \in Takes'
        BY <3>1, <3>7
      <4>2. surplus'[r] >= size'[w] - Debt(Cardinality(Takes'))
        BY <1>0, <3>1, <3>2, <3>3, <3>4, <3>5, <4>1
      <4>3. Cardinality(Takes') >= 1 /\ Cardinality(Takes') \in 0 .. Cardinality(Conns)
        <5>1. Takes' # {} /\ IsFiniteSet(Takes')
          BY <1>a, <3>1, <4>1, FS_Subset
        <5>2. Cardinality(Takes') # 0 /\ Cardinality(Takes') \in Nat
          BY <5>1, FS_EmptySet, FS_CardinalityType
        <5>3. QED
          BY <1>a, <3>2, <5>2
      <4>4. Debt(Cardinality(Takes')) <= Debt(1) /\ Debt(Cardinality(Takes')) \in Nat
        BY <4>3, DebtFacts
      <4>5. size'[w] \in Nat /\ surplus'[r] \in Int
        BY <1>0, <3>1, <3>4, <4>1
      <4>6. surplus'[r] >= -Debt(1)
        BY <1>b, <4>2, <4>4, <4>5
      <4>7. QED
        BY <4>1, <4>2, <4>6
    <3>8. QED
      BY <3>6, <3>7
  <2>4. QED
    BY <2>2, <2>3
<1>3. ASSUME NEW c \in Conns,
             R!NewRateConn(c) \/ R!Close(c) \/ \E m \in Sizes : R!ReadOrWrite(c, m)
      PROVE  Owed
  <2>1. /\ rpc[c] # "take" /\ rpc'[c] # "take" /\ surplus' = surplus
        /\ \A d \in Conns \ {c} : rpc'[d] = rpc[d] /\ uses'[d] = uses[d] /\ size'[d] = size[d]
    BY <1>3 DEF R!NewRateConn, R!Close, R!ReadOrWrite, R!buckets, R!TypeOK
  <2>2. Takes' = Takes /\ \A d \in Takes : size'[d] = size[d]
    BY <2>1 DEF Takers
  <2>3. QED
    BY <1>0, <1>c, <2>1, <2>2
<1>4. ASSUME NEW s \in R!Rates, R!Tick(s) \/ R!Add(s)
      PROVE  Owed
  <2>1. rpc' = rpc /\ uses' = uses /\ size' = size
    BY <1>4 DEF R!Tick, R!Add, R!conns
  <2>2. surplus'[r] \in Int /\ surplus'[r] >= surplus[r]
    BY <1>4, <1>0 DEF R!Tick, R!Add, R!TypeOK, FullInv
  <2>3. Takes' = Takes
    BY <2>1 DEF Takers
  <2>4. QED
    BY <1>c, <2>1, <2>2, <2>3
<1>5. ASSUME (\E e \in Editors : EditorStep(e)) \/ UNCHANGED R!vars
      PROVE  Owed
  <2>1. UNCHANGED <<surplus, rpc, uses, size>>
    BY <1>5 DEF EditorStep, R!BeginEdit, R!Stop, R!Start, R!NewRate, R!conns, R!vars
  <2>2. Takes' = Takes
    BY <2>1 DEF Takers
  <2>3. QED
    BY <1>0, <1>c, <2>1, <2>2
<1>6. QED
  BY <1>1, <1>2, <1>3, <1>4, <1>5 DEF R!Next, EditorStep

\* At the start the bucket is empty.
LEMMA RateInit == R!Init => RateInv
<1> SUFFICES ASSUME R!Init PROVE RateInv
  OBVIOUS
<1>1. 1 \in R!Rates /\ R!LargestSize \in Nat
  BY LargestFacts, RateAssumption DEF R!Rates
<1>2. R!TypeOK /\ EditInv
  BY <1>1, RateAssumption DEF R!Init, R!TypeOK, EditInv, R!Rates
<1>3. FullInv
  BY <1>2, RateAssumption DEF R!Init, FullInv, R!BucketSize, R!TypeOK
<1>4. \A r \in R!Rates : Takers(r) = {}
  BY DEF R!Init, Takers
<1>5. Debt(1) \in Nat
  BY TakersFacts, DebtFacts
<1>6. DebtInv
  BY <1>4, <1>5 DEF R!Init, DebtInv
<1>7. QED
  BY <1>2, <1>3, <1>6 DEF RateInv

\* The invariant of the buckets holds in every behaviour.
THEOREM RateInvariant == Spec => [](part = "rate" => RateInv)
<1>1. Init => (part = "rate" => RateInv)
  BY RateInit DEF Init
<1>2. (part = "rate" => RateInv) /\ [Next]_vars => (part = "rate" => RateInv)'
  <2> SUFFICES ASSUME part = "rate" => RateInv, [Next]_vars, part' = "rate"
               PROVE  RateInv'
    OBVIOUS
  <2>1. part = "rate" /\ [R!Next]_(R!vars)
    BY DEF Next, vars, R!vars, R!buckets, R!conns
  <2>2. QED
    BY <2>1, RateType, RateEdit, RateFull, RateDebt DEF RateInv
<1>3. QED
  BY <1>1, <1>2, PTL DEF Spec

\* lib/rate: a bucket holds at most two seconds' worth and owes at most one read or write for
\* each connection but one; and the bucket in use is the one that a session refills, unless
\* a handler is changing it.
THEOREM RateIsSound == Spec => []RateSound
<1>1. RateInv => R!RateSound
  <2> SUFFICES ASSUME RateInv PROVE R!RateSound
    OBVIOUS
  <2>1. R!BucketBounded
    <3>1. R!LargestSize * (Cardinality(Conns) - 1) = Debt(1)
      BY DEF Debt
    <3>2. \A r \in R!Rates : /\ surplus[r] + (IF session[r] = "add" THEN res[r] ELSE 0) <= R!BucketSize(r)
                             /\ surplus[r] >= -Debt(1)
      BY DEF RateInv, FullInv, DebtInv, R!TypeOK
    <3>3. QED
      BY <3>1, <3>2, SameCardinality DEF R!BucketBounded
  <2>2. R!OneSession
    <3>1. CASE \E e \in Editors : epc[e] \in {"make", "start"}
      <4>1. session[rate] \in {"new", "ended"}
        BY <3>1 DEF RateInv, EditInv
      <4>2. \A r \in R!Rates : session[r] \in {"new", "ended"}
        BY <4>1 DEF RateInv, EditInv, R!TypeOK, R!Rates
      <4>3. QED
        BY <3>1, <4>2 DEF R!OneSession
    <3>2. CASE ~\E e \in Editors : epc[e] \in {"make", "start"}
      <4>1. rate \in R!Rates /\ session[rate] \in {"select", "add"}
        BY <3>2 DEF RateInv, EditInv, R!TypeOK
      <4>2. \A r \in R!Rates : session[r] \in {"select", "add"} => r = rate
        BY <4>1 DEF RateInv, EditInv, R!TypeOK, R!Rates
      <4>3. QED
        BY <3>2, <4>1, <4>2 DEF R!OneSession
    <3>3. QED
      BY <3>1, <3>2
  <2>3. QED
    BY <2>1, <2>2 DEF R!RateSound, RateInv
<1>2. QED
  <2>1. (part = "rate" => RateInv) => RateSound
    BY <1>1 DEF RateSound
  <2>2. QED
    BY <2>1, RateInvariant, PTL

-----------------------------------------------------------------------------
(* The port multiplexer (PortMux).                                        *)

\* A PortConn, before and after what is kept has been replayed, while no more than one
\* read was short: the first short read is one from the beginning of what is kept.
ConnInv ==
    /\ rs \in [PortConns -> Nat] /\ start \in [PortConns -> Nat] /\ taken \in [PortConns -> Nat]
    /\ short \in [PortConns -> Nat] /\ delivered \in [PortConns -> Seq(Nat)]
    /\ \A c \in PortConns :
          /\ start[c] <= rs[c]
          /\ start[c] < rs[c] => taken[c] = rs[c] /\ (short[c] = 0 => start[c] = 0)
          /\ ppc[c] \in {"none", "process"} =>
                start[c] = 0 /\ short[c] = 0 /\ rs[c] = 0 /\ taken[c] = 0 /\ delivered[c] = <<>>
          /\ short[c] <= 1 =>
                delivered[c] = P!Units(0, IF start[c] < rs[c] THEN start[c] ELSE taken[c])

PortInv == P!TypeOK /\ ConnInv

\* A piece has the length asked for.
LEMMA UnitsFacts ==
    ASSUME NEW a \in Nat, NEW m \in Nat
    PROVE  P!Units(a, m) \in Seq(Nat) /\ Len(P!Units(a, m)) = m
  BY DEF P!Units

\* What follows on is one piece.
LEMMA UnitsJoin ==
    ASSUME NEW a \in Nat, NEW m \in Nat, NEW n \in Nat
    PROVE  P!Units(a, m) \o P!Units(a + m, n) = P!Units(a, m + n)
<1>1. /\ P!Units(a, m) \in Seq(Nat) /\ Len(P!Units(a, m)) = m
      /\ P!Units(a + m, n) \in Seq(Nat) /\ Len(P!Units(a + m, n)) = n
      /\ P!Units(a, m + n) \in Seq(Nat) /\ Len(P!Units(a, m + n)) = m + n
  <2>1. a + m \in Nat /\ m + n \in Nat
    OBVIOUS
  <2>2. QED
    BY <2>1, UnitsFacts
<1> DEFINE s == P!Units(a, m) \o P!Units(a + m, n)
           t == P!Units(a, m + n)
<1>2. s \in Seq(Nat) /\ Len(s) = m + n
  <2> HIDE DEF t
  <2>1. \A u, v \in Seq(Nat) : u \o v \in Seq(Nat) /\ Len(u \o v) = Len(u) + Len(v)
    OBVIOUS
  <2>2. QED
    BY <1>1, <2>1
<1>3. \A i \in 1 .. m + n : s[i] = t[i]
  <2> SUFFICES ASSUME NEW i \in 1 .. m + n PROVE s[i] = t[i]
    OBVIOUS
  <2>1. t[i] = a + i
    BY DEF P!Units
  <2>2. CASE i <= m
    <3>1. s[i] = P!Units(a, m)[i]
      BY <1>1, <2>2
    <3>2. P!Units(a, m)[i] = a + i
      BY <2>2 DEF P!Units
    <3>3. QED
      BY <2>1, <3>1, <3>2
  <2>3. CASE i > m
    <3>1. s[i] = P!Units(a + m, n)[i - m]
      <4>1. \A u, v \in Seq(Nat) : \A k \in Len(u) + 1 .. Len(u) + Len(v) :
               (u \o v)[k] = v[k - Len(u)]
        OBVIOUS
      <4>2. i \in m + 1 .. m + n
        BY <2>3
      <4> HIDE DEF s, t
      <4>3. s = P!Units(a, m) \o P!Units(a + m, n)
        BY DEF s
      <4>4. QED
        BY SMTT(20), <1>1, <4>1, <4>2, <4>3
    <3>2. P!Units(a + m, n)[i - m] = a + m + (i - m)
      BY <2>3 DEF P!Units
    <3>3. a + m + (i - m) = a + i
      OBVIOUS
    <3> HIDE DEF s, t
    <3>4. QED
      BY <2>1, <3>1, <3>2, <3>3 DEF s
  <2>4. i <= m \/ i > m
    OBVIOUS
  <2> HIDE DEF s, t
  <2>5. QED
    BY <2>2, <2>3, <2>4
<1> HIDE DEF s, t
<1>4. s = t
  BY <1>1, <1>2, <1>3 DEF t
<1>5. QED
  BY <1>4 DEF s, t

\* A step of a connection that is no read changes no PortConn but to recognise it.
LEMMA PortConnStep == P!TypeOK /\ ConnInv /\ [P!Next]_(P!vars) => ConnInv'
<1> SUFFICES ASSUME P!TypeOK, ConnInv, [P!Next]_(P!vars) PROVE ConnInv'
  OBVIOUS
<1> USE DEF P!mux, P!portConn, P!Move
<1> DEFINE I(c) ==
          /\ start[c] <= rs[c]
          /\ start[c] < rs[c] => taken[c] = rs[c] /\ (short[c] = 0 => start[c] = 0)
          /\ ppc[c] \in {"none", "process"} =>
                start[c] = 0 /\ short[c] = 0 /\ rs[c] = 0 /\ taken[c] = 0 /\ delivered[c] = <<>>
          /\ short[c] <= 1 =>
                delivered[c] = P!Units(0, IF start[c] < rs[c] THEN start[c] ELSE taken[c])
           Types == /\ rs \in [PortConns -> Nat] /\ start \in [PortConns -> Nat] /\ taken \in [PortConns -> Nat]
                /\ short \in [PortConns -> Nat] /\ delivered \in [PortConns -> Seq(Nat)]
           Same(c) == /\ rs'[c] = rs[c] /\ start'[c] = start[c] /\ taken'[c] = taken[c]
                      /\ short'[c] = short[c] /\ delivered'[c] = delivered[c]
                      /\ ppc'[c] \in {"none", "process"} => ppc[c] \in {"none", "process"}
<1>0. Types /\ (\A c \in PortConns : I(c)) /\ (Types' /\ (\A c \in PortConns : I(c)') => ConnInv')
  BY DEF ConnInv
<1>a. ASSUME NEW c \in PortConns, Same(c) PROVE I(c)'
  BY <1>0, <1>a
<1>b. ppc \in [PortConns -> {"none", "process", "offer", "handed", "gone"}]
  BY DEF P!TypeOK
<1>1. CASE UNCHANGED P!portConn /\ \A c \in PortConns : Same(c)
  BY <1>0, <1>1, <1>a
<1>2. ASSUME NEW c \in PortConns, P!Recognise(c) PROVE ConnInv'
  <2>1. PICK n \in P!Kept(c) : rs' = [rs EXCEPT ![c] = n] /\ taken' = [taken EXCEPT ![c] = n]
    BY <1>2 DEF P!Recognise
  <2>2. n \in Nat /\ n >= 1
    BY PortAssumption DEF P!Kept
  <2>3. /\ ppc[c] = "process" /\ ppc' = [ppc EXCEPT ![c] = "offer"]
        /\ UNCHANGED <<start, delivered, short>>
    BY <1>2 DEF P!Recognise
  <2>4. start[c] = 0 /\ short[c] = 0 /\ delivered[c] = <<>>
    BY <1>0, <2>3
  <2>5. P!Units(0, 0) = <<>>
    BY UnitsFacts
  <2>6. I(c)'
    BY <1>0, <1>b, <2>1, <2>2, <2>3, <2>4, <2>5
  <2>7. \A d \in PortConns \ {c} : Same(d)
    BY <1>0, <1>b, <2>1, <2>3
  <2>8. Types'
    BY <1>0, <2>1, <2>2, <2>3
  <2>9. QED
    BY <1>0, <1>a, <2>6, <2>7, <2>8
<1>3. ASSUME NEW c \in PortConns, NEW b \in Buffers, P!ReadShort(c, b) PROVE ConnInv'
  <2>1. /\ delivered' = [delivered EXCEPT ![c] = @ \o P!Units(0, b)]
        /\ start' = [start EXCEPT ![c] = @ + b] /\ short' = [short EXCEPT ![c] = @ + 1]
        /\ UNCHANGED <<ppc, rs, taken>> /\ ppc[c] = "handed" /\ b < rs[c] - start[c]
    BY <1>3 DEF P!ReadShort
  <2>2. /\ b \in Nat /\ start[c] \in Nat /\ rs[c] \in Nat /\ short[c] \in Nat
        /\ delivered[c] \in Seq(Nat) /\ taken[c] \in Nat
    BY <1>0, PortAssumption
  <2>3. P!Units(0, b) \in Seq(Nat)
    BY <2>2, UnitsFacts
  <2>4. Types'
    BY SMTT(20), <1>0, <2>1, <2>2, <2>3
  <2>5. \A d \in PortConns \ {c} : Same(d)
    BY <1>0, <1>b, <2>1
  <2>6. start'[c] < rs'[c] /\ start'[c] = start[c] + b /\ taken'[c] = rs'[c]
        /\ short'[c] = short[c] + 1 /\ ppc'[c] = "handed"
    BY <1>0, <2>1, <2>2
  <2>7. ASSUME short'[c] <= 1 PROVE delivered'[c] = P!Units(0, start'[c])
    <3>1. short[c] = 0 /\ start[c] = 0
      BY <1>0, <2>1, <2>2, <2>6, <2>7
    <3>2. delivered[c] = P!Units(0, 0)
      <4>1. start[c] < rs[c] /\ short[c] <= 1
        BY <2>1, <2>2, <3>1
      <4>2. delivered[c] = P!Units(0, start[c])
        BY <1>0, <4>1
      <4>3. QED
        BY <3>1, <4>2
    <3>3. delivered'[c] = P!Units(0, 0) \o P!Units(0 + 0, b)
      BY <1>0, <2>1, <3>2
    <3>4. P!Units(0, 0) \o P!Units(0 + 0, b) = P!Units(0, 0 + b)
      BY <2>2, UnitsJoin
    <3>5. QED
      BY <2>2, <2>6, <3>1, <3>3, <3>4
  <2>8. I(c)'
    <3>1. start'[c] <= rs'[c] /\ short'[c] # 0
      BY <2>1, <2>2, <2>6
    <3>2. short'[c] <= 1 =>
             delivered'[c] = P!Units(0, IF start'[c] < rs'[c] THEN start'[c] ELSE taken'[c])
      BY <2>6, <2>7
    <3>3. QED
      BY <2>6, <3>1, <3>2
  <2>9. QED
    BY <1>0, <1>a, <2>4, <2>5, <2>8
<1>4. ASSUME NEW c \in PortConns, NEW b \in Buffers, NEW n \in 0 .. MaxBytes, P!ReadRest(c, b, n)
      PROVE  ConnInv'
  <2>1. /\ delivered' = [delivered EXCEPT ![c] = @ \o P!Units(start[c], rs[c] - start[c])
                                                   \o P!Units(taken[c], n)]
        /\ start' = [start EXCEPT ![c] = rs[c]] /\ taken' = [taken EXCEPT ![c] = @ + n]
        /\ UNCHANGED <<ppc, rs, short>> /\ ppc[c] = "handed" /\ start[c] < rs[c]
    BY <1>4 DEF P!ReadRest, P!Rest
  <2>2. /\ start[c] \in Nat /\ rs[c] \in Nat /\ short[c] \in Nat
        /\ delivered[c] \in Seq(Nat) /\ taken[c] \in Nat /\ n \in Nat /\ rs[c] - start[c] \in Nat
    BY <1>0, <2>1, PortAssumption
  <2>3. P!Units(start[c], rs[c] - start[c]) \in Seq(Nat) /\ P!Units(taken[c], n) \in Seq(Nat)
    BY <2>2, UnitsFacts
  <2>4. Types'
    <3>1. \A u, v, w \in Seq(Nat) : u \o v \o w \in Seq(Nat)
      OBVIOUS
    <3>2. delivered[c] \o P!Units(start[c], rs[c] - start[c]) \o P!Units(taken[c], n) \in Seq(Nat)
      BY <2>2, <2>3, <3>1
    <3>3. delivered' \in [PortConns -> Seq(Nat)]
      BY <1>0, <2>1, <3>2
    <3>4. QED
      BY SMTT(20), <1>0, <2>1, <2>2, <3>3
  <2>5. \A d \in PortConns \ {c} : Same(d)
    BY <1>0, <1>b, <2>1
  <2>6. start'[c] = rs'[c] /\ taken'[c] = taken[c] + n /\ short'[c] = short[c]
        /\ ppc'[c] = "handed" /\ rs'[c] = rs[c] /\ taken[c] = rs[c]
    BY <1>0, <2>1, <2>2
  <2>7. ASSUME short'[c] <= 1 PROVE delivered'[c] = P!Units(0, taken'[c])
    <3>1. delivered[c] = P!Units(0, start[c])
      BY <1>0, <2>1, <2>6, <2>7
    <3>2. delivered'[c] = (P!Units(0, start[c]) \o P!Units(start[c], rs[c] - start[c]))
                              \o P!Units(taken[c], n)
      BY <1>0, <2>1, <3>1
    <3>3. P!Units(0, start[c]) \o P!Units(0 + start[c], rs[c] - start[c])
             = P!Units(0, start[c] + (rs[c] - start[c]))
      BY <2>2, UnitsJoin
    <3>4. 0 + start[c] = start[c] /\ start[c] + (rs[c] - start[c]) = taken[c] /\ 0 + taken[c] = taken[c]
      BY <2>2, <2>6
    <3>5. P!Units(0, taken[c]) \o P!Units(0 + taken[c], n) = P!Units(0, taken[c] + n)
      BY <2>2, UnitsJoin
    <3>6. QED
      BY <2>6, <3>2, <3>3, <3>4, <3>5
  <2>8. I(c)'
    BY <2>2, <2>6, <2>7
  <2>9. QED
    BY <1>0, <1>a, <2>4, <2>5, <2>8
<1>5. ASSUME NEW c \in PortConns, NEW b \in Buffers, NEW n \in 0 .. MaxBytes, P!ReadConn(c, b, n)
      PROVE  ConnInv'
  <2>1. /\ delivered' = [delivered EXCEPT ![c] = @ \o P!Units(taken[c], n)]
        /\ taken' = [taken EXCEPT ![c] = @ + n]
        /\ UNCHANGED <<ppc, rs, short, start>> /\ ppc[c] = "handed" /\ start[c] = rs[c]
    BY <1>5 DEF P!ReadConn
  <2>2. /\ start[c] \in Nat /\ rs[c] \in Nat /\ short[c] \in Nat
        /\ delivered[c] \in Seq(Nat) /\ taken[c] \in Nat /\ n \in Nat
    BY <1>0, <2>1, PortAssumption
  <2>3. P!Units(taken[c], n) \in Seq(Nat)
    BY <2>2, UnitsFacts
  <2>4. Types'
    BY SMTT(20), <1>0, <2>1, <2>2, <2>3
  <2>5. \A d \in PortConns \ {c} : Same(d)
    BY <1>0, <1>b, <2>1
  <2>6. start'[c] = rs'[c] /\ taken'[c] = taken[c] + n /\ short'[c] = short[c]
        /\ ppc'[c] = "handed" /\ rs'[c] = rs[c]
    BY <1>0, <2>1, <2>2
  <2>7. ASSUME short'[c] <= 1 PROVE delivered'[c] = P!Units(0, taken'[c])
    <3>1. delivered[c] = P!Units(0, taken[c])
      BY <1>0, <2>1, <2>2, <2>6, <2>7
    <3>2. P!Units(0, taken[c]) \o P!Units(0 + taken[c], n) = P!Units(0, taken[c] + n)
      BY <2>2, UnitsJoin
    <3>3. 0 + taken[c] = taken[c]
      BY <2>2
    <3>4. delivered'[c] = P!Units(0, taken[c]) \o P!Units(taken[c], n)
      BY <1>0, <2>1, <3>1
    <3>5. QED
      BY <2>6, <3>2, <3>3, <3>4
  <2>8. I(c)'
    BY <2>2, <2>6, <2>7
  <2>9. QED
    BY <1>0, <1>a, <2>4, <2>5, <2>8
<1>6. ASSUME NEW c \in PortConns, P!AcceptTcp(c) \/ P!Unknown(c) \/ P!HandOver(c) \/ P!TimeOut(c)
      PROVE  ConnInv'
  <2>1. UNCHANGED P!portConn /\ \A d \in PortConns : Same(d)
    BY <1>6, <1>b DEF P!AcceptTcp, P!Unknown, P!HandOver, P!TimeOut
  <2>2. QED
    BY <1>1, <2>1
<1>7. CASE \/ \E k \in P!Kinds : P!Accept(k) \/ P!CloseListener(k)
           \/ P!Fail \/ P!Panic \/ UNCHANGED P!vars
  <2>1. UNCHANGED P!portConn /\ \A d \in PortConns : Same(d)
    BY <1>7 DEF P!Accept, P!CloseListener, P!Fail, P!Panic, P!vars
  <2>2. QED
    BY <1>1, <2>1
<1>8. QED
  BY <1>2, <1>3, <1>4, <1>5, <1>6, <1>7 DEF P!Next

\* Every step keeps the types.
LEMMA PortType == P!TypeOK /\ ConnInv' /\ [P!Next]_(P!vars) => P!TypeOK'
<1> SUFFICES ASSUME P!TypeOK, ConnInv', [P!Next]_(P!vars) PROVE P!TypeOK'
  OBVIOUS
<1>1. \A c \in PortConns : start'[c] \in 0 .. rs'[c]
  BY DEF ConnInv
<1> USE DEF P!mux, P!portConn, P!Move
<1>2. /\ rs' \in [PortConns -> 0 .. MaxHead] /\ taken' \in [PortConns -> 0 .. MaxBytes]
      /\ ppc' \in [PortConns -> {"none", "process", "offer", "handed", "gone"}]
  <2>1. CASE UNCHANGED <<rs, taken, ppc>>
    BY <2>1 DEF P!TypeOK
  <2>2. ASSUME NEW c \in PortConns, P!Recognise(c)
        PROVE  /\ rs' \in [PortConns -> 0 .. MaxHead] /\ taken' \in [PortConns -> 0 .. MaxBytes]
               /\ ppc' \in [PortConns -> {"none", "process", "offer", "handed", "gone"}]
    <3>1. PICK n \in P!Kept(c) : rs' = [rs EXCEPT ![c] = n] /\ taken' = [taken EXCEPT ![c] = n]
      BY <2>2 DEF P!Recognise
    <3>2. n \in 0 .. MaxHead /\ n \in 0 .. MaxBytes
      BY PortAssumption DEF P!Kept
    <3>3. QED
      BY <2>2, <3>1, <3>2 DEF P!Recognise, P!TypeOK
  <2>3. ASSUME NEW c \in PortConns, NEW b \in Buffers, NEW n \in 0 .. MaxBytes,
               P!ReadRest(c, b, n) \/ P!ReadConn(c, b, n)
        PROVE  /\ rs' \in [PortConns -> 0 .. MaxHead] /\ taken' \in [PortConns -> 0 .. MaxBytes]
               /\ ppc' \in [PortConns -> {"none", "process", "offer", "handed", "gone"}]
    <3>1. /\ taken' = [taken EXCEPT ![c] = @ + n] /\ rs' = rs /\ ppc' = ppc
      BY <2>3 DEF P!ReadRest, P!ReadConn
    <3>2. taken[c] + n \in 0 .. MaxBytes
      <4>1. taken[c] \in 0 .. MaxBytes /\ b \in Nat /\ MaxBytes \in Nat /\ rs[c] \in Nat
            /\ start[c] \in Nat
        BY PortAssumption DEF P!TypeOK
      <4>2. n <= 0 \/ n <= MaxBytes - taken[c]
        <5>1. CASE P!ReadRest(c, b, n)
          BY <4>1, <5>1 DEF P!ReadRest, P!Smaller
        <5>2. CASE P!ReadConn(c, b, n)
          BY <4>1, <5>2 DEF P!ReadConn, P!Smaller
        <5>3. QED
          BY <2>3, <5>1, <5>2
      <4>3. QED
        BY <4>1, <4>2
    <3>3. QED
      BY <3>1, <3>2 DEF P!TypeOK
  <2>4. ASSUME NEW c \in PortConns,
               \/ P!AcceptTcp(c) \/ P!Unknown(c) \/ P!HandOver(c) \/ P!TimeOut(c)
               \/ \E b \in Buffers : P!ReadShort(c, b)
        PROVE  /\ rs' \in [PortConns -> 0 .. MaxHead] /\ taken' \in [PortConns -> 0 .. MaxBytes]
               /\ ppc' \in [PortConns -> {"none", "process", "offer", "handed", "gone"}]
    BY <2>4 DEF P!AcceptTcp, P!Unknown, P!HandOver, P!TimeOut, P!ReadShort, P!TypeOK
  <2>5. CASE \/ \E k \in P!Kinds : P!Accept(k) \/ P!CloseListener(k)
             \/ P!Fail \/ P!Panic \/ UNCHANGED P!vars
    BY <2>1, <2>5 DEF P!Accept, P!CloseListener, P!Fail, P!Panic, P!vars
  <2>6. QED
    BY <2>2, <2>3, <2>4, <2>5 DEF P!Next
<1>3. /\ isClose' \in BOOLEAN /\ alive' \in BOOLEAN
      /\ waiting' \subseteq P!Kinds /\ listenerClosed' \subseteq P!Kinds
  BY ZenonT(40) DEF P!Next, P!AcceptTcp, P!Recognise, P!Unknown, P!HandOver, P!TimeOut, P!ReadShort,
     P!ReadRest, P!ReadConn,
         P!Accept, P!CloseListener, P!Fail, P!Panic, P!vars, P!TypeOK
<1>4. QED
  BY <1>1, <1>2, <1>3 DEF P!TypeOK

\* At the start nobody has connected.
LEMMA PortInit == P!Init => PortInv
<1> SUFFICES ASSUME P!Init PROVE PortInv
  OBVIOUS
<1>1. P!Units(0, 0) = <<>>
  BY UnitsFacts
<1>2. <<>> \in Seq(Nat)
  OBVIOUS
<1>3. ConnInv
  BY <1>1, <1>2 DEF P!Init, ConnInv
<1>4. P!TypeOK
  <2>1. 0 \in 0 .. MaxHead /\ 0 \in 0 .. MaxBytes /\ 0 \in 0 .. 0
    BY PortAssumption
  <2>2. QED
    BY <2>1 DEF P!Init, P!TypeOK
<1>5. QED
  BY <1>3, <1>4 DEF PortInv

\* The invariant of the multiplexer holds in every behaviour.
THEOREM PortInvariant == Spec => [](part = "port" => PortInv)
<1>1. Init => (part = "port" => PortInv)
  BY PortInit DEF Init
<1>2. (part = "port" => PortInv) /\ [Next]_vars => (part = "port" => PortInv)'
  <2> SUFFICES ASSUME part = "port" => PortInv, [Next]_vars, part' = "port"
               PROVE  PortInv'
    OBVIOUS
  <2>1. part = "port" /\ [P!Next]_(P!vars)
    BY DEF Next, vars, P!vars, P!mux, P!portConn
  <2>2. QED
    BY <2>1, PortConnStep, PortType DEF PortInv
<1>3. QED
  BY <1>1, <1>2, PTL DEF Spec

\* pmux.go and pconn.go: whoever is handed a connection reads what was read of it to tell its
\* kind, and then the rest, once and in order, while at most one of its reads was short.
THEOREM PortIsSound == Spec => []PortSound
<1>1. PortInv => P!PortSound
  <2> SUFFICES ASSUME PortInv, NEW c \in PortConns, short[c] <= 1
               PROVE  delivered[c] = P!Units(0, Len(delivered[c]))
    BY DEF PortInv, P!PortSound, P!Replayed
  <2>1. PICK m \in Nat : delivered[c] = P!Units(0, m)
    BY DEF PortInv, ConnInv
  <2>2. QED
    BY <2>1, UnitsFacts
<1>2. QED
  <2>1. (part = "port" => PortInv) => PortSound
    BY <1>1 DEF PortSound
  <2>2. QED
    BY <2>1, PortInvariant, PTL

-----------------------------------------------------------------------------
(* The lockout of the login (Login).                                       *)

LoginTypes ==
    /\ G!TypeOK
    /\ req \in [Logins -> [pc : {"idle", "load", "reset", "test", "compare", "write"}, rec : Nat,
                           explicit : BOOLEAN, right : BOOLEAN, read : Nat]]
    /\ compared \in [G!Records -> Nat] /\ lost \in [G!Records -> Nat]
    /\ \A h \in Logins : req[h].pc \in {"reset", "test", "write"} => req[h].rec \in G!Records

\* A handler that is to write the count of r, and one that will count on r, should it be in
\* the map, with no further look at its count.
Writes(h, r) == req[h].pc = "write" /\ req[h].rec = r
Passes(h, r) ==
    \/ req[h].pc = "compare"
    \/ req[h].pc \in {"reset", "test"} /\ req[h].rec # r
Writers(r) == {h \in Logins : Writes(h, r)}
Passers(r) == {h \in Logins : Passes(h, r)}

\* What was compared is in the count, or on its way there, or was written over.
CountedInv ==
    \A r \in G!Records : compared[r] <= fails[r] + lost[r] + Cardinality(Writers(r))

\* Those that passed the test bring the record of the map no further than the bound.
PassedInv ==
    \A r \in G!Records \ restored :
        inMap = r =>
           compared[r] + Cardinality(Passers(r)) <= MaxFails + lost[r] + Cardinality(Logins) - 1

\* Nothing failed on a record that was not made.
FreshInv == \A r \in G!Records : r > made => compared[r] = 0

LoginInv == LoginTypes /\ FreshInv /\ CountedInv /\ PassedInv /\ G!LockedOut

LoginStep(h) ==
    \/ \E e, ok \in BOOLEAN : G!Request(h, e, ok)
    \/ G!Load(h) \/ G!Reset(h) \/ G!Test(h) \/ G!LogIn(h) \/ G!FailFirst(h) \/ G!Visit(h)
    \/ G!FailAgain(h) \/ G!Write(h)

\* A step of h leaves the other requests alone.
LEMMA LoginOneRequest ==
    ASSUME LoginTypes, NEW h \in Logins, LoginStep(h)
    PROVE  /\ \A k \in Logins \ {h} : req'[k] = req[k]
           /\ req[h].pc # "idle" => clock' = clock
<1> USE DEF LoginTypes
<1>1. CASE \E e, ok \in BOOLEAN : G!Request(h, e, ok)
  BY <1>1 DEF G!Request, G!At
<1>2. CASE G!Load(h) \/ G!Reset(h)
  BY <1>2 DEF G!Load, G!Reset, G!Goto
<1>3. CASE G!Test(h) \/ G!LogIn(h) \/ G!FailFirst(h) \/ G!Visit(h) \/ G!Write(h)
  BY <1>3 DEF G!Test, G!LogIn, G!FailFirst, G!Visit, G!Write, G!Answer, G!Goto
<1>4. CASE G!FailAgain(h)
  BY <1>4 DEF G!FailAgain
<1>5. QED
  BY <1>1, <1>2, <1>3, <1>4 DEF LoginStep

\* The requests.
Request == [pc : {"idle", "load", "reset", "test", "compare", "write"}, rec : Nat,
            explicit : BOOLEAN, right : BOOLEAN, read : Nat]

\* What a step makes of its request.
LEMMA LoginRequest ==
    ASSUME LoginTypes, NEW h \in Logins, LoginStep(h)
    PROVE  /\ req' \in [Logins -> Request]
           /\ req'[h].rec \in 0 .. made'
           /\ req'[h].pc \in {"reset", "test", "write"} => req'[h].rec \in G!Records
<1> USE DEF LoginTypes, G!TypeOK, G!Records, G!Idle, G!At, G!Answer, G!Goto, G!records, G!history
<1>0. req \in [Logins -> Request] /\ made \in Nat /\ inMap \in Nat
  BY LoginAssumption DEF Request
<1>1. CASE \E e, ok \in BOOLEAN : G!Request(h, e, ok)
  <2> PICK e \in BOOLEAN, ok \in BOOLEAN : G!Request(h, e, ok)
    BY <1>1
  <2> DEFINE x == [G!Idle EXCEPT !.pc = "load", !.explicit = e, !.right = ok /\ e]
  <2>1. made' = made /\ req' = [req EXCEPT ![h] = x]
    BY DEF G!Request
  <2>2. (ok /\ e) \in BOOLEAN
    OBVIOUS
  <2>3. x \in Request /\ x.rec = 0 /\ x.pc = "load"
    BY <2>2 DEF Request
  <2>4. req'[h] = x /\ req' \in [Logins -> Request]
    BY <1>0, <2>1, <2>3
  <2>5. QED
    BY <1>0, <2>1, <2>3, <2>4
<1>2. CASE G!Load(h)
  <2> DEFINE x == [req[h] EXCEPT !.pc = IF inMap = 0 THEN "compare" ELSE "reset", !.rec = inMap]
  <2>1. made' = made /\ req' = [req EXCEPT ![h] = x]
    BY <1>2 DEF G!Load
  <2>2. /\ x \in Request /\ x.rec = inMap
        /\ x.pc = IF inMap = 0 THEN "compare" ELSE "reset"
    BY <1>0 DEF Request
  <2>3. req'[h] = x /\ req' \in [Logins -> Request]
    BY <1>0, <2>1, <2>2
  <2>4. inMap \in 0 .. made /\ (inMap # 0 => inMap \in 1 .. MaxRecords)
    BY LoginAssumption
  <2>5. QED
    BY <2>1, <2>2, <2>3, <2>4
<1>3. CASE G!Reset(h) \/ G!Test(h)
  <2>0. req[h].rec \in G!Records /\ made' = made
    BY <1>3 DEF G!Reset, G!Test
  <2>1. PICK p \in {"idle", "test", "compare"} :
           req' = [req EXCEPT ![h] = IF p = "idle" THEN G!Idle ELSE [@ EXCEPT !.pc = p]]
    BY <1>3 DEF G!Reset, G!Test
  <2>2. G!Idle \in Request /\ G!Idle.rec = 0 /\ G!Idle.pc = "idle"
    BY DEF Request
  <2>3. /\ [req[h] EXCEPT !.pc = p] \in Request /\ [req[h] EXCEPT !.pc = p].rec = req[h].rec
    BY <1>0 DEF Request
  <2>4. QED
    BY <1>0, <2>0, <2>1, <2>2, <2>3
<1>4. CASE G!LogIn(h) \/ G!FailFirst(h) \/ G!Visit(h) \/ G!Write(h)
  <2>1. made' \in Nat /\ req' = [req EXCEPT ![h] = G!Idle]
    BY <1>0, <1>4 DEF G!LogIn, G!FailFirst, G!Visit, G!Write
  <2>2. G!Idle \in Request /\ G!Idle.rec = 0 /\ G!Idle.pc = "idle"
    BY DEF Request
  <2>3. QED
    BY <1>0, <2>1, <2>2
<1>5. CASE G!FailAgain(h)
  <2> DEFINE x == [req[h] EXCEPT !.pc = "write", !.rec = inMap, !.read = fails[inMap]]
  <2>1. made' = made /\ req' = [req EXCEPT ![h] = x] /\ inMap # 0
    BY <1>5 DEF G!FailAgain
  <2>2. inMap \in 1 .. MaxRecords /\ fails[inMap] \in Nat
    BY <1>0, <2>1, LoginAssumption
  <2>3. x \in Request /\ x.rec = inMap
    BY <1>0, <2>2 DEF Request
  <2>4. req'[h] = x /\ req' \in [Logins -> Request]
    BY <1>0, <2>1, <2>3
  <2>5. QED
    BY <1>0, <2>1, <2>2, <2>3, <2>4
<1>6. QED
  BY <1>1, <1>2, <1>3, <1>4, <1>5 DEF LoginStep

\* Every step keeps the types.
LEMMA LoginType == LoginTypes /\ [G!Next]_(G!vars) => LoginTypes'
<1> SUFFICES ASSUME LoginTypes, [G!Next]_(G!vars) PROVE LoginTypes'
  OBVIOUS
<1> USE DEF LoginTypes, G!TypeOK, G!Records, G!records, G!history
<1>0. {MaxRecords, MaxTicks} \subseteq Nat
  BY LoginAssumption
<1>1. ASSUME NEW h \in Logins, LoginStep(h) PROVE LoginTypes'
  <2>1. /\ req' \in [Logins -> Request]
        /\ req'[h].rec \in 0 .. made'
        /\ req'[h].pc \in {"reset", "test", "write"} => req'[h].rec \in G!Records
        /\ \A k \in Logins \ {h} : req'[k] = req[k]
    BY <1>1, LoginRequest, LoginOneRequest
  <2>2. /\ clock' \in 0 .. MaxTicks /\ inMap' \in 0 .. made' /\ made' \in 0 .. MaxRecords
        /\ made <= made'
        /\ fails' \in [G!Records -> Nat] /\ last' \in [G!Records -> 0 .. MaxTicks]
        /\ compared' \in [G!Records -> Nat] /\ lost' \in [G!Records -> Nat]
    <3>1. CASE \E e, ok \in BOOLEAN : G!Request(h, e, ok)
      BY <1>0, <3>1 DEF G!Request
    <3>2. CASE G!Load(h) \/ G!Test(h) \/ G!LogIn(h) \/ G!Visit(h)
      BY <1>0, <3>2 DEF G!Load, G!Test, G!LogIn, G!Visit
    <3>3. CASE G!Reset(h)
      <4>1. UNCHANGED <<clock, inMap, made, last>>
        BY <3>3 DEF G!Reset
      <4>2. fails' \in [G!Records -> Nat]
        BY <3>3 DEF G!Reset
      <4>3. compared' \in [G!Records -> Nat] /\ lost' \in [G!Records -> Nat]
        BY <3>3 DEF G!Reset
      <4>4. QED
        BY <1>0, <4>1, <4>2, <4>3
    <3>4. CASE G!FailFirst(h)
      BY <1>0, <3>4 DEF G!FailFirst
    <3>5. CASE G!FailAgain(h)
      BY <1>0, <3>5 DEF G!FailAgain
    <3>6. CASE G!Write(h)
      <4>1. /\ clock' = clock /\ made' = made /\ last' = last /\ compared' = compared
            /\ inMap' = req[h].rec
        BY <3>6 DEF G!Write
      <4>2. req[h].read + 1 \in Nat
        OBVIOUS
      <4>3. fails' \in [G!Records -> Nat]
        BY <3>6, <4>2 DEF G!Write
      <4>4. PICK d \in Nat : lost' = [lost EXCEPT ![req[h].rec] = @ + d]
        <5>1. PICK r \in G!Records : r = req[h].rec
          BY <3>6 DEF G!Write, G!At
        <5>2. fails[r] \in Nat
          BY <5>1
        <5>3. (IF fails[r] > req[h].read THEN fails[r] - req[h].read ELSE 0) \in Nat
          BY <5>2
        <5>4. QED
          BY <3>6, <5>1, <5>3 DEF G!Write
      <4>5. lost' \in [G!Records -> Nat]
        <5>1. req[h].rec \in G!Records /\ lost[req[h].rec] + d \in Nat
          BY <3>6, <4>4 DEF G!Write, G!At
        <5>2. QED
          BY <4>4, <5>1
      <4>6. QED
        BY <1>0, <4>1, <4>3, <4>5
    <3>7. QED
      BY <1>1, <3>1, <3>2, <3>3, <3>4, <3>5, <3>6 DEF LoginStep
  <2>3. \A k \in Logins : req'[k].pc \in {"idle", "load", "reset", "test", "compare", "write"}
    BY <2>1 DEF Request
  <2>4. \A k \in Logins : req'[k].rec \in 0 .. made'
    <3> SUFFICES ASSUME NEW k \in Logins \ {h} PROVE req'[k].rec \in 0 .. made'
      BY <2>1
    <3>1. req'[k] = req[k] /\ req[k].rec \in 0 .. made
      BY <2>1
    <3>2. QED
      BY <1>0, <2>2, <3>1
  <2>5. QED
    BY <2>1, <2>2, <2>3, <2>4 DEF Request
<1>2. CASE G!Tick
  BY <1>0, <1>2 DEF G!Tick
<1>3. CASE UNCHANGED G!vars
  BY <1>3 DEF G!vars
<1>4. QED
  BY <1>1, <1>2, <1>3 DEF G!Next, LoginStep

\* How many are about to write, and how many have passed the test.
LEMMA LoginCounts ==
    ASSUME LoginTypes, NEW h \in Logins, LoginStep(h), NEW r \in G!Records
    PROVE  /\ Cardinality(Writers(r)) \in Nat /\ Cardinality(Writers(r)') \in Nat
           /\ Cardinality(Passers(r)) \in Nat /\ Cardinality(Passers(r)') \in Nat
           /\ Cardinality(Logins) \in Nat \ {0}
           /\ Cardinality(Passers(r)') <= Cardinality(Logins)
           /\ (Writes(h, r) <=> Writes(h, r)') => Cardinality(Writers(r)') = Cardinality(Writers(r))
           /\ ~Writes(h, r) /\ Writes(h, r)' => Cardinality(Writers(r)') = Cardinality(Writers(r)) + 1
           /\ Writes(h, r) /\ ~Writes(h, r)' => Cardinality(Writers(r)') = Cardinality(Writers(r)) - 1
           /\ (Passes(h, r) <=> Passes(h, r)') => Cardinality(Passers(r)') = Cardinality(Passers(r))
           /\ ~Passes(h, r) /\ Passes(h, r)' => Cardinality(Passers(r)') = Cardinality(Passers(r)) + 1
           /\ Passes(h, r) /\ ~Passes(h, r)' => Cardinality(Passers(r)') = Cardinality(Passers(r)) - 1
           /\ ~Writes(h, r) /\ ~Passes(h, r) =>
                 Cardinality(Writers(r)) + Cardinality(Passers(r)) + 1 <= Cardinality(Logins)
           /\ ~Passes(h, r)' => Cardinality(Passers(r)') + 1 <= Cardinality(Logins)
           /\ Passes(h, r) => Cardinality(Passers(r)) >= 1
<1> DEFINE writers == Writers(r)
           passers == Passers(r)
           writers1 == Writers(r)'
           passers1 == Passers(r)'
<1>1. /\ IsFiniteSet(Logins) /\ writers \in SUBSET Logins /\ writers1 \in SUBSET Logins
      /\ passers \in SUBSET Logins /\ passers1 \in SUBSET Logins
  BY LoginAssumption DEF Writers, Passers
<1>2. /\ \A k \in Logins : k \in writers <=> Writes(k, r)
      /\ \A k \in Logins : k \in passers <=> Passes(k, r)
      /\ \A k \in Logins : k \in writers1 <=> Writes(k, r)'
      /\ \A k \in Logins : k \in passers1 <=> Passes(k, r)'
  BY DEF Writers, Passers
<1>3. /\ \A k \in Logins \ {h} : k \in writers <=> k \in writers1
      /\ \A k \in Logins \ {h} : k \in passers <=> k \in passers1
  BY <1>2, LoginOneRequest DEF Writes, Passes
<1>4. writers \cap passers = {}
  BY <1>2 DEF Writes, Passes, Writers, Passers
<1> HIDE DEF writers, passers, writers1, passers1
<1>5. /\ Cardinality(writers) \in Nat /\ Cardinality(writers1) \in Nat
      /\ (h \in writers <=> h \in writers1) => Cardinality(writers1) = Cardinality(writers)
      /\ h \notin writers /\ h \in writers1 => Cardinality(writers1) = Cardinality(writers) + 1
      /\ h \in writers /\ h \notin writers1 => Cardinality(writers1) = Cardinality(writers) - 1
  BY <1>1, <1>3, CardinalityStep
<1>6. /\ Cardinality(passers) \in Nat /\ Cardinality(passers1) \in Nat
      /\ (h \in passers <=> h \in passers1) => Cardinality(passers1) = Cardinality(passers)
      /\ h \notin passers /\ h \in passers1 => Cardinality(passers1) = Cardinality(passers) + 1
      /\ h \in passers /\ h \notin passers1 => Cardinality(passers1) = Cardinality(passers) - 1
  BY <1>1, <1>3, CardinalityStep
<1>7. \A some \in SUBSET Logins :
         /\ IsFiniteSet(some) /\ Cardinality(some) \in Nat /\ Cardinality(some) <= Cardinality(Logins)
         /\ h \notin some => Cardinality(some) + 1 <= Cardinality(Logins)
         /\ h \in some => Cardinality(some) >= 1
  <2> SUFFICES ASSUME NEW some \in SUBSET Logins
               PROVE  /\ IsFiniteSet(some) /\ Cardinality(some) \in Nat
                      /\ Cardinality(some) <= Cardinality(Logins)
                      /\ h \notin some => Cardinality(some) + 1 <= Cardinality(Logins)
                      /\ h \in some => Cardinality(some) >= 1
    OBVIOUS
  <2>1. /\ IsFiniteSet(some) /\ Cardinality(some) <= Cardinality(Logins)
        /\ Cardinality(some) = Cardinality(Logins) => some = Logins
    BY <1>1, FS_Subset
  <2>2. Cardinality(some) \in Nat /\ Cardinality(Logins) \in Nat
    BY <1>1, <2>1, FS_CardinalityType
  <2>3. h \in some => Cardinality(some) # 0
    BY <2>1, FS_EmptySet
  <2>4. QED
    BY <2>1, <2>2, <2>3
<1>8. Cardinality(Logins) \in Nat \ {0}
  BY <1>1, FS_CardinalityType, FS_EmptySet
<1>9. Cardinality(writers \cup passers) = Cardinality(writers) + Cardinality(passers)
  <2>1. Cardinality(writers \cup passers) = Cardinality(writers) + Cardinality(passers) - Cardinality(writers \cap passers)
    BY <1>1, <1>7, FS_Union
  <2>2. Cardinality(writers \cap passers) = 0
    BY <1>4, FS_EmptySet
  <2>3. QED
    BY <1>5, <1>6, <2>1, <2>2
<1>10. h \notin writers /\ h \notin passers => Cardinality(writers) + Cardinality(passers) + 1 <= Cardinality(Logins)
  <2>1. writers \cup passers \in SUBSET Logins /\ (h \notin writers /\ h \notin passers => h \notin writers \cup passers)
    BY <1>1
  <2>2. QED
    BY <1>7, <1>9, <2>1
<1>11. /\ h \in writers <=> Writes(h, r)
       /\ h \in passers <=> Passes(h, r)
       /\ h \in writers1 <=> Writes(h, r)'
       /\ h \in passers1 <=> Passes(h, r)'
  BY <1>2
<1>12. passers1 \in SUBSET Logins /\ passers \in SUBSET Logins
  BY <1>1
<1>13. /\ Cardinality(passers1) <= Cardinality(Logins)
       /\ h \notin passers1 => Cardinality(passers1) + 1 <= Cardinality(Logins)
       /\ h \in passers => Cardinality(passers) >= 1
  BY <1>7, <1>12
<1>14. QED
  BY <1>5, <1>6, <1>8, <1>10, <1>11, <1>13 DEF writers, passers, writers1, passers1

\* What a step does to the counts of a record.
Others(h, r) ==
    /\ compared'[r] = compared[r] /\ fails'[r] = fails[r] /\ lost'[r] = lost[r]
    /\ (Writes(h, r) <=> Writes(h, r)')
    /\ r \in restored => r \in restored'
    /\ inMap' = r =>
          /\ inMap = r
          /\ ~Passes(h, r) /\ Passes(h, r)' => ~Writes(h, r) /\ fails[r] < MaxFails

Forgets(h, r) ==
    /\ compared'[r] = 0 /\ fails'[r] = 0 /\ lost'[r] = 0 /\ req[h].rec = r
    /\ ~Writes(h, r) /\ ~Writes(h, r)' /\ ~Passes(h, r) /\ ~Passes(h, r)'

First(h, r) ==
    /\ r = made + 1 /\ inMap' = r /\ inMap = 0
    /\ compared'[r] \in {compared[r], 1} /\ fails'[r] = 1 /\ lost'[r] = lost[r]
    /\ ~Writes(h, r) /\ ~Writes(h, r)' /\ ~Passes(h, r)'

Again(h, r) ==
    /\ inMap = r /\ inMap' = r /\ restored' = restored /\ r <= made
    /\ compared'[r] = compared[r] + 1 /\ fails'[r] = fails[r] /\ lost'[r] = lost[r]
    /\ ~Writes(h, r) /\ Writes(h, r)' /\ Passes(h, r) /\ ~Passes(h, r)'

Stored(h, r) ==
    /\ inMap' = r /\ (inMap = r \/ r \in restored') /\ restored \subseteq restored'
    /\ compared'[r] = compared[r] /\ lost'[r] >= lost[r] /\ lost'[r] \in Nat
    /\ fails'[r] + lost'[r] >= fails[r] + lost[r] + 1
    /\ Writes(h, r) /\ ~Writes(h, r)' /\ ~Passes(h, r) /\ ~Passes(h, r)'

\* Each step does one of these to each record.
LEMMA LoginRecords ==
    ASSUME LoginTypes, NEW h \in Logins, LoginStep(h), NEW r \in G!Records
    PROVE  /\ Others(h, r) \/ Forgets(h, r) \/ First(h, r) \/ Again(h, r) \/ Stored(h, r)
           /\ compared[r] \in Nat /\ fails[r] \in Nat /\ lost[r] \in Nat /\ lost'[r] \in Nat
           /\ MaxFails \in Nat \ {0}
<1> USE DEF G!records, G!history
<1>0. /\ compared[r] \in Nat /\ fails[r] \in Nat /\ lost[r] \in Nat /\ lost'[r] \in Nat
      /\ lost \in [G!Records -> Nat] /\ fails \in [G!Records -> Nat]
      /\ compared \in [G!Records -> Nat] /\ req \in [Logins -> Request] /\ made \in Nat
      /\ inMap \in 0 .. made /\ MaxFails \in Nat \ {0}
  <2>1. LoginTypes'
    BY LoginType DEF G!Next, LoginStep
  <2>2. QED
    BY <2>1, LoginAssumption DEF LoginTypes, G!TypeOK, Request
<1>1. ASSUME NEW e \in BOOLEAN, NEW ok \in BOOLEAN, G!Request(h, e, ok) PROVE Others(h, r)
  <2>1. req[h].pc = "idle" /\ req'[h].pc = "load"
    BY <1>0, <1>1 DEF G!Request, G!At, G!Idle
  <2>2. QED
    BY <1>0, <1>1, <2>1, LoginAssumption DEF G!Request, Others, Writes, Passes, G!Records
<1>2. CASE G!Load(h)
  <2>1. /\ req[h].pc = "load" /\ req'[h].rec = inMap
        /\ req'[h].pc = IF inMap = 0 THEN "compare" ELSE "reset"
        /\ UNCHANGED <<inMap, fails, compared, lost, restored>>
    BY <1>0, <1>2 DEF G!Load, G!At, Request
  <2>2. r # 0
    BY DEF G!Records
  <2>3. QED
    BY <1>0, <2>1, <2>2 DEF Others, Writes, Passes
<1>3. CASE G!Test(h)
  <2>1. /\ req[h].pc = "test"
        /\ \/ req'[h].pc = "idle"
           \/ req'[h].pc = "compare" /\ ~(fails[req[h].rec] >= MaxFails)
        /\ UNCHANGED <<inMap, fails, compared, lost, restored>>
    BY <1>0, <1>3 DEF G!Test, G!At, G!Goto, G!Answer, G!Idle, G!Refused, Request
  <2>2. ~Passes(h, r) /\ Passes(h, r)' => fails[r] < MaxFails
    BY <1>0, <2>1, LoginAssumption DEF Passes
  <2>3. QED
    BY <1>0, <2>1, <2>2 DEF Others, Writes
<1>4. CASE G!LogIn(h) \/ G!Visit(h)
  <2>1. /\ req[h].pc = "compare" /\ req'[h].pc = "idle"
        /\ UNCHANGED <<fails, compared, lost, restored>> /\ inMap' \in {0, inMap}
    BY <1>0, <1>4 DEF G!LogIn, G!Visit, G!At, G!Answer, G!Idle, Request
  <2>2. r # 0
    BY DEF G!Records
  <2>3. QED
    BY <1>0, <2>1, <2>2 DEF Others, Writes, Passes
<1>5. CASE G!Reset(h)
  <2>1. req[h].pc = "reset" /\ req'[h].pc = "test" /\ req'[h].rec = req[h].rec
    BY <1>0, <1>5 DEF G!Reset, G!At, G!Goto, Request
  <2>2. CASE G!Old(req[h].rec) /\ req[h].rec = r
    <3>1. /\ compared' = [compared EXCEPT ![r] = 0] /\ fails' = [fails EXCEPT ![r] = 0]
          /\ lost' = [lost EXCEPT ![r] = 0]
      BY <1>5, <2>2 DEF G!Reset
    <3>2. QED
      BY <1>0, <2>1, <2>2, <3>1 DEF Forgets, Writes, Passes
  <2>3. CASE ~(G!Old(req[h].rec) /\ req[h].rec = r)
    <3>1. /\ inMap' = inMap /\ (r \in restored => r \in restored')
          /\ compared'[r] = compared[r] /\ fails'[r] = fails[r] /\ lost'[r] = lost[r]
      BY <1>0, <1>5, <2>3 DEF G!Reset
    <3>2. QED
      BY <1>0, <2>1, <3>1 DEF Others, Writes, Passes
  <2>4. QED
    BY <2>2, <2>3
<1>6. CASE G!FailFirst(h)
  <2>1. req[h].pc = "compare" /\ req'[h].pc = "idle" /\ inMap = 0 /\ inMap' = made + 1
    BY <1>0, <1>6 DEF G!FailFirst, G!At, G!Answer, G!Idle
  <2>2. CASE r = made + 1
    <3>1. fails'[r] = 1 /\ lost' = lost /\ compared'[r] \in {compared[r], 1}
      BY <1>0, <1>6, <2>2 DEF G!FailFirst
    <3>2. QED
      BY <1>0, <2>1, <2>2, <3>1 DEF First, Writes, Passes
  <2>3. CASE r # made + 1
    <3>1. /\ restored' = restored
          /\ compared'[r] = compared[r] /\ fails'[r] = fails[r] /\ lost'[r] = lost[r]
      BY <1>0, <1>6, <2>3 DEF G!FailFirst
    <3>2. QED
      BY <1>0, <2>1, <2>3, <3>1 DEF Others, Writes
  <2>4. QED
    BY <2>2, <2>3
<1>7. CASE G!FailAgain(h)
  <2>1. /\ req[h].pc = "compare" /\ req'[h].pc = "write" /\ req'[h].rec = inMap
        /\ compared' = [compared EXCEPT ![inMap] = @ + 1] /\ inMap # 0
        /\ UNCHANGED <<inMap, made, fails, lost, restored>>
    BY <1>0, <1>7 DEF G!FailAgain, G!At, Request
  <2>2. CASE r = inMap
    <3>1. compared'[r] = compared[r] + 1 /\ r <= made
      BY <1>0, <2>1, <2>2
    <3>2. QED
      BY <1>0, <2>1, <2>2, <3>1 DEF Again, Writes, Passes
  <2>3. CASE r # inMap
    BY <1>0, <2>1, <2>3 DEF Others, Writes
  <2>4. QED
    BY <2>2, <2>3
<1>8. CASE G!Write(h)
  <2> DEFINE n == req[h].read
  <2>1. /\ req[h].pc = "write" /\ req'[h].pc = "idle" /\ n \in Nat
        /\ fails' = [fails EXCEPT ![req[h].rec] = n + 1] /\ inMap' = req[h].rec
        /\ lost' = [lost EXCEPT ![req[h].rec] = @ + (IF fails[req[h].rec] > n
                                                    THEN fails[req[h].rec] - n ELSE 0)]
        /\ restored' = IF inMap = req[h].rec THEN restored ELSE restored \cup {req[h].rec}
        /\ compared' = compared
    BY <1>0, <1>8 DEF G!Write, G!At, G!Answer, G!Idle, Request
  <2>2. CASE r = req[h].rec
    <3>1. fails'[r] = n + 1
      BY <1>0, <2>1, <2>2
    <3>2. lost'[r] = lost[r] + (IF fails[r] > n THEN fails[r] - n ELSE 0)
      BY <1>0, <2>1, <2>2
    <3>3. lost'[r] >= lost[r] /\ fails'[r] + lost'[r] >= fails[r] + lost[r] + 1
      <4>1. CASE fails[r] > n
        BY <1>0, <2>1, <3>1, <3>2, <4>1
      <4>2. CASE ~(fails[r] > n)
        BY <1>0, <2>1, <3>1, <3>2, <4>2
      <4>3. QED
        BY <4>1, <4>2
    <3>4. inMap' = r /\ (inMap = r \/ r \in restored')
      BY <2>1, <2>2
    <3>5. QED
      BY <1>0, <2>1, <2>2, <3>3, <3>4 DEF Stored, Writes, Passes
  <2>3. CASE r # req[h].rec
    BY <1>0, <2>1, <2>3 DEF Others, Writes
  <2>4. QED
    BY <2>2, <2>3
<1>9. QED
  BY <1>0, <1>1, <1>2, <1>3, <1>4, <1>5, <1>6, <1>7, <1>8, LoginAssumption DEF LoginStep

\* What was compared on a record is counted, or about to be, or was written over.
LEMMA LoginCounted ==
    ASSUME LoginTypes, CountedInv, FreshInv, NEW h \in Logins, LoginStep(h)
    PROVE  CountedInv'
<1> SUFFICES ASSUME NEW r \in G!Records
             PROVE  compared'[r] <= fails'[r] + lost'[r] + Cardinality(Writers(r)')
  BY DEF CountedInv, G!Records
<1> DEFINE w == Cardinality(Writers(r))
           x == Cardinality(Writers(r)')
<1>1. compared[r] <= fails[r] + lost[r] + w
  BY DEF CountedInv
<1>2. /\ Others(h, r) \/ Forgets(h, r) \/ First(h, r) \/ Again(h, r) \/ Stored(h, r)
      /\ compared[r] \in Nat /\ fails[r] \in Nat /\ lost[r] \in Nat /\ lost'[r] \in Nat
  BY LoginRecords
<1>3. /\ w \in Nat /\ x \in Nat
      /\ (Writes(h, r) <=> Writes(h, r)') => x = w
      /\ ~Writes(h, r) /\ Writes(h, r)' => x = w + 1
      /\ Writes(h, r) /\ ~Writes(h, r)' => x = w - 1
  BY LoginCounts
<1> HIDE DEF w, x
<1>4. made < r => compared[r] = 0
  BY DEF FreshInv, LoginTypes, G!TypeOK, G!Records
<1>5. fails'[r] \in Nat
  BY LoginType DEF LoginTypes, G!TypeOK, G!Next, LoginStep
<1>6. ASSUME Others(h, r) PROVE  compared'[r] <= fails'[r] + lost'[r] + x
  BY <1>1, <1>2, <1>3, <1>6 DEF Others
<1>7. ASSUME Forgets(h, r) PROVE  compared'[r] <= fails'[r] + lost'[r] + x
  BY <1>3, <1>7 DEF Forgets
<1>8. ASSUME First(h, r) PROVE  compared'[r] <= fails'[r] + lost'[r] + x
  <2>1. compared[r] = 0
    BY <1>4, <1>8 DEF First, LoginTypes, G!TypeOK
  <2>2. QED
    BY <1>2, <1>3, <1>8, <2>1 DEF First
<1>9. ASSUME Again(h, r) PROVE  compared'[r] <= fails'[r] + lost'[r] + x
  BY <1>1, <1>2, <1>3, <1>9 DEF Again
<1>10. ASSUME Stored(h, r) PROVE  compared'[r] <= fails'[r] + lost'[r] + x
  BY <1>1, <1>2, <1>3, <1>5, <1>10 DEF Stored
<1>11. QED
  BY <1>2, <1>6, <1>7, <1>8, <1>9, <1>10 DEF w, x

\* Nothing is compared on a record before it is made.
LEMMA LoginFresh ==
    ASSUME LoginTypes, FreshInv, NEW h \in Logins, LoginStep(h)
    PROVE  FreshInv'
<1> SUFFICES ASSUME NEW r \in G!Records, r > made' PROVE compared'[r] = 0
  BY DEF FreshInv, G!Records
<1>1. made \in Nat /\ made' \in Nat /\ r \in Nat /\ made <= made'
  <2>1. made' \in {made, made + 1}
    BY DEF LoginStep, G!Request, G!Load, G!Reset, G!Test, G!LogIn, G!FailFirst, G!Visit,
           G!FailAgain, G!Write, G!records
  <2>2. made \in Nat /\ r \in Nat
    BY LoginAssumption DEF LoginTypes, G!TypeOK, G!Records
  <2>3. QED
    BY <2>1, <2>2
<1>2. compared[r] = 0
  BY <1>1 DEF FreshInv
<1>3. inMap' \in 0 .. made'
  BY LoginType DEF LoginTypes, G!TypeOK, G!Next, LoginStep
<1>4. Others(h, r) \/ Forgets(h, r) \/ First(h, r) \/ Again(h, r) \/ Stored(h, r)
  BY LoginRecords
<1>5. ~First(h, r) /\ ~Again(h, r)
  BY <1>1, <1>3 DEF First, Again
<1>6. QED
  BY <1>2, <1>4, <1>5 DEF Others, Forgets, Stored

\* The test lets nobody pass once the count of the record of the map is at the limit, and
\* what was compared stays within the bound.
LEMMA LoginPassed ==
    ASSUME LoginTypes, CountedInv, FreshInv, PassedInv, G!LockedOut,
           NEW h \in Logins, LoginStep(h)
    PROVE  PassedInv' /\ G!LockedOut'
<1> SUFFICES ASSUME NEW r \in G!Records, r \notin restored'
             PROVE  /\ inMap' = r => compared'[r] + Cardinality(Passers(r)') <=
                                        MaxFails + lost'[r] + Cardinality(Logins) - 1
                    /\ compared'[r] <= MaxFails + lost'[r] + Cardinality(Logins) - 1
  BY SameCardinality DEF PassedInv, G!LockedOut, G!Records
<1> DEFINE c == Cardinality(Logins)
           w == Cardinality(Writers(r))
           p == Cardinality(Passers(r))
           q == Cardinality(Passers(r)')
           Goal == /\ inMap' = r => compared'[r] + q <= MaxFails + lost'[r] + c - 1
                   /\ compared'[r] <= MaxFails + lost'[r] + c - 1
<1>1. /\ Others(h, r) \/ Forgets(h, r) \/ First(h, r) \/ Again(h, r) \/ Stored(h, r)
      /\ compared[r] \in Nat /\ fails[r] \in Nat /\ lost[r] \in Nat /\ lost'[r] \in Nat
      /\ MaxFails \in Nat \ {0}
  BY LoginRecords
<1>2. /\ w \in Nat /\ p \in Nat /\ q \in Nat /\ c \in Nat \ {0} /\ q <= c
      /\ (Passes(h, r) <=> Passes(h, r)') => q = p
      /\ ~Passes(h, r) /\ Passes(h, r)' => q = p + 1
      /\ Passes(h, r) /\ ~Passes(h, r)' => q = p - 1
      /\ ~Writes(h, r) /\ ~Passes(h, r) => w + p + 1 <= c
      /\ ~Passes(h, r)' => q + 1 <= c
      /\ Passes(h, r) => p >= 1
  BY LoginCounts
<1>3. /\ compared[r] <= fails[r] + lost[r] + w
      /\ r \notin restored /\ inMap = r => compared[r] + p <= MaxFails + lost[r] + c - 1
      /\ r \notin restored => compared[r] <= MaxFails + lost[r] + c - 1
      /\ r > made => compared[r] = 0
  BY SameCardinality DEF CountedInv, PassedInv, G!LockedOut, FreshInv
<1> HIDE DEF c, w, p, q
<1>4. ASSUME Others(h, r) PROVE Goal
  <2>1. /\ compared'[r] = compared[r] /\ fails'[r] = fails[r] /\ lost'[r] = lost[r]
        /\ r \notin restored
        /\ inMap' = r =>
              /\ inMap = r
              /\ ~Passes(h, r) /\ Passes(h, r)' => ~Writes(h, r) /\ fails[r] < MaxFails
    BY <1>4 DEF Others
  <2>2. CASE ~Passes(h, r) /\ Passes(h, r)'
    BY <1>1, <1>2, <1>3, <2>1, <2>2
  <2>3. CASE ~(~Passes(h, r) /\ Passes(h, r)')
    <3>1. q <= p
      BY <1>2, <2>3
    <3>2. QED
      BY <1>1, <1>2, <1>3, <2>1, <3>1
  <2>4. QED
    BY <2>2, <2>3
<1>5. ASSUME Forgets(h, r) PROVE Goal
  BY <1>1, <1>2, <1>5 DEF Forgets
<1>6. ASSUME First(h, r) PROVE Goal
  <2>1. r > made
    BY <1>6, LoginAssumption DEF First, LoginTypes, G!TypeOK
  <2>2. QED
    BY <1>1, <1>2, <1>3, <1>6, <2>1 DEF First
<1>7. ASSUME Again(h, r) PROVE Goal
  BY <1>1, <1>2, <1>3, <1>7 DEF Again
<1>8. ASSUME Stored(h, r) PROVE Goal
  BY <1>1, <1>2, <1>3, <1>8 DEF Stored
<1>9. QED
  BY <1>1, <1>4, <1>5, <1>6, <1>7, <1>8 DEF c, q

\* An address starts with no record.
LEMMA LoginInit == G!Init => LoginInv
<1> SUFFICES ASSUME G!Init PROVE LoginInv
  OBVIOUS
<1>1. /\ MaxFails \in Nat \ {0} /\ MaxRecords \in Nat /\ MaxTicks \in Nat
      /\ Cardinality(Logins) \in Nat
  BY LoginAssumption, FS_CardinalityType
<1>2. LoginTypes
  BY <1>1 DEF G!Init, LoginTypes, G!TypeOK, G!Records, G!Idle
<1>3. FreshInv
  BY DEF G!Init, FreshInv
<1>4. \A r \in G!Records : Cardinality(Writers(r)) \in Nat
  <2> SUFFICES ASSUME NEW r \in G!Records PROVE Cardinality(Writers(r)) \in Nat
    OBVIOUS
  <2>1. IsFiniteSet(Writers(r))
    BY LoginAssumption, FS_Subset DEF Writers
  <2>2. QED
    BY <2>1, FS_CardinalityType
<1>5. CountedInv
  BY <1>4 DEF G!Init, CountedInv
<1>6. PassedInv
  BY DEF G!Init, PassedInv, G!Records
<1>7. G!LockedOut
  BY <1>1, SameCardinality DEF G!Init, G!LockedOut
<1>8. QED
  BY <1>2, <1>3, <1>5, <1>6, <1>7 DEF LoginInv

\* Every step keeps the invariant.
LEMMA LoginStepInv == LoginInv /\ [G!Next]_(G!vars) => LoginInv'
<1> SUFFICES ASSUME LoginInv, [G!Next]_(G!vars) PROVE LoginInv'
  OBVIOUS
<1>1. LoginTypes'
  BY LoginType DEF LoginInv
<1>2. ASSUME NEW h \in Logins, LoginStep(h) PROVE LoginInv'
  BY <1>1, <1>2, LoginCounted, LoginFresh, LoginPassed DEF LoginInv
<1>3. CASE G!Tick \/ UNCHANGED G!vars
  <2>1. UNCHANGED <<inMap, made, fails, req, compared, lost, restored>>
    BY <1>3 DEF G!Tick, G!vars, G!records, G!history
  <2>2. QED
    BY <1>1, <2>1 DEF LoginInv, FreshInv, CountedInv, PassedInv, G!LockedOut, Writers, Passers,
                      Writes, Passes
<1>4. QED
  BY <1>2, <1>3 DEF G!Next, LoginStep

\* The invariant holds in every behaviour.
THEOREM LoginInvariant == Spec => [](part = "login" => LoginInv)
<1>1. Init => (part = "login" => LoginInv)
  BY LoginInit DEF Init
<1>2. (part = "login" => LoginInv) /\ [Next]_vars => (part = "login" => LoginInv)'
  <2> SUFFICES ASSUME part = "login" => LoginInv, [Next]_vars, part' = "login"
               PROVE  LoginInv'
    OBVIOUS
  <2>1. part = "login" /\ [G!Next]_(G!vars)
    BY DEF Next, vars, G!vars, G!records, G!history
  <2>2. QED
    BY <2>1, LoginStepInv
<1>3. QED
  BY <1>1, <1>2, PTL DEF Spec

\* Between two pauses an address has no more passwords compared on a record that was not put
\* back than the limit, but for those at hand when the limit was reached, and those written
\* over: for any number of requests at a time.
THEOREM LoginIsSound == Spec => []LoginSound
<1>1. (part = "login" => LoginInv) => LoginSound
  BY DEF LoginSound, G!LoginSound, LoginInv, LoginTypes
<1>2. QED
  BY <1>1, LoginInvariant, PTL

-----------------------------------------------------------------------------
(* The certificates of the HTTPS proxy (Https).                             *)

\* Its variables.
hosts == v1
lastHost == v2
cert == v3
listenerMap == v4
certMap == v5
listeners == v6
running == v7
step == v8
host == v9
file == v10
todo == v11
val == v12
own == v13
hostOps == v14
tangled == v15

USE DEF hosts, lastHost, cert, listenerMap, certMap, listeners, running, step, host, file, todo,
        val, own, hostOps, tangled

\* What each variable may be.
HostInv ==
    /\ lastHost \in Nat /\ lastHost \in HostIds \cup {0} /\ hosts \subseteq 1 .. lastHost
    /\ cert \in [HostIds -> Certs \cup {S!None}] /\ certMap \in [HostIds -> Certs \cup {S!None}]
    /\ \A h \in HostIds : certMap[h] # S!None => h <= lastHost
    /\ listeners \in Seq([cert : Certs, server : {"starts", "accepts", "ended"}])
    /\ listenerMap \in [Certs -> 0 .. Len(listeners)]
    /\ step \in [Conns -> {"idle", "visit", "drop", "forget", "make", "take", "remake", "replace",
                           "store", "storeCert", "send"}]
    /\ host \in [Conns -> HostIds \cup {0}] /\ \A p \in Conns : host[p] <= lastHost
    /\ file \in [Conns -> Certs \cup {S!None}] /\ val \in [Conns -> Certs \cup {S!None}]
    /\ own \in [Conns -> Nat] /\ todo \in [Conns -> SUBSET HostIds]
    /\ running \in BOOLEAN /\ tangled \in BOOLEAN

\* A listener is entered for its own certificate, and used for it.
ListenerInv ==
    /\ \A c \in Certs : listenerMap[c] # 0 => listeners[listenerMap[c]].cert = c
    /\ \A p \in Conns :
          /\ step[p] # "idle" => host[p] \in HostIds /\ file[p] \in Certs
          /\ step[p] \in {"drop", "forget"} =>
                val[p] \in Certs /\ own[p] \in HostIds /\ own[p] <= lastHost
          /\ step[p] \in {"remake", "replace"} => val[p] \in Certs /\ val[p] # file[p]
          /\ step[p] \in {"replace", "store", "storeCert", "send"} =>
                own[p] \in 1 .. Len(listeners) /\ listeners[own[p]].cert = file[p]

\* A certificate is of one host, and a host stays as it is while a connection to it is
\* accepted.
Holds(h, c) == certMap[h] = c \/ (h \in hosts /\ cert[h] = c)
HolderInv ==
    /\ \A p \in Conns : step[p] # "idle" => host[p] \in hosts /\ cert[host[p]] = file[p]
    /\ \A g, h \in HostIds, c \in Certs : Holds(g, c) /\ Holds(h, c) => g = h

\* What a goroutine has looked up and is about to take out of the maps is still of the
\* host that it found it for, which was deleted or has another certificate now.
ValAt(p) ==
    /\ step[p] \in {"drop", "forget"} =>
          /\ own[p] \notin hosts /\ certMap[own[p]] \in {S!None, val[p]}
          /\ \A h \in HostIds : Holds(h, val[p]) => h = own[p]
    /\ step[p] = "forget" => listenerMap[val[p]] = 0
    /\ step[p] \in {"remake", "replace"} =>
          /\ certMap[host[p]] \in {val[p], file[p]}
          /\ \A h \in HostIds : Holds(h, val[p]) => h = host[p]
ValInv == \A p \in Conns : ValAt(p)

\* The entry of the host, by the steps of a connection.
EntryAt(p) ==
    /\ step[p] = "make" => certMap[host[p]] \in {S!None, file[p]}
    /\ step[p] \in {"store", "storeCert"} =>
          certMap[host[p]] \in {S!None, file[p]} \/ listenerMap[certMap[host[p]]] = 0
    /\ step[p] = "storeCert" => listenerMap[file[p]] # 0
    /\ step[p] = "take" => certMap[host[p]] = file[p] /\ listenerMap[file[p]] # 0
EntryInv == \A p \in Conns : EntryAt(p)

\* The maps agree but where a goroutine is between its two changes of them.
LeadsToListener(h) ==
    certMap[h] # S!None =>
        \/ listenerMap[certMap[h]] # 0
        \/ \E p \in Conns :
              \/ step[p] = "forget" /\ own[p] = h
              \/ step[p] \in {"store", "storeCert"} /\ host[p] = h /\ file[p] # certMap[h]
KnownOfHost(c) ==
    listenerMap[c] # 0 =>
        \/ \E h \in HostIds : certMap[h] = c
        \/ \E p \in Conns : step[p] = "storeCert" /\ file[p] = c
MapInv ==
    /\ running
    /\ \A h \in HostIds : LeadsToListener(h)
    /\ \A c \in Certs : KnownOfHost(c)

HttpsInv ==
    /\ HostInv /\ ListenerInv
    /\ ~tangled => HolderInv /\ ValInv /\ EntryInv /\ MapInv

\* What the code's order of steps gives of the certificates and their hosts.
LEMMA HolderFacts ==
    ASSUME HostInv, ListenerInv, HolderInv
    PROVE  /\ \A p \in Conns : step[p] # "idle" =>
                 host[p] \in HostIds /\ file[p] \in Certs /\ Holds(host[p], file[p])
           /\ \A h \in HostIds : certMap[h] # S!None => certMap[h] \in Certs /\ Holds(h, certMap[h])
           /\ \A g, h \in HostIds, c \in Certs : Holds(g, c) /\ Holds(h, c) => g = h
  BY DEF HostInv, ListenerInv, HolderInv, Holds

\* Hosts that are entangled stay so.
LEMMA HttpsTangles ==
    ASSUME HostInv, [S!Next]_(S!vars)
    PROVE  ~tangled' => ~tangled
<1> USE DEF HostInv, S!database, S!maps, S!hist
<1>1. ASSUME NEW p \in Conns, NEW h \in HostIds, S!Accept(p, h) PROVE ~tangled' => ~tangled
  BY <1>1 DEF S!Accept, S!Move, S!Found
<1>2. ASSUME NEW p \in Conns, NEW g \in HostIds, S!Visit(p, g) PROVE ~tangled' => ~tangled
  BY <1>2 DEF S!Visit, S!Move
<1>3. ASSUME NEW p \in Conns, S!Drop(p) PROVE ~tangled' => ~tangled
  BY <1>3 DEF S!Drop, S!Move, S!Dropped
<1>4. ASSUME NEW p \in Conns, S!Forget(p) PROVE ~tangled' => ~tangled
  BY <1>4 DEF S!Forget, S!Move
<1>5. ASSUME NEW p \in Conns, S!Load(p) PROVE ~tangled' => ~tangled
  BY <1>5 DEF S!Load, S!Move
<1>6. ASSUME NEW p \in Conns, S!Take(p) PROVE ~tangled' => ~tangled
  BY <1>6 DEF S!Take, S!Move
<1>7. ASSUME NEW p \in Conns, S!Make(p) PROVE ~tangled' => ~tangled
  BY <1>7 DEF S!Make, S!Move
<1>8. ASSUME NEW p \in Conns, S!Replace(p) PROVE ~tangled' => ~tangled
  BY <1>8 DEF S!Replace, S!Move, S!Dropped
<1>9. ASSUME NEW p \in Conns, S!StoreListener(p) PROVE ~tangled' => ~tangled
  BY <1>9 DEF S!StoreListener, S!Move
<1>10. ASSUME NEW p \in Conns, S!StoreCert(p) PROVE ~tangled' => ~tangled
  BY <1>10 DEF S!StoreCert, S!Move
<1>11. ASSUME NEW p \in Conns, S!Send(p) PROVE ~tangled' => ~tangled
  BY <1>11 DEF S!Send, S!Move
<1>12. ASSUME NEW l \in 1 .. Len(listeners), S!Serve(l) PROVE ~tangled' => ~tangled
  BY <1>12 DEF S!Serve
<1>13. ASSUME NEW c \in Certs \cup {S!None}, S!AddHost(c) PROVE ~tangled' => ~tangled
  BY <1>13 DEF S!AddHost, S!Operation, S!Shared
<1>14. ASSUME NEW h \in HostIds, NEW c \in Certs \cup {S!None}, S!EditHost(h, c) PROVE ~tangled' => ~tangled
  BY <1>14 DEF S!EditHost, S!Operation, S!Serving, S!Shared
<1>15. ASSUME NEW h \in HostIds, S!DelHost(h) PROVE ~tangled' => ~tangled
  BY <1>15 DEF S!DelHost, S!Operation, S!Serving
<1>16. CASE UNCHANGED S!vars
  BY <1>16 DEF S!vars
<1>17. QED
  BY <1>1, <1>2, <1>3, <1>4, <1>5, <1>6, <1>7, <1>8, <1>9, <1>10, <1>11, <1>12, <1>13, <1>14, <1>15, <1>16 DEF S!Next

\* Every step keeps the types.
LEMMA HttpsTypes ==
    ASSUME HostInv, ListenerInv, [S!Next]_(S!vars)
    PROVE  HostInv'
<1> USE DEF HostInv, ListenerInv, S!database, S!maps, S!hist
<1>0. /\ \A h \in HostIds : h \in Nat /\ h # 0
      /\ S!None \notin Certs
  BY HostsAssumption
<1>1. ASSUME NEW p \in Conns, NEW h \in HostIds, S!Accept(p, h) PROVE HostInv'
  BY <1>0, <1>1 DEF S!Accept, S!Move, S!Found
<1>2. ASSUME NEW p \in Conns, NEW g \in HostIds, S!Visit(p, g) PROVE HostInv'
  <2>1. val' \in [Conns -> Certs \cup {S!None}] /\ own' \in [Conns -> Nat]
    <3>1. CASE val' = [val EXCEPT ![p] = certMap[g]] /\ own' = [own EXCEPT ![p] = g]
      BY <1>0, <3>1
    <3>2. CASE UNCHANGED <<val, own>>
      BY <3>2
    <3>3. QED
      BY <1>2, <3>1, <3>2 DEF S!Visit
  <2>2. todo' \in [Conns -> SUBSET HostIds]
    BY <1>2 DEF S!Visit
  <2>3. step' \in [Conns -> {"idle", "visit", "drop", "forget", "make", "take", "remake", "replace",
                             "store", "storeCert", "send"}]
    <3>1. step' = [step EXCEPT ![p] = "drop"] \/ step' = [step EXCEPT ![p] = "visit"]
      BY <1>2 DEF S!Visit, S!Move
    <3>2. QED
      BY <3>1
  <2>4. QED
    BY <1>2, <2>1, <2>2, <2>3 DEF S!Visit
<1>3. ASSUME NEW p \in Conns, S!Drop(p) PROVE HostInv'
  BY <1>0, <1>3 DEF S!Drop, S!Move, S!Dropped
<1>4. ASSUME NEW p \in Conns, S!Forget(p) PROVE HostInv'
  BY <1>0, <1>4 DEF S!Forget, S!Move
<1>5. ASSUME NEW p \in Conns, S!Load(p) PROVE HostInv'
  BY <1>0, <1>5 DEF S!Load, S!Move
<1>6. ASSUME NEW p \in Conns, S!Take(p) PROVE HostInv'
  BY <1>0, <1>6 DEF S!Take, S!Move
<1>7. ASSUME NEW p \in Conns, S!Make(p) PROVE HostInv'
  <2>1. [cert |-> file[p], server |-> "starts"] \in [cert : Certs, server : {"starts", "accepts", "ended"}]
    BY <1>7 DEF S!Make, S!Move
  <2>2. /\ listeners' \in Seq([cert : Certs, server : {"starts", "accepts", "ended"}])
        /\ Len(listeners') = Len(listeners) + 1 /\ Len(listeners) \in Nat
    BY <1>7, <2>1 DEF S!Make
  <2>3. listenerMap' \in [Certs -> 0 .. Len(listeners')]
    <3>1. listenerMap' = listenerMap /\ 0 .. Len(listeners) \subseteq 0 .. Len(listeners')
      BY <1>7, <2>2 DEF S!Make
    <3>2. QED
      BY <3>1
  <2>4. own' \in [Conns -> Nat]
    BY <1>7, <2>2 DEF S!Make
  <2>5. step' \in [Conns -> {"idle", "visit", "drop", "forget", "make", "take", "remake", "replace",
                             "store", "storeCert", "send"}]
    BY <1>7 DEF S!Make, S!Move
  <2>6. QED
    BY <1>7, <2>2, <2>3, <2>4, <2>5 DEF S!Make
<1>8. ASSUME NEW p \in Conns, S!Replace(p) PROVE HostInv'
  BY <1>0, <1>8 DEF S!Replace, S!Move, S!Dropped
<1>9. ASSUME NEW p \in Conns, S!StoreListener(p) PROVE HostInv'
  BY <1>0, <1>9 DEF S!StoreListener, S!Move
<1>10. ASSUME NEW p \in Conns, S!StoreCert(p) PROVE HostInv'
  BY <1>0, <1>10 DEF S!StoreCert, S!Move
<1>11. ASSUME NEW p \in Conns, S!Send(p) PROVE HostInv'
  BY <1>0, <1>11 DEF S!Send, S!Move
<1>12. ASSUME NEW l \in 1 .. Len(listeners), S!Serve(l) PROVE HostInv'
  <2> DEFINE Kept == [cert : Certs, server : {"starts", "accepts", "ended"}]
  <2>0. listeners \in Seq(Kept)
    OBVIOUS
  <2>1. listeners[l] \in Kept
    <3> HIDE DEF Kept, HostInv, ListenerInv
    <3>1. QED
      BY <2>0
  <2>2. /\ listeners' \in Seq([cert : Certs, server : {"starts", "accepts", "ended"}])
        /\ Len(listeners') = Len(listeners)
    <3>1. PICK s \in {"ended", "accepts"} : listeners' = [listeners EXCEPT ![l].server = s]
      BY <1>12 DEF S!Serve
    <3>2. listeners' = [listeners EXCEPT ![l] = [listeners[l] EXCEPT !.server = s]]
      BY <3>1
    <3>3. [listeners[l] EXCEPT !.server = s] \in Kept
      BY <2>1
    <3>4. QED
      <4> HIDE DEF Kept, HostInv, ListenerInv
      <4>1. listeners' \in Seq(Kept) /\ Len(listeners') = Len(listeners)
        BY <2>0, <3>2, <3>3
      <4>2. QED
        BY <4>1 DEF Kept
  <2>3. QED
    BY <1>12, <2>2 DEF S!Serve
<1>13. ASSUME NEW c \in Certs \cup {S!None}, S!AddHost(c) PROVE HostInv'
  <2>1. /\ lastHost' = lastHost + 1 /\ lastHost' \in HostIds /\ hosts' = hosts \cup {lastHost + 1}
        /\ cert' = [cert EXCEPT ![lastHost + 1] = c]
    BY <1>13 DEF S!AddHost
  <2>2. lastHost' \in Nat /\ lastHost < lastHost'
    BY <2>1
  <2>3. hosts' \subseteq 1 .. lastHost'
    BY <2>1, <2>2
  <2>4. cert' \in [HostIds -> Certs \cup {S!None}]
    BY <2>1
  <2>5. (\A h \in HostIds : certMap[h] # S!None => h <= lastHost') /\ \A p \in Conns : host[p] <= lastHost'
    <3>1. ASSUME NEW n \in Nat, n <= lastHost PROVE n <= lastHost'
      BY <2>1, <3>1
    <3>2. ASSUME NEW p \in Conns PROVE host[p] \in Nat
      <4>1. host[p] \in HostIds \cup {0}
        OBVIOUS
      <4>2. QED
        <5> HIDE DEF HostInv, ListenerInv
        <5>1. QED
          BY <1>0, <4>1
    <3>3. QED
      BY <1>0, <3>1, <3>2
  <2>6. QED
    BY <1>13, <2>1, <2>2, <2>3, <2>4, <2>5 DEF S!AddHost
<1>14. ASSUME NEW h \in HostIds, NEW c \in Certs \cup {S!None}, S!EditHost(h, c) PROVE HostInv'
  BY <1>0, <1>14 DEF S!EditHost, S!Operation, S!Serving, S!Shared
<1>15. ASSUME NEW h \in HostIds, S!DelHost(h) PROVE HostInv'
  BY <1>0, <1>15 DEF S!DelHost, S!Operation, S!Serving
<1>16. CASE UNCHANGED S!vars
  BY <1>0, <1>16 DEF S!vars
<1>17. QED
  BY <1>1, <1>2, <1>3, <1>4, <1>5, <1>6, <1>7, <1>8, <1>9, <1>10, <1>11, <1>12, <1>13, <1>14, <1>15, <1>16 DEF S!Next

\* Every step keeps each listener with its certificate.
LEMMA HttpsListeners ==
    ASSUME HostInv, ListenerInv, [S!Next]_(S!vars)
    PROVE  ListenerInv'
<1> USE DEF HostInv, ListenerInv, S!database, S!maps, S!hist
<1>0. /\ \A h \in HostIds : h \in Nat /\ h # 0
      /\ S!None \notin Certs
  BY HostsAssumption
<1>1. ASSUME NEW p \in Conns, NEW h \in HostIds, S!Accept(p, h) PROVE ListenerInv'
  BY <1>0, <1>1 DEF S!Accept, S!Move, S!Found
<1>2. ASSUME NEW p \in Conns, NEW g \in HostIds, S!Visit(p, g) PROVE ListenerInv'
  BY <1>0, <1>2 DEF S!Visit, S!Move
<1>3. ASSUME NEW p \in Conns, S!Drop(p) PROVE ListenerInv'
  BY <1>0, <1>3 DEF S!Drop, S!Move, S!Dropped
<1>4. ASSUME NEW p \in Conns, S!Forget(p) PROVE ListenerInv'
  BY <1>0, <1>4 DEF S!Forget, S!Move
<1>5. ASSUME NEW p \in Conns, S!Load(p) PROVE ListenerInv'
  <2>1. ASSUME certMap[host[p]] \notin {S!None, file[p]}
        PROVE  val'[p] \in Certs /\ val'[p] # file[p]
    BY <1>5, <2>1 DEF S!Load, S!Move
  <2>2. step'[p] \in {"make", "take"} \/ (step'[p] = "remake" /\ certMap[host[p]] \notin {S!None, file[p]})
    BY <1>5 DEF S!Load, S!Move
  <2>3. ASSUME NEW q \in Conns, q # p PROVE step'[q] = step[q] /\ val'[q] = val[q]
    BY <1>5, <2>3 DEF S!Load, S!Move
  <2>4. step[p] = "visit" /\ UNCHANGED <<lastHost, host, file, own, listeners, listenerMap>>
    BY <1>5 DEF S!Load, S!Move
  <2>5. QED
    BY <2>1, <2>2, <2>3, <2>4
<1>6. ASSUME NEW p \in Conns, S!Take(p) PROVE ListenerInv'
  BY <1>0, <1>6 DEF S!Take, S!Move
<1>7. ASSUME NEW p \in Conns, S!Make(p) PROVE ListenerInv'
  BY <1>0, <1>7 DEF S!Make, S!Move
<1>8. ASSUME NEW p \in Conns, S!Replace(p) PROVE ListenerInv'
  BY <1>0, <1>8 DEF S!Replace, S!Move, S!Dropped
<1>9. ASSUME NEW p \in Conns, S!StoreListener(p) PROVE ListenerInv'
  BY <1>0, <1>9 DEF S!StoreListener, S!Move
<1>10. ASSUME NEW p \in Conns, S!StoreCert(p) PROVE ListenerInv'
  BY <1>0, <1>10 DEF S!StoreCert, S!Move
<1>11. ASSUME NEW p \in Conns, S!Send(p) PROVE ListenerInv'
  BY <1>0, <1>11 DEF S!Send, S!Move
<1>12. ASSUME NEW l \in 1 .. Len(listeners), S!Serve(l) PROVE ListenerInv'
  BY <1>0, <1>12 DEF S!Serve
<1>13. ASSUME NEW c \in Certs \cup {S!None}, S!AddHost(c) PROVE ListenerInv'
  BY <1>0, <1>13 DEF S!AddHost, S!Operation, S!Shared
<1>14. ASSUME NEW h \in HostIds, NEW c \in Certs \cup {S!None}, S!EditHost(h, c) PROVE ListenerInv'
  BY <1>0, <1>14 DEF S!EditHost, S!Operation, S!Serving, S!Shared
<1>15. ASSUME NEW h \in HostIds, S!DelHost(h) PROVE ListenerInv'
  BY <1>0, <1>15 DEF S!DelHost, S!Operation, S!Serving
<1>16. CASE UNCHANGED S!vars
  BY <1>0, <1>16 DEF S!vars
<1>17. QED
  BY <1>1, <1>2, <1>3, <1>4, <1>5, <1>6, <1>7, <1>8, <1>9, <1>10, <1>11, <1>12, <1>13, <1>14, <1>15, <1>16 DEF S!Next

\* A step that entangles nothing gives a host no certificate that a goroutine has
\* looked up.
LEMMA HttpsHolds ==
    ASSUME HostInv, ListenerInv, ~tangled, ~tangled', HolderInv,
           NEW k \in HostIds, NEW d \in Certs, Holds(k, d)', [S!Next]_(S!vars)
    PROVE  Holds(k, d) \/ \A q \in Conns : val[q] # d
<1> USE DEF HolderInv, Holds, HostInv, ListenerInv, S!database, S!maps, S!hist
<1>0. /\ \A h \in HostIds : h \in Nat /\ h # 0
      /\ S!None \notin Certs
  BY HostsAssumption
<1>1. ASSUME NEW p \in Conns, NEW h \in HostIds, S!Accept(p, h)
      PROVE Holds(k, d) \/ \A q \in Conns : val[q] # d
  BY <1>0, <1>1 DEF S!Accept, S!Move, S!Found
<1>2. ASSUME NEW p \in Conns, NEW g \in HostIds, S!Visit(p, g)
      PROVE Holds(k, d) \/ \A q \in Conns : val[q] # d
  BY <1>0, <1>2 DEF S!Visit, S!Move
<1>3. ASSUME NEW p \in Conns, S!Drop(p)
      PROVE Holds(k, d) \/ \A q \in Conns : val[q] # d
  BY <1>0, <1>3 DEF S!Drop, S!Move, S!Dropped
<1>4. ASSUME NEW p \in Conns, S!Forget(p)
      PROVE Holds(k, d) \/ \A q \in Conns : val[q] # d
  BY <1>0, <1>4 DEF S!Forget, S!Move
<1>5. ASSUME NEW p \in Conns, S!Load(p)
      PROVE Holds(k, d) \/ \A q \in Conns : val[q] # d
  BY <1>0, <1>5 DEF S!Load, S!Move
<1>6. ASSUME NEW p \in Conns, S!Take(p)
      PROVE Holds(k, d) \/ \A q \in Conns : val[q] # d
  BY <1>0, <1>6 DEF S!Take, S!Move
<1>7. ASSUME NEW p \in Conns, S!Make(p)
      PROVE Holds(k, d) \/ \A q \in Conns : val[q] # d
  BY <1>0, <1>7 DEF S!Make, S!Move
<1>8. ASSUME NEW p \in Conns, S!Replace(p)
      PROVE Holds(k, d) \/ \A q \in Conns : val[q] # d
  BY <1>0, <1>8 DEF S!Replace, S!Move, S!Dropped
<1>9. ASSUME NEW p \in Conns, S!StoreListener(p)
      PROVE Holds(k, d) \/ \A q \in Conns : val[q] # d
  BY <1>0, <1>9 DEF S!StoreListener, S!Move
<1>10. ASSUME NEW p \in Conns, S!StoreCert(p)
      PROVE Holds(k, d) \/ \A q \in Conns : val[q] # d
  BY <1>0, <1>10 DEF S!StoreCert, S!Move
<1>11. ASSUME NEW p \in Conns, S!Send(p)
      PROVE Holds(k, d) \/ \A q \in Conns : val[q] # d
  BY <1>0, <1>11 DEF S!Send, S!Move
<1>12. ASSUME NEW l \in 1 .. Len(listeners), S!Serve(l)
      PROVE Holds(k, d) \/ \A q \in Conns : val[q] # d
  BY <1>0, <1>12 DEF S!Serve
<1>13. ASSUME NEW c \in Certs \cup {S!None}, S!AddHost(c)
      PROVE Holds(k, d) \/ \A q \in Conns : val[q] # d
  <2>0. PICK n \in HostIds : n = lastHost + 1
    BY <1>13 DEF S!AddHost
  <2>n. n > lastHost /\ certMap[n] = S!None
    <3>1. n > lastHost /\ ~(n <= lastHost)
      BY <2>0
    <3>2. QED
      BY <3>1
  <2>1. /\ hosts' = hosts \cup {n} /\ cert' = [cert EXCEPT ![n] = c]
        /\ certMap' = certMap /\ ~S!Shared(c, n)
    BY <1>13, <2>0 DEF S!AddHost
  <2>2. CASE k # n
    BY <2>1, <2>2
  <2>3. CASE k = n
    <3>1. d = c
      BY <1>0, <2>n, <2>1, <2>3
    <3>2. QED
      BY <1>0, <2>1, <3>1 DEF S!Shared
  <2>4. QED
    BY <2>2, <2>3
<1>14. ASSUME NEW h \in HostIds, NEW c \in Certs \cup {S!None}, S!EditHost(h, c)
      PROVE Holds(k, d) \/ \A q \in Conns : val[q] # d
  <2>1. /\ h \in hosts /\ cert' = [cert EXCEPT ![h] = c] /\ hosts' = hosts /\ certMap' = certMap
        /\ ~S!Shared(c, h)
    BY <1>14 DEF S!EditHost
  <2>2. CASE k # h \/ d # c
    BY <2>1, <2>2
  <2>3. CASE k = h /\ d = c
    BY <1>0, <2>1, <2>3 DEF S!Shared
  <2>4. QED
    BY <2>2, <2>3
<1>15. ASSUME NEW h \in HostIds, S!DelHost(h)
      PROVE Holds(k, d) \/ \A q \in Conns : val[q] # d
  BY <1>0, <1>15 DEF S!DelHost, S!Operation, S!Serving
<1>16. CASE UNCHANGED S!vars
  BY <1>0, <1>16 DEF S!vars
<1>17. QED
  BY <1>1, <1>2, <1>3, <1>4, <1>5, <1>6, <1>7, <1>8, <1>9, <1>10, <1>11, <1>12, <1>13, <1>14, <1>15, <1>16 DEF S!Next

\* A step that entangles nothing keeps a certificate of one host.
LEMMA HttpsHolders ==
    ASSUME HostInv, ListenerInv, ~tangled, ~tangled', HolderInv, [S!Next]_(S!vars)
    PROVE  HolderInv'
<1> USE DEF HolderInv, Holds, HostInv, ListenerInv, S!database, S!maps, S!hist
<1>0. /\ \A h \in HostIds : h \in Nat /\ h # 0
      /\ S!None \notin Certs
  BY HostsAssumption
<1>1. ASSUME NEW p \in Conns, NEW h \in HostIds, S!Accept(p, h) PROVE HolderInv'
  BY <1>0, <1>1 DEF S!Accept, S!Move, S!Found
<1>2. ASSUME NEW p \in Conns, NEW g \in HostIds, S!Visit(p, g) PROVE HolderInv'
  BY <1>0, <1>2 DEF S!Visit, S!Move
<1>3. ASSUME NEW p \in Conns, S!Drop(p) PROVE HolderInv'
  BY <1>0, <1>3 DEF S!Drop, S!Move, S!Dropped
<1>4. ASSUME NEW p \in Conns, S!Forget(p) PROVE HolderInv'
  BY <1>0, <1>4 DEF S!Forget, S!Move
<1>5. ASSUME NEW p \in Conns, S!Load(p) PROVE HolderInv'
  <2>1. UNCHANGED <<host, hosts, cert, file, certMap>>
    BY <1>5 DEF S!Load
  <2>2. \A q \in Conns : step'[q] # "idle" => step[q] # "idle"
    BY <1>5 DEF S!Load, S!Move
  <2>3. QED
    BY <2>1, <2>2
<1>6. ASSUME NEW p \in Conns, S!Take(p) PROVE HolderInv'
  <2>1. UNCHANGED <<host, hosts, cert, file, certMap>>
    BY <1>6 DEF S!Take
  <2>2. \A q \in Conns : step'[q] # "idle" => step[q] # "idle"
    BY <1>6 DEF S!Take, S!Move
  <2>3. QED
    BY <2>1, <2>2
<1>7. ASSUME NEW p \in Conns, S!Make(p) PROVE HolderInv'
  <2>1. UNCHANGED <<host, hosts, cert, file, certMap>>
    BY <1>7 DEF S!Make
  <2>2. \A q \in Conns : step'[q] # "idle" => step[q] # "idle"
    BY <1>7 DEF S!Make, S!Move
  <2>3. QED
    BY <2>1, <2>2
<1>8. ASSUME NEW p \in Conns, S!Replace(p) PROVE HolderInv'
  <2>1. UNCHANGED <<host, hosts, cert, file, certMap>>
    BY <1>8 DEF S!Replace
  <2>2. \A q \in Conns : step'[q] # "idle" => step[q] # "idle"
    BY <1>8 DEF S!Replace, S!Move
  <2>3. QED
    BY <2>1, <2>2
<1>9. ASSUME NEW p \in Conns, S!StoreListener(p) PROVE HolderInv'
  <2>1. UNCHANGED <<host, hosts, cert, file, certMap>>
    BY <1>9 DEF S!StoreListener
  <2>2. \A q \in Conns : step'[q] # "idle" => step[q] # "idle"
    BY <1>9 DEF S!StoreListener, S!Move
  <2>3. QED
    BY <2>1, <2>2
<1>10. ASSUME NEW p \in Conns, S!StoreCert(p) PROVE HolderInv'
  <2>1. /\ UNCHANGED <<host, hosts, cert, file>> /\ step[p] = "storeCert"
        /\ certMap' = [certMap EXCEPT ![host[p]] = file[p]]
    BY <1>10 DEF S!StoreCert, S!Move
  <2>2. \A q \in Conns : step'[q] # "idle" => step[q] # "idle"
    BY <1>10 DEF S!StoreCert, S!Move
  <2>3. host[p] \in HostIds /\ host[p] \in hosts /\ cert[host[p]] = file[p]
    BY <2>1
  <2>4. ASSUME NEW g \in HostIds, NEW d \in Certs, Holds(g, d)' PROVE Holds(g, d)
    BY <2>1, <2>3, <2>4
  <2>5. QED
    <3> HIDE DEF Holds
    <3>1. QED
      BY <2>1, <2>2, <2>4
<1>11. ASSUME NEW p \in Conns, S!Send(p) PROVE HolderInv'
  BY <1>0, <1>11 DEF S!Send, S!Move
<1>12. ASSUME NEW l \in 1 .. Len(listeners), S!Serve(l) PROVE HolderInv'
  BY <1>0, <1>12 DEF S!Serve
<1>13. ASSUME NEW c \in Certs \cup {S!None}, S!AddHost(c) PROVE HolderInv'
  <2>0. PICK n \in HostIds : n = lastHost + 1
    BY <1>13 DEF S!AddHost
  <2>n. n > lastHost /\ certMap[n] = S!None
    <3>1. n > lastHost /\ ~(n <= lastHost)
      BY <2>0
    <3>2. QED
      BY <3>1
  <2>1. /\ hosts' = hosts \cup {n} /\ cert' = [cert EXCEPT ![n] = c]
        /\ certMap' = certMap /\ ~S!Shared(c, n) /\ UNCHANGED <<step, host, file>>
    BY <1>13, <2>0 DEF S!AddHost
  <2>2. ASSUME NEW q \in Conns, step'[q] # "idle" PROVE host'[q] \in hosts' /\ cert'[host'[q]] = file'[q]
    <3>1. step[q] # "idle" /\ host[q] \in HostIds /\ host[q] # n
      BY <1>0, <2>0, <2>n, <2>1, <2>2
    <3>2. QED
      BY <2>1, <3>1
  <2>3. ASSUME NEW g \in HostIds, NEW d \in Certs, Holds(g, d)' PROVE g # n => Holds(g, d)
    BY <2>1, <2>3
  <2>4. ASSUME NEW d \in Certs, Holds(n, d)' PROVE \A g \in HostIds : Holds(g, d) => g = n
    <3>1. d = c
      BY <1>0, <2>n, <2>1, <2>4
    <3>2. QED
      BY <1>0, <2>1, <3>1 DEF S!Shared
  <2>5. ASSUME NEW g \in HostIds, NEW h \in HostIds, NEW d \in Certs, Holds(g, d)', Holds(h, d)' PROVE g = h
    <3> HIDE DEF Holds
    <3>1. CASE g # n /\ h # n
      BY <2>3, <2>5, <3>1
    <3>2. CASE g = n \/ h = n
      BY <2>3, <2>4, <2>5, <3>2
    <3>3. QED
      BY <3>1, <3>2
  <2>6. QED
    <3> HIDE DEF Holds
    <3>1. QED
      BY <2>2, <2>5
<1>14. ASSUME NEW h \in HostIds, NEW c \in Certs \cup {S!None}, S!EditHost(h, c) PROVE HolderInv'
  <2>1. /\ h \in hosts /\ cert' = [cert EXCEPT ![h] = c] /\ hosts' = hosts /\ certMap' = certMap
        /\ ~S!Shared(c, h) /\ ~S!Serving(h) /\ UNCHANGED <<step, host, file>>
    BY <1>14 DEF S!EditHost
  <2>2. ASSUME NEW q \in Conns, step'[q] # "idle" PROVE host'[q] \in hosts' /\ cert'[host'[q]] = file'[q]
    <3>1. step[q] # "idle" /\ host[q] \in HostIds /\ host[q] # h
      BY <2>1, <2>2 DEF S!Serving
    <3>2. QED
      BY <2>1, <3>1
  <2>3. ASSUME NEW g \in HostIds, NEW d \in Certs, Holds(g, d)' PROVE (g # h \/ d # c) => Holds(g, d)
    BY <2>1, <2>3
  <2>4. c \in Certs => \A g \in HostIds : Holds(g, c) => g = h
    BY <1>0, <2>1 DEF S!Shared
  <2>5. ASSUME NEW g \in HostIds, NEW k \in HostIds, NEW d \in Certs, Holds(g, d)', Holds(k, d)' PROVE g = k
    <3> HIDE DEF Holds
    <3>1. CASE d # c
      BY <2>3, <2>5, <3>1
    <3>2. CASE d = c
      BY <2>3, <2>4, <2>5, <3>2
    <3>3. QED
      BY <3>1, <3>2
  <2>6. QED
    <3> HIDE DEF Holds
    <3>1. QED
      BY <2>2, <2>5
<1>15. ASSUME NEW h \in HostIds, S!DelHost(h) PROVE HolderInv'
  <2>1. /\ hosts' = hosts \ {h} /\ ~S!Serving(h) /\ UNCHANGED <<step, host, file, cert, certMap>>
    BY <1>15 DEF S!DelHost
  <2>2. \A q \in Conns : host[q] # h
    BY <2>1 DEF S!Serving
  <2>3. \A g \in HostIds, d \in Certs : Holds(g, d)' => Holds(g, d)
    BY <2>1
  <2>4. \A q \in Conns : step'[q] # "idle" => host'[q] \in hosts' /\ cert'[host'[q]] = file'[q]
    BY <2>1, <2>2
  <2>5. QED
    <3> HIDE DEF Holds
    <3>1. QED
      BY <2>3, <2>4
<1>16. CASE UNCHANGED S!vars
  BY <1>0, <1>16 DEF S!vars
<1>17. QED
  BY <1>1, <1>2, <1>3, <1>4, <1>5, <1>6, <1>7, <1>8, <1>9, <1>10, <1>11, <1>12, <1>13, <1>14, <1>15, <1>16 DEF S!Next

\* A step that entangles nothing keeps what is about to leave the maps with its host.
LEMMA HttpsValues ==
    ASSUME HostInv, ListenerInv, ~tangled, ~tangled', HolderInv, ValInv, EntryInv, [S!Next]_(S!vars)
    PROVE  ValInv'
<1> USE DEF HolderInv, HostInv, ListenerInv, S!database, S!maps, S!hist
<1>0. /\ \A h \in HostIds : h \in Nat /\ h # 0
      /\ S!None \notin Certs
  BY HostsAssumption
<1>f. /\ \A p \in Conns : step[p] # "idle" =>
            host[p] \in HostIds /\ file[p] \in Certs /\ Holds(host[p], file[p])
      /\ \A h \in HostIds : certMap[h] # S!None => certMap[h] \in Certs /\ Holds(h, certMap[h])
      /\ \A g, h \in HostIds, c \in Certs : Holds(g, c) /\ Holds(h, c) => g = h
  BY HolderFacts
<1>v. \A p \in Conns : ValAt(p)
  BY DEF ValInv
<1>e. \A p \in Conns : EntryAt(p)
  BY DEF EntryInv
<1>a. \A h \in HostIds, d \in Certs : Holds(h, d)' => Holds(h, d) \/ \A q \in Conns : val[q] # d
  BY HttpsHolds
<1>1. ASSUME NEW p \in Conns, NEW h \in HostIds, S!Accept(p, h) PROVE ValInv'
  <2>1. ASSUME NEW q \in Conns PROVE ValAt(q)'
    BY <1>0, <1>a, <1>f, <1>v, <1>1 DEF S!Accept, S!Move, S!Found, ValAt
  <2>2. QED
    BY <2>1 DEF ValInv
<1>2. ASSUME NEW p \in Conns, NEW g \in HostIds, S!Visit(p, g) PROVE ValInv'
  <2>1. ASSUME NEW q \in Conns PROVE ValAt(q)'
    <3>1. UNCHANGED <<hosts, certMap, listenerMap, host, file>> /\ step[p] = "visit"
      BY <1>2 DEF S!Visit, S!Move
    <3>2. CASE q = p /\ step'[p] = "drop"
      <4>1. certMap[g] # S!None /\ g \notin hosts /\ val'[p] = certMap[g] /\ own'[p] = g
        BY <1>2, <3>2 DEF S!Visit, S!Move
      <4>2. certMap[g] \in Certs /\ \A h \in HostIds : Holds(h, certMap[g]) => h = g
        BY <1>f, <4>1
      <4>3. \A h \in HostIds : Holds(h, certMap[g])' => Holds(h, certMap[g])
        BY <1>2, <3>1 DEF S!Visit, Holds
      <4>4. QED
        BY <3>1, <3>2, <4>1, <4>2, <4>3 DEF ValAt
    <3>3. CASE q = p /\ step'[p] = "visit"
      BY <3>3 DEF ValAt
    <3>4. CASE q # p
      <4>1. step'[q] = step[q] /\ val'[q] = val[q] /\ own'[q] = own[q]
        BY <1>2, <3>4 DEF S!Visit, S!Move
      <4>2. \A h \in HostIds, d \in Certs : Holds(h, d)' => Holds(h, d)
        BY <1>2, <3>1 DEF S!Visit, Holds
      <4>3. step[q] \in {"drop", "forget", "remake", "replace"} => val[q] \in Certs
        OBVIOUS
      <4>4. QED
        BY <1>v, <3>1, <4>1, <4>2, <4>3 DEF ValAt
    <3>5. step'[p] \in {"drop", "visit"}
      BY <1>2 DEF S!Visit, S!Move
    <3>6. QED
      BY <3>2, <3>3, <3>4, <3>5
  <2>2. QED
    BY <2>1 DEF ValInv
<1>3. ASSUME NEW p \in Conns, S!Drop(p) PROVE ValInv'
  <2>1. ASSUME NEW q \in Conns PROVE ValAt(q)'
    BY <1>0, <1>a, <1>f, <1>v, <1>3 DEF S!Drop, S!Move, S!Dropped, ValAt
  <2>2. QED
    BY <2>1 DEF ValInv
<1>4. ASSUME NEW p \in Conns, S!Forget(p) PROVE ValInv'
  <2>1. ASSUME NEW q \in Conns PROVE ValAt(q)'
    BY <1>0, <1>a, <1>f, <1>v, <1>4 DEF S!Forget, S!Move, ValAt
  <2>2. QED
    BY <2>1 DEF ValInv
<1>5. ASSUME NEW p \in Conns, S!Load(p) PROVE ValInv'
  <2>1. ASSUME NEW q \in Conns PROVE ValAt(q)'
    <3>1. UNCHANGED <<hosts, cert, certMap, listenerMap, host, file, own>> /\ step[p] = "visit"
      BY <1>5 DEF S!Load, S!Move
    <3>2. \A h \in HostIds, d \in Certs : Holds(h, d)' => Holds(h, d)
      BY <3>1 DEF Holds
    <3>3. CASE q = p /\ step'[p] = "remake"
      <4>1. certMap[host[p]] \notin {S!None, file[p]} /\ val'[p] = certMap[host[p]] /\ host[p] \in HostIds
        BY <1>f, <1>5, <3>3 DEF S!Load, S!Move
      <4>2. certMap[host[p]] \in Certs /\ \A h \in HostIds : Holds(h, certMap[host[p]]) => h = host[p]
        BY <1>f, <4>1
      <4>3. QED
        BY <3>1, <3>2, <3>3, <4>1, <4>2 DEF ValAt
    <3>4. CASE q = p /\ step'[p] \in {"make", "take"}
      BY <3>4 DEF ValAt
    <3>5. CASE q # p
      <4>1. step'[q] = step[q] /\ val'[q] = val[q]
        BY <1>5, <3>5 DEF S!Load, S!Move
      <4>2. step[q] \in {"drop", "forget", "remake", "replace"} => val[q] \in Certs
        OBVIOUS
      <4>3. QED
        BY <1>v, <3>1, <3>2, <4>1, <4>2 DEF ValAt
    <3>6. step'[p] \in {"remake", "make", "take"}
      BY <1>5 DEF S!Load, S!Move
    <3>7. QED
      BY <3>3, <3>4, <3>5, <3>6
  <2>2. QED
    BY <2>1 DEF ValInv
<1>6. ASSUME NEW p \in Conns, S!Take(p) PROVE ValInv'
  <2>1. ASSUME NEW q \in Conns PROVE ValAt(q)'
    BY <1>0, <1>a, <1>f, <1>v, <1>6 DEF S!Take, S!Move, ValAt
  <2>2. QED
    BY <2>1 DEF ValInv
<1>7. ASSUME NEW p \in Conns, S!Make(p) PROVE ValInv'
  <2>1. ASSUME NEW q \in Conns PROVE ValAt(q)'
    BY <1>0, <1>a, <1>f, <1>v, <1>7 DEF S!Make, S!Move, ValAt
  <2>2. QED
    BY <2>1 DEF ValInv
<1>8. ASSUME NEW p \in Conns, S!Replace(p) PROVE ValInv'
  <2>1. ASSUME NEW q \in Conns PROVE ValAt(q)'
    BY <1>0, <1>a, <1>f, <1>v, <1>8 DEF S!Replace, S!Move, S!Dropped, ValAt
  <2>2. QED
    BY <2>1 DEF ValInv
<1>9. ASSUME NEW p \in Conns, S!StoreListener(p) PROVE ValInv'
  <2>1. ASSUME NEW q \in Conns PROVE ValAt(q)'
    <3>1. /\ UNCHANGED <<hosts, cert, certMap, host, file, val, own>> /\ step[p] = "store"
          /\ step' = [step EXCEPT ![p] = "storeCert"]
          /\ listenerMap' = [listenerMap EXCEPT ![file[p]] = own[p]]
      BY <1>9 DEF S!StoreListener, S!Move
    <3>2. \A h \in HostIds : Holds(h, val[q])' => Holds(h, val[q])
      BY <3>1 DEF Holds
    <3>3. CASE q = p
      BY <3>1, <3>3 DEF ValAt
    <3>4. CASE q # p
      <4>1. step'[q] = step[q]
        BY <3>1, <3>4
      <4>2. step[q] = "forget" => file[p] # val[q]
        BY <1>f, <1>v, <3>1 DEF ValAt
      <4>3. step[q] = "forget" => listenerMap'[val[q]] = 0
        BY <1>v, <3>1, <4>2 DEF ValAt
      <4>4. QED
        BY <1>v, <3>1, <3>2, <4>1, <4>3 DEF ValAt
    <3>5. QED
      BY <3>3, <3>4
  <2>2. QED
    BY <2>1 DEF ValInv
<1>10. ASSUME NEW p \in Conns, S!StoreCert(p) PROVE ValInv'
  <2>1. ASSUME NEW q \in Conns PROVE ValAt(q)'
    <3>1. /\ UNCHANGED <<hosts, cert, listenerMap, host, file, val, own>> /\ step[p] = "storeCert"
          /\ step' = [step EXCEPT ![p] = "send"]
          /\ certMap' = [certMap EXCEPT ![host[p]] = file[p]]
      BY <1>10 DEF S!StoreCert, S!Move
    <3>2. /\ host[p] \in HostIds /\ file[p] \in Certs /\ Holds(host[p], file[p])
          /\ host[p] \in hosts /\ cert[host[p]] = file[p]
      BY <1>f, <3>1
    <3>3. \A h \in HostIds, d \in Certs : Holds(h, d)' => Holds(h, d)
      BY <3>1, <3>2 DEF Holds
    <3>4. CASE q = p
      BY <3>1, <3>4 DEF ValAt
    <3>5. CASE q # p
      <4>1. step'[q] = step[q]
        BY <3>1, <3>5
      <4>2. step[q] \in {"drop", "forget", "remake", "replace"} => val[q] \in Certs
        OBVIOUS
      <4>3. step[q] \in {"drop", "forget"} => own[q] # host[p] /\ certMap'[own[q]] = certMap[own[q]]
        BY <1>v, <3>1, <3>2 DEF ValAt
      <4>4. step[q] \in {"remake", "replace"} => certMap'[host[q]] \in {val[q], file[q]}
        BY <1>v, <3>1, <3>2 DEF ValAt
      <4>5. QED
        BY <1>v, <3>1, <3>3, <4>1, <4>2, <4>3, <4>4 DEF ValAt
    <3>6. QED
      BY <3>4, <3>5
  <2>2. QED
    BY <2>1 DEF ValInv
<1>11. ASSUME NEW p \in Conns, S!Send(p) PROVE ValInv'
  <2>1. ASSUME NEW q \in Conns PROVE ValAt(q)'
    BY <1>0, <1>a, <1>f, <1>v, <1>11 DEF S!Send, S!Move, ValAt
  <2>2. QED
    BY <2>1 DEF ValInv
<1>12. ASSUME NEW l \in 1 .. Len(listeners), S!Serve(l) PROVE ValInv'
  <2>1. ASSUME NEW q \in Conns PROVE ValAt(q)'
    BY <1>0, <1>a, <1>f, <1>v, <1>12 DEF S!Serve, ValAt
  <2>2. QED
    BY <2>1 DEF ValInv
<1>13. ASSUME NEW c \in Certs \cup {S!None}, S!AddHost(c) PROVE ValInv'
  <2>1. ASSUME NEW q \in Conns PROVE ValAt(q)'
    BY <1>0, <1>a, <1>f, <1>v, <1>13 DEF S!AddHost, S!Operation, S!Shared, ValAt
  <2>2. QED
    BY <2>1 DEF ValInv
<1>14. ASSUME NEW h \in HostIds, NEW c \in Certs \cup {S!None}, S!EditHost(h, c) PROVE ValInv'
  <2>1. ASSUME NEW q \in Conns PROVE ValAt(q)'
    BY <1>0, <1>a, <1>f, <1>v, <1>14 DEF S!EditHost, S!Operation, S!Serving, S!Shared, ValAt
  <2>2. QED
    BY <2>1 DEF ValInv
<1>15. ASSUME NEW h \in HostIds, S!DelHost(h) PROVE ValInv'
  <2>1. ASSUME NEW q \in Conns PROVE ValAt(q)'
    BY <1>0, <1>a, <1>f, <1>v, <1>15 DEF S!DelHost, S!Operation, S!Serving, ValAt
  <2>2. QED
    BY <2>1 DEF ValInv
<1>16. CASE UNCHANGED S!vars
  <2>1. ASSUME NEW q \in Conns PROVE ValAt(q)'
    BY <1>0, <1>a, <1>f, <1>v, <1>16 DEF S!vars, ValAt
  <2>2. QED
    BY <2>1 DEF ValInv
<1>17. QED
  BY <1>1, <1>2, <1>3, <1>4, <1>5, <1>6, <1>7, <1>8, <1>9, <1>10, <1>11, <1>12, <1>13, <1>14, <1>15, <1>16 DEF S!Next

\* A step that entangles nothing keeps the entry of a connection's host.
LEMMA HttpsEntries ==
    ASSUME HostInv, ListenerInv, ~tangled, ~tangled', HolderInv, ValInv, EntryInv, MapInv, [S!Next]_(S!vars)
    PROVE  EntryInv'
<1> USE DEF HolderInv, HostInv, ListenerInv, S!database, S!maps, S!hist
<1>0. /\ \A h \in HostIds : h \in Nat /\ h # 0
      /\ S!None \notin Certs
  BY HostsAssumption
<1>f. /\ \A p \in Conns : step[p] # "idle" =>
            host[p] \in HostIds /\ file[p] \in Certs /\ Holds(host[p], file[p])
      /\ \A h \in HostIds : certMap[h] # S!None => certMap[h] \in Certs /\ Holds(h, certMap[h])
      /\ \A g, h \in HostIds, c \in Certs : Holds(g, c) /\ Holds(h, c) => g = h
  BY HolderFacts
<1>v. \A p \in Conns : ValAt(p)
  BY DEF ValInv
<1>e. \A p \in Conns : EntryAt(p)
  BY DEF EntryInv
<1>m. running /\ (\A h \in HostIds : LeadsToListener(h)) /\ \A c \in Certs : KnownOfHost(c)
  BY DEF MapInv
<1>1. ASSUME NEW p \in Conns, NEW h \in HostIds, S!Accept(p, h) PROVE EntryInv'
  <2>1. ASSUME NEW q \in Conns PROVE EntryAt(q)'
    BY <1>0, <1>f, <1>v, <1>e, <1>1 DEF S!Accept, S!Move, S!Found, EntryAt, ValAt
  <2>2. QED
    BY <2>1 DEF EntryInv
<1>2. ASSUME NEW p \in Conns, NEW g \in HostIds, S!Visit(p, g) PROVE EntryInv'
  <2>1. ASSUME NEW q \in Conns PROVE EntryAt(q)'
    BY <1>0, <1>f, <1>v, <1>e, <1>2 DEF S!Visit, S!Move, EntryAt, ValAt
  <2>2. QED
    BY <2>1 DEF EntryInv
<1>3. ASSUME NEW p \in Conns, S!Drop(p) PROVE EntryInv'
  <2>1. ASSUME NEW q \in Conns PROVE EntryAt(q)'
    <3>1. /\ UNCHANGED <<hosts, cert, certMap, host, file, val, own>> /\ step[p] = "drop"
          /\ step' = [step EXCEPT ![p] = "forget"]
          /\ listenerMap' = [listenerMap EXCEPT ![val[p]] = 0]
      BY <1>3 DEF S!Drop, S!Move, S!Dropped
    <3>2. val[p] \in Certs /\ (step[q] # "idle" => file[q] # val[p])
      BY <1>f, <1>v, <3>1 DEF ValAt
    <3>3. \A d \in Certs : listenerMap'[d] = IF d = val[p] THEN 0 ELSE listenerMap[d]
      BY <3>1
    <3>4. step[q] # "idle" => file[q] \in Certs /\ host[q] \in HostIds
      BY <1>f
    <3>5. step[q] # "idle" /\ certMap[host[q]] # S!None => certMap[host[q]] \in Certs
      BY <1>f
    <3>6. CASE q = p
      BY <3>1, <3>6 DEF EntryAt
    <3>7. CASE q # p
      <4>1. step'[q] = step[q]
        BY <3>1, <3>7
      <4>2. QED
        BY <1>e, <3>1, <3>2, <3>3, <3>4, <3>5, <4>1 DEF EntryAt
    <3>8. QED
      BY <3>6, <3>7
  <2>2. QED
    BY <2>1 DEF EntryInv
<1>4. ASSUME NEW p \in Conns, S!Forget(p) PROVE EntryInv'
  <2>1. ASSUME NEW q \in Conns PROVE EntryAt(q)'
    BY <1>0, <1>f, <1>v, <1>e, <1>4 DEF S!Forget, S!Move, EntryAt, ValAt
  <2>2. QED
    BY <2>1 DEF EntryInv
<1>5. ASSUME NEW p \in Conns, S!Load(p) PROVE EntryInv'
  <2>1. ASSUME NEW q \in Conns PROVE EntryAt(q)'
    <3>1. /\ UNCHANGED <<hosts, cert, certMap, listenerMap, host, file, own>> /\ step[p] = "visit"
          /\ host[p] \in HostIds /\ file[p] \in Certs
      BY <1>f, <1>5 DEF S!Load, S!Move
    <3>2. CASE q = p /\ step'[p] = "make"
      <4>1. certMap[host[p]] = S!None
        BY <1>5, <3>2 DEF S!Load, S!Move
      <4>2. QED
        BY <3>1, <3>2, <4>1 DEF EntryAt
    <3>3. CASE q = p /\ step'[p] = "take"
      <4>1. certMap[host[p]] = file[p]
        BY <1>5, <3>3 DEF S!Load, S!Move
      <4>2. ASSUME NEW r \in Conns PROVE ~(step[r] = "forget" /\ own[r] = host[p])
        BY <1>v, <3>1 DEF ValAt
      <4>3. ASSUME NEW r \in Conns, step[r] \in {"store", "storeCert"}, host[r] = host[p]
            PROVE  file[r] = file[p]
        BY <3>1, <4>3
      <4>4. listenerMap[file[p]] # 0
        <5>1. LeadsToListener(host[p]) /\ certMap[host[p]] # S!None
          <6>1. LeadsToListener(host[p])
            BY <1>m, <3>1
          <6>2. QED
            BY <1>0, <3>1, <4>1, <6>1
        <5>2. QED
          BY <4>1, <4>2, <4>3, <5>1 DEF LeadsToListener
      <4>5. QED
        BY <3>1, <3>3, <4>1, <4>4 DEF EntryAt
    <3>4. CASE q = p /\ step'[p] = "remake"
      BY <3>4 DEF EntryAt
    <3>5. CASE q # p
      <4>1. step'[q] = step[q]
        BY <1>5, <3>5 DEF S!Load, S!Move
      <4>2. QED
        BY <1>e, <3>1, <4>1 DEF EntryAt
    <3>6. step'[p] \in {"remake", "make", "take"}
      BY <1>5 DEF S!Load, S!Move
    <3>7. QED
      BY <3>2, <3>3, <3>4, <3>5, <3>6
  <2>2. QED
    BY <2>1 DEF EntryInv
<1>6. ASSUME NEW p \in Conns, S!Take(p) PROVE EntryInv'
  <2>1. ASSUME NEW q \in Conns PROVE EntryAt(q)'
    BY <1>0, <1>f, <1>v, <1>e, <1>6 DEF S!Take, S!Move, EntryAt, ValAt
  <2>2. QED
    BY <2>1 DEF EntryInv
<1>7. ASSUME NEW p \in Conns, S!Make(p) PROVE EntryInv'
  <2>1. ASSUME NEW q \in Conns PROVE EntryAt(q)'
    BY <1>0, <1>f, <1>v, <1>e, <1>7 DEF S!Make, S!Move, EntryAt, ValAt
  <2>2. QED
    BY <2>1 DEF EntryInv
<1>8. ASSUME NEW p \in Conns, S!Replace(p) PROVE EntryInv'
  <2>1. ASSUME NEW q \in Conns PROVE EntryAt(q)'
    <3>1. /\ UNCHANGED <<hosts, cert, certMap, host, file, own>> /\ step[p] = "replace"
          /\ step' = [step EXCEPT ![p] = "store"]
          /\ listenerMap' = [listenerMap EXCEPT ![val[p]] = 0]
      BY <1>8 DEF S!Replace, S!Move, S!Dropped
    <3>2. /\ val[p] \in Certs /\ val[p] # file[p] /\ certMap[host[p]] \in {val[p], file[p]}
          /\ host[p] \in HostIds /\ \A h \in HostIds : Holds(h, val[p]) => h = host[p]
      BY <1>f, <1>v, <3>1 DEF ValAt
    <3>3. \A d \in Certs : listenerMap'[d] = IF d = val[p] THEN 0 ELSE listenerMap[d]
      BY <3>1
    <3>4. CASE q = p
      <4>1. certMap[host[p]] = file[p] \/ listenerMap'[certMap[host[p]]] = 0
        BY <3>2, <3>3
      <4>2. step'[p] = "store"
        BY <3>1
      <4>3. QED
        BY <3>1, <3>4, <4>1, <4>2 DEF EntryAt
    <3>5. CASE q # p
      <4>1. step'[q] = step[q]
        BY <3>1, <3>5
      <4>2. ASSUME step[q] # "idle" PROVE file[q] \in Certs /\ host[q] \in HostIds /\ file[q] # val[p]
        <5>1. host[q] \in HostIds /\ file[q] \in Certs /\ Holds(host[q], file[q])
          BY <1>f, <4>2
        <5>2. host[q] = host[p] => file[q] = file[p]
          BY <3>1, <4>2
        <5>3. QED
          BY <3>2, <5>1, <5>2
      <4>3. step[q] # "idle" /\ certMap[host[q]] # S!None => certMap[host[q]] \in Certs
        BY <1>f
      <4>4. QED
        BY <1>e, <3>1, <3>3, <4>1, <4>2, <4>3 DEF EntryAt
    <3>6. QED
      BY <3>4, <3>5
  <2>2. QED
    BY <2>1 DEF EntryInv
<1>9. ASSUME NEW p \in Conns, S!StoreListener(p) PROVE EntryInv'
  <2>1. ASSUME NEW q \in Conns PROVE EntryAt(q)'
    <3>1. /\ UNCHANGED <<hosts, cert, certMap, host, file, val, own>> /\ step[p] = "store"
          /\ step' = [step EXCEPT ![p] = "storeCert"]
          /\ listenerMap' = [listenerMap EXCEPT ![file[p]] = own[p]]
      BY <1>9 DEF S!StoreListener, S!Move
    <3>2. host[p] \in HostIds /\ file[p] \in Certs /\ own[p] # 0 /\ Holds(host[p], file[p])
      BY <1>f, <3>1
    <3>3. \A d \in Certs : listenerMap'[d] = IF d = file[p] THEN own[p] ELSE listenerMap[d]
      BY <3>1, <3>2
    <3>4. step[q] # "idle" => file[q] \in Certs /\ host[q] \in HostIds
      BY <1>f
    <3>5. ASSUME step[q] # "idle", certMap[host[q]] = file[p] PROVE file[q] = file[p]
      <4>1. Holds(host[q], file[p]) /\ host[q] \in HostIds
        <5>1. host[q] \in HostIds /\ certMap[host[q]] # S!None
          BY <1>0, <3>2, <3>4, <3>5
        <5>2. Holds(host[q], certMap[host[q]])
          BY <1>f, <5>1
        <5>3. QED
          BY <3>5, <5>1, <5>2
      <4>2. host[q] = host[p]
        BY <1>f, <3>2, <4>1
      <4>3. QED
        BY <3>1, <3>5, <4>2
    <3>6. step[q] # "idle" /\ certMap[host[q]] # S!None => certMap[host[q]] \in Certs
      BY <1>f
    <3>7. EntryAt(q)
      BY <1>e
    <3>8. step'[q] = step[q] \/ (step[q] = "store" /\ step'[q] = "storeCert" /\ q = p)
      BY <3>1
    <3>9. QED
      BY <3>1, <3>2, <3>3, <3>4, <3>5, <3>6, <3>7, <3>8 DEF EntryAt
  <2>2. QED
    BY <2>1 DEF EntryInv
<1>10. ASSUME NEW p \in Conns, S!StoreCert(p) PROVE EntryInv'
  <2>1. ASSUME NEW q \in Conns PROVE EntryAt(q)'
    BY <1>0, <1>f, <1>v, <1>e, <1>10 DEF S!StoreCert, S!Move, EntryAt, ValAt
  <2>2. QED
    BY <2>1 DEF EntryInv
<1>11. ASSUME NEW p \in Conns, S!Send(p) PROVE EntryInv'
  <2>1. ASSUME NEW q \in Conns PROVE EntryAt(q)'
    BY <1>0, <1>f, <1>v, <1>e, <1>11 DEF S!Send, S!Move, EntryAt, ValAt
  <2>2. QED
    BY <2>1 DEF EntryInv
<1>12. ASSUME NEW l \in 1 .. Len(listeners), S!Serve(l) PROVE EntryInv'
  <2>1. ASSUME NEW q \in Conns PROVE EntryAt(q)'
    BY <1>0, <1>f, <1>v, <1>e, <1>12 DEF S!Serve, EntryAt, ValAt
  <2>2. QED
    BY <2>1 DEF EntryInv
<1>13. ASSUME NEW c \in Certs \cup {S!None}, S!AddHost(c) PROVE EntryInv'
  <2>1. ASSUME NEW q \in Conns PROVE EntryAt(q)'
    BY <1>0, <1>f, <1>v, <1>e, <1>13 DEF S!AddHost, S!Operation, S!Shared, EntryAt, ValAt
  <2>2. QED
    BY <2>1 DEF EntryInv
<1>14. ASSUME NEW h \in HostIds, NEW c \in Certs \cup {S!None}, S!EditHost(h, c) PROVE EntryInv'
  <2>1. ASSUME NEW q \in Conns PROVE EntryAt(q)'
    BY <1>0, <1>f, <1>v, <1>e, <1>14 DEF S!EditHost, S!Operation, S!Serving, S!Shared, EntryAt, ValAt
  <2>2. QED
    BY <2>1 DEF EntryInv
<1>15. ASSUME NEW h \in HostIds, S!DelHost(h) PROVE EntryInv'
  <2>1. ASSUME NEW q \in Conns PROVE EntryAt(q)'
    BY <1>0, <1>f, <1>v, <1>e, <1>15 DEF S!DelHost, S!Operation, S!Serving, EntryAt, ValAt
  <2>2. QED
    BY <2>1 DEF EntryInv
<1>16. CASE UNCHANGED S!vars
  <2>1. ASSUME NEW q \in Conns PROVE EntryAt(q)'
    BY <1>0, <1>f, <1>v, <1>e, <1>16 DEF S!vars, EntryAt, ValAt
  <2>2. QED
    BY <2>1 DEF EntryInv
<1>17. QED
  BY <1>1, <1>2, <1>3, <1>4, <1>5, <1>6, <1>7, <1>8, <1>9, <1>10, <1>11, <1>12, <1>13, <1>14, <1>15, <1>16 DEF S!Next

\* A step that entangles nothing keeps the agreement of the maps.
LEMMA HttpsMaps ==
    ASSUME HostInv, ListenerInv, ~tangled, ~tangled', HolderInv, ValInv, EntryInv, MapInv, [S!Next]_(S!vars)
    PROVE  MapInv'
<1> USE DEF HolderInv, HostInv, ListenerInv, S!database, S!maps, S!hist
<1>0. /\ \A h \in HostIds : h \in Nat /\ h # 0
      /\ S!None \notin Certs
  BY HostsAssumption
<1>f. /\ \A p \in Conns : step[p] # "idle" =>
            host[p] \in HostIds /\ file[p] \in Certs /\ Holds(host[p], file[p])
      /\ \A h \in HostIds : certMap[h] # S!None => certMap[h] \in Certs /\ Holds(h, certMap[h])
      /\ \A g, h \in HostIds, c \in Certs : Holds(g, c) /\ Holds(h, c) => g = h
  BY HolderFacts
<1>v. \A p \in Conns : ValAt(p)
  BY DEF ValInv
<1>e. \A p \in Conns : EntryAt(p)
  BY DEF EntryInv
<1>m. running /\ (\A h \in HostIds : LeadsToListener(h)) /\ \A c \in Certs : KnownOfHost(c)
  BY DEF MapInv
<1>1. ASSUME NEW p \in Conns, NEW h \in HostIds, S!Accept(p, h) PROVE MapInv'
  <2>1. ASSUME NEW k \in HostIds PROVE LeadsToListener(k)'
    BY <1>0, <1>f, <1>v, <1>e, <1>m, <1>1 DEF S!Accept, S!Move, S!Found, LeadsToListener, ValAt, EntryAt
  <2>2. ASSUME NEW d \in Certs PROVE KnownOfHost(d)'
    BY <1>0, <1>f, <1>v, <1>e, <1>m, <1>1 DEF S!Accept, S!Move, S!Found, KnownOfHost, ValAt, EntryAt
  <2>3. running'
    BY <1>0, <1>f, <1>v, <1>e, <1>m, <1>1 DEF S!Accept, S!Move, S!Found, EntryAt
  <2>4. QED
    BY <2>1, <2>2, <2>3 DEF MapInv
<1>2. ASSUME NEW p \in Conns, NEW g \in HostIds, S!Visit(p, g) PROVE MapInv'
  <2>1. ASSUME NEW k \in HostIds PROVE LeadsToListener(k)'
    <3>1. UNCHANGED <<listenerMap, certMap, host, file>> /\ step[p] = "visit"
      BY <1>2 DEF S!Visit, S!Move
    <3>2. \A q \in Conns : q # p => step'[q] = step[q] /\ own'[q] = own[q]
      BY <1>2 DEF S!Visit, S!Move
    <3>3. LeadsToListener(k)
      BY <1>m
    <3>4. QED
      BY <3>1, <3>2, <3>3 DEF LeadsToListener
  <2>2. ASSUME NEW d \in Certs PROVE KnownOfHost(d)'
    <3>1. /\ UNCHANGED <<certMap, file>> /\ step[p] = "visit"
          /\ \A e \in Certs : listenerMap'[e] # 0 => listenerMap[e] # 0
      BY <1>2 DEF S!Visit, S!Move
    <3>2. \A q \in Conns : q # p => step'[q] = step[q]
      BY <1>2 DEF S!Visit, S!Move
    <3>3. KnownOfHost(d)
      BY <1>m
    <3>4. QED
      BY <3>1, <3>2, <3>3 DEF KnownOfHost
  <2>3. running'
    BY <1>0, <1>f, <1>v, <1>e, <1>m, <1>2 DEF S!Visit, S!Move, EntryAt
  <2>4. QED
    BY <2>1, <2>2, <2>3 DEF MapInv
<1>3. ASSUME NEW p \in Conns, S!Drop(p) PROVE MapInv'
  <2>1. ASSUME NEW k \in HostIds PROVE LeadsToListener(k)'
    <3>1. /\ UNCHANGED <<certMap, host, file, own>> /\ step[p] = "drop"
          /\ step' = [step EXCEPT ![p] = "forget"]
          /\ listenerMap' = [listenerMap EXCEPT ![val[p]] = 0]
      BY <1>3 DEF S!Drop, S!Move, S!Dropped
    <3>2. \A q \in Conns : step[q] \in {"forget", "store", "storeCert"} => step'[q] = step[q]
      BY <3>1
    <3>3. step'[p] = "forget"
      BY <3>1
    <3>4. CASE certMap[k] = val[p]
      <4>1. k = own[p]
        <5>1. val[p] \in Certs /\ \A h \in HostIds : Holds(h, val[p]) => h = own[p]
          BY <1>v, <3>1 DEF ValAt
        <5>2. Holds(k, certMap[k])
          BY <1>0, <1>f, <3>4, <5>1
        <5>3. QED
          BY <3>4, <5>1, <5>2
      <4>2. QED
        BY <3>1, <3>3, <4>1 DEF LeadsToListener
    <3>5. CASE certMap[k] = S!None
      BY <3>1, <3>5 DEF LeadsToListener
    <3>6. CASE certMap[k] \notin {val[p], S!None}
      <4>1. certMap[k] \in Certs /\ listenerMap'[certMap[k]] = listenerMap[certMap[k]]
        BY <1>f, <3>1, <3>6
      <4>2. LeadsToListener(k)
        BY <1>m
      <4>3. QED
        BY <3>1, <3>2, <4>1, <4>2 DEF LeadsToListener
    <3>7. QED
      BY <3>4, <3>5, <3>6
  <2>2. ASSUME NEW d \in Certs PROVE KnownOfHost(d)'
    <3>1. /\ UNCHANGED <<certMap, file>> /\ step[p] = "drop"
          /\ \A e \in Certs : listenerMap'[e] # 0 => listenerMap[e] # 0
      BY <1>3 DEF S!Drop, S!Move, S!Dropped
    <3>2. \A q \in Conns : q # p => step'[q] = step[q]
      BY <1>3 DEF S!Drop, S!Move
    <3>3. KnownOfHost(d)
      BY <1>m
    <3>4. QED
      BY <3>1, <3>2, <3>3 DEF KnownOfHost
  <2>3. running'
    BY <1>0, <1>f, <1>v, <1>e, <1>m, <1>3 DEF S!Drop, S!Move, S!Dropped, EntryAt
  <2>4. QED
    BY <2>1, <2>2, <2>3 DEF MapInv
<1>4. ASSUME NEW p \in Conns, S!Forget(p) PROVE MapInv'
  <2>1. ASSUME NEW k \in HostIds PROVE LeadsToListener(k)'
    <3>1. /\ UNCHANGED <<listenerMap, host, file>> /\ step[p] = "forget" /\ own[p] \in HostIds
          /\ certMap' = [certMap EXCEPT ![own[p]] = S!None]
      BY <1>4 DEF S!Forget, S!Move
    <3>2. \A q \in Conns : q # p => step'[q] = step[q] /\ own'[q] = own[q]
      BY <1>4 DEF S!Forget, S!Move
    <3>3. CASE k = own[p]
      BY <3>1, <3>3 DEF LeadsToListener
    <3>4. CASE k # own[p]
      <4>1. certMap'[k] = certMap[k]
        BY <3>1, <3>4
      <4>2. LeadsToListener(k)
        BY <1>m
      <4>3. QED
        BY <3>1, <3>2, <3>4, <4>1, <4>2 DEF LeadsToListener
    <3>5. QED
      BY <3>3, <3>4
  <2>2. ASSUME NEW d \in Certs PROVE KnownOfHost(d)'
    <3>1. /\ UNCHANGED <<listenerMap, file>> /\ step[p] = "forget" /\ own[p] \in HostIds
          /\ certMap' = [certMap EXCEPT ![own[p]] = S!None]
          /\ certMap[own[p]] \in {S!None, val[p]} /\ listenerMap[val[p]] = 0
      BY <1>v, <1>4 DEF S!Forget, S!Move, ValAt
    <3>2. \A q \in Conns : q # p => step'[q] = step[q]
      BY <1>4 DEF S!Forget, S!Move
    <3>3. KnownOfHost(d)
      BY <1>m
    <3>4. ASSUME NEW h \in HostIds, certMap[h] = d, listenerMap[d] # 0 PROVE certMap'[h] = d
      <4>1. h # own[p]
        BY <1>0, <3>1, <3>4
      <4>2. QED
        BY <3>1, <3>4, <4>1
    <3>5. QED
      BY <3>1, <3>2, <3>3, <3>4 DEF KnownOfHost
  <2>3. running'
    BY <1>0, <1>f, <1>v, <1>e, <1>m, <1>4 DEF S!Forget, S!Move, EntryAt
  <2>4. QED
    BY <2>1, <2>2, <2>3 DEF MapInv
<1>5. ASSUME NEW p \in Conns, S!Load(p) PROVE MapInv'
  <2>1. ASSUME NEW k \in HostIds PROVE LeadsToListener(k)'
    <3>1. UNCHANGED <<listenerMap, certMap, host, file, own>> /\ step[p] = "visit"
      BY <1>5 DEF S!Load, S!Move
    <3>2. \A q \in Conns : q # p => step'[q] = step[q]
      BY <1>5 DEF S!Load, S!Move
    <3>3. LeadsToListener(k)
      BY <1>m
    <3>4. QED
      BY <3>1, <3>2, <3>3 DEF LeadsToListener
  <2>2. ASSUME NEW d \in Certs PROVE KnownOfHost(d)'
    <3>1. UNCHANGED <<listenerMap, certMap, file>> /\ step[p] = "visit"
      BY <1>5 DEF S!Load, S!Move
    <3>2. \A q \in Conns : q # p => step'[q] = step[q]
      BY <1>5 DEF S!Load, S!Move
    <3>3. KnownOfHost(d)
      BY <1>m
    <3>4. QED
      BY <3>1, <3>2, <3>3 DEF KnownOfHost
  <2>3. running'
    BY <1>0, <1>f, <1>v, <1>e, <1>m, <1>5 DEF S!Load, S!Move, EntryAt
  <2>4. QED
    BY <2>1, <2>2, <2>3 DEF MapInv
<1>6. ASSUME NEW p \in Conns, S!Take(p) PROVE MapInv'
  <2>1. ASSUME NEW k \in HostIds PROVE LeadsToListener(k)'
    BY <1>0, <1>f, <1>v, <1>e, <1>m, <1>6 DEF S!Take, S!Move, LeadsToListener, ValAt, EntryAt
  <2>2. ASSUME NEW d \in Certs PROVE KnownOfHost(d)'
    BY <1>0, <1>f, <1>v, <1>e, <1>m, <1>6 DEF S!Take, S!Move, KnownOfHost, ValAt, EntryAt
  <2>3. running'
    BY <1>0, <1>f, <1>v, <1>e, <1>m, <1>6 DEF S!Take, S!Move, EntryAt
  <2>4. QED
    BY <2>1, <2>2, <2>3 DEF MapInv
<1>7. ASSUME NEW p \in Conns, S!Make(p) PROVE MapInv'
  <2>1. ASSUME NEW k \in HostIds PROVE LeadsToListener(k)'
    <3>1. UNCHANGED <<listenerMap, certMap, host, file>> /\ step[p] \in {"make", "remake"}
      BY <1>7 DEF S!Make, S!Move
    <3>2. \A q \in Conns : q # p => step'[q] = step[q] /\ own'[q] = own[q]
      BY <1>7 DEF S!Make, S!Move
    <3>3. LeadsToListener(k)
      BY <1>m
    <3>4. QED
      BY <3>1, <3>2, <3>3 DEF LeadsToListener
  <2>2. ASSUME NEW d \in Certs PROVE KnownOfHost(d)'
    <3>1. UNCHANGED <<listenerMap, certMap, file>> /\ step[p] # "storeCert"
      BY <1>7 DEF S!Make, S!Move
    <3>2. \A q \in Conns : q # p => step'[q] = step[q]
      BY <1>7 DEF S!Make, S!Move
    <3>3. KnownOfHost(d)
      BY <1>m
    <3>4. QED
      BY <3>1, <3>2, <3>3 DEF KnownOfHost
  <2>3. running'
    BY <1>0, <1>f, <1>v, <1>e, <1>m, <1>7 DEF S!Make, S!Move, EntryAt
  <2>4. QED
    BY <2>1, <2>2, <2>3 DEF MapInv
<1>8. ASSUME NEW p \in Conns, S!Replace(p) PROVE MapInv'
  <2>1. ASSUME NEW k \in HostIds PROVE LeadsToListener(k)'
    <3>1. /\ UNCHANGED <<certMap, host, file, own>> /\ step[p] = "replace"
          /\ step' = [step EXCEPT ![p] = "store"]
          /\ listenerMap' = [listenerMap EXCEPT ![val[p]] = 0]
      BY <1>8 DEF S!Replace, S!Move, S!Dropped
    <3>2. \A q \in Conns : step[q] \in {"forget", "store", "storeCert"} => step'[q] = step[q]
      BY <3>1
    <3>3. step'[p] = "store" /\ val[p] \in Certs /\ val[p] # file[p]
      BY <3>1
    <3>4. CASE certMap[k] = val[p]
      <4>1. k = host[p]
        BY <1>f, <1>v, <1>0, <3>1, <3>3, <3>4 DEF ValAt
      <4>2. QED
        BY <3>1, <3>3, <3>4, <4>1 DEF LeadsToListener
    <3>5. CASE certMap[k] = S!None
      BY <3>1, <3>5 DEF LeadsToListener
    <3>6. CASE certMap[k] \notin {val[p], S!None}
      <4>1. certMap[k] \in Certs /\ listenerMap'[certMap[k]] = listenerMap[certMap[k]]
        BY <1>f, <3>1, <3>6
      <4>2. LeadsToListener(k)
        BY <1>m
      <4>3. QED
        BY <3>1, <3>2, <4>1, <4>2 DEF LeadsToListener
    <3>7. QED
      BY <3>4, <3>5, <3>6
  <2>2. ASSUME NEW d \in Certs PROVE KnownOfHost(d)'
    <3>1. UNCHANGED <<certMap, file>> /\ step[p] = "replace" /\ listenerMap' = [listenerMap EXCEPT ![val[p]] = 0]
      BY <1>8 DEF S!Replace, S!Move, S!Dropped
    <3>2. \A q \in Conns : q # p => step'[q] = step[q]
      BY <1>8 DEF S!Replace, S!Move
    <3>3. KnownOfHost(d) /\ (listenerMap'[d] # 0 => listenerMap[d] # 0)
      BY <1>m, <3>1
    <3>4. QED
      BY <3>1, <3>2, <3>3 DEF KnownOfHost
  <2>3. running'
    BY <1>0, <1>f, <1>v, <1>e, <1>m, <1>8 DEF S!Replace, S!Move, S!Dropped, EntryAt
  <2>4. QED
    BY <2>1, <2>2, <2>3 DEF MapInv
<1>9. ASSUME NEW p \in Conns, S!StoreListener(p) PROVE MapInv'
  <2>1. ASSUME NEW k \in HostIds PROVE LeadsToListener(k)'
    <3>1. /\ UNCHANGED <<certMap, host, file, own>> /\ step[p] = "store" /\ file[p] \in Certs
          /\ own[p] # 0 /\ step' = [step EXCEPT ![p] = "storeCert"]
          /\ listenerMap' = [listenerMap EXCEPT ![file[p]] = own[p]]
      BY <1>9 DEF S!StoreListener, S!Move
    <3>2. /\ \A q \in Conns : step[q] = "forget" => step'[q] = "forget"
          /\ \A q \in Conns : step[q] \in {"store", "storeCert"} => step'[q] \in {"store", "storeCert"}
      BY <3>1
    <3>3. certMap[k] # S!None => certMap[k] \in Certs
      BY <1>f
    <3>4. certMap[k] # S!None /\ listenerMap[certMap[k]] # 0 => listenerMap'[certMap[k]] # 0
      BY <3>1, <3>3
    <3>5. LeadsToListener(k)
      BY <1>m
    <3>6. QED
      BY <3>1, <3>2, <3>4, <3>5 DEF LeadsToListener
  <2>2. ASSUME NEW d \in Certs PROVE KnownOfHost(d)'
    <3>1. /\ UNCHANGED <<certMap, file>> /\ step[p] = "store" /\ file[p] \in Certs
          /\ step' = [step EXCEPT ![p] = "storeCert"]
          /\ listenerMap' = [listenerMap EXCEPT ![file[p]] = own[p]]
      BY <1>9 DEF S!StoreListener, S!Move
    <3>2. step'[p] = "storeCert" /\ \A q \in Conns : step[q] = "storeCert" => step'[q] = "storeCert"
      BY <3>1
    <3>3. CASE d = file[p]
      BY <3>1, <3>2, <3>3 DEF KnownOfHost
    <3>4. CASE d # file[p]
      <4>1. KnownOfHost(d) /\ listenerMap'[d] = listenerMap[d]
        BY <1>m, <3>1, <3>4
      <4>2. QED
        BY <3>1, <3>2, <4>1 DEF KnownOfHost
    <3>5. QED
      BY <3>3, <3>4
  <2>3. running'
    BY <1>0, <1>f, <1>v, <1>e, <1>m, <1>9 DEF S!StoreListener, S!Move, EntryAt
  <2>4. QED
    BY <2>1, <2>2, <2>3 DEF MapInv
<1>10. ASSUME NEW p \in Conns, S!StoreCert(p) PROVE MapInv'
  <2>1. ASSUME NEW k \in HostIds PROVE LeadsToListener(k)'
    <3>1. /\ UNCHANGED <<listenerMap, host, file, own>> /\ step[p] = "storeCert"
          /\ host[p] \in HostIds /\ file[p] \in Certs /\ listenerMap[file[p]] # 0
          /\ certMap' = [certMap EXCEPT ![host[p]] = file[p]]
      BY <1>e, <1>10 DEF S!StoreCert, S!Move, EntryAt
    <3>2. \A q \in Conns : q # p => step'[q] = step[q]
      BY <1>10 DEF S!StoreCert, S!Move
    <3>3. CASE k = host[p]
      BY <3>1, <3>3 DEF LeadsToListener
    <3>4. CASE k # host[p]
      <4>1. certMap'[k] = certMap[k]
        BY <3>1, <3>4
      <4>2. LeadsToListener(k)
        BY <1>m
      <4>3. QED
        BY <3>1, <3>2, <3>4, <4>1, <4>2 DEF LeadsToListener
    <3>5. QED
      BY <3>3, <3>4
  <2>2. ASSUME NEW d \in Certs PROVE KnownOfHost(d)'
    <3>1. /\ UNCHANGED <<listenerMap, host, file>> /\ step[p] = "storeCert"
          /\ host[p] \in HostIds /\ file[p] \in Certs
          /\ certMap[host[p]] \in {S!None, file[p]} \/ listenerMap[certMap[host[p]]] = 0
          /\ certMap' = [certMap EXCEPT ![host[p]] = file[p]]
      BY <1>e, <1>10 DEF S!StoreCert, S!Move, EntryAt
    <3>2. \A q \in Conns : q # p => step'[q] = step[q]
      BY <1>10 DEF S!StoreCert, S!Move
    <3>3. KnownOfHost(d)
      BY <1>m
    <3>4. CASE d = file[p]
      <4>1. certMap'[host[p]] = d
        BY <3>1, <3>4
      <4>2. QED
        BY <3>1, <4>1 DEF KnownOfHost
    <3>5. CASE d # file[p] /\ listenerMap[d] # 0
      <4>1. ASSUME NEW h \in HostIds, certMap[h] = d PROVE certMap'[h] = d
        <5>1. h # host[p]
          BY <1>0, <3>1, <3>5, <4>1
        <5>2. QED
          BY <3>1, <4>1, <5>1
      <4>2. \A q \in Conns : step[q] = "storeCert" /\ file[q] = d => step'[q] = "storeCert" /\ file'[q] = d
        BY <3>1, <3>2, <3>5
      <4>3. QED
        BY <3>1, <3>3, <4>1, <4>2 DEF KnownOfHost
    <3>6. CASE listenerMap[d] = 0
      BY <3>1, <3>6 DEF KnownOfHost
    <3>7. QED
      BY <3>4, <3>5, <3>6
  <2>3. running'
    BY <1>0, <1>f, <1>v, <1>e, <1>m, <1>10 DEF S!StoreCert, S!Move, EntryAt
  <2>4. QED
    BY <2>1, <2>2, <2>3 DEF MapInv
<1>11. ASSUME NEW p \in Conns, S!Send(p) PROVE MapInv'
  <2>1. ASSUME NEW k \in HostIds PROVE LeadsToListener(k)'
    BY <1>0, <1>f, <1>v, <1>e, <1>m, <1>11 DEF S!Send, S!Move, LeadsToListener, ValAt, EntryAt
  <2>2. ASSUME NEW d \in Certs PROVE KnownOfHost(d)'
    BY <1>0, <1>f, <1>v, <1>e, <1>m, <1>11 DEF S!Send, S!Move, KnownOfHost, ValAt, EntryAt
  <2>3. running'
    BY <1>0, <1>f, <1>v, <1>e, <1>m, <1>11 DEF S!Send, S!Move, EntryAt
  <2>4. QED
    BY <2>1, <2>2, <2>3 DEF MapInv
<1>12. ASSUME NEW l \in 1 .. Len(listeners), S!Serve(l) PROVE MapInv'
  <2>1. ASSUME NEW k \in HostIds PROVE LeadsToListener(k)'
    BY <1>0, <1>f, <1>v, <1>e, <1>m, <1>12 DEF S!Serve, LeadsToListener, ValAt, EntryAt
  <2>2. ASSUME NEW d \in Certs PROVE KnownOfHost(d)'
    BY <1>0, <1>f, <1>v, <1>e, <1>m, <1>12 DEF S!Serve, KnownOfHost, ValAt, EntryAt
  <2>3. running'
    BY <1>0, <1>f, <1>v, <1>e, <1>m, <1>12 DEF S!Serve, EntryAt
  <2>4. QED
    BY <2>1, <2>2, <2>3 DEF MapInv
<1>13. ASSUME NEW c \in Certs \cup {S!None}, S!AddHost(c) PROVE MapInv'
  <2>1. ASSUME NEW k \in HostIds PROVE LeadsToListener(k)'
    BY <1>0, <1>f, <1>v, <1>e, <1>m, <1>13 DEF S!AddHost, S!Operation, S!Shared, LeadsToListener, ValAt, EntryAt
  <2>2. ASSUME NEW d \in Certs PROVE KnownOfHost(d)'
    BY <1>0, <1>f, <1>v, <1>e, <1>m, <1>13 DEF S!AddHost, S!Operation, S!Shared, KnownOfHost, ValAt, EntryAt
  <2>3. running'
    BY <1>0, <1>f, <1>v, <1>e, <1>m, <1>13 DEF S!AddHost, S!Operation, S!Shared, EntryAt
  <2>4. QED
    BY <2>1, <2>2, <2>3 DEF MapInv
<1>14. ASSUME NEW h \in HostIds, NEW c \in Certs \cup {S!None}, S!EditHost(h, c) PROVE MapInv'
  <2>1. ASSUME NEW k \in HostIds PROVE LeadsToListener(k)'
    BY <1>0, <1>f, <1>v, <1>e, <1>m, <1>14 DEF S!EditHost, S!Operation, S!Serving, S!Shared, LeadsToListener, ValAt, EntryAt
  <2>2. ASSUME NEW d \in Certs PROVE KnownOfHost(d)'
    BY <1>0, <1>f, <1>v, <1>e, <1>m, <1>14 DEF S!EditHost, S!Operation, S!Serving, S!Shared, KnownOfHost, ValAt, EntryAt
  <2>3. running'
    BY <1>0, <1>f, <1>v, <1>e, <1>m, <1>14 DEF S!EditHost, S!Operation, S!Serving, S!Shared, EntryAt
  <2>4. QED
    BY <2>1, <2>2, <2>3 DEF MapInv
<1>15. ASSUME NEW h \in HostIds, S!DelHost(h) PROVE MapInv'
  <2>1. ASSUME NEW k \in HostIds PROVE LeadsToListener(k)'
    BY <1>0, <1>f, <1>v, <1>e, <1>m, <1>15 DEF S!DelHost, S!Operation, S!Serving, LeadsToListener, ValAt, EntryAt
  <2>2. ASSUME NEW d \in Certs PROVE KnownOfHost(d)'
    BY <1>0, <1>f, <1>v, <1>e, <1>m, <1>15 DEF S!DelHost, S!Operation, S!Serving, KnownOfHost, ValAt, EntryAt
  <2>3. running'
    BY <1>0, <1>f, <1>v, <1>e, <1>m, <1>15 DEF S!DelHost, S!Operation, S!Serving, EntryAt
  <2>4. QED
    BY <2>1, <2>2, <2>3 DEF MapInv
<1>16. CASE UNCHANGED S!vars
  <2>1. ASSUME NEW k \in HostIds PROVE LeadsToListener(k)'
    BY <1>0, <1>f, <1>v, <1>e, <1>m, <1>16 DEF S!vars, LeadsToListener, ValAt, EntryAt
  <2>2. ASSUME NEW d \in Certs PROVE KnownOfHost(d)'
    BY <1>0, <1>f, <1>v, <1>e, <1>m, <1>16 DEF S!vars, KnownOfHost, ValAt, EntryAt
  <2>3. running'
    BY <1>0, <1>f, <1>v, <1>e, <1>m, <1>16 DEF S!vars, EntryAt
  <2>4. QED
    BY <2>1, <2>2, <2>3 DEF MapInv
<1>17. QED
  BY <1>1, <1>2, <1>3, <1>4, <1>5, <1>6, <1>7, <1>8, <1>9, <1>10, <1>11, <1>12, <1>13, <1>14, <1>15, <1>16 DEF S!Next

\* The first state.
LEMMA HttpsInit == S!Init => HttpsInv
<1> SUFFICES ASSUME S!Init PROVE HttpsInv
  OBVIOUS
<1>1. /\ \A h \in HostIds : h \in Nat /\ h # 0
      /\ S!None \notin Certs
  BY HostsAssumption
<1>2. HostInv
  <2>1. listeners = <<>> /\ Len(listeners) = 0
    BY DEF S!Init
  <2>2. listeners \in Seq([cert : Certs, server : {"starts", "accepts", "ended"}])
    BY <2>1
  <2>3. listenerMap \in [Certs -> 0 .. Len(listeners)]
    BY <2>1 DEF S!Init
  <2>4. /\ lastHost \in Nat /\ lastHost \in HostIds \cup {0} /\ hosts \subseteq 1 .. lastHost
        /\ cert \in [HostIds -> Certs \cup {S!None}] /\ certMap \in [HostIds -> Certs \cup {S!None}]
        /\ \A h \in HostIds : certMap[h] = S!None
    BY DEF S!Init
  <2>5. /\ host \in [Conns -> HostIds \cup {0}] /\ \A p \in Conns : host[p] <= lastHost
        /\ step \in [Conns -> {"idle", "visit", "drop", "forget", "make", "take", "remake", "replace",
                               "store", "storeCert", "send"}]
    BY DEF S!Init
  <2>6. /\ file \in [Conns -> Certs \cup {S!None}] /\ val \in [Conns -> Certs \cup {S!None}]
        /\ own \in [Conns -> Nat] /\ todo \in [Conns -> SUBSET HostIds]
        /\ running \in BOOLEAN /\ tangled \in BOOLEAN
    BY DEF S!Init
  <2>7. QED
    BY <2>2, <2>3, <2>4, <2>5, <2>6 DEF HostInv
<1>3. ListenerInv
  BY DEF S!Init, ListenerInv
<1>4. HolderInv
  BY <1>1 DEF S!Init, HolderInv, Holds
<1>5. ValInv /\ EntryInv
  BY DEF S!Init, ValInv, ValAt, EntryInv, EntryAt
<1>6. MapInv
  BY DEF S!Init, MapInv, LeadsToListener, KnownOfHost
<1>7. QED
  BY <1>2, <1>3, <1>4, <1>5, <1>6 DEF HttpsInv

\* The invariant holds in every behaviour.
THEOREM HttpsInvariant == Spec => [](part = "https" => HttpsInv)
<1>1. Init => (part = "https" => HttpsInv)
  BY HttpsInit DEF Init
<1>2. (part = "https" => HttpsInv) /\ [Next]_vars => (part = "https" => HttpsInv)'
  <2> SUFFICES ASSUME part = "https" => HttpsInv, [Next]_vars, part' = "https"
               PROVE  HttpsInv'
    OBVIOUS
  <2>1. part = "https" /\ [S!Next]_(S!vars)
    BY DEF Next, vars, S!vars, S!database, S!maps, S!hist
  <2>2. HostInv' /\ ListenerInv'
    BY <2>1, HttpsTypes, HttpsListeners DEF HttpsInv
  <2>3. ASSUME ~tangled' PROVE HolderInv' /\ ValInv' /\ EntryInv' /\ MapInv'
    <3>1. /\ HostInv /\ ListenerInv /\ ~tangled
          /\ HolderInv /\ ValInv /\ EntryInv /\ MapInv
      BY <2>1, <2>3, HttpsTangles DEF HttpsInv
    <3>2. QED
      BY <2>1, <2>3, <3>1, HttpsHolders, HttpsValues, HttpsEntries, HttpsMaps
  <2>4. QED
    BY <2>2, <2>3 DEF HttpsInv
<1>3. QED
  BY <1>1, <1>2, PTL DEF Spec

\* The certificates of the HTTPS proxy: a connection is handed to a listener of the
\* certificate its host had when it came; and, as long as no two hosts have the same
\* certificate and no host is changed under a connection, no goroutine panics and the two
\* maps agree whenever no goroutine is between its changes of them.
THEOREM HttpsIsSound == Spec => []HttpsSound
<1>1. HttpsInv => S!HttpsSound
  <2> SUFFICES ASSUME HttpsInv PROVE S!HttpsSound
    OBVIOUS
  <2>1. S!TypeOK
    <3>1. HostInv
      BY DEF HttpsInv
    <3>2. QED
      BY <3>1 DEF HostInv, S!TypeOK
  <2>2. S!OwnCertificate
    BY DEF HttpsInv, ListenerInv, S!OwnCertificate
  <2>3. S!MapsAgree
    <3>1. ASSUME ~tangled, NEW h \in HostIds, certMap[h] # S!None,
                 \A p \in Conns : step[p] \in {"idle", "send"}
          PROVE  listenerMap[certMap[h]] # 0
      <4>1. LeadsToListener(h)
        BY <3>1 DEF HttpsInv, MapInv
      <4>2. QED
        BY <3>1, <4>1 DEF LeadsToListener
    <3>2. ASSUME ~tangled, NEW c \in Certs, listenerMap[c] # 0,
                 \A p \in Conns : step[p] \in {"idle", "send"}
          PROVE  \E h \in HostIds : certMap[h] = c
      <4>1. KnownOfHost(c)
        BY <3>2 DEF HttpsInv, MapInv
      <4>2. QED
        BY <3>2, <4>1 DEF KnownOfHost
    <3>3. ~tangled => running
      BY DEF HttpsInv, MapInv
    <3>4. QED
      BY <3>1, <3>2, <3>3 DEF S!MapsAgree
  <2>4. QED
    BY <2>1, <2>2, <2>3 DEF S!HttpsSound
<1>2. QED
  <2>1. (part = "https" => HttpsInv) => HttpsSound
    BY <1>1 DEF HttpsSound
  <2>2. QED
    BY <2>1, HttpsInvariant, PTL

-----------------------------------------------------------------------------
(* Health: what npc counts and what nps lists, through what is on its way. *)

\* Health
hup == v1
hfails == v3
check == v4
results == v5
chan == v6
applied == v7
arr == v8
removeArr == v9
halive == v12

USE DEF hup, hfails, check, results, chan, applied, arr, removeArr, halive

\* What each variable may be.
Names(o) == H!Checked \cup H!ToSet(TargetStr[o])
Word == [target : H!Checked, healthy : BOOLEAN]
WordInv ==
    /\ hup \in BOOLEAN /\ halive \in BOOLEAN
    /\ hfails \in [H!Checked -> Nat] /\ results \in 0 .. MaxResults
    /\ check \in [Checkers -> [at : 0 .. Len(Targets), result : {"none", "ok", "failed"}]]
    /\ chan \in Seq(Word)
    /\ \/ applied = H!NoMessage
       \/ applied \in [target : H!Checked, healthy : BOOLEAN, todo : SUBSET Sharers]
    /\ ~hup => chan = <<>> /\ applied = H!NoMessage
    /\ arr = [o \in Sharers |-> arr[o]]
    /\ removeArr \in [Sharers -> Seq(H!Checked)]

\* A list names a target at most once, and what was taken out of it is remembered.
Listing(o) == IF arr[o] = H!Nil THEN TargetStr[o] ELSE arr[o]
Once(s) == \A i, j \in 1 .. Len(s) : s[i] = s[j] => i = j
ListAt(o) ==
    /\ arr[o] = H!Nil \/ arr[o] \in Seq(Names(o))
    /\ arr[o] = H!Nil => removeArr[o] = <<>>
    /\ Once(Listing(o))
    /\ \A i \in 1 .. Len(TargetStr[o]) :
          \/ H!Contains(Listing(o), TargetStr[o][i])
          \/ H!Contains(removeArr[o], TargetStr[o][i])
ListInv == \A o \in Sharers : ListAt(o)

\* Each failure that is counted was a result.
Failing == {g \in Checkers : check[g].result = "failed"}
FailInv == \A v \in H!Checked : Cardinality(Failing) + hfails[v] <= results

\* The last that is said of a target is how npc counts it.
Healthy(v) == hfails[v] < MaxFail
Unsaid(v) == \A i \in 1 .. Len(chan) : chan[i].target # v
SaidInv ==
    hup => \A i \in 1 .. Len(chan) :
              (\A j \in 1 .. Len(chan) : j > i => chan[j].target # chan[i].target) =>
                  (chan[i].healthy <=> Healthy(chan[i].target))

\* When nothing more is to be said, the message being applied or the list agrees.
AgreeAt(o, v) ==
    hup /\ Unsaid(v) =>
        /\ applied.target = v /\ o \in applied.todo => (applied.healthy <=> Healthy(v))
        /\ ~(applied.target = v /\ o \in applied.todo) =>
              (H!Contains(Listing(o), v) <=> Healthy(v))
AgreeInv ==
    \A o \in Sharers : \A v \in H!Checked \cap H!ToSet(TargetStr[o]) : AgreeAt(o, v)

HealthInv == WordInv /\ ListInv /\ FailInv /\ SaidInv /\ AgreeInv

-----------------------------------------------------------------------------
(* Sequences and numbers.                                                  *)

\* A set of numbers has a least one.
LEMMA LeastExists ==
    ASSUME NEW I \in SUBSET Nat, I # {}
    PROVE  \E x \in I : \A y \in I : x <= y
<1> DEFINE Less == {ss \in Nat \X Nat : ss[1] < ss[2]}
<1>1. IsWellFoundedOn(Less, Nat)
  BY NatLessThanWellFounded DEF OpToRel
<1>2. PICK x \in I : \A y \in I : ~(<<y, x>> \in Less)
  <2> HIDE DEF Less
  <2>1. QED
    BY <1>1, WFMin
<1>3. \A y \in I : ~(y < x)
  BY <1>2
<1>4. QED
  BY <1>3

\* RemoveFirst takes out one entry, or there is none.
LEMMA RemoveFirstAt ==
    ASSUME NEW D, NEW s \in Seq(D), NEW e
    PROVE  \/ H!RemoveFirst(s, e) = s /\ ~H!Contains(s, e)
           \/ \E k \in 1 .. Len(s) : s[k] = e /\ H!RemoveFirst(s, e) = H!RemoveAt(s, k)
<1>1. CASE ~H!Contains(s, e)
  BY <1>1 DEF H!RemoveFirst, H!Contains
<1>2. CASE H!Contains(s, e)
  <2> DEFINE I == {i \in 1 .. Len(s) : s[i] = e}
  <2>1. I # {} /\ I \in SUBSET Nat
    BY <1>2 DEF H!Contains
  <2>2. H!Min(I) \in I
    <3> HIDE DEF I
    <3>1. \E x \in I : \A y \in I : x <= y
      BY <2>1, LeastExists
    <3>2. QED
      BY <3>1 DEF H!Min
  <2>3. H!RemoveFirst(s, e) = H!RemoveAt(s, H!Min(I))
    BY <1>2, <2>1 DEF H!RemoveFirst, H!SelectInSeq, H!Contains
  <2>4. QED
    BY <2>2, <2>3
<1>3. QED
  BY <1>1, <1>2

LEMMA RemoveAtEntries ==
    ASSUME NEW D, NEW s \in Seq(D), NEW k \in 1 .. Len(s)
    PROVE  /\ H!RemoveAt(s, k) \in Seq(D) /\ Len(H!RemoveAt(s, k)) = Len(s) - 1
           /\ \A i \in 1 .. Len(s) - 1 :
                 H!RemoveAt(s, k)[i] = IF i < k THEN s[i] ELSE s[i + 1]
<1> DEFINE a == SubSeq(s, 1, k - 1)
           b == SubSeq(s, k + 1, Len(s))
<1>1. Len(s) \in Nat /\ \A i \in 1 .. Len(s) : s[i] \in D
  OBVIOUS
<1>2. a \in Seq(D) /\ Len(a) = k - 1 /\ \A i \in 1 .. k - 1 : a[i] = s[i]
  BY <1>1
<1>3. b \in Seq(D) /\ Len(b) = Len(s) - k /\ \A i \in 1 .. Len(s) - k : b[i] = s[k + i]
  BY <1>1
<1>4. /\ a \o b \in Seq(D) /\ Len(a \o b) = Len(s) - 1
      /\ \A i \in 1 .. Len(s) - 1 : (a \o b)[i] = IF i < k THEN s[i] ELSE s[i + 1]
  <2> HIDE DEF a, b
  <2>1. /\ a \o b \in Seq(D) /\ Len(a \o b) = Len(s) - 1
        /\ \A i \in 1 .. Len(s) - 1 : (a \o b)[i] = IF i <= k - 1 THEN a[i] ELSE b[i - (k - 1)]
    BY <1>1, <1>2, <1>3, ConcatProperties
  <2>2. ASSUME NEW i \in 1 .. Len(s) - 1
        PROVE  (a \o b)[i] = IF i < k THEN s[i] ELSE s[i + 1]
    <3>1. CASE i < k
      BY <1>1, <1>2, <2>1, <3>1
    <3>2. CASE i >= k
      <4>1. i - (k - 1) \in 1 .. Len(s) - k /\ k + (i - (k - 1)) = i + 1
        BY <1>1, <3>2
      <4>2. QED
        BY <1>1, <1>3, <2>1, <3>2, <4>1
    <3>3. i < k \/ i >= k
      BY <1>1
    <3>4. QED
      BY <3>1, <3>2, <3>3
  <2>3. QED
    BY <2>1, <2>2
<1>5. QED
  BY <1>4 DEF H!RemoveAt

\* What is left of a list when a target is taken out of it.
LEMMA RemoveFirstFacts ==
    ASSUME NEW D, NEW s \in Seq(D), NEW e
    PROVE  /\ H!RemoveFirst(s, e) \in Seq(D)
           /\ \A d \in D : d # e => (H!Contains(H!RemoveFirst(s, e), d) <=> H!Contains(s, d))
           /\ Once(s) => Once(H!RemoveFirst(s, e)) /\ ~H!Contains(H!RemoveFirst(s, e), e)
<1>1. CASE H!RemoveFirst(s, e) = s /\ ~H!Contains(s, e)
  BY <1>1
<1>2. CASE \E k \in 1 .. Len(s) : s[k] = e /\ H!RemoveFirst(s, e) = H!RemoveAt(s, k)
  <2>1. PICK k \in 1 .. Len(s) : s[k] = e /\ H!RemoveFirst(s, e) = H!RemoveAt(s, k)
    BY <1>2
  <2> DEFINE r == H!RemoveAt(s, k)
  <2>2. /\ r \in Seq(D) /\ Len(r) = Len(s) - 1 /\ Len(s) \in Nat
        /\ \A i \in 1 .. Len(s) - 1 : r[i] = IF i < k THEN s[i] ELSE s[i + 1]
    BY RemoveAtEntries
  <2> HIDE DEF r
  <2>3. ASSUME NEW d \in D, d # e PROVE H!Contains(r, d) <=> H!Contains(s, d)
    <3>1. ASSUME NEW i \in 1 .. Len(r), r[i] = d PROVE H!Contains(s, d)
      <4>1. i \in 1 .. Len(s) /\ i + 1 \in 1 .. Len(s)
        BY <2>2
      <4>2. s[i] = d \/ s[i + 1] = d
        BY <2>2, <3>1
      <4>3. QED
        BY <4>1, <4>2 DEF H!Contains
    <3>2. ASSUME NEW i \in 1 .. Len(s), s[i] = d PROVE H!Contains(r, d)
      <4>1. i # k
        BY <2>1, <2>3, <3>2
      <4>2. CASE i < k
        <5>1. i \in 1 .. Len(r) /\ r[i] = d
          BY <2>2, <3>2, <4>2
        <5>2. QED
          BY <5>1 DEF H!Contains
      <4>3. CASE i > k
        <5>1. i - 1 \in 1 .. Len(r) /\ r[i - 1] = d
          BY <2>2, <3>2, <4>3
        <5>2. QED
          BY <5>1 DEF H!Contains
      <4>4. QED
        BY <4>1, <4>2, <4>3
    <3>3. QED
      BY <3>1, <3>2 DEF H!Contains
  <2>4. ASSUME Once(s) PROVE Once(r) /\ ~H!Contains(r, e)
    <3>1. \A i \in 1 .. Len(r) : \E p \in 1 .. Len(s) :
             r[i] = s[p] /\ p = (IF i < k THEN i ELSE i + 1)
      BY <2>2
    <3>2. Once(r)
      BY <2>2, <2>4, <3>1 DEF Once
    <3>3. ~H!Contains(r, e)
      BY <2>1, <2>2, <2>4, <3>1 DEF Once, H!Contains
    <3>4. QED
      BY <3>2, <3>3
  <2>5. QED
    BY <2>1, <2>2, <2>3, <2>4 DEF r
<1>3. QED
  BY <1>1, <1>2, RemoveFirstAt

LEMMA AppendFacts ==
    ASSUME NEW D, NEW s \in Seq(D), NEW e \in D
    PROVE  /\ Append(s, e) \in Seq(D)
           /\ \A d : H!Contains(Append(s, e), d) <=> H!Contains(s, d) \/ d = e
           /\ Once(s) /\ ~H!Contains(s, e) => Once(Append(s, e))
<1>1. /\ Append(s, e) \in Seq(D) /\ Len(Append(s, e)) = Len(s) + 1 /\ Len(s) \in Nat
      /\ \A i \in 1 .. Len(s) : Append(s, e)[i] = s[i]
      /\ Append(s, e)[Len(s) + 1] = e
  OBVIOUS
<1>2. ASSUME NEW d PROVE H!Contains(Append(s, e), d) <=> H!Contains(s, d) \/ d = e
  BY <1>1 DEF H!Contains
<1>3. ASSUME Once(s), ~H!Contains(s, e) PROVE Once(Append(s, e))
  BY <1>1, <1>3 DEF Once, H!Contains
<1>4. QED
  BY <1>1, <1>2, <1>3

LEMMA Multiples ==
    ASSUME NEW m \in Nat \ {0}, NEW n \in Nat
    PROVE  (n > 0 /\ n % m = 0 => n >= m) /\ m % m = 0
  OBVIOUS

-----------------------------------------------------------------------------
\* What the targets of a task or host are.
LEMMA TargetFacts ==
    ASSUME NEW o \in Sharers
    PROVE  /\ TargetStr[o] \in Seq(Names(o)) /\ Once(TargetStr[o])
           /\ H!Checked \subseteq Names(o) /\ H!Nil \notin Seq(Names(o))
           /\ \A i \in 1 .. Len(TargetStr[o]) : TargetStr[o][i] \in Within[o]
           /\ \A v : v \in H!ToSet(TargetStr[o]) <=> \E i \in 1 .. Len(TargetStr[o]) : TargetStr[o][i] = v
<1>1. /\ TargetStr[o] \in Seq(STRING \ {"nil"}) /\ Targets \in Seq(STRING \ {"nil"})
      /\ \A i, j \in 1 .. Len(TargetStr[o]) : TargetStr[o][i] = TargetStr[o][j] => i = j
      /\ \A i \in 1 .. Len(TargetStr[o]) : TargetStr[o][i] \in Within[o]
  BY HealthAssumption
<1>2. /\ Len(TargetStr[o]) \in Nat /\ DOMAIN TargetStr[o] = 1 .. Len(TargetStr[o])
      /\ TargetStr[o] \in [1 .. Len(TargetStr[o]) -> STRING \ {"nil"}]
  BY <1>1, LenProperties
<1>3. \A v : v \in H!ToSet(TargetStr[o]) <=> \E i \in 1 .. Len(TargetStr[o]) : TargetStr[o][i] = v
  BY <1>2 DEF H!ToSet
<1>4. TargetStr[o] \in Seq(Names(o))
  <2>1. TargetStr[o] \in [1 .. Len(TargetStr[o]) -> Names(o)]
    BY <1>2, <1>3 DEF Names
  <2>2. QED
    BY <1>2, <2>1, SeqDef
<1>5. "nil" \notin Names(o)
  <2>1. "nil" \notin H!ToSet(TargetStr[o])
    BY <1>1, <1>3
  <2>2. "nil" \notin H!Checked
    BY <1>1 DEF H!Checked
  <2>3. QED
    BY <2>1, <2>2 DEF Names
<1>6. H!Nil \notin Seq(Names(o))
  BY <1>5 DEF H!Nil
<1>7. QED
  BY <1>1, <1>3, <1>4, <1>6 DEF Once, Names

\* The list is not made anew from TargetStr once something was taken out of it.
LEMMA ListedIsListing ==
    ASSUME WordInv, NEW o \in Sharers, ListAt(o)
    PROVE  /\ H!Listed(o) = Listing(o) /\ Listing(o) \in Seq(Names(o))
           /\ removeArr[o] \in Seq(H!Checked)
<1>1. TargetStr[o] \in Seq(Names(o)) /\ removeArr[o] \in Seq(H!Checked)
  BY TargetFacts DEF WordInv
<1>2. Listing(o) \in Seq(Names(o))
  BY <1>1 DEF ListAt, Listing
<1>3. CASE arr[o] # H!Nil /\ arr[o] = <<>> /\ removeArr[o] = <<>>
  <2>1. /\ Listing(o) = <<>>
        /\ ~(\E v : H!Contains(<<>>, v))
    BY <1>3 DEF Listing, H!Contains
  <2>2. Len(TargetStr[o]) = 0
    BY <1>1, <1>3, <2>1 DEF ListAt
  <2>3. TargetStr[o] = <<>>
    BY <1>1, <2>2
  <2>4. QED
    BY <1>1, <1>3, <2>1, <2>3 DEF H!Listed
<1>4. CASE ~(arr[o] # H!Nil /\ arr[o] = <<>> /\ removeArr[o] = <<>>)
  BY <1>1, <1>2, <1>4 DEF H!Listed, Listing
<1>5. QED
  BY <1>1, <1>2, <1>3, <1>4

\* A target that is down is in the list no longer; nothing else changes in it.
LEMMA TakenOut ==
    ASSUME WordInv, ListInv, NEW o \in Sharers, H!TakeOut(o)
    PROVE  /\ ListAt(o)' /\ removeArr'[o] \in Seq(H!Checked)
           /\ \A v \in Names(o) : v # applied.target =>
                 (H!Contains(Listing(o)', v) <=> H!Contains(Listing(o), v))
           /\ applied.target \in H!ToSet(TargetStr[o]) => ~H!Contains(Listing(o)', applied.target)
<1> DEFINE u == applied.target
           s == Listing(o)
           r == H!RemoveFirst(s, u)
<1>1. /\ ListAt(o) /\ H!Listed(o) = s /\ s \in Seq(Names(o)) /\ removeArr[o] \in Seq(H!Checked)
  BY ListedIsListing DEF ListInv
<1>2. u \in H!Checked /\ o \in DOMAIN arr /\ o \in DOMAIN removeArr
  BY DEF WordInv, H!TakeOut, H!NoMessage
<1>3. /\ TargetStr[o] \in Seq(Names(o)) /\ Once(TargetStr[o])
      /\ H!Checked \subseteq Names(o) /\ H!Nil \notin Seq(Names(o))
      /\ \A i \in 1 .. Len(TargetStr[o]) : TargetStr[o][i] \in Within[o]
      /\ \A v : v \in H!ToSet(TargetStr[o]) <=> \E i \in 1 .. Len(TargetStr[o]) : TargetStr[o][i] = v
  BY TargetFacts
<1>4. CASE u \in Within[o]
  <2>1. /\ r \in Seq(Names(o))
        /\ \A v \in Names(o) : v # u => (H!Contains(r, v) <=> H!Contains(s, v))
        /\ Once(r) /\ ~H!Contains(r, u)
    <3>1. Once(s)
      BY <1>1 DEF ListAt
    <3> HIDE DEF s
    <3>2. QED
      BY <1>1, <3>1, RemoveFirstFacts
  <2>2. arr'[o] = r /\ removeArr'[o] = Append(removeArr[o], u)
    BY <1>1, <1>2, <1>4 DEF H!TakeOut
  <2>3. Listing(o)' = r /\ arr'[o] # H!Nil
    BY <1>3, <2>1, <2>2 DEF Listing
  <2>4. /\ removeArr'[o] \in Seq(H!Checked)
        /\ \A d : H!Contains(removeArr'[o], d) <=> H!Contains(removeArr[o], d) \/ d = u
    BY <1>1, <1>2, <2>2, AppendFacts
  <2>5. ASSUME NEW i \in 1 .. Len(TargetStr[o])
        PROVE  \/ H!Contains(Listing(o)', TargetStr[o][i])
               \/ H!Contains(removeArr'[o], TargetStr[o][i])
    <3>1. TargetStr[o][i] \in Names(o)
      BY <1>3
    <3>2. H!Contains(s, TargetStr[o][i]) \/ H!Contains(removeArr[o], TargetStr[o][i])
      BY <1>1 DEF ListAt
    <3> HIDE DEF s, r
    <3>3. QED
      BY <2>1, <2>3, <2>4, <3>1, <3>2
  <2>6. ListAt(o)'
    BY <2>1, <2>2, <2>3, <2>5 DEF ListAt
  <2> HIDE DEF s, r
  <2>7. QED
    BY <2>1, <2>3, <2>4, <2>6 DEF s
<1>5. CASE u \notin Within[o]
  <2>1. UNCHANGED <<arr, removeArr>>
    BY <1>5 DEF H!TakeOut, H!lists
  <2>2. ListAt(o)' /\ Listing(o)' = Listing(o)
    BY <1>1, <2>1 DEF ListAt, Listing
  <2>3. QED
    BY <1>1, <1>3, <1>5, <2>1, <2>2
<1>6. QED
  BY <1>4, <1>5

\* A target that is back is in the list again, once; nothing else changes in it.
LEMMA IsPutBack ==
    ASSUME WordInv, ListInv, NEW o \in Sharers, H!PutBack(o)
    PROVE  /\ ListAt(o)' /\ removeArr'[o] \in Seq(H!Checked)
           /\ \A v \in Names(o) : v # applied.target =>
                 (H!Contains(Listing(o)', v) <=> H!Contains(Listing(o), v))
           /\ applied.target \in H!ToSet(TargetStr[o]) => H!Contains(Listing(o)', applied.target)
<1> DEFINE u == applied.target
           s == Listing(o)
           r == H!RemoveFirst(removeArr[o], u)
<1>1. /\ ListAt(o) /\ s \in Seq(Names(o)) /\ removeArr[o] \in Seq(H!Checked)
  BY ListedIsListing DEF ListInv
<1>2. u \in H!Checked /\ o \in DOMAIN arr /\ o \in DOMAIN removeArr
  BY DEF WordInv, H!PutBack, H!NoMessage
<1>3. /\ TargetStr[o] \in Seq(Names(o)) /\ Once(TargetStr[o])
      /\ H!Checked \subseteq Names(o) /\ H!Nil \notin Seq(Names(o))
      /\ \A v : v \in H!ToSet(TargetStr[o]) <=> \E i \in 1 .. Len(TargetStr[o]) : TargetStr[o][i] = v
  BY TargetFacts
<1>4. CASE H!Contains(removeArr[o], u) /\ (arr[o] = H!Nil \/ ~H!Contains(arr[o], u))
  <2>0. arr[o] # H!Nil /\ s = arr[o] /\ ~H!Contains(s, u)
    <3>1. removeArr[o] # <<>>
      BY <1>4 DEF H!Contains
    <3>2. arr[o] # H!Nil
      BY <1>1, <3>1 DEF ListAt
    <3>3. QED
      BY <1>4, <3>2 DEF Listing
  <2>1. /\ Append(s, u) \in Seq(Names(o)) /\ Once(Append(s, u))
        /\ \A d : H!Contains(Append(s, u), d) <=> H!Contains(s, d) \/ d = u
    <3>1. Once(s) /\ u \in Names(o)
      BY <1>1, <1>2, <1>3 DEF ListAt
    <3> HIDE DEF s, u
    <3>2. QED
      BY <1>1, <2>0, <3>1, AppendFacts
  <2>2. arr'[o] = Append(s, u) /\ removeArr'[o] = r
    BY <1>2, <1>4, <2>0 DEF H!PutBack
  <2>3. Listing(o)' = Append(s, u) /\ arr'[o] # H!Nil
    BY <1>3, <2>1, <2>2 DEF Listing
  <2>4. /\ removeArr'[o] \in Seq(H!Checked)
        /\ \A d \in H!Checked : d # u => (H!Contains(r, d) <=> H!Contains(removeArr[o], d))
    BY <1>1, <2>2, RemoveFirstFacts
  <2>5. ASSUME NEW i \in 1 .. Len(TargetStr[o])
        PROVE  \/ H!Contains(Listing(o)', TargetStr[o][i])
               \/ H!Contains(removeArr'[o], TargetStr[o][i])
    <3>1. H!Contains(s, TargetStr[o][i]) \/ H!Contains(removeArr[o], TargetStr[o][i])
      BY <1>1 DEF ListAt
    <3>2. H!Contains(removeArr[o], TargetStr[o][i]) => TargetStr[o][i] \in H!Checked
      BY <1>1 DEF H!Contains
    <3> HIDE DEF s, r
    <3>3. QED
      BY <2>1, <2>2, <2>3, <2>4, <3>1, <3>2
  <2>6. ListAt(o)'
    BY <2>1, <2>2, <2>3, <2>5 DEF ListAt
  <2> HIDE DEF s, r, u
  <2>7. QED
    BY <2>1, <2>3, <2>4, <2>6 DEF s, u
<1>5. CASE ~(H!Contains(removeArr[o], u) /\ (arr[o] = H!Nil \/ ~H!Contains(arr[o], u)))
  <2>1. UNCHANGED <<arr, removeArr>>
    BY <1>5 DEF H!PutBack, H!lists
  <2>2. ListAt(o)' /\ Listing(o)' = Listing(o)
    BY <1>1, <2>1 DEF ListAt, Listing
  <2>3. ASSUME u \in H!ToSet(TargetStr[o]) PROVE H!Contains(s, u)
    <3>1. H!Contains(s, u) \/ H!Contains(removeArr[o], u)
      BY <1>1, <1>3, <2>3 DEF ListAt
    <3>2. arr[o] # H!Nil => s = arr[o]
      BY DEF Listing
    <3>3. QED
      BY <1>5, <3>1, <3>2
  <2>4. QED
    BY <1>1, <2>1, <2>2, <2>3
<1>6. QED
  BY <1>4, <1>5

\* A message says what npc counts from now on, and none is missing.
LEMMA ReportSays ==
    ASSUME WordInv, NEW g \in Checkers, H!Report(g)
    PROVE  \E v \in H!Checked :
              /\ hfails' = [hfails EXCEPT ![v] = hfails'[v]] /\ hfails'[v] \in Nat
              /\ hfails'[v] <= hfails[v] + (IF check[g].result = "failed" THEN 1 ELSE 0)
              /\ hup => \/ chan' = chan /\ (Healthy(v)' <=> Healthy(v))
                        \/ chan' = Append(chan, [target |-> v, healthy |-> Healthy(v)'])
              /\ ~hup => chan' = chan
<1> DEFINE i == check[g].at
           w == Targets[i]
           back == check[g].result = "ok" /\ hfails[w] >= MaxFail
           n == IF check[g].result = "failed" THEN hfails[w] + 1 ELSE IF back THEN 0 ELSE hfails[w]
           Up == IF back THEN H!Say(w, TRUE) ELSE <<>>
           Down == IF n > 0 /\ n % MaxFail = 0 THEN H!Say(w, FALSE) ELSE <<>>
<1>1. PICK v \in H!Checked : v = w
  BY DEF H!Report, WordInv, H!Checked
<1>2. MaxFail \in Nat \ {0} /\ hfails[v] \in Nat
  BY HealthAssumption DEF WordInv
<1>3. n \in Nat /\ n <= hfails[v] + (IF check[g].result = "failed" THEN 1 ELSE 0)
  BY <1>1, <1>2
<1>4. /\ hfails' = [hfails EXCEPT ![v] = n] /\ hfails'[v] = n
      /\ chan' = IF hup THEN chan \o (Up \o Down) ELSE chan
      /\ check[g].result \in {"ok", "failed"}
  BY <1>1 DEF H!Report, WordInv, H!Send
<1>5. /\ n > 0 /\ n % MaxFail = 0 => n >= MaxFail
      /\ MaxFail % MaxFail = 0
  BY <1>2, <1>3, Multiples
<1>6. chan \in Seq(Word)
  BY DEF WordInv
<1>7. CASE back
  <2>1. n = 0
    BY <1>1, <1>7
  <2>2. Up = <<[target |-> v, healthy |-> TRUE]>> /\ Down = <<>>
    <3>1. Down = <<>>
      <4> HIDE DEF n
      <4>1. QED
        BY <2>1
    <3>2. QED
      BY <1>1, <1>7, <3>1 DEF H!Say
  <2> HIDE DEF Up, Down, n, back
  <2>3. Healthy(v)'
    BY <1>2, <1>4, <2>1 DEF Healthy
  <2>4. hup => chan' = Append(chan, [target |-> v, healthy |-> TRUE])
    <3>1. hup => chan' = chan \o <<[target |-> v, healthy |-> TRUE]>>
      BY <1>4, <2>2
    <3>2. QED
      BY <1>1, <1>6, <3>1, AppendIsConcat DEF Word
  <2>5. hup => chan' = Append(chan, [target |-> v, healthy |-> Healthy(v)'])
    <3>1. Healthy(v)' = TRUE
      BY <2>3 DEF Healthy
    <3>2. QED
      BY <2>4, <3>1
  <2>6. QED
    BY <1>3, <1>4, <2>5
<1>8. CASE ~back /\ n > 0 /\ n % MaxFail = 0
  <2>1. Up = <<>> /\ Down = <<[target |-> v, healthy |-> FALSE]>>
    BY <1>1, <1>8 DEF H!Say
  <2> HIDE DEF Up, Down, n, back
  <2>2. ~Healthy(v)'
    BY <1>2, <1>3, <1>4, <1>5, <1>8 DEF Healthy
  <2>3. hup => chan' = Append(chan, [target |-> v, healthy |-> FALSE])
    <3>1. hup => chan' = chan \o <<[target |-> v, healthy |-> FALSE]>>
      BY <1>4, <2>1
    <3>2. QED
      BY <1>1, <1>6, <3>1, AppendIsConcat DEF Word
  <2>4. hup => chan' = Append(chan, [target |-> v, healthy |-> Healthy(v)'])
    <3>1. Healthy(v)' = FALSE
      BY <2>2 DEF Healthy
    <3>2. QED
      BY <2>3, <3>1
  <2>5. QED
    BY <1>3, <1>4, <2>4
<1>9. CASE ~back /\ ~(n > 0 /\ n % MaxFail = 0)
  <2>1. Up = <<>> /\ Down = <<>>
    BY <1>9
  <2>2. n # MaxFail /\ (n = hfails[v] + 1 \/ n = hfails[v])
    BY <1>1, <1>2, <1>5, <1>9
  <2> HIDE DEF Up, Down, n, back
  <2>3. chan' = chan
    BY <1>4, <1>6, <2>1
  <2>4. Healthy(v)' <=> Healthy(v)
    BY <1>2, <1>3, <1>4, <2>2 DEF Healthy
  <2>5. QED
    BY <1>3, <1>4, <2>3, <2>4
<1>10. QED
  BY <1>7, <1>8, <1>9

-----------------------------------------------------------------------------
\* Every step keeps the types.
LEMMA HealthTypes ==
    ASSUME WordInv, ListInv, FailInv, [H!Next]_(H!vars)
    PROVE  WordInv'
<1> DEFINE Result == [at : 0 .. Len(Targets), result : {"none", "ok", "failed"}]
<1>0. MaxResults \in Nat /\ Len(Targets) \in Nat \ {0}
  BY HealthAssumption
<1>1. ASSUME NEW g \in Checkers, H!BeginCheck(g) PROVE WordInv'
  <2>1. check' \in [Checkers -> Result]
    <3>1. 1 \in 0 .. Len(Targets)
      BY <1>0
    <3>2. QED
      BY <1>1, <3>1 DEF H!BeginCheck, WordInv
  <2>2. QED
    BY <1>1, <2>1 DEF H!BeginCheck, WordInv, H!lists
<1>2. ASSUME NEW g \in Checkers, NEW r \in {"ok", "failed"}, H!Dial(g, r) PROVE WordInv'
  <2>1. check' \in [Checkers -> Result]
    BY <1>2 DEF H!Dial, WordInv
  <2>2. results' \in 0 .. MaxResults
    BY <1>0, <1>2 DEF H!Dial, WordInv
  <2>3. QED
    BY <1>2, <2>1, <2>2 DEF H!Dial, WordInv, H!lists
<1>3. ASSUME NEW g \in Checkers, H!Report(g) PROVE WordInv'
  <2>1. check' \in [Checkers -> Result]
    <3>1. [at |-> IF check[g].at < Len(Targets) THEN check[g].at + 1 ELSE 0, result |-> "none"] \in Result
      BY <1>0 DEF WordInv
    <3>2. check' = [check EXCEPT ![g] = [at |-> IF check[g].at < Len(Targets) THEN check[g].at + 1 ELSE 0,
                                         result |-> "none"]]
      BY <1>3 DEF H!Report
    <3>3. check \in [Checkers -> Result]
      BY DEF WordInv
    <3> HIDE DEF Result
    <3>4. QED
      BY <3>1, <3>2, <3>3
  <2>2. hfails' \in [H!Checked -> Nat] /\ chan' \in Seq(Word) /\ (~hup => chan' = chan)
    <3>1. PICK v \in H!Checked :
              /\ hfails' = [hfails EXCEPT ![v] = hfails'[v]] /\ hfails'[v] \in Nat
              /\ hup => \/ chan' = chan /\ (Healthy(v)' <=> Healthy(v))
                        \/ chan' = Append(chan, [target |-> v, healthy |-> Healthy(v)'])
              /\ ~hup => chan' = chan
      BY <1>3, ReportSays
    <3>2. hfails' \in [H!Checked -> Nat]
      BY <3>1 DEF WordInv
    <3>3. [target |-> v, healthy |-> Healthy(v)'] \in Word
      BY DEF Word, Healthy
    <3>4. chan \in Seq(Word)
      BY DEF WordInv
    <3>5. chan' = chan \/ chan' = Append(chan, [target |-> v, healthy |-> Healthy(v)'])
      BY <3>1
    <3>6. chan' \in Seq(Word)
      <4> HIDE DEF Healthy
      <4>1. QED
        BY <3>3, <3>4, <3>5, AppendProperties
    <3>7. QED
      BY <3>1, <3>2, <3>6
  <2>3. QED
    BY <1>3, <2>1, <2>2 DEF H!Report, WordInv, H!lists
<1>4. ASSUME H!GetHealthInfo PROVE WordInv'
  <2>1. chan' \in Seq(Word) /\ Head(chan) \in Word
    BY <1>4 DEF H!GetHealthInfo, WordInv
  <2>2. applied' \in [target : H!Checked, healthy : BOOLEAN, todo : SUBSET Sharers]
    BY <1>4, <2>1 DEF H!GetHealthInfo, Word
  <2>3. QED
    BY <1>4, <2>1, <2>2 DEF H!GetHealthInfo, WordInv, H!client, H!lists
<1>5. ASSUME NEW o \in Sharers, H!TakeOut(o) \/ H!PutBack(o) PROVE WordInv'
  <2>1. /\ arr' = [p \in Sharers |-> arr'[p]] /\ removeArr' = [removeArr EXCEPT ![o] = removeArr'[o]]
        /\ hup /\ applied # H!NoMessage
    BY <1>5 DEF H!TakeOut, H!PutBack, WordInv, H!lists, H!NoMessage
  <2>2. removeArr'[o] \in Seq(H!Checked)
    BY <1>5, TakenOut, IsPutBack
  <2>3. \/ applied' = H!NoMessage
        \/ applied' \in [target : H!Checked, healthy : BOOLEAN, todo : SUBSET Sharers]
    <3>1. \/ applied' = H!NoMessage
          \/ applied' = [applied EXCEPT !.todo = @ \ {o}]
      BY <1>5 DEF H!TakeOut, H!PutBack, H!Done
    <3>2. applied \in [target : H!Checked, healthy : BOOLEAN, todo : SUBSET Sharers]
      BY <2>1 DEF WordInv
    <3>3. QED
      BY <3>1, <3>2
  <2>4. removeArr' \in [Sharers -> Seq(H!Checked)]
    BY <2>1, <2>2 DEF WordInv
  <2>5. QED
    BY <1>5, <2>1, <2>3, <2>4 DEF H!TakeOut, H!PutBack, WordInv, H!client
<1>6. ASSUME NEW o \in Sharers, H!Choose(o) PROVE WordInv'
  <2>1. arr' = [p \in Sharers |-> arr'[p]]
    BY <1>6 DEF H!Choose, WordInv
  <2>2. QED
    BY <1>6, <2>1 DEF H!Choose, WordInv, H!client
<1>7. ASSUME NEW o \in Sharers, H!Pick(o) PROVE WordInv'
  <2>1. halive' \in BOOLEAN
    BY <1>7 DEF H!Pick
  <2>2. QED
    BY <1>7, <2>1 DEF H!Pick, WordInv, H!client, H!lists
<1>8. CASE H!SessionEnds
  <2>1. chan' \in Seq(Word)
    BY <1>8 DEF H!SessionEnds
  <2>2. QED
    BY <1>8, <2>1 DEF H!SessionEnds, WordInv, H!client, H!lists
<1>9. CASE H!SessionBegins
  <2>1. /\ hfails' \in [H!Checked -> Nat] /\ arr' = [p \in Sharers |-> arr'[p]]
        /\ removeArr' \in [Sharers -> Seq(H!Checked)]
    BY <1>9 DEF H!SessionBegins
  <2>2. QED
    BY <1>9, <2>1 DEF H!SessionBegins, WordInv
<1>10. CASE UNCHANGED H!vars
  BY <1>10 DEF H!vars, H!client, H!lists, WordInv
<1>11. QED
  BY <1>1, <1>2, <1>3, <1>4, <1>5, <1>6, <1>7, <1>8, <1>9, <1>10 DEF H!Next

\* Every step keeps what is remembered of the lists.
LEMMA HealthLists ==
    ASSUME WordInv, ListInv, [H!Next]_(H!vars)
    PROVE  ListInv'
<1>0. ASSUME UNCHANGED <<arr, removeArr>> PROVE ListInv'
  BY <1>0 DEF ListInv, ListAt, Listing
<1>1. ASSUME NEW g \in Checkers, H!BeginCheck(g) PROVE ListInv'
  BY <1>0, <1>1 DEF H!BeginCheck, H!lists
<1>2. ASSUME NEW g \in Checkers, NEW r \in {"ok", "failed"}, H!Dial(g, r) PROVE ListInv'
  BY <1>0, <1>2 DEF H!Dial, H!lists
<1>3. ASSUME NEW g \in Checkers, H!Report(g) PROVE ListInv'
  BY <1>0, <1>3 DEF H!Report, H!lists
<1>4. ASSUME H!GetHealthInfo PROVE ListInv'
  BY <1>0, <1>4 DEF H!GetHealthInfo, H!lists
<1>5. ASSUME NEW o \in Sharers, H!TakeOut(o) \/ H!PutBack(o) PROVE ListInv'
  <2>1. ListAt(o)'
    BY <1>5, TakenOut, IsPutBack
  <2>2. ASSUME NEW p \in Sharers, p # o PROVE ListAt(p)'
    <3>1. arr'[p] = arr[p] /\ removeArr'[p] = removeArr[p]
      BY <1>5, <2>2 DEF H!TakeOut, H!PutBack, H!lists, WordInv
    <3>2. QED
      BY <3>1 DEF ListInv, ListAt, Listing
  <2>3. QED
    BY <2>1, <2>2 DEF ListInv
<1>6. ASSUME NEW o \in Sharers, H!Choose(o) PROVE ListInv'
  <2>1. ASSUME NEW p \in Sharers PROVE ListAt(p)'
    <3>1. /\ removeArr'[p] = removeArr[p] /\ Listing(p)' = Listing(p)
          /\ arr'[p] = arr[p] \/ (arr'[p] = TargetStr[p] /\ arr[p] = H!Nil)
      BY <1>6 DEF H!Choose, WordInv, Listing
    <3>2. TargetStr[p] \in Seq(Names(p)) /\ H!Nil \notin Seq(Names(p))
      BY TargetFacts
    <3>3. QED
      BY <3>1, <3>2 DEF ListInv, ListAt
  <2>2. QED
    BY <2>1 DEF ListInv
<1>7. ASSUME NEW o \in Sharers, H!Pick(o) PROVE ListInv'
  BY <1>0, <1>7 DEF H!Pick, H!lists
<1>8. CASE H!SessionEnds
  BY <1>0, <1>8 DEF H!SessionEnds, H!lists
<1>9. CASE H!SessionBegins
  <2>1. ASSUME NEW p \in Sharers PROVE ListAt(p)'
    <3>1. arr'[p] = H!Nil /\ removeArr'[p] = <<>> /\ Listing(p)' = TargetStr[p]
      BY <1>9 DEF H!SessionBegins, Listing
    <3>2. Once(TargetStr[p])
      BY TargetFacts
    <3>3. QED
      BY <3>1, <3>2 DEF ListAt, H!Contains
  <2>2. QED
    BY <2>1 DEF ListInv
<1>10. CASE UNCHANGED H!vars
  BY <1>0, <1>10 DEF H!vars, H!lists
<1>11. QED
  BY <1>1, <1>2, <1>3, <1>4, <1>5, <1>6, <1>7, <1>8, <1>9, <1>10 DEF H!Next

\* Every step keeps the count of failures below that of results.
LEMMA HealthFails ==
    ASSUME WordInv, FailInv, [H!Next]_(H!vars)
    PROVE  FailInv'
<1>0. /\ IsFiniteSet(Checkers) /\ Cardinality(Failing) \in Nat /\ results \in Nat
      /\ \A v \in H!Checked : hfails[v] \in Nat /\ Cardinality(Failing) + hfails[v] <= results
      /\ check \in [Checkers -> [at : 0 .. Len(Targets), result : {"none", "ok", "failed"}]]
  <2>1. IsFiniteSet(Failing)
    BY HealthAssumption, FS_Subset DEF Failing
  <2>2. Cardinality(Failing) \in Nat
    BY <2>1, FS_CardinalityType
  <2>3. QED
    BY <2>2, HealthAssumption DEF WordInv, FailInv
<1>a. ASSUME UNCHANGED <<results, hfails>>, \A g \in Checkers : check'[g].result = check[g].result
      PROVE  FailInv'
  <2>1. Failing' = Failing
    BY <1>a DEF Failing
  <2>2. QED
    BY <1>0, <1>a, <2>1 DEF FailInv
<1>1. ASSUME NEW g \in Checkers, H!BeginCheck(g) PROVE FailInv'
  BY <1>0, <1>a, <1>1 DEF H!BeginCheck
<1>2. ASSUME NEW g \in Checkers, NEW r \in {"ok", "failed"}, H!Dial(g, r) PROVE FailInv'
  <2>1. /\ hfails' = hfails /\ results' = results + 1
        /\ \A d \in Checkers \ {g} : check'[d] = check[d]
    BY <1>0, <1>2 DEF H!Dial
  <2>2. g \notin Failing /\ \A d \in Checkers \ {g} : d \in Failing <=> d \in Failing'
    BY <1>2, <2>1 DEF Failing, H!Dial
  <2>3. Cardinality(Failing') \in Nat /\ Cardinality(Failing') <= Cardinality(Failing) + 1
    <3>1. Failing \in SUBSET Checkers /\ Failing' \in SUBSET Checkers
      BY DEF Failing
    <3> HIDE DEF Failing
    <3>2. QED
      BY <1>0, <2>2, <3>1, CardinalityStep
  <2>4. QED
    BY <1>0, <2>1, <2>3 DEF FailInv
<1>3. ASSUME NEW g \in Checkers, H!Report(g) PROVE FailInv'
  <2> DEFINE one == IF check[g].result = "failed" THEN 1 ELSE 0
  <2>1. PICK v \in H!Checked :
            /\ hfails' = [hfails EXCEPT ![v] = hfails'[v]] /\ hfails'[v] \in Nat
            /\ hfails'[v] <= hfails[v] + one
    BY <1>3, ReportSays
  <2>2. /\ results' = results /\ check'[g].result = "none"
        /\ \A d \in Checkers \ {g} : check'[d] = check[d]
    BY <1>0, <1>3 DEF H!Report
  <2>3. g \notin Failing' /\ \A d \in Checkers \ {g} : d \in Failing <=> d \in Failing'
    BY <2>2 DEF Failing
  <2>4. Cardinality(Failing') \in Nat /\ Cardinality(Failing') = Cardinality(Failing) - one
    <3>1. Failing \in SUBSET Checkers /\ Failing' \in SUBSET Checkers
      BY DEF Failing
    <3>2. g \in Failing <=> check[g].result = "failed"
      BY DEF Failing
    <3> HIDE DEF Failing
    <3>3. QED
      BY <1>0, <2>3, <3>1, <3>2, CardinalityStep
  <2>5. ASSUME NEW w \in H!Checked PROVE Cardinality(Failing') + hfails'[w] <= results'
    <3>1. hfails'[w] \in Nat /\ hfails'[w] <= hfails[w] + one
      <4>1. CASE w = v
        BY <2>1, <4>1
      <4>2. CASE w # v
        <5>1. hfails'[w] = hfails[w] /\ hfails[w] \in Nat
          BY <2>1, <4>2 DEF WordInv
        <5>2. one \in Nat
          OBVIOUS
        <5> HIDE DEF one
        <5>3. QED
          BY <5>1, <5>2
      <4>3. QED
        BY <4>1, <4>2
    <3>2. hfails[w] \in Nat /\ Cardinality(Failing) + hfails[w] <= results /\ one \in Nat
      BY <1>0
    <3> HIDE DEF one
    <3>3. QED
      BY <1>0, <2>2, <2>4, <3>1, <3>2
  <2>6. QED
    BY <2>5 DEF FailInv
<1>4. ASSUME H!GetHealthInfo PROVE FailInv'
  BY <1>a, <1>4 DEF H!GetHealthInfo, H!client
<1>5. ASSUME NEW o \in Sharers, H!TakeOut(o) \/ H!PutBack(o) PROVE FailInv'
  BY <1>a, <1>5 DEF H!TakeOut, H!PutBack, H!client
<1>6. ASSUME NEW o \in Sharers, H!Choose(o) \/ H!Pick(o) PROVE FailInv'
  BY <1>a, <1>6 DEF H!Choose, H!Pick, H!client
<1>7. CASE H!SessionEnds
  BY <1>a, <1>7 DEF H!SessionEnds, H!client
<1>8. CASE H!SessionBegins
  <2>1. Failing' = Failing /\ results' = results /\ \A v \in H!Checked : hfails'[v] = 0
    BY <1>8 DEF H!SessionBegins, Failing
  <2>2. QED
    BY <1>0, <2>1 DEF FailInv
<1>9. CASE UNCHANGED H!vars
  BY <1>a, <1>9 DEF H!vars, H!client
<1>10. QED
  BY <1>1, <1>2, <1>3, <1>4, <1>5, <1>6, <1>7, <1>8, <1>9 DEF H!Next

\* What is on its way, and which target it is about.
LEMMA ChanFacts ==
    ASSUME WordInv
    PROVE  /\ chan \in Seq(Word) /\ Len(chan) \in Nat
           /\ \A i \in 1 .. Len(chan) : chan[i] \in Word /\ chan[i].target \in H!Checked
<1>1. chan \in Seq(Word)
  BY DEF WordInv
<1>2. Len(chan) \in Nat /\ \A i \in 1 .. Len(chan) : chan[i] \in Word
  BY <1>1
<1>3. QED
  BY <1>1, <1>2 DEF Word

LEMMA AppendedWord ==
    ASSUME WordInv, NEW w \in Word, chan' = Append(chan, w)
    PROVE  /\ Len(chan') = Len(chan) + 1 /\ chan'[Len(chan) + 1] = w
           /\ \A i \in 1 .. Len(chan) : chan'[i] = chan[i]
           /\ \A v : Unsaid(v)' <=> Unsaid(v) /\ w.target # v
<1>1. /\ Len(chan') = Len(chan) + 1 /\ chan'[Len(chan) + 1] = w /\ Len(chan) \in Nat
      /\ \A i \in 1 .. Len(chan) : chan'[i] = chan[i]
  BY DEF WordInv
<1>2. ASSUME NEW v PROVE Unsaid(v)' <=> Unsaid(v) /\ w.target # v
  BY <1>1 DEF Unsaid
<1>3. QED
  BY <1>1, <1>2

LEMMA ReceivedWord ==
    ASSUME WordInv, chan # <<>>, chan' = Tail(chan)
    PROVE  /\ Head(chan) = chan[1] /\ 1 \in 1 .. Len(chan) /\ Len(chan') = Len(chan) - 1
           /\ \A i \in 1 .. Len(chan') : chan'[i] = chan[i + 1] /\ i + 1 \in 1 .. Len(chan)
           /\ \A v : Unsaid(v) <=> Unsaid(v)' /\ Head(chan).target # v
<1>1. /\ Head(chan) = chan[1] /\ Len(chan) \in Nat \ {0} /\ Len(chan') = Len(chan) - 1
      /\ \A i \in 1 .. Len(chan') : chan'[i] = chan[i + 1] /\ i + 1 \in 1 .. Len(chan)
  BY DEF WordInv
<1>2. ASSUME NEW v PROVE Unsaid(v) <=> Unsaid(v)' /\ Head(chan).target # v
  <2>1. ASSUME Unsaid(v)', Head(chan).target # v, NEW i \in 1 .. Len(chan) PROVE chan[i].target # v
    <3>1. CASE i = 1
      BY <1>1, <2>1, <3>1
    <3>2. CASE i # 1
      <4>1. i - 1 \in 1 .. Len(chan') /\ (i - 1) + 1 = i
        BY <1>1, <3>2
      <4>2. QED
        BY <1>1, <2>1, <4>1 DEF Unsaid
    <3>3. QED
      BY <3>1, <3>2
  <2>2. QED
    BY <1>1, <2>1 DEF Unsaid
<1>3. QED
  BY <1>1, <1>2

\* Every step keeps what the last message about a target says.
LEMMA HealthSaid ==
    ASSUME WordInv, SaidInv, [H!Next]_(H!vars)
    PROVE  SaidInv'
<1>0. ASSUME UNCHANGED <<hup, chan, hfails>> PROVE SaidInv'
  BY <1>0 DEF SaidInv, Healthy
<1>1. ASSUME NEW g \in Checkers, H!BeginCheck(g) PROVE SaidInv'
  BY <1>0, <1>1 DEF H!BeginCheck
<1>2. ASSUME NEW g \in Checkers, NEW r \in {"ok", "failed"}, H!Dial(g, r) PROVE SaidInv'
  BY <1>0, <1>2 DEF H!Dial
<1>3. ASSUME NEW g \in Checkers, H!Report(g) PROVE SaidInv'
  <2>1. PICK v \in H!Checked :
            /\ hfails' = [hfails EXCEPT ![v] = hfails'[v]] /\ hfails'[v] \in Nat
            /\ hup => \/ chan' = chan /\ (Healthy(v)' <=> Healthy(v))
                      \/ chan' = Append(chan, [target |-> v, healthy |-> Healthy(v)'])
    BY <1>3, ReportSays
  <2>2. hup' = hup
    BY <1>3 DEF H!Report
  <2>3. \A w \in H!Checked : w # v => (Healthy(w)' <=> Healthy(w))
    BY <2>1 DEF Healthy, WordInv
  <2>4. CASE chan' = chan /\ (Healthy(v)' <=> Healthy(v))
    BY <2>2, <2>3, <2>4, ChanFacts DEF SaidInv
  <2>5. CASE chan' = Append(chan, [target |-> v, healthy |-> Healthy(v)'])
    <3> DEFINE w == [target |-> v, healthy |-> Healthy(v)']
    <3>1. w \in Word /\ w.target = v /\ w.healthy = Healthy(v)'
      BY DEF Word, Healthy
    <3> HIDE DEF w
    <3>2. /\ Len(chan') = Len(chan) + 1 /\ chan'[Len(chan) + 1] = w
          /\ \A i \in 1 .. Len(chan) : chan'[i] = chan[i]
      BY <2>5, <3>1, AppendedWord DEF w
    <3>3. Len(chan) \in Nat /\ \A i \in 1 .. Len(chan) : chan[i].target \in H!Checked
      BY ChanFacts
    <3>4. ASSUME hup, NEW i \in 1 .. Len(chan'),
                 \A j \in 1 .. Len(chan') : j > i => chan'[j].target # chan'[i].target
          PROVE  chan'[i].healthy <=> hfails'[chan'[i].target] < MaxFail
      <4>1. CASE i = Len(chan) + 1
        <5>1. chan'[i].target = v /\ (chan'[i].healthy <=> Healthy(v)')
          BY <3>1, <3>2, <4>1
        <5>2. QED
          BY <5>1 DEF Healthy
      <4>2. CASE i \in 1 .. Len(chan)
        <5>1. chan[i].target # v
          <6>1. Len(chan) + 1 \in 1 .. Len(chan') /\ Len(chan) + 1 > i
            BY <3>2, <3>3, <4>2
          <6>2. QED
            BY <3>1, <3>2, <3>4, <4>2, <6>1
        <5>2. \A j \in 1 .. Len(chan) : j > i => chan[j].target # chan[i].target
          BY <3>2, <3>3, <3>4, <4>2
        <5>3. chan[i].healthy <=> Healthy(chan[i].target)
          BY <3>4, <4>2, <5>2 DEF SaidInv
        <5>4. PICK u \in H!Checked : u = chan[i].target /\ u # v
          BY <3>3, <4>2, <5>1
        <5>5. (Healthy(u)' <=> Healthy(u)) /\ chan'[i] = chan[i]
          BY <2>3, <3>2, <4>2, <5>4
        <5>6. QED
          BY <5>3, <5>4, <5>5 DEF Healthy
      <4>3. QED
        BY <3>2, <3>3, <4>1, <4>2
    <3>5. QED
      BY <2>2, <3>4 DEF SaidInv, Healthy
  <2>6. QED
    BY <2>1, <2>2, <2>4, <2>5 DEF SaidInv
<1>4. ASSUME H!GetHealthInfo PROVE SaidInv'
  <2>1. chan # <<>> /\ chan' = Tail(chan) /\ UNCHANGED <<hup, hfails>> /\ hup
    BY <1>4 DEF H!GetHealthInfo, H!client
  <2>2. /\ Len(chan') = Len(chan) - 1 /\ Len(chan) \in Nat
        /\ \A i \in 1 .. Len(chan') : chan'[i] = chan[i + 1] /\ i + 1 \in 1 .. Len(chan)
    BY <2>1, ReceivedWord, ChanFacts
  <2>3. ASSUME NEW i \in 1 .. Len(chan'),
               \A j \in 1 .. Len(chan') : j > i => chan'[j].target # chan'[i].target
        PROVE  chan'[i].healthy <=> hfails'[chan'[i].target] < MaxFail
    <3>1. ASSUME NEW j \in 1 .. Len(chan), j > i + 1 PROVE chan[j].target # chan[i + 1].target
      <4>1. j - 1 \in 1 .. Len(chan') /\ j - 1 > i /\ (j - 1) + 1 = j
        BY <2>2, <3>1
      <4>2. QED
        BY <2>2, <2>3, <4>1
    <3>2. chan[i + 1].healthy <=> Healthy(chan[i + 1].target)
      BY <2>1, <2>2, <3>1 DEF SaidInv
    <3>3. QED
      BY <2>1, <2>2, <3>2 DEF Healthy
  <2>4. QED
    BY <2>3 DEF SaidInv, Healthy
<1>5. ASSUME NEW o \in Sharers, H!TakeOut(o) \/ H!PutBack(o) PROVE SaidInv'
  BY <1>0, <1>5 DEF H!TakeOut, H!PutBack, H!client
<1>6. ASSUME NEW o \in Sharers, H!Choose(o) \/ H!Pick(o) PROVE SaidInv'
  BY <1>0, <1>6 DEF H!Choose, H!Pick, H!client
<1>7. CASE H!SessionEnds
  BY <1>7 DEF H!SessionEnds, SaidInv
<1>8. CASE H!SessionBegins
  BY <1>8 DEF H!SessionBegins, SaidInv, WordInv
<1>9. CASE UNCHANGED H!vars
  BY <1>0, <1>9 DEF H!vars, H!client
<1>10. QED
  BY <1>1, <1>2, <1>3, <1>4, <1>5, <1>6, <1>7, <1>8, <1>9 DEF H!Next

\* Every step keeps the lists in agreement with what npc counts and what is on its way.
LEMMA HealthAgrees ==
    ASSUME WordInv, ListInv, SaidInv, AgreeInv, [H!Next]_(H!vars)
    PROVE  AgreeInv'
<1> SUFFICES ASSUME NEW o \in Sharers, NEW v \in H!Checked, v \in H!ToSet(TargetStr[o])
             PROVE  AgreeAt(o, v)'
  BY DEF AgreeInv
<1>0. AgreeAt(o, v)
  BY DEF AgreeInv
<1>a. ASSUME UNCHANGED <<hup, chan, applied, hfails>>, Listing(o)' = Listing(o) PROVE AgreeAt(o, v)'
  BY <1>0, <1>a DEF AgreeAt, Unsaid, Healthy
<1>b. UNCHANGED arr => Listing(o)' = Listing(o)
  BY DEF Listing
<1>1. ASSUME NEW g \in Checkers, H!BeginCheck(g) PROVE AgreeAt(o, v)'
  BY <1>a, <1>b, <1>1 DEF H!BeginCheck, H!lists
<1>2. ASSUME NEW g \in Checkers, NEW r \in {"ok", "failed"}, H!Dial(g, r) PROVE AgreeAt(o, v)'
  BY <1>a, <1>b, <1>2 DEF H!Dial, H!lists
<1>3. ASSUME NEW g \in Checkers, H!Report(g) PROVE AgreeAt(o, v)'
  <2>1. PICK u \in H!Checked :
            /\ hfails' = [hfails EXCEPT ![u] = hfails'[u]]
            /\ hup => \/ chan' = chan /\ (Healthy(u)' <=> Healthy(u))
                      \/ chan' = Append(chan, [target |-> u, healthy |-> Healthy(u)'])
    BY <1>3, ReportSays
  <2>2. UNCHANGED <<hup, applied, arr>> /\ Listing(o)' = Listing(o)
    BY <1>3 DEF H!Report, H!lists, Listing
  <2>3. u # v => (Healthy(v)' <=> Healthy(v))
    BY <2>1 DEF Healthy, WordInv
  <2>4. CASE chan' = chan /\ (Healthy(u)' <=> Healthy(u))
    <3>1. (Healthy(v)' <=> Healthy(v)) /\ (Unsaid(v)' <=> Unsaid(v))
      BY <2>3, <2>4 DEF Unsaid
    <3>2. QED
      BY <1>0, <2>2, <3>1 DEF AgreeAt
  <2>5. CASE chan' = Append(chan, [target |-> u, healthy |-> Healthy(u)'])
    <3> DEFINE w == [target |-> u, healthy |-> Healthy(u)']
    <3>1. w \in Word /\ w.target = u
      BY DEF Word, Healthy
    <3> HIDE DEF w
    <3>2. Unsaid(v)' <=> Unsaid(v) /\ u # v
      BY <2>5, <3>1, AppendedWord DEF w
    <3>3. QED
      BY <1>0, <2>2, <2>3, <3>2 DEF AgreeAt
  <2>6. QED
    BY <2>1, <2>2, <2>4, <2>5 DEF AgreeAt
<1>4. ASSUME H!GetHealthInfo PROVE AgreeAt(o, v)'
  <2>1. /\ chan # <<>> /\ chan' = Tail(chan) /\ UNCHANGED <<hup, hfails, arr>> /\ hup
        /\ applied = H!NoMessage
        /\ applied' = [target |-> Head(chan).target, healthy |-> Head(chan).healthy, todo |-> Sharers]
    BY <1>4 DEF H!GetHealthInfo, H!client, H!lists
  <2>2. /\ Head(chan) = chan[1] /\ 1 \in 1 .. Len(chan) /\ Len(chan') = Len(chan) - 1
        /\ \A i \in 1 .. Len(chan') : chan'[i] = chan[i + 1]
        /\ Unsaid(v) <=> Unsaid(v)' /\ Head(chan).target # v
        /\ Len(chan) \in Nat
    BY <2>1, ReceivedWord, ChanFacts
  <2>3. Listing(o)' = Listing(o) /\ (Healthy(v)' <=> Healthy(v))
    BY <2>1 DEF Listing, Healthy
  <2>4. CASE Head(chan).target = v
    <3>1. ASSUME Unsaid(v)' PROVE chan[1].healthy <=> Healthy(v)
      <4>1. ASSUME NEW j \in 1 .. Len(chan), j > 1 PROVE chan[j].target # v
        <5>1. j - 1 \in 1 .. Len(chan') /\ (j - 1) + 1 = j
          BY <2>2, <4>1
        <5>2. QED
          BY <2>2, <3>1, <5>1 DEF Unsaid
      <4>2. QED
        BY <2>1, <2>2, <2>4, <4>1 DEF SaidInv
    <3>2. QED
      BY <2>1, <2>2, <2>3, <2>4, <3>1 DEF AgreeAt
  <2>5. CASE Head(chan).target # v
    <3>1. applied.todo = {}
      BY <2>1 DEF H!NoMessage
    <3>2. QED
      BY <1>0, <2>1, <2>2, <2>3, <2>5, <3>1 DEF AgreeAt
  <2>6. QED
    BY <2>4, <2>5
<1>5. ASSUME NEW p \in Sharers, H!TakeOut(p) \/ H!PutBack(p) PROVE AgreeAt(o, v)'
  <2>1. UNCHANGED <<hup, chan, hfails>> /\ p \in applied.todo
    BY <1>5 DEF H!TakeOut, H!PutBack, H!client
  <2>2. (Healthy(v)' <=> Healthy(v)) /\ (Unsaid(v)' <=> Unsaid(v))
    BY <2>1 DEF Healthy, Unsaid
  <2>3. /\ applied'.target = v /\ o \in applied'.todo =>
              o # p /\ applied.target = v /\ o \in applied.todo /\ applied'.healthy = applied.healthy
        /\ o # p /\ applied.target = v /\ o \in applied.todo =>
              applied'.target = v /\ o \in applied'.todo
    <3>1. applied \in [target : H!Checked, healthy : BOOLEAN, todo : SUBSET Sharers]
      BY <2>1 DEF WordInv, H!NoMessage
    <3>2. \/ applied' = H!NoMessage /\ applied.todo = {p}
          \/ applied' = [applied EXCEPT !.todo = @ \ {p}]
      BY <1>5 DEF H!TakeOut, H!PutBack, H!Done
    <3>3. CASE applied' = H!NoMessage /\ applied.todo = {p}
      BY <3>3 DEF H!NoMessage
    <3>4. CASE applied' = [applied EXCEPT !.todo = @ \ {p}]
      BY <3>1, <3>4
    <3>5. QED
      BY <3>2, <3>3, <3>4
  <2>4. CASE p # o
    <3>1. Listing(o)' = Listing(o)
      <4>1. arr'[o] = arr[o]
        BY <1>5, <2>4 DEF H!TakeOut, H!PutBack, H!lists, WordInv
      <4>2. QED
        BY <4>1 DEF Listing
    <3>2. QED
      BY <1>0, <2>1, <2>2, <2>3, <2>4, <3>1 DEF AgreeAt
  <2>5. CASE p = o
    <3>1. v \in Names(o)
      BY DEF Names
    <3>2. CASE applied.target = v
      <4>1. H!Contains(Listing(o)', v) <=> applied.healthy
        <5>1. CASE H!TakeOut(o)
          <6>1. ~applied.healthy
            BY <5>1 DEF H!TakeOut
          <6>2. QED
            BY <3>2, <5>1, <6>1, TakenOut
        <5>2. CASE H!PutBack(o)
          <6>1. applied.healthy
            BY <5>2 DEF H!PutBack
          <6>2. QED
            BY <3>2, <5>2, <6>1, IsPutBack
        <5>3. QED
          BY <1>5, <2>5, <5>1, <5>2
      <4>2. hup /\ Unsaid(v) => (applied.healthy <=> Healthy(v))
        BY <1>0, <2>1, <2>5, <3>2 DEF AgreeAt
      <4>3. QED
        BY <2>1, <2>2, <2>3, <2>5, <4>1, <4>2 DEF AgreeAt
    <3>3. CASE applied.target # v
      <4>1. H!Contains(Listing(o)', v) <=> H!Contains(Listing(o), v)
        BY <1>5, <2>5, <3>1, <3>3, TakenOut, IsPutBack
      <4>2. QED
        BY <1>0, <2>1, <2>2, <2>3, <2>5, <3>3, <4>1 DEF AgreeAt
    <3>4. QED
      BY <3>2, <3>3
  <2>6. QED
    BY <2>4, <2>5
<1>6. ASSUME NEW p \in Sharers, H!Choose(p) PROVE AgreeAt(o, v)'
  <2>1. Listing(o)' = Listing(o) /\ UNCHANGED <<hup, chan, applied, hfails>>
    BY <1>6 DEF H!Choose, H!client, Listing, WordInv
  <2>2. QED
    BY <1>a, <2>1
<1>7. ASSUME NEW p \in Sharers, H!Pick(p) PROVE AgreeAt(o, v)'
  BY <1>a, <1>b, <1>7 DEF H!Pick, H!client, H!lists
<1>8. CASE H!SessionEnds
  BY <1>8 DEF H!SessionEnds, AgreeAt
<1>9. CASE H!SessionBegins
  <2>1. Listing(o)' = TargetStr[o] /\ applied' = H!NoMessage /\ hfails'[v] = 0
    BY <1>9 DEF H!SessionBegins, Listing, WordInv
  <2>2. Healthy(v)' /\ H!Contains(TargetStr[o], v)
    <3>1. \E i \in 1 .. Len(TargetStr[o]) : TargetStr[o][i] = v
      BY TargetFacts
    <3>2. QED
      BY <2>1, <3>1, HealthAssumption DEF Healthy, H!Contains
  <2>3. applied'.todo = {}
    BY <2>1 DEF H!NoMessage
  <2>4. QED
    BY <2>1, <2>2, <2>3 DEF AgreeAt
<1>10. CASE UNCHANGED H!vars
  BY <1>a, <1>b, <1>10 DEF H!vars, H!client, H!lists
<1>11. QED
  BY <1>1, <1>2, <1>3, <1>4, <1>5, <1>6, <1>7, <1>8, <1>9, <1>10 DEF H!Next

\* The first state.
LEMMA HealthInit == H!Init => HealthInv
<1> SUFFICES ASSUME H!Init PROVE HealthInv
  OBVIOUS
<1>0. /\ hup = TRUE /\ halive = TRUE /\ results = 0 /\ chan = <<>> /\ applied = H!NoMessage
      /\ hfails = [v \in H!Checked |-> 0]
      /\ check = [g \in Checkers |-> [at |-> 0, result |-> "none"]]
      /\ arr = [o \in Sharers |-> H!Nil] /\ removeArr = [o \in Sharers |-> <<>>]
  BY DEF H!Init
<1>1. WordInv
  <2>1. Len(Targets) \in Nat /\ MaxResults \in Nat /\ chan \in Seq(Word)
    BY <1>0, HealthAssumption
  <2>2. check \in [Checkers -> [at : 0 .. Len(Targets), result : {"none", "ok", "failed"}]]
    BY <1>0, <2>1
  <2>3. removeArr \in [Sharers -> Seq(H!Checked)]
    BY <1>0
  <2>4. results \in 0 .. MaxResults
    BY <1>0, <2>1
  <2>5. hfails \in [H!Checked -> Nat]
    BY <1>0
  <2>6. QED
    BY <1>0, <2>1, <2>2, <2>3, <2>4, <2>5 DEF WordInv
<1>2. ASSUME NEW o \in Sharers
      PROVE  /\ ListAt(o)
             /\ \A v \in H!ToSet(TargetStr[o]) : H!Contains(Listing(o), v)
  <2>1. Listing(o) = TargetStr[o] /\ arr[o] = H!Nil /\ removeArr[o] = <<>>
    BY <1>0 DEF Listing
  <2>2. /\ Once(TargetStr[o])
        /\ \A v : v \in H!ToSet(TargetStr[o]) <=> \E i \in 1 .. Len(TargetStr[o]) : TargetStr[o][i] = v
    BY TargetFacts
  <2>3. QED
    BY <2>1, <2>2 DEF ListAt, H!Contains
<1>3. FailInv
  <2>1. Failing = {}
    BY <1>0 DEF Failing
  <2>2. QED
    BY <1>0, <2>1, FS_EmptySet DEF FailInv
<1>4. SaidInv
  BY <1>0 DEF SaidInv
<1>5. AgreeInv
  <2>1. ASSUME NEW o \in Sharers, NEW v \in H!Checked, v \in H!ToSet(TargetStr[o])
        PROVE  AgreeAt(o, v)
    <3>1. Healthy(v) /\ H!Contains(Listing(o), v)
      BY <1>0, <1>2, <2>1, HealthAssumption DEF Healthy
    <3>2. applied.todo = {}
      BY <1>0 DEF H!NoMessage
    <3>3. QED
      BY <3>1, <3>2 DEF AgreeAt
  <2>2. QED
    BY <2>1 DEF AgreeInv
<1>6. QED
  BY <1>1, <1>2, <1>3, <1>4, <1>5 DEF HealthInv, ListInv

\* The invariant holds in every behaviour.
THEOREM HealthInvariant == Spec => [](part = "health" => HealthInv)
<1>1. Init => (part = "health" => HealthInv)
  BY HealthInit DEF Init
<1>2. (part = "health" => HealthInv) /\ [Next]_vars => (part = "health" => HealthInv)'
  <2> SUFFICES ASSUME part = "health" => HealthInv, [Next]_vars, part' = "health"
               PROVE  HealthInv'
    OBVIOUS
  <2>1. part = "health" /\ [H!Next]_(H!vars)
    BY DEF Next, vars, H!vars, H!client, H!lists, H!picks
  <2>2. WordInv /\ ListInv /\ FailInv /\ SaidInv /\ AgreeInv
    BY <2>1 DEF HealthInv
  <2>3. QED
    BY <2>1, <2>2, HealthTypes, HealthLists, HealthFails, HealthSaid, HealthAgrees DEF HealthInv
<1>3. QED
  BY <1>1, <1>2, PTL DEF Spec

\* The health checks: once nps has applied what it was sent, it lists a target of a task
\* exactly when npc does not count it as down, and lists it once, for any number of checks
\* that overlap, of failures that take a target down, and of sessions.
THEOREM HealthIsSound == Spec => []HealthSound
<1>1. HealthInv => H!HealthSound
  <2> SUFFICES ASSUME HealthInv PROVE H!HealthSound
    OBVIOUS
  <2>0. WordInv /\ ListInv /\ FailInv /\ SaidInv /\ AgreeInv
    BY DEF HealthInv
  <2>1. H!TypeOK
    <3>1. hfails \in [H!Checked -> 0 .. MaxResults]
      <4>1. Cardinality(Failing) \in Nat
        <5>1. IsFiniteSet(Failing)
          BY HealthAssumption, FS_Subset DEF Failing
        <5>2. QED
          BY <5>1, FS_CardinalityType
      <4>2. hfails \in [H!Checked -> Nat] /\ results \in 0 .. MaxResults /\ MaxResults \in Nat
        BY <2>0, HealthAssumption DEF WordInv
      <4>3. \A v \in H!Checked : Cardinality(Failing) + hfails[v] <= results
        BY <2>0 DEF FailInv
      <4>4. \A v \in H!Checked : hfails[v] \in 0 .. MaxResults
        <5> HIDE DEF Failing
        <5>1. QED
          BY <4>1, <4>2, <4>3
      <4>5. QED
        BY <4>2, <4>4
    <3>2. \A g \in Checkers : check[g].at \in 0 .. Len(Targets)
      BY <2>0 DEF WordInv
    <3>3. applied.todo \subseteq Sharers
      BY <2>0 DEF WordInv, H!NoMessage
    <3>4. ASSUME NEW o \in Sharers
          PROVE  /\ arr[o] # H!Nil =>
                       H!ToSet(arr[o]) \subseteq H!Checked \cup H!ToSet(TargetStr[o])
                 /\ H!ToSet(removeArr[o]) \subseteq H!Checked
      <4>1. (arr[o] # H!Nil => arr[o] \in Seq(Names(o))) /\ removeArr[o] \in Seq(H!Checked)
        BY <2>0 DEF WordInv, ListInv, ListAt
      <4>2. ASSUME NEW D, NEW s \in Seq(D) PROVE H!ToSet(s) \subseteq D
        BY LenProperties, ElementOfSeq DEF H!ToSet
      <4>3. QED
        BY <4>1, <4>2 DEF Names
    <3>5. hup \in BOOLEAN /\ halive \in BOOLEAN
      BY <2>0 DEF WordInv
    <3>6. QED
      BY <3>1, <3>2, <3>3, <3>4, <3>5 DEF H!TypeOK
  <2>2. H!EndsAgreeOnHealth
    <3>1. ASSUME hup, chan = <<>>, applied = H!NoMessage,
                 NEW o \in Sharers, NEW v \in H!Checked, v \in H!ToSet(TargetStr[o])
          PROVE  H!Cardinality({i \in 1 .. Len(Listing(o)) : Listing(o)[i] = v})
                     = (IF hfails[v] >= MaxFail THEN 0 ELSE 1)
      <4> DEFINE At == {i \in 1 .. Len(Listing(o)) : Listing(o)[i] = v}
      <4>1. H!Contains(Listing(o), v) <=> Healthy(v)
        <5>1. Unsaid(v) /\ applied.todo = {} /\ AgreeAt(o, v)
          BY <2>0, <3>1 DEF Unsaid, H!NoMessage, AgreeInv
        <5>2. QED
          BY <3>1, <5>1 DEF AgreeAt
      <4>2. Once(Listing(o))
        BY <2>0 DEF ListInv, ListAt
      <4>3. hfails[v] \in Nat /\ MaxFail \in Nat
        BY <2>0, HealthAssumption DEF WordInv
      <4>4. CASE Healthy(v)
        <5>1. PICK i \in 1 .. Len(Listing(o)) : Listing(o)[i] = v
          BY <4>1, <4>4 DEF H!Contains
        <5>2. At = {i}
          BY <4>2, <5>1 DEF Once
        <5>3. Cardinality(At) = 1
          BY <5>2, FS_Singleton
        <5> HIDE DEF At
        <5>4. H!Cardinality(At) = 1 /\ ~(hfails[v] >= MaxFail)
          BY <4>3, <4>4, <5>3, SameCardinality DEF Healthy
        <5>5. QED
          BY <5>4 DEF At
      <4>5. CASE ~Healthy(v)
        <5>1. At = {}
          BY <4>1, <4>5 DEF H!Contains
        <5>2. Cardinality(At) = 0
          BY <5>1, FS_EmptySet
        <5> HIDE DEF At
        <5>3. H!Cardinality(At) = 0 /\ hfails[v] >= MaxFail
          BY <4>3, <4>5, <5>2, SameCardinality DEF Healthy
        <5>4. QED
          BY <5>3 DEF At
      <4>6. QED
        BY <4>4, <4>5
    <3>2. QED
      BY <3>1 DEF H!EndsAgreeOnHealth, Listing
  <2>3. QED
    BY <2>1, <2>2 DEF H!HealthSound
<1>2. QED
  <2>1. (part = "health" => HealthInv) => HealthSound
    BY <1>1 DEF HealthSound
  <2>2. QED
    BY <2>1, HealthInvariant, PTL

-----------------------------------------------------------------------------
(* Two clients that look for a path of their own (Punch).                  *)
attempt == v1
st == v2
told == v3
asks == v4
replies == v5
entry == v6
ent == v7
polls == v8
net == v9
served == v10
stale == v11
reached == v12
okWith == v13
byEnd == v14

USE DEF attempt, st, told, asks, replies, entry, ent, polls, net, served, stale, reached, okWith,
        byEnd

\* What the server and the network hold is of attempts that there were.
AskInv ==
    /\ asks \subseteq PunchPorts \X V!Clients \X (1 .. attempt)
    /\ replies \subseteq PunchPorts \X V!Clients \X V!Clients
    /\ polls \subseteq PunchPorts \X V!Entries \X (1 .. attempt)
    /\ served \subseteq PunchPorts \X (1 .. attempt)
    /\ ent \in [PunchPorts -> [V!Entries -> [visitor : {V!Visitor, V!Nobody},
                                             provider : V!Attempts \cup {V!Nobody}]]]

\* Who answers a message has had it: a SUCCESS tells of a CONNECT, an END of a SUCCESS.
TestInv ==
    /\ \A a, b \in V!Clients : <<a, b, "SUCCESS">> \in net => <<b, a>> \in reached
    /\ \A a, b \in V!Clients :
          <<a, b, "END">> \in net => <<b, a>> \in reached /\ <<a, b>> \in okWith
    /\ \A a, b \in V!Clients :
          <<a, b>> \in okWith => <<a, b>> \in reached /\ <<b, a>> \in reached
    /\ \A a, b \in V!Clients : <<a, b>> \in byEnd => <<b, a>> \in okWith

\* The question of a client to a port is in one place: on its way, with a goroutine of
\* the server or in an entry, and done with.
OnceAt(p, k) ==
    /\ <<p, k>> \in served => <<p, V!Visitor, k>> \notin asks
    /\ \A e \in V!Entries : <<p, e, k>> \in polls =>
          /\ <<p, V!Visitor, k>> \notin asks /\ <<p, k>> \notin served
          /\ \A f \in V!Entries : <<p, f, k>> \in polls => f = e
    /\ st[k] = "off" => <<p, k, k>> \notin asks
    /\ \A e \in V!Entries :
          ent[p][e].provider = k => <<p, k, k>> \notin asks /\ st[k] # "off"

OnceInv == \A p \in PunchPorts, k \in V!Attempts : OnceAt(p, k)

\* While no attempt began too early: all earlier ones were served, with their own
\* provider, and nothing of them is left; the visitor hears of the present one only.
FreshAt(p) ==
    /\ \A k \in 1 .. attempt :
          /\ k < attempt => <<p, k>> \in served
          /\ <<p, k>> \in served => st[k] # "off" /\ <<p, k, k>> \notin asks
    /\ \A e \in V!Entries :
          /\ ent[p][e].provider \in {V!Nobody, attempt}
          /\ <<p, attempt>> \in served => ent[p][e].provider = V!Nobody
    /\ told[V!Visitor][p] # V!Nobody =>
          told[V!Visitor][p] = attempt /\ <<p, attempt>> \in served
    /\ \A q \in V!Clients : <<p, V!Visitor, q>> \in replies =>
          q = attempt /\ <<p, attempt>> \in served /\ told[V!Visitor][p] = V!Nobody
    /\ attempt > 0 /\ st[V!Visitor] # "ask" => told[V!Visitor][p] # V!Nobody

CleanInv == ~stale => \A p \in PunchPorts : FreshAt(p)

PunchInv == V!TypeOK /\ AskInv /\ TestInv /\ OnceInv /\ CleanInv

\* The entries of a port: what their fields may be.
Fields == [visitor : {V!Visitor, V!Nobody}, provider : V!Attempts \cup {V!Nobody}]

\* Numbers of attempts, and names of clients and of entries.
LEMMA PunchFacts ==
    ASSUME PunchInv
    PROVE  /\ AskInv /\ V!TypeOK /\ attempt \in Nat /\ attempt <= MaxAttempts /\ MaxAttempts \in Nat
           /\ \A k \in V!Attempts : /\ k \in Nat /\ k > 0 /\ k \in V!Clients
                                    /\ k \in V!Entries /\ -k - 1 \in V!Entries
           /\ 1 .. attempt \subseteq V!Attempts
           /\ V!Visitor = 0 /\ V!Nobody = -1 /\ V!Visitor \in V!Clients
           /\ \A k \in V!Attempts : V!Visitor # k /\ V!Nobody # k
           /\ V!Visitor # V!Nobody
<1>1. AskInv /\ V!TypeOK
  BY DEF PunchInv
<1>2. attempt \in Nat /\ attempt <= MaxAttempts /\ MaxAttempts \in Nat
  BY <1>1, AttemptsAssumption DEF V!TypeOK
<1>3. \A k \in V!Attempts : /\ k \in Nat /\ k > 0 /\ k \in V!Clients
                            /\ k \in V!Entries /\ -k - 1 \in V!Entries
  BY <1>2 DEF V!Attempts, V!Clients, V!Entries
<1>4. 1 .. attempt \subseteq V!Attempts
  BY <1>2 DEF V!Attempts
<1>5. V!Visitor = 0 /\ V!Nobody = -1 /\ V!Visitor \in V!Clients
  BY <1>2 DEF V!Visitor, V!Nobody, V!Clients
<1>6. (\A k \in V!Attempts : V!Visitor # k /\ V!Nobody # k) /\ V!Visitor # V!Nobody
  BY <1>3, <1>5
<1>7. QED
  BY <1>1, <1>2, <1>3, <1>4, <1>5, <1>6

\* What is asked anew, and what becomes of an arriving question.
LEMMA VisitorAsksFacts ==
    ASSUME PunchInv, V!VisitorAsks
    PROVE  /\ attempt' = attempt + 1 /\ attempt' \in V!Attempts /\ attempt' \in 1 .. attempt'
           /\ \A k \in 1 .. attempt : k \in 1 .. attempt' /\ k < attempt' /\ k # attempt'
           /\ \A k \in 1 .. attempt' : k = attempt' \/ k \in 1 .. attempt
           /\ asks' = asks \cup {<<p, V!Visitor, attempt'>> : p \in PunchPorts}
           /\ st' = [st EXCEPT ![V!Visitor] = "ask"]
           /\ told' = [told EXCEPT ![V!Visitor] = [p \in PunchPorts |-> V!Nobody]]
           /\ ~stale' => /\ ~stale /\ st[V!Visitor] # "ask"
                         /\ \A p \in PunchPorts, k \in 1 .. attempt : <<p, k>> \in served
           /\ UNCHANGED <<replies, entry, ent, polls, served, net, reached, okWith, byEnd>>
<1>1. attempt' = attempt + 1 /\ attempt < MaxAttempts
  BY DEF V!VisitorAsks
<1>2. attempt \in Nat /\ MaxAttempts \in Nat
  BY PunchFacts
<1>3. attempt' \in V!Attempts /\ attempt' \in 1 .. attempt'
  BY <1>1, <1>2 DEF V!Attempts
<1>4. /\ \A k \in 1 .. attempt : k \in 1 .. attempt' /\ k < attempt' /\ k # attempt'
      /\ \A k \in 1 .. attempt' : k = attempt' \/ k \in 1 .. attempt
  BY <1>1, <1>2
<1>5. QED
  BY <1>1, <1>3, <1>4 DEF V!VisitorAsks, V!server, V!tests

\* What a datagram of the visitor does.
Visited(p, k) ==
    /\ <<p, V!Visitor, k>> \in asks /\ asks' = asks \ {<<p, V!Visitor, k>>} /\ k \in 1 .. attempt
    /\ \E e \in V!Entries : polls' = polls \cup {<<p, e, k>>}
    /\ ent' \in [PunchPorts -> [V!Entries -> Fields]]
    /\ \A q \in PunchPorts, f \in V!Entries : ent'[q][f].provider = ent[q][f].provider
    /\ entry' \in [PunchPorts -> V!Entries \cup {V!Nobody}]
    /\ UNCHANGED <<attempt, st, told, replies, served, stale, net, reached, okWith, byEnd>>

\* The entries after a datagram of the visitor.
LEMMA HandleVisitorFacts ==
    ASSUME PunchInv, NEW k \in V!Attempts, NEW p \in PunchPorts, V!HandleVisitor(p, k)
    PROVE  Visited(p, k)
<1> DEFINE e == V!Found(p, -k - 1)
<1>1. e \in V!Entries
  <2>1. -k - 1 \in V!Entries /\ entry[p] \in V!Entries \cup {V!Nobody}
    BY PunchFacts DEF V!TypeOK
  <2>2. QED
    BY <2>1 DEF V!Found
<1>2. /\ <<p, V!Visitor, k>> \in asks /\ asks' = asks \ {<<p, V!Visitor, k>>}
      /\ entry' = [entry EXCEPT ![p] = e] /\ ent' = [ent EXCEPT ![p][e].visitor = V!Visitor]
      /\ polls' = polls \cup {<<p, e, k>>}
      /\ UNCHANGED <<attempt, st, told, replies, served, stale, net, reached, okWith, byEnd>>
  BY DEF V!HandleVisitor, V!Arrives, V!tests
<1>3. k \in 1 .. attempt
  BY <1>2, PunchFacts DEF AskInv
<1>4. ent \in [PunchPorts -> [V!Entries -> Fields]]
  BY PunchFacts DEF AskInv, Fields
<1> HIDE DEF e
<1>5. /\ ent' \in [PunchPorts -> [V!Entries -> Fields]]
      /\ \A q \in PunchPorts, f \in V!Entries : ent'[q][f].provider = ent[q][f].provider
  BY <1>1, <1>2, <1>4 DEF Fields
<1>6. entry' \in [PunchPorts -> V!Entries \cup {V!Nobody}]
  BY <1>1, <1>2, PunchFacts DEF V!TypeOK
<1>7. QED
  BY <1>1, <1>2, <1>3, <1>5, <1>6 DEF Visited

\* What a datagram of the provider does.
Provided(p, k) ==
    /\ <<p, k, k>> \in asks /\ asks' = asks \ {<<p, k, k>>} /\ k \in 1 .. attempt
    /\ ent' \in [PunchPorts -> [V!Entries -> Fields]]
    /\ \A q \in PunchPorts, f \in V!Entries :
          \/ ent'[q][f].provider = ent[q][f].provider
          \/ q = p /\ ent'[q][f].provider = k
    /\ entry' \in [PunchPorts -> V!Entries \cup {V!Nobody}]
    /\ UNCHANGED <<attempt, st, told, replies, polls, served, stale, net, reached, okWith,
                   byEnd>>

\* The entries after a datagram of the provider.
LEMMA HandleProviderFacts ==
    ASSUME PunchInv, NEW k \in V!Attempts, NEW p \in PunchPorts, V!HandleProvider(p, k)
    PROVE  Provided(p, k)
<1> DEFINE e == V!Found(p, k)
<1>1. e \in V!Entries
  <2>1. k \in V!Entries /\ entry[p] \in V!Entries \cup {V!Nobody}
    BY PunchFacts DEF V!TypeOK
  <2>2. QED
    BY <2>1 DEF V!Found
<1>2. /\ <<p, k, k>> \in asks /\ asks' = asks \ {<<p, k, k>>}
      /\ entry' = [entry EXCEPT ![p] = e] /\ ent' = [ent EXCEPT ![p][e].provider = k]
      /\ UNCHANGED <<attempt, st, told, replies, polls, served, stale, net, reached, okWith, byEnd>>
  BY DEF V!HandleProvider, V!Arrives, V!tests
<1>3. k \in 1 .. attempt
  BY <1>2, PunchFacts DEF AskInv
<1>4. ent \in [PunchPorts -> [V!Entries -> Fields]]
  BY PunchFacts DEF AskInv, Fields
<1> HIDE DEF e
<1>5. /\ ent' \in [PunchPorts -> [V!Entries -> Fields]]
      /\ \A q \in PunchPorts, f \in V!Entries :
            \/ ent'[q][f].provider = ent[q][f].provider
            \/ q = p /\ ent'[q][f].provider = k
  <2>1. k \in V!Attempts \cup {V!Nobody}
    OBVIOUS
  <2>2. \A q \in PunchPorts, f \in V!Entries :
           ent'[q][f] = IF q = p /\ f = e THEN [ent[q][f] EXCEPT !.provider = k] ELSE ent[q][f]
    BY <1>1, <1>2, <1>4
  <2>3. \A q \in PunchPorts, f \in V!Entries : ent[q][f] \in Fields
    BY <1>4
  <2>4. \A q \in PunchPorts, f \in V!Entries :
           [ent[q][f] EXCEPT !.provider = k] \in Fields /\ [ent[q][f] EXCEPT !.provider = k].provider = k
    BY <2>1, <2>3 DEF Fields
  <2>5. ent' = [ent EXCEPT ![p] = [ent[p] EXCEPT ![e] = [ent[p][e] EXCEPT !.provider = k]]]
    BY <1>2
  <2>6. ent' \in [PunchPorts -> [V!Entries -> Fields]]
    <3>1. [ent[p] EXCEPT ![e] = [ent[p][e] EXCEPT !.provider = k]] \in [V!Entries -> Fields]
      BY <1>1, <1>4, <2>4
    <3>2. QED
      BY <1>4, <2>5, <3>1
  <2>7. ASSUME NEW q \in PunchPorts, NEW f \in V!Entries
        PROVE  \/ ent'[q][f].provider = ent[q][f].provider
               \/ q = p /\ ent'[q][f].provider = k
    <3>1. CASE q = p /\ f = e
      <4>1. ent'[q][f] = [ent[q][f] EXCEPT !.provider = k]
        BY <2>2, <3>1
      <4>2. QED
        BY <2>4, <3>1, <4>1
    <3>2. CASE ~(q = p /\ f = e)
      BY <2>2, <3>2
    <3>3. QED
      BY <3>1, <3>2
  <2>8. QED
    BY <2>6, <2>7
<1>6. entry' \in [PunchPorts -> V!Entries \cup {V!Nobody}]
  BY <1>1, <1>2, PunchFacts DEF V!TypeOK
<1>7. QED
  BY <1>1, <1>2, <1>3, <1>5, <1>6 DEF Provided

\* What the end of a goroutine of the visitor does, served or not.
Polled(p, e, k) ==
    /\ <<p, e, k>> \in polls /\ polls' = polls \ {<<p, e, k>>} /\ k \in 1 .. attempt
    /\ ent' \in [PunchPorts -> [V!Entries -> Fields]]
    /\ \A q \in PunchPorts, f \in V!Entries :
          \/ ent'[q][f].provider = ent[q][f].provider
          \/ q = p /\ ent'[q][f].provider = V!Nobody
    /\ \A f \in V!Entries :
          \/ ent'[p][f].provider = V!Nobody
          \/ \E j \in 1 .. attempt : <<p, f, j>> \in polls'
    /\ entry' \in [PunchPorts -> V!Entries \cup {V!Nobody}]
    /\ UNCHANGED <<attempt, st, told, asks, stale, net, reached, okWith, byEnd>>

\* The entries after a goroutine of the visitor has ended, served or not.
LEMMA PollEnds ==
    ASSUME PunchInv, NEW k \in V!Attempts, NEW p \in PunchPorts, NEW e \in V!Entries,
           V!Serve(p, e, k) \/ V!GiveUp(p, e, k)
    PROVE  Polled(p, e, k)
<1>1. /\ <<p, e, k>> \in polls /\ polls' = polls \ {<<p, e, k>>}
      /\ entry' = [entry EXCEPT ![p] = V!Nobody] /\ ent' = V!Held(p)
      /\ UNCHANGED <<attempt, st, told, asks, stale, net, reached, okWith, byEnd>>
  BY DEF V!Serve, V!GiveUp, V!Delete, V!tests
<1>2. k \in 1 .. attempt /\ polls \subseteq PunchPorts \X V!Entries \X (1 .. attempt)
  BY <1>1, PunchFacts DEF AskInv
<1>3. /\ ent \in [PunchPorts -> [V!Entries -> Fields]] /\ V!Blank \in Fields
      /\ V!Blank.provider = V!Nobody
  BY PunchFacts DEF AskInv, Fields, V!Blank
<1>4. entry \in [PunchPorts -> V!Entries \cup {V!Nobody}] /\ entry'[p] = V!Nobody
  BY <1>1, PunchFacts DEF V!TypeOK
<1>5. ent' = [ent EXCEPT ![p] = [f \in V!Entries |-> IF \E h \in polls' : h[1] = p /\ h[2] = f
                                                     THEN ent[p][f] ELSE V!Blank]]
  BY <1>1, <1>4 DEF V!Held
<1>6. \A f \in V!Entries : ent'[p][f] = IF \E h \in polls' : h[1] = p /\ h[2] = f
                                        THEN ent[p][f] ELSE V!Blank
  BY <1>3, <1>5
<1>7. \A f \in V!Entries : (\E h \in polls' : h[1] = p /\ h[2] = f)
                              => \E j \in 1 .. attempt : <<p, f, j>> \in polls'
  BY <1>1, <1>2
<1>8. ent' \in [PunchPorts -> [V!Entries -> Fields]]
  BY <1>3, <1>5
<1>9. \A q \in PunchPorts, f \in V!Entries : q # p => ent'[q][f] = ent[q][f]
  BY <1>3, <1>5
<1>10. entry' \in [PunchPorts -> V!Entries \cup {V!Nobody}]
  BY <1>1, <1>4
<1>11. \A q \in PunchPorts, f \in V!Entries :
          \/ ent'[q][f].provider = ent[q][f].provider
          \/ q = p /\ ent'[q][f].provider = V!Nobody
  BY <1>3, <1>6, <1>9
<1>12. \A f \in V!Entries : \/ ent'[p][f].provider = V!Nobody
                            \/ \E j \in 1 .. attempt : <<p, f, j>> \in polls'
  BY <1>3, <1>6, <1>7
<1>13. QED
  BY <1>1, <1>2, <1>8, <1>10, <1>11, <1>12 DEF Polled

\* The provider of an entry is of an attempt.
LEMMA ProviderOf ==
    ASSUME PunchInv
    PROVE  \A p \in PunchPorts, e \in V!Entries :
              ent[p][e].provider # V!Nobody => ent[p][e].provider \in V!Attempts
<1>1. \A p \in PunchPorts, e \in V!Entries : ent[p][e] \in Fields
  BY PunchFacts DEF AskInv, Fields
<1>2. QED
  BY <1>1 DEF Fields

\* A goroutine that has ended had its question.
LEMMA PollOnce ==
    ASSUME PunchInv, NEW k \in V!Attempts, NEW p \in PunchPorts, NEW e \in V!Entries,
           Polled(p, e, k), served' = served \/ served' = served \cup {<<p, k>>}
    PROVE  OnceInv'
<1>1. OnceInv /\ V!Visitor # V!Nobody
  BY PunchFacts DEF PunchInv
<1>2. /\ <<p, e, k>> \in polls /\ polls' = polls \ {<<p, e, k>>} /\ UNCHANGED <<st, asks>>
      /\ \A q \in PunchPorts, f \in V!Entries :
            \/ ent'[q][f].provider = ent[q][f].provider
            \/ ent'[q][f].provider = V!Nobody
  BY DEF Polled
<1>3. \A q \in PunchPorts, j \in V!Attempts :
         <<q, j>> \in served' => <<q, j>> \in served \/ (q = p /\ j = k)
  OBVIOUS
<1>4. /\ <<p, V!Visitor, k>> \notin asks
      /\ \A f \in V!Entries : <<p, f, k>> \notin polls'
  BY <1>1, <1>2 DEF OnceInv, OnceAt
<1>5. ASSUME NEW q \in PunchPorts, NEW j \in V!Attempts PROVE OnceAt(q, j)'
  <2>1. OnceAt(q, j) /\ j # V!Nobody
    BY <1>1, PunchFacts DEF OnceInv
  <2>2. QED
    BY <1>2, <1>3, <1>4, <2>1 DEF OnceAt
<1>6. QED
  BY <1>5 DEF OnceInv

\* What the tests, and what a client hears, leave alone.
Heard ==
    /\ \A c \in V!Clients : st'[c] = "off" <=> st[c] = "off"
    /\ UNCHANGED <<attempt, asks, entry, ent, polls, served, stale>>

LEMMA HeardFacts ==
    ASSUME PunchInv,
           \/ \E m \in replies : V!Hear(m)
           \/ \E c \in V!Clients : V!Connect(c) \/ V!TestFails(c)
           \/ \E m \in net : V!Receive(m)
    PROVE  Heard
<1> USE PunchFacts DEF V!server, V!tests, Heard, V!TypeOK, AskInv
<1>1. ASSUME NEW m \in replies, V!Hear(m) PROVE Heard
  BY <1>1 DEF V!Hear
<1>2. ASSUME NEW c \in V!Clients, V!Connect(c) PROVE Heard
  BY <1>2 DEF V!Connect
<1>3. ASSUME NEW c \in V!Clients, V!TestFails(c) PROVE Heard
  BY <1>3 DEF V!TestFails
<1>4. ASSUME NEW m \in net, V!Receive(m) PROVE Heard
  BY <1>4 DEF V!Receive
<1>5. QED
  BY <1>1, <1>2, <1>3, <1>4

\* Nor do they mix the attempts, if nobody hears anything.
LEMMA FreshStays ==
    ASSUME PunchInv, Heard, told' = told, replies' = replies,
           st'[V!Visitor] # "ask" => st[V!Visitor] # "ask"
    PROVE  CleanInv'
<1> SUFFICES ASSUME ~stale', NEW q \in PunchPorts PROVE FreshAt(q)'
  BY DEF CleanInv
<1>1. FreshAt(q) /\ UNCHANGED <<attempt, asks, ent, served>>
  BY DEF PunchInv, CleanInv, Heard
<1>2. \A k \in 1 .. attempt : st'[k] = "off" <=> st[k] = "off"
  BY PunchFacts DEF Heard
<1>3. QED
  BY <1>1, <1>2 DEF FreshAt


\* Every step keeps the types of what is under way.
LEMMA PunchAsks ==
    ASSUME PunchInv, [V!Next]_(V!vars)
    PROVE  AskInv'
<1> USE DEF AskInv, V!server, V!tests
<1>0. /\ AskInv /\ V!TypeOK /\ OnceInv /\ CleanInv /\ attempt \in Nat
      /\ \A k \in V!Attempts : k \in Nat /\ k > 0 /\ k \in V!Clients /\ k \in V!Entries
      /\ 1 .. attempt \subseteq V!Attempts
      /\ \A k \in V!Attempts : V!Visitor # k /\ V!Nobody # k
      /\ V!Visitor # V!Nobody /\ V!Visitor \in V!Clients
  BY PunchFacts DEF PunchInv
<1>1. CASE V!VisitorAsks
  <2>1. /\ asks' = asks \cup {<<p, V!Visitor, attempt'>> : p \in PunchPorts}
        /\ attempt' \in 1 .. attempt' /\ 1 .. attempt \subseteq 1 .. attempt'
        /\ UNCHANGED <<replies, polls, served, ent>>
    BY <1>1, VisitorAsksFacts
  <2>2. \A p \in PunchPorts :
           <<p, V!Visitor, attempt'>> \in PunchPorts \X V!Clients \X (1 .. attempt')
    BY <1>0, <2>1
  <2>3. QED
    BY <1>0, <2>1, <2>2
<1>2. ASSUME NEW k \in V!Attempts, V!ProviderAsks(k) PROVE AskInv'
  <2>1. /\ asks' = asks \cup {<<p, k, k>> : p \in PunchPorts} /\ k <= attempt
        /\ UNCHANGED <<attempt, replies, polls, served, ent>>
    BY <1>2 DEF V!ProviderAsks, V!Notified
  <2>2. k \in 1 .. attempt /\ k \in V!Clients
    BY <1>0, <2>1
  <2>3. \A p \in PunchPorts : <<p, k, k>> \in PunchPorts \X V!Clients \X (1 .. attempt)
    BY <2>2
  <2>4. QED
    BY <1>0, <2>1, <2>3
<1>3. ASSUME NEW k \in V!Attempts, NEW p \in PunchPorts, V!HandleVisitor(p, k) PROVE AskInv'
  <2>1. Visited(p, k)
    BY <1>3, HandleVisitorFacts
  <2>2. QED
    BY <1>0, <2>1 DEF Visited, Fields
<1>4. ASSUME NEW k \in V!Attempts, NEW p \in PunchPorts, V!HandleProvider(p, k) PROVE AskInv'
  <2>1. Provided(p, k)
    BY <1>4, HandleProviderFacts
  <2>2. QED
    BY <1>0, <2>1 DEF Provided, Fields
<1>5. ASSUME NEW k \in V!Attempts, NEW p \in PunchPorts, NEW e \in V!Entries, V!Serve(p, e, k) PROVE AskInv'
  <2>1. PICK q \in V!Attempts : replies' = replies \cup {<<p, V!Visitor, q>>, <<p, q, V!Visitor>>}
    <3>1. ent[p][e].provider \in V!Attempts
      <4>1. ent[p][e] \in Fields
        BY <1>0 DEF Fields
      <4>2. ent[p][e].provider # V!Nobody
        BY <1>5 DEF V!Serve
      <4>3. QED
        BY <4>1, <4>2 DEF Fields
    <3>2. QED
      BY <1>5, <3>1 DEF V!Serve
  <2>2. served' = served \cup {<<p, k>>}
    BY <1>5 DEF V!Serve
  <2>3. /\ polls' \subseteq polls /\ k \in 1 .. attempt /\ asks' = asks /\ attempt' = attempt
        /\ ent' \in [PunchPorts -> [V!Entries -> Fields]]
    <3>1. Polled(p, e, k)
      BY <1>5, PollEnds
    <3>2. QED
      BY <3>1 DEF Polled
  <2>4. QED
    BY <1>0, <2>1, <2>2, <2>3 DEF Fields
<1>6. ASSUME NEW k \in V!Attempts, NEW p \in PunchPorts, NEW e \in V!Entries, V!GiveUp(p, e, k) PROVE AskInv'
  <2>1. replies' = replies /\ served' = served
    BY <1>6 DEF V!GiveUp
  <2>2. /\ polls' \subseteq polls /\ k \in 1 .. attempt /\ asks' = asks /\ attempt' = attempt
        /\ ent' \in [PunchPorts -> [V!Entries -> Fields]]
    <3>1. Polled(p, e, k)
      BY <1>6, PollEnds
    <3>2. QED
      BY <3>1 DEF Polled
  <2>3. QED
    BY <1>0, <2>1, <2>2 DEF Fields
<1>7. ASSUME NEW m \in replies, V!Hear(m) PROVE AskInv'
  BY <1>0, <1>7 DEF V!Hear
<1>8. ASSUME NEW c \in V!Clients, V!Connect(c) PROVE AskInv'
  BY <1>0, <1>8 DEF V!Connect, V!WorkedOut
<1>9. ASSUME NEW c \in V!Clients, V!TestFails(c) PROVE AskInv'
  BY <1>0, <1>9 DEF V!TestFails
<1>10. ASSUME NEW m \in net, V!Receive(m) PROVE AskInv'
  BY <1>0, <1>10 DEF V!Receive, V!Answer
<1>11. CASE UNCHANGED V!vars
  BY <1>0, <1>11 DEF V!vars
<1>12. QED
  BY <1>1, <1>2, <1>3, <1>4, <1>5, <1>6, <1>7, <1>8, <1>9, <1>10, <1>11 DEF V!Next

\* Every step keeps the types.
LEMMA PunchTypes ==
    ASSUME PunchInv, [V!Next]_(V!vars)
    PROVE  V!TypeOK'
<1> USE DEF V!TypeOK, V!server, V!tests
<1>0. /\ AskInv /\ V!TypeOK /\ OnceInv /\ CleanInv /\ attempt \in Nat
      /\ \A k \in V!Attempts : k \in Nat /\ k > 0 /\ k \in V!Clients /\ k \in V!Entries
      /\ 1 .. attempt \subseteq V!Attempts
      /\ \A k \in V!Attempts : V!Visitor # k /\ V!Nobody # k
      /\ V!Visitor # V!Nobody /\ V!Visitor \in V!Clients
  BY PunchFacts DEF PunchInv
<1>1. CASE V!VisitorAsks
  <2>1. /\ attempt' \in V!Attempts /\ st' = [st EXCEPT ![V!Visitor] = "ask"]
        /\ told' = [told EXCEPT ![V!Visitor] = [p \in PunchPorts |-> V!Nobody]]
        /\ UNCHANGED <<entry, polls, net, okWith, byEnd>>
    BY <1>1, VisitorAsksFacts
  <2>2. attempt' \in 0 .. MaxAttempts
    BY <1>0, <2>1, PunchFacts DEF V!Attempts
  <2>3. told' \in [V!Clients -> [PunchPorts -> V!Clients \cup {V!Nobody}]]
    BY <1>0, <2>1
  <2>4. st' \in [V!Clients -> {"off", "ask", "test", "ok", "failed"}]
    BY <1>0, <2>1
  <2>5. QED
    BY <1>0, <2>1, <2>2, <2>3, <2>4
<1>2. ASSUME NEW k \in V!Attempts, V!ProviderAsks(k) PROVE V!TypeOK'
  BY <1>0, <1>2 DEF V!ProviderAsks, V!Notified
<1>3. ASSUME NEW k \in V!Attempts, NEW p \in PunchPorts, V!HandleVisitor(p, k) PROVE V!TypeOK'
  <2>1. Visited(p, k)
    BY <1>3, HandleVisitorFacts
  <2>2. polls' \subseteq PunchPorts \X V!Entries \X V!Attempts
    BY <1>0, <2>1 DEF Visited
  <2>3. QED
    BY <1>0, <2>1, <2>2 DEF Visited
<1>4. ASSUME NEW k \in V!Attempts, NEW p \in PunchPorts, V!HandleProvider(p, k) PROVE V!TypeOK'
  BY <1>0, <1>4 DEF V!HandleProvider, V!Arrives, V!Found
<1>5. ASSUME NEW k \in V!Attempts, NEW p \in PunchPorts, NEW e \in V!Entries, V!Serve(p, e, k) PROVE V!TypeOK'
  BY <1>0, <1>5 DEF V!Serve, V!Delete, V!Held
<1>6. ASSUME NEW k \in V!Attempts, NEW p \in PunchPorts, NEW e \in V!Entries, V!GiveUp(p, e, k) PROVE V!TypeOK'
  BY <1>0, <1>6 DEF V!GiveUp, V!Delete, V!Held
<1>7. ASSUME NEW m \in replies, V!Hear(m) PROVE V!TypeOK'
  <2>1. m[1] \in PunchPorts /\ m[2] \in V!Clients /\ m[3] \in V!Clients
    BY <1>0 DEF AskInv
  <2>2. /\ told' = [told EXCEPT ![m[2]][m[1]] = m[3]]
        /\ \E s \in {"test", "ask"} : st' = [st EXCEPT ![m[2]] = s]
        /\ UNCHANGED <<attempt, entry, polls, net, okWith, byEnd>>
    BY <1>7 DEF V!Hear
  <2>3. told' \in [V!Clients -> [PunchPorts -> V!Clients \cup {V!Nobody}]]
    BY <1>0, <2>1, <2>2
  <2>4. QED
    BY <1>0, <2>1, <2>2, <2>3
<1>8. ASSUME NEW c \in V!Clients, V!Connect(c) PROVE V!TypeOK'
  BY <1>0, <1>8 DEF V!Connect, V!WorkedOut
<1>9. ASSUME NEW c \in V!Clients, V!TestFails(c) PROVE V!TypeOK'
  BY <1>0, <1>9 DEF V!TestFails
<1>10. ASSUME NEW m \in net, V!Receive(m) PROVE V!TypeOK'
  BY <1>0, <1>10 DEF V!Receive, V!Answer
<1>11. CASE UNCHANGED V!vars
  BY <1>0, <1>11 DEF V!vars
<1>12. QED
  BY <1>1, <1>2, <1>3, <1>4, <1>5, <1>6, <1>7, <1>8, <1>9, <1>10, <1>11 DEF V!Next

\* Every step keeps a question in one place.
LEMMA PunchOnce ==
    ASSUME PunchInv, [V!Next]_(V!vars)
    PROVE  OnceInv'
<1> USE DEF V!server, V!tests
<1>0. /\ AskInv /\ V!TypeOK /\ OnceInv /\ CleanInv /\ attempt \in Nat
      /\ \A k \in V!Attempts : k \in Nat /\ k > 0 /\ k \in V!Clients /\ k \in V!Entries
      /\ 1 .. attempt \subseteq V!Attempts
      /\ \A k \in V!Attempts : V!Visitor # k /\ V!Nobody # k
      /\ V!Visitor # V!Nobody /\ V!Visitor \in V!Clients
  BY PunchFacts DEF PunchInv
<1>1. CASE V!VisitorAsks
  <2>1. /\ asks' = asks \cup {<<p, V!Visitor, attempt'>> : p \in PunchPorts}
        /\ attempt' \in V!Attempts /\ attempt' = attempt + 1
        /\ st' = [st EXCEPT ![V!Visitor] = "ask"] /\ UNCHANGED <<polls, served, ent>>
    BY <1>1, VisitorAsksFacts
  <2>2. \A k \in V!Attempts : st'[k] = st[k]
    BY <1>0, <2>1 DEF V!TypeOK
  <2>3. \A p \in PunchPorts :
           /\ <<p, attempt'>> \notin served
           /\ \A e \in V!Entries : <<p, e, attempt'>> \notin polls
    BY <1>0, <2>1 DEF AskInv
  <2>4. \A p \in PunchPorts, c \in V!Clients, k \in V!Attempts :
           <<p, c, k>> \in asks' => <<p, c, k>> \in asks \/ (c = V!Visitor /\ k = attempt')
    BY <2>1
  <2>5. \A p \in PunchPorts, k \in V!Attempts : <<p, k, k>> \in asks' => <<p, k, k>> \in asks
    BY <1>0, <2>4
  <2>6. \A p \in PunchPorts, k \in V!Attempts :
           <<p, V!Visitor, k>> \in asks' => <<p, V!Visitor, k>> \in asks \/ k = attempt'
    BY <1>0, <2>4
  <2>7. ASSUME NEW p \in PunchPorts, NEW k \in V!Attempts PROVE OnceAt(p, k)'
    <3>1. OnceAt(p, k)
      BY <1>0 DEF OnceInv
    <3>2. QED
      BY <2>1, <2>2, <2>3, <2>5, <2>6, <3>1 DEF OnceAt
  <2>8. QED
    BY <2>7 DEF OnceInv
<1>2. ASSUME NEW k \in V!Attempts, V!ProviderAsks(k) PROVE OnceInv'
  <2>1. /\ asks' = asks \cup {<<p, k, k>> : p \in PunchPorts} /\ st[k] = "off"
        /\ st' = [st EXCEPT ![k] = "ask"] /\ UNCHANGED <<polls, served, ent>>
    BY <1>2 DEF V!ProviderAsks
  <2>2. \A j \in V!Attempts : st'[j] = IF j = k THEN "ask" ELSE st[j]
    BY <1>0, <2>1 DEF V!TypeOK
  <2>3. \A p \in PunchPorts, j \in V!Attempts :
           /\ <<p, j, j>> \in asks' => <<p, j, j>> \in asks \/ j = k
           /\ <<p, V!Visitor, j>> \in asks' => <<p, V!Visitor, j>> \in asks
    BY <1>0, <2>1
  <2>4. ASSUME NEW q \in PunchPorts, NEW j \in V!Attempts PROVE OnceAt(q, j)'
    <3>1. OnceAt(q, j)
      BY <1>0 DEF OnceInv
    <3>2. QED
      BY <1>0, <2>1, <2>2, <2>3, <3>1 DEF OnceAt
  <2>5. QED
    BY <2>4 DEF OnceInv
<1>3. ASSUME NEW k \in V!Attempts, NEW p \in PunchPorts, V!HandleVisitor(p, k) PROVE OnceInv'
  <2>1. Visited(p, k)
    BY <1>3, HandleVisitorFacts
  <2>2. PICK e \in V!Entries : polls' = polls \cup {<<p, e, k>>}
    BY <2>1 DEF Visited
  <2>3. <<p, k>> \notin served /\ \A f \in V!Entries : <<p, f, k>> \notin polls
    BY <1>0, <2>1 DEF Visited, OnceInv, OnceAt
  <2>4. \A q \in PunchPorts, f \in V!Entries, j \in V!Attempts :
           <<q, f, j>> \in polls' => <<q, f, j>> \in polls \/ (q = p /\ f = e /\ j = k)
    BY <2>2
  <2>5. /\ asks' = asks \ {<<p, V!Visitor, k>>} /\ UNCHANGED <<st, served>>
        /\ \A q \in PunchPorts, f \in V!Entries : ent'[q][f].provider = ent[q][f].provider
    BY <2>1 DEF Visited
  <2>6. ASSUME NEW q \in PunchPorts, NEW j \in V!Attempts PROVE OnceAt(q, j)'
    <3>1. OnceAt(q, j)
      BY <1>0 DEF OnceInv
    <3>2. QED
      BY <1>0, <2>3, <2>4, <2>5, <3>1 DEF OnceAt
  <2>7. QED
    BY <2>6 DEF OnceInv
<1>4. ASSUME NEW k \in V!Attempts, NEW p \in PunchPorts, V!HandleProvider(p, k) PROVE OnceInv'
  <2>1. /\ <<p, k, k>> \in asks /\ asks' = asks \ {<<p, k, k>>} /\ UNCHANGED <<st, served, polls>>
        /\ \A q \in PunchPorts, f \in V!Entries :
              \/ ent'[q][f].provider = ent[q][f].provider
              \/ q = p /\ ent'[q][f].provider = k
    BY <1>4, HandleProviderFacts DEF Provided
  <2>2. st[k] # "off"
    BY <1>0, <2>1 DEF OnceInv, OnceAt
  <2>3. ASSUME NEW q \in PunchPorts, NEW j \in V!Attempts PROVE OnceAt(q, j)'
    <3>1. OnceAt(q, j)
      BY <1>0 DEF OnceInv
    <3>2. QED
      BY <1>0, <2>1, <2>2, <3>1 DEF OnceAt
  <2>4. QED
    BY <2>3 DEF OnceInv
<1>5. ASSUME NEW k \in V!Attempts, NEW p \in PunchPorts, NEW e \in V!Entries, V!Serve(p, e, k) PROVE OnceInv'
  <2>1. served' = served \cup {<<p, k>>}
    BY <1>5 DEF V!Serve
  <2>2. Polled(p, e, k)
    BY <1>5, PollEnds
  <2>3. QED
    BY <1>0, <2>1, <2>2, PollOnce
<1>6. ASSUME NEW k \in V!Attempts, NEW p \in PunchPorts, NEW e \in V!Entries, V!GiveUp(p, e, k) PROVE OnceInv'
  <2>1. served' = served
    BY <1>6 DEF V!GiveUp
  <2>2. Polled(p, e, k)
    BY <1>6, PollEnds
  <2>3. QED
    BY <1>0, <2>1, <2>2, PollOnce
<1>7. ASSUME NEW m \in replies, V!Hear(m) PROVE OnceInv'
  <2>1. Heard
    BY <1>7, HeardFacts
  <2>2. ASSUME NEW q \in PunchPorts, NEW j \in V!Attempts PROVE OnceAt(q, j)'
    <3>1. OnceAt(q, j) /\ (st'[j] = "off" <=> st[j] = "off")
      BY <1>0, <2>1 DEF OnceInv, Heard
    <3>2. QED
      BY <2>1, <3>1 DEF OnceAt, Heard
  <2>3. QED
    BY <2>2 DEF OnceInv
<1>8. ASSUME NEW c \in V!Clients, V!Connect(c) PROVE OnceInv'
  <2>1. Heard
    BY <1>8, HeardFacts
  <2>2. ASSUME NEW q \in PunchPorts, NEW j \in V!Attempts PROVE OnceAt(q, j)'
    <3>1. OnceAt(q, j) /\ (st'[j] = "off" <=> st[j] = "off")
      BY <1>0, <2>1 DEF OnceInv, Heard
    <3>2. QED
      BY <2>1, <3>1 DEF OnceAt, Heard
  <2>3. QED
    BY <2>2 DEF OnceInv
<1>9. ASSUME NEW c \in V!Clients, V!TestFails(c) PROVE OnceInv'
  <2>1. Heard
    BY <1>9, HeardFacts
  <2>2. ASSUME NEW q \in PunchPorts, NEW j \in V!Attempts PROVE OnceAt(q, j)'
    <3>1. OnceAt(q, j) /\ (st'[j] = "off" <=> st[j] = "off")
      BY <1>0, <2>1 DEF OnceInv, Heard
    <3>2. QED
      BY <2>1, <3>1 DEF OnceAt, Heard
  <2>3. QED
    BY <2>2 DEF OnceInv
<1>10. ASSUME NEW m \in net, V!Receive(m) PROVE OnceInv'
  <2>1. Heard
    BY <1>10, HeardFacts
  <2>2. ASSUME NEW q \in PunchPorts, NEW j \in V!Attempts PROVE OnceAt(q, j)'
    <3>1. OnceAt(q, j) /\ (st'[j] = "off" <=> st[j] = "off")
      BY <1>0, <2>1 DEF OnceInv, Heard
    <3>2. QED
      BY <2>1, <3>1 DEF OnceAt, Heard
  <2>3. QED
    BY <2>2 DEF OnceInv
<1>11. CASE UNCHANGED V!vars
  <2>1. ASSUME NEW q \in PunchPorts, NEW j \in V!Attempts PROVE OnceAt(q, j)'
    <3>1. OnceAt(q, j)
      BY <1>0 DEF OnceInv
    <3>2. QED
      BY <1>11, <3>1 DEF OnceAt, V!vars
  <2>2. QED
    BY <2>1 DEF OnceInv
<1>12. QED
  BY <1>1, <1>2, <1>3, <1>4, <1>5, <1>6, <1>7, <1>8, <1>9, <1>10, <1>11 DEF V!Next

\* Every step keeps the attempts apart.
LEMMA PunchFresh ==
    ASSUME PunchInv, [V!Next]_(V!vars)
    PROVE  CleanInv'
<1> USE DEF V!server, V!tests
<1>0. /\ AskInv /\ V!TypeOK /\ OnceInv /\ CleanInv /\ attempt \in Nat
      /\ \A k \in V!Attempts : k \in Nat /\ k > 0 /\ k \in V!Clients /\ k \in V!Entries
      /\ 1 .. attempt \subseteq V!Attempts
      /\ \A k \in V!Attempts : V!Visitor # k /\ V!Nobody # k
      /\ V!Visitor # V!Nobody /\ V!Visitor \in V!Clients
  BY PunchFacts DEF PunchInv
<1>1. CASE V!VisitorAsks
  <2> SUFFICES ASSUME ~stale', NEW q \in PunchPorts PROVE FreshAt(q)'
    BY DEF CleanInv
  <2>1. /\ attempt' = attempt + 1 /\ attempt' \in V!Attempts
        /\ \A k \in 1 .. attempt : k \in 1 .. attempt' /\ k < attempt' /\ k # attempt'
        /\ \A k \in 1 .. attempt' : k = attempt' \/ k \in 1 .. attempt
        /\ asks' = asks \cup {<<p, V!Visitor, attempt'>> : p \in PunchPorts}
        /\ st' = [st EXCEPT ![V!Visitor] = "ask"]
        /\ told' = [told EXCEPT ![V!Visitor] = [p \in PunchPorts |-> V!Nobody]]
        /\ ~stale /\ st[V!Visitor] # "ask" /\ \A k \in 1 .. attempt : <<q, k>> \in served
        /\ UNCHANGED <<replies, ent, served>>
    BY <1>1, VisitorAsksFacts
  <2>2. FreshAt(q)
    BY <1>0, <2>1 DEF CleanInv
  <2>3. /\ st'[V!Visitor] = "ask" /\ told'[V!Visitor][q] = V!Nobody
        /\ \A k \in V!Attempts : st'[k] = st[k]
    BY <1>0, <2>1 DEF V!TypeOK
  <2>4. \A k \in 1 .. attempt : <<q, k, k>> \in asks' => <<q, k, k>> \in asks
    BY <1>0, <2>1
  <2>5. <<q, attempt'>> \notin served /\ \A k \in V!Attempts : <<q, k>> \in served => k \in 1 .. attempt
    BY <1>0, <2>1 DEF AskInv
  <2>6. \A e \in V!Entries : ent[q][e].provider = V!Nobody
    <3>1. CASE attempt = 0
      BY <1>0, <2>2, <3>1, ProviderOf DEF FreshAt
    <3>2. CASE attempt # 0
      <4>1. attempt \in 1 .. attempt
        BY <1>0, <3>2
      <4>2. QED
        BY <2>1, <2>2, <4>1 DEF FreshAt
    <3>3. QED
      BY <3>1, <3>2
  <2>7. \A x \in V!Clients : <<q, V!Visitor, x>> \notin replies
    <3>1. ASSUME NEW x \in V!Clients, <<q, V!Visitor, x>> \in replies PROVE FALSE
      <4>1. <<q, attempt>> \in served /\ told[V!Visitor][q] = V!Nobody
        BY <2>2, <3>1 DEF FreshAt
      <4>2. attempt > 0
        BY <1>0, <4>1 DEF AskInv
      <4>3. QED
        BY <2>1, <2>2, <4>1, <4>2 DEF FreshAt
    <3>2. QED
      BY <3>1
  <2>8. \A k \in 1 .. attempt' : /\ k < attempt' => <<q, k>> \in served'
                                 /\ <<q, k>> \in served' => st'[k] # "off" /\ <<q, k, k>> \notin asks'
    <3>1. \A k \in 1 .. attempt' : k < attempt' => k \in 1 .. attempt
      BY <2>1
    <3>2. \A k \in 1 .. attempt : <<q, k>> \in served => st[k] # "off" /\ <<q, k, k>> \notin asks
      BY <2>2 DEF FreshAt
    <3>3. \A k \in 1 .. attempt' : <<q, k>> \in served => k \in 1 .. attempt
      BY <2>1, <2>5
    <3>4. QED
      BY <1>0, <2>1, <2>3, <2>4, <3>1, <3>2, <3>3
  <2>9. QED
    BY <2>1, <2>3, <2>6, <2>7, <2>8 DEF FreshAt
<1>2. ASSUME NEW k \in V!Attempts, V!ProviderAsks(k) PROVE CleanInv'
  <2> SUFFICES ASSUME ~stale', NEW q \in PunchPorts PROVE FreshAt(q)'
    BY DEF CleanInv
  <2>1. /\ asks' = asks \cup {<<p, k, k>> : p \in PunchPorts} /\ st[k] = "off"
        /\ st' = [st EXCEPT ![k] = "ask"] /\ k <= attempt
        /\ UNCHANGED <<attempt, told, replies, served, ent, stale>>
    BY <1>2 DEF V!ProviderAsks, V!Notified
  <2>2. FreshAt(q)
    BY <1>0, <2>1 DEF CleanInv
  <2>3. /\ st'[V!Visitor] = st[V!Visitor]
        /\ \A j \in V!Attempts : st'[j] = IF j = k THEN "ask" ELSE st[j]
    BY <1>0, <2>1 DEF V!TypeOK
  <2>4. \A j \in V!Attempts : <<q, j, j>> \in asks' => <<q, j, j>> \in asks \/ j = k
    BY <2>1
  <2>5. k \in 1 .. attempt /\ <<q, k>> \notin served
    <3>1. k \in 1 .. attempt
      BY <1>0, <2>1
    <3>2. QED
      BY <2>1, <2>2, <3>1 DEF FreshAt
  <2>6. QED
    BY <1>0, <2>1, <2>2, <2>3, <2>4, <2>5 DEF FreshAt
<1>3. ASSUME NEW k \in V!Attempts, NEW p \in PunchPorts, V!HandleVisitor(p, k) PROVE CleanInv'
  <2> SUFFICES ASSUME ~stale', NEW q \in PunchPorts PROVE FreshAt(q)'
    BY DEF CleanInv
  <2>1. Visited(p, k)
    BY <1>3, HandleVisitorFacts
  <2>2. FreshAt(q)
    BY <1>0, <2>1 DEF CleanInv, Visited
  <2>3. /\ asks' \subseteq asks /\ \A e \in V!Entries : ent'[q][e].provider = ent[q][e].provider
        /\ UNCHANGED <<attempt, st, told, replies, served>>
    BY <2>1 DEF Visited
  <2>4. QED
    BY <2>2, <2>3 DEF FreshAt
<1>4. ASSUME NEW k \in V!Attempts, NEW p \in PunchPorts, V!HandleProvider(p, k) PROVE CleanInv'
  <2> SUFFICES ASSUME ~stale', NEW q \in PunchPorts PROVE FreshAt(q)'
    BY DEF CleanInv
  <2>1. Provided(p, k)
    BY <1>4, HandleProviderFacts
  <2>2. FreshAt(q) /\ FreshAt(p)
    BY <1>0, <2>1 DEF CleanInv, Provided
  <2>3. /\ asks' \subseteq asks /\ <<p, k, k>> \in asks /\ k \in 1 .. attempt
        /\ \A e \in V!Entries : \/ ent'[q][e].provider = ent[q][e].provider
                                \/ q = p /\ ent'[q][e].provider = k
        /\ UNCHANGED <<attempt, st, told, replies, served>>
    BY <2>1 DEF Provided
  <2>4. k = attempt /\ <<p, attempt>> \notin served
    <3>1. <<p, k>> \notin served
      BY <2>2, <2>3 DEF FreshAt
    <3>2. ~(k < attempt)
      BY <2>2, <2>3, <3>1 DEF FreshAt
    <3>3. QED
      BY <1>0, <2>3, <3>1, <3>2
  <2>5. QED
    BY <2>2, <2>3, <2>4 DEF FreshAt
<1>5. ASSUME NEW k \in V!Attempts, NEW p \in PunchPorts, NEW e \in V!Entries, V!Serve(p, e, k) PROVE CleanInv'
  <2> SUFFICES ASSUME ~stale', NEW q \in PunchPorts PROVE FreshAt(q)'
    BY DEF CleanInv
  <2>1. Polled(p, e, k)
    BY <1>5, PollEnds
  <2>2. FreshAt(q) /\ FreshAt(p)
    BY <1>0, <2>1 DEF CleanInv, Polled
  <2>3. /\ <<p, e, k>> \in polls /\ polls' = polls \ {<<p, e, k>>} /\ k \in 1 .. attempt
        /\ \A f \in V!Entries : \/ ent'[q][f].provider = ent[q][f].provider
                                \/ q = p /\ ent'[q][f].provider = V!Nobody
        /\ \A f \in V!Entries : \/ ent'[p][f].provider = V!Nobody
                                \/ \E j \in 1 .. attempt : <<p, f, j>> \in polls'
        /\ UNCHANGED <<attempt, st, told, asks>>
    BY <2>1 DEF Polled
  <2>4. /\ ent[p][e].provider # V!Nobody /\ served' = served \cup {<<p, k>>}
        /\ replies' = replies \cup {<<p, V!Visitor, ent[p][e].provider>>,
                                    <<p, ent[p][e].provider, V!Visitor>>}
    BY <1>5 DEF V!Serve
  <2>5. \A f \in V!Entries, j \in V!Attempts : <<p, f, j>> \in polls => <<p, j>> \notin served
    BY <1>0 DEF OnceInv, OnceAt
  <2>6. \A f \in V!Entries, j \in 1 .. attempt : <<p, f, j>> \in polls => j = attempt
    <3>1. \A j \in 1 .. attempt : j \in V!Attempts /\ (j < attempt => <<p, j>> \in served)
      BY <1>0, <2>2 DEF FreshAt
    <3>2. \A j \in 1 .. attempt : j < attempt \/ j = attempt
      BY <1>0
    <3>3. QED
      BY <2>5, <3>1, <3>2
  <2>7. k = attempt /\ ent[p][e].provider = attempt /\ <<p, attempt>> \notin served
    BY <1>0, <2>2, <2>3, <2>4, <2>5, <2>6 DEF FreshAt
  <2>8. \A f \in V!Entries : ent'[p][f].provider = V!Nobody
    <3>1. \A f \in V!Entries : <<p, f, k>> \in polls => f = e
      BY <1>0, <2>3 DEF OnceInv, OnceAt
    <3>2. \A f \in V!Entries, j \in 1 .. attempt : <<p, f, j>> \notin polls'
      BY <2>3, <2>6, <2>7, <3>1
    <3>3. QED
      BY <2>3, <3>2
  <2>9. attempt \in V!Attempts /\ st[attempt] # "off" /\ <<p, attempt, attempt>> \notin asks
    <3>1. attempt \in V!Attempts
      BY <1>0, <2>3, <2>7
    <3>2. OnceAt(p, attempt)
      BY <1>0, <3>1 DEF OnceInv
    <3>3. QED
      BY <2>7, <3>1, <3>2 DEF OnceAt
  <2>10. CASE q # p
    <3>1. /\ \A j \in 1 .. attempt : <<q, j>> \in served' <=> <<q, j>> \in served
          /\ \A x \in V!Clients : <<q, V!Visitor, x>> \in replies' <=> <<q, V!Visitor, x>> \in replies
          /\ <<q, attempt>> \in served' <=> <<q, attempt>> \in served
          /\ \A f \in V!Entries : ent'[q][f].provider = ent[q][f].provider
      BY <2>3, <2>4, <2>10
    <3>2. QED
      BY <2>2, <2>3, <3>1 DEF FreshAt
  <2>11. CASE q = p
    <3>1. /\ \A j \in 1 .. attempt : <<p, j>> \in served' <=> <<p, j>> \in served \/ j = attempt
          /\ <<p, attempt>> \in served'
      BY <2>4, <2>7
    <3>2. \A x \in V!Clients : <<p, V!Visitor, x>> \in replies' =>
             <<p, V!Visitor, x>> \in replies \/ x = attempt
      BY <1>0, <2>4, <2>7, <2>9
    <3>3. told[V!Visitor][p] = V!Nobody
      BY <2>2, <2>7 DEF FreshAt
    <3>4. st[V!Visitor] = "ask" \/ ~(attempt > 0)
      BY <2>2, <3>3 DEF FreshAt
    <3>5. QED
      BY <2>2, <2>3, <2>8, <2>9, <2>11, <3>1, <3>2, <3>3, <3>4 DEF FreshAt
  <2>12. QED
    BY <2>10, <2>11
<1>6. ASSUME NEW k \in V!Attempts, NEW p \in PunchPorts, NEW e \in V!Entries, V!GiveUp(p, e, k) PROVE CleanInv'
  <2> SUFFICES ASSUME ~stale', NEW q \in PunchPorts PROVE FreshAt(q)'
    BY DEF CleanInv
  <2>1. Polled(p, e, k)
    BY <1>6, PollEnds
  <2>2. FreshAt(q)
    BY <1>0, <2>1 DEF CleanInv, Polled
  <2>3. /\ \A f \in V!Entries : \/ ent'[q][f].provider = ent[q][f].provider
                                \/ ent'[q][f].provider = V!Nobody
        /\ UNCHANGED <<attempt, st, told, asks>>
    BY <2>1 DEF Polled
  <2>4. replies' = replies /\ served' = served
    BY <1>6 DEF V!GiveUp
  <2>5. QED
    BY <2>2, <2>3, <2>4 DEF FreshAt
<1>7. ASSUME NEW m \in replies, V!Hear(m) PROVE CleanInv'
  <2> SUFFICES ASSUME ~stale', NEW q \in PunchPorts PROVE FreshAt(q)'
    BY DEF CleanInv
  <2>1. Heard
    BY <1>7, HeardFacts
  <2>2. FreshAt(q)
    BY <1>0, <2>1 DEF CleanInv, Heard
  <2>3. PICK p \in PunchPorts, c \in V!Clients, a \in V!Clients : m = <<p, c, a>>
    BY <1>0 DEF AskInv
  <2>4. /\ replies' = replies \ {m} /\ <<p, c, a>> \in replies /\ st[c] = "ask"
        /\ told' = [told EXCEPT ![c][p] = a]
        /\ st' = [st EXCEPT ![c] = IF \A r \in PunchPorts : told'[c][r] # V!Nobody
                                   THEN "test" ELSE "ask"]
    BY <1>7, <2>3 DEF V!Hear
  <2>5. \A j \in V!Attempts : st'[j] = "off" <=> st[j] = "off"
    BY <1>0, <2>1 DEF Heard
  <2>6. CASE c # V!Visitor
    <3>1. told'[V!Visitor] = told[V!Visitor] /\ st'[V!Visitor] = st[V!Visitor]
      BY <1>0, <2>4, <2>6 DEF V!TypeOK
    <3>2. QED
      BY <1>0, <2>1, <2>2, <2>4, <2>5, <3>1 DEF FreshAt, Heard
  <2>7. CASE c = V!Visitor
    <3>1. /\ told'[V!Visitor][p] = a /\ \A r \in PunchPorts : r # p => told'[V!Visitor][r] = told[V!Visitor][r]
          /\ st'[V!Visitor] # "ask" => \A r \in PunchPorts : told'[V!Visitor][r] # V!Nobody
      BY <1>0, <2>4, <2>7 DEF V!TypeOK
    <3>2. CASE q # p
      <4>1. \A x \in V!Clients : <<q, V!Visitor, x>> \in replies' => <<q, V!Visitor, x>> \in replies
        BY <2>4
      <4>2. told'[V!Visitor][q] = told[V!Visitor][q]
        BY <3>1, <3>2
      <4>3. QED
        BY <1>0, <2>1, <2>2, <2>5, <3>1, <4>1, <4>2 DEF FreshAt, Heard
    <3>3. CASE q = p
      <4>1. a = attempt /\ <<p, attempt>> \in served
        BY <2>2, <2>4, <2>7, <3>3 DEF FreshAt
      <4>2. \A x \in V!Clients : <<p, V!Visitor, x>> \notin replies'
        BY <2>2, <2>3, <2>4, <2>7, <3>3, <4>1 DEF FreshAt
      <4>3. QED
        BY <1>0, <2>1, <2>2, <2>5, <3>1, <3>3, <4>1, <4>2 DEF FreshAt, Heard
    <3>4. QED
      BY <3>2, <3>3
  <2>8. QED
    BY <2>6, <2>7
<1>8. ASSUME NEW c \in V!Clients, V!Connect(c) PROVE CleanInv'
  <2>1. Heard
    BY <1>8, HeardFacts
  <2>2. told' = told /\ replies' = replies /\ (st'[V!Visitor] # "ask" => st[V!Visitor] # "ask")
    BY <1>0, <1>8 DEF V!Connect, V!TypeOK
  <2>3. QED
    BY <1>0, <2>1, <2>2, FreshStays
<1>9. ASSUME NEW c \in V!Clients, V!TestFails(c) PROVE CleanInv'
  <2>1. Heard
    BY <1>9, HeardFacts
  <2>2. told' = told /\ replies' = replies /\ (st'[V!Visitor] # "ask" => st[V!Visitor] # "ask")
    BY <1>0, <1>9 DEF V!TestFails, V!TypeOK
  <2>3. QED
    BY <1>0, <2>1, <2>2, FreshStays
<1>10. ASSUME NEW m \in net, V!Receive(m) PROVE CleanInv'
  <2>1. Heard
    BY <1>10, HeardFacts
  <2>2. told' = told /\ replies' = replies /\ (st'[V!Visitor] # "ask" => st[V!Visitor] # "ask")
    BY <1>0, <1>10 DEF V!Receive, V!TypeOK
  <2>3. QED
    BY <1>0, <2>1, <2>2, FreshStays
<1>11. CASE UNCHANGED V!vars
  <2>1. Heard /\ told' = told /\ replies' = replies /\ st' = st
    BY <1>11 DEF Heard, V!vars
  <2>2. QED
    BY <1>0, <2>1, FreshStays
<1>12. QED
  BY <1>1, <1>2, <1>3, <1>4, <1>5, <1>6, <1>7, <1>8, <1>9, <1>10, <1>11 DEF V!Next

\* Every step keeps what a test message tells.
LEMMA PunchTests ==
    ASSUME PunchInv, [V!Next]_(V!vars)
    PROVE  TestInv'
<1> USE DEF PunchInv, AskInv, TestInv, V!TypeOK, V!server, V!tests, V!Visitor, V!Nobody, V!Clients, V!Attempts
<1>1. CASE V!VisitorAsks
  BY <1>1 DEF V!VisitorAsks
<1>2. ASSUME NEW k \in V!Attempts, V!ProviderAsks(k) PROVE TestInv'
  BY <1>2 DEF V!ProviderAsks, V!Notified
<1>3. ASSUME NEW k \in V!Attempts, NEW p \in PunchPorts, V!HandleVisitor(p, k) PROVE TestInv'
  BY <1>3 DEF V!HandleVisitor, V!Arrives, V!Found
<1>4. ASSUME NEW k \in V!Attempts, NEW p \in PunchPorts, V!HandleProvider(p, k) PROVE TestInv'
  BY <1>4 DEF V!HandleProvider, V!Arrives, V!Found
<1>5. ASSUME NEW k \in V!Attempts, NEW p \in PunchPorts, NEW e \in V!Entries, V!Serve(p, e, k) PROVE TestInv'
  BY <1>5 DEF V!Serve, V!Delete, V!Held
<1>6. ASSUME NEW k \in V!Attempts, NEW p \in PunchPorts, NEW e \in V!Entries, V!GiveUp(p, e, k) PROVE TestInv'
  BY <1>6 DEF V!GiveUp, V!Delete, V!Held
<1>7. ASSUME NEW m \in replies, V!Hear(m) PROVE TestInv'
  BY <1>7 DEF V!Hear
<1>8. ASSUME NEW c \in V!Clients, V!Connect(c) PROVE TestInv'
  BY <1>8 DEF V!Connect, V!WorkedOut
<1>9. ASSUME NEW c \in V!Clients, V!TestFails(c) PROVE TestInv'
  BY <1>9 DEF V!TestFails
<1>10. ASSUME NEW m \in net, V!Receive(m) PROVE TestInv'
  BY <1>10 DEF V!Receive, V!Answer
<1>11. CASE UNCHANGED V!vars
  BY <1>11 DEF V!vars
<1>12. QED
  BY <1>1, <1>2, <1>3, <1>4, <1>5, <1>6, <1>7, <1>8, <1>9, <1>10, <1>11 DEF V!Next

\* At first nobody has asked.
LEMMA PunchInit == V!Init => PunchInv
<1> SUFFICES ASSUME V!Init PROVE PunchInv
  OBVIOUS
<1>1. /\ attempt = 0 /\ asks = {} /\ replies = {} /\ polls = {} /\ net = {} /\ served = {}
      /\ okWith = {} /\ byEnd = {}
      /\ st = [c \in V!Clients |-> "off"]
      /\ told = [c \in V!Clients |-> [p \in PunchPorts |-> V!Nobody]]
      /\ entry = [p \in PunchPorts |-> V!Nobody]
      /\ ent = [p \in PunchPorts |-> [e \in V!Entries |-> V!Blank]]
  BY DEF V!Init
<1>2. V!Visitor \in V!Clients /\ \A k \in V!Attempts : k \in V!Clients
  BY AttemptsAssumption DEF V!Visitor, V!Clients, V!Attempts
<1>3. V!TypeOK
  <2>1. 0 \in 0 .. MaxAttempts
    BY AttemptsAssumption
  <2>2. QED
    BY <1>1, <2>1 DEF V!TypeOK
<1>4. V!Blank \in Fields /\ V!Blank.provider = V!Nobody
  BY DEF V!Blank, Fields
<1>5. AskInv
  BY <1>1, <1>4 DEF AskInv, Fields
<1>6. \A p \in PunchPorts, e \in V!Entries : ent[p][e].provider = V!Nobody
  BY <1>1, <1>4
<1>7. OnceInv
  <2>1. \A k \in V!Attempts : k # V!Nobody
    BY AttemptsAssumption DEF V!Attempts, V!Nobody
  <2>2. QED
    BY <1>1, <1>6, <2>1 DEF OnceInv, OnceAt
<1>8. TestInv
  BY <1>1 DEF TestInv
<1>9. CleanInv
  <2>1. \A p \in PunchPorts : told[V!Visitor][p] = V!Nobody
    BY <1>1, <1>2
  <2>2. ~(attempt > 0) /\ \A k \in 1 .. attempt : FALSE
    BY <1>1
  <2>3. QED
    BY <1>1, <1>6, <2>1, <2>2 DEF CleanInv, FreshAt
<1>10. QED
  BY <1>3, <1>5, <1>7, <1>8, <1>9 DEF PunchInv

\* The invariant holds in every behaviour.
THEOREM PunchInvariant == Spec => [](part = "punch" => PunchInv)
<1>1. Init => (part = "punch" => PunchInv)
  BY PunchInit DEF Init
<1>2. (part = "punch" => PunchInv) /\ [Next]_vars => (part = "punch" => PunchInv)'
  <2> SUFFICES ASSUME part = "punch" => PunchInv, [Next]_vars, part' = "punch"
               PROVE  PunchInv'
    OBVIOUS
  <2>1. part = "punch" /\ [V!Next]_(V!vars)
    BY DEF Next, vars, V!vars
  <2>2. QED
    BY <2>1, PunchAsks, PunchTypes, PunchOnce, PunchFresh, PunchTests DEF PunchInv
<1>3. QED
  BY <1>1, <1>2, PTL DEF Spec

\* The p2p hole punch: the visitor is told the provider's socket of its own attempt as
\* long as no attempt began before the one before was served and heard; and a client
\* that says it has a path has one, both ways.
THEOREM PunchIsSound == Spec => []PunchSound
<1>1. PunchInv => V!PunchSound
  <2> SUFFICES ASSUME PunchInv PROVE V!PunchSound
    OBVIOUS
  <2>1. V!OwnAttempt
    <3>1. ASSUME ~stale, NEW p \in PunchPorts PROVE told[V!Visitor][p] \in {V!Nobody, attempt}
      BY <3>1 DEF PunchInv, CleanInv, FreshAt
    <3>2. QED
      BY <3>1 DEF V!OwnAttempt
  <2>2. V!BothWays
    BY DEF PunchInv, TestInv, V!TypeOK, V!BothWays
  <2>3. QED
    BY <2>1, <2>2 DEF PunchInv, V!PunchSound
<1>2. QED
  <2>1. (part = "punch" => PunchInv) => PunchSound
    BY <1>1 DEF PunchSound
  <2>2. QED
    BY <2>1, PunchInvariant, PTL

=============================================================================
