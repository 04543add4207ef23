--------------------------- MODULE BufChain_proofs --------------------------
(***************************************************************************)
(* What TLAPS proves of a bufChain with one consumer (BufChain), whatever  *)
(* the size of its rings and the modulus of their indexes: with one        *)
(* producer, or with any number that never fill the first ring, it is      *)
(* sound, a queue, and sets next once.                                     *)
(*                                                                         *)
(* The indexes of a ring wrap.  The invariant says that there are numbers  *)
(* that do not, of which they are the remainders: H[i] and T[i], the       *)
(* elements ever placed in ring i and taken from it, b[i], the elements    *)
(* placed in the rings before it, and J[p], the place that producer p has  *)
(* reserved.  An element's place in the order is then b[i] + j + 1.        *)
(***************************************************************************)
EXTENDS BufChain, FiniteSets, FiniteSetTheorems, SequenceTheorems, TLAPS

\* One goroutine takes from a chain, and either one puts to it, as in the receive queue
\* of a connection, or the elements inside never fill the first ring.
Served ==
    /\ \A k, l \in Consumers : k = l
    /\ \A s \in Setups : (\A p, q \in s.producers : p = q) \/ s.maxInside < s.initSize
    /\ IsFiniteSet(Producers)

N == Len(rings)
M == IndexMod

Publishing(p) == ppc[p] \in {"publishHead", "publishNext"}
Growing(p) == ppc[p] \in {"publishHead", "publishNext", "openGate"}
Unpublished == \E p \in Producers : Publishing(p)
Moving == \E k \in Consumers : kpc[k] = "move"
Pending == {p \in Producers : ppc[p] \in {"gate", "head", "reserve", "publishHead", "publishNext"}}

Calm == setup.maxInside < setup.initSize
Alone == \A p, q \in setup.producers : p = q

\* The sizes a ring can have.
GoodSize(n) == \E sizes \in SUBSET (1 .. SizeLimit) : Doubled(setup, sizes) /\ n \in sizes

Slots == UNION {[0 .. n - 1 -> 0 .. MaxPush] : n \in Nat}
Ring == [size : Nat, head : Nat, tail : Nat, vals : Slots, next : Nat]

TypeInv ==
    /\ setup \in Setups /\ rings \in Seq(Ring) /\ N >= 1
    /\ ppc \in [Producers -> {"idle", "gate", "head", "reserve", "store", "publishHead",
                              "publishNext", "openGate"}]
    /\ val \in [Producers -> 0 .. MaxPush] /\ slot \in [Producers -> 0 .. SizeLimit - 1]
    /\ pring \in [Producers -> 0 .. N] /\ fresh \in [Producers -> 0 .. N]
    /\ kpc \in [Consumers -> {"idle", "next", "look", "empty", "slot", "move"}]
    /\ kring \in [Consumers -> 0 .. N] /\ knext \in [Consumers -> 0 .. N]
    /\ ktail \in [Consumers -> 0 .. M - 1] /\ wasEmpty \in [Consumers -> BOOLEAN]
    /\ begun \in 0 .. MaxPush /\ order \in Seq(1 .. MaxPush) /\ last \in 0 .. MaxPush
    /\ popped \in Nat /\ newChain \in BOOLEAN

GhostType(b, H, T, J) ==
    /\ b \in [RingNo -> Nat] /\ H \in [RingNo -> Nat] /\ T \in [RingNo -> Nat]
    /\ J \in [Producers -> Nat]

\* The indexes are remainders, and no ring holds more than its size.
IndexInv(H, T) ==
    \A i \in RingNo :
        /\ GoodSize(rings[i].size) /\ rings[i].vals \in [0 .. rings[i].size - 1 -> 0 .. MaxPush]
        /\ T[i] <= H[i] /\ H[i] <= T[i] + rings[i].size
        /\ rings[i].head = H[i] % M /\ rings[i].tail = T[i] % M

\* The rings are in line: those before the tail are used up, those after it untouched.
ListInv(b, H, T) ==
    /\ b[1] = 0
    /\ \A i \in RingNo : i < N => b[i + 1] = b[i] + H[i] /\ b[i + 1] <= b[N]
    /\ \A i \in RingNo :
          rings[i].next = IF i < N - 1 \/ (i = N - 1 /\ ~Unpublished) THEN i + 1 ELSE Nil
    /\ headPtr = IF \E p \in Producers : ppc[p] = "publishHead" THEN N - 1 ELSE N
    /\ tailPtr \in RingNo /\ (Unpublished => tailPtr < N /\ H[N] = 1)
    /\ \A i \in RingNo : (i < tailPtr => T[i] = H[i]) /\ (i > tailPtr => T[i] = 0)
    /\ dropped = 1 .. tailPtr - 1

\* What a producer has in hand.
ProducerInv ==
    /\ \A p \in Producers :
          /\ ppc[p] # "idle" => p \in setup.producers /\ val[p] \in 1 .. MaxPush
          /\ ppc[p] \in {"reserve", "store"} => pring[p] = N
          /\ Publishing(p) => pring[p] = N - 1 /\ fresh[p] = N
          /\ Growing(p) => newChain /\ Alone
    /\ newChain => \E p \in Producers : Growing(p)

\* Elements are counted from the moment their push begins.
CountInv ==
    /\ begun - popped <= MaxInside /\ Len(order) + Cardinality(Pending) = begun
    /\ ~Alone => N = 1 /\ rings[1].size = InitSize

\* Place j of ring i has no value: not stored yet, or taken already.
Hole(i, j, T, J) ==
    \/ \E p \in Producers : ppc[p] = "store" /\ i = N /\ J[p] = j
    \/ Moving /\ i = tailPtr /\ j = T[i]

\* A value in a ring is the element of its place.
IsElement(i, j, v, b) ==
    IF Unpublished /\ i = N THEN \E p \in Producers : Publishing(p) /\ v = val[p]
    ELSE v = order[b[i] + j + 1]

SlotInv(b, H, T, J) ==
    \A i \in RingNo : \A x \in 0 .. rings[i].size - 1 :
        rings[i].vals[x] # Nil =>
           \E j \in T[i] .. H[i] - 1 :
              /\ x = j % rings[i].size /\ ~Hole(i, j, T, J)
              /\ IsElement(i, j, rings[i].vals[x], b)

\* Each producer that has reserved a place has one of its own.
StoreInv(b, H, T, J) ==
    \A p \in Producers : ppc[p] = "store" =>
        /\ J[p] \in T[N] .. H[N] - 1 /\ slot[p] = J[p] % rings[N].size
        /\ order[b[N] + J[p] + 1] = val[p]
        /\ \A q \in Producers : q # p /\ ppc[q] = "store" => J[p] # J[q]
        /\ Moving /\ tailPtr = N => J[p] # T[N]

\* The places in the rings are those of the order.
OrderInv(b, H, T) ==
    /\ Len(order) = b[N] + H[N] - (IF Unpublished THEN 1 ELSE 0)
    /\ popped = b[tailPtr] + T[tailPtr] + (IF Moving THEN 1 ELSE 0)

\* What a consumer has seen still tells what the ring is like.
ConsumerInv(H, T) ==
    \A k \in Consumers :
        /\ kpc[k] # "idle" => kring[k] = tailPtr
        /\ kpc[k] \in {"look", "empty", "slot", "move"} /\ knext[k] # Nil =>
              knext[k] = tailPtr + 1 /\ rings[tailPtr].next # Nil
        /\ kpc[k] \in {"slot", "move"} => T[tailPtr] < H[tailPtr] /\ ktail[k] = T[tailPtr] % M
        /\ kpc[k] = "empty" /\ knext[k] # Nil => T[tailPtr] = H[tailPtr]
        /\ kpc[k] = "look" /\ knext[k] = Nil /\ T[tailPtr] = H[tailPtr] => wasEmpty[k]
        /\ kpc[k] = "empty" /\ knext[k] = Nil => wasEmpty[k]

GhostInv(b, H, T, J) ==
    /\ GhostType(b, H, T, J) /\ IndexInv(H, T) /\ ListInv(b, H, T) /\ SlotInv(b, H, T, J)
    /\ StoreInv(b, H, T, J) /\ OrderInv(b, H, T) /\ ConsumerInv(H, T)

IInv ==
    /\ TypeInv /\ ProducerInv /\ CountInv
    /\ \E b, H, T \in [RingNo -> Nat], J \in [Producers -> Nat] : GhostInv(b, H, T, J)

USE DEF Nil, RingNo, N, M, InitSize, SizeLimit, IndexMod, MaxInside

-----------------------------------------------------------------------------
(* Remainders.                                                             *)

\* The remainder of a division, and that it is one.
LEMMA DivMod ==
    ASSUME NEW a \in Nat, NEW m \in Nat \ {0}
    PROVE  (a % m) \in 0 .. (m - 1) /\ \E q \in Nat : a = m * q + (a % m)
<1>1. (a % m) \in 0 .. (m - 1)
  BY SMT
<1>2. (a \div m) \in Nat
  BY SMT
<1>3. a = m * (a \div m) + (a % m)
  BY SMT
<1>4. QED
  BY <1>1, <1>2, <1>3

\* A number is its own remainder with any multiple of the modulus added.
LEMMA ModOf ==
    ASSUME NEW a \in Nat, NEW m \in Nat \ {0}, NEW q \in Nat, NEW r \in 0 .. m - 1, a = m * q + r
    PROVE  a % m = r
  BY SMT

\* Adding one to an index that has wrapped is adding one to the number it stands for.
LEMMA NextOne ==
    ASSUME NEW a \in Nat, NEW m \in Nat \ {0}
    PROVE  ((a % m) + 1) % m = (a + 1) % m
<1>1. PICK q \in Nat : a = m * q + (a % m)
  BY DivMod
<1> DEFINE r == a % m
<1>2. r \in 0 .. (m - 1)
  BY DivMod
<1> HIDE DEF r
<1>3. CASE r + 1 = m
  <2>1. m % m = 0
    BY ModOf
  <2>2. a + 1 = m * (q + 1) + 0
    BY <1>1, <1>2, <1>3 DEF r
  <2>3. 0 \in 0 .. m - 1 /\ q + 1 \in Nat /\ a + 1 \in Nat
    OBVIOUS
  <2>4. (a + 1) % m = 0
    BY <2>2, <2>3, ModOf
  <2>5. QED
    BY <1>3, <2>1, <2>4 DEF r
<1>4. CASE r + 1 < m
  <2>1. (r + 1) % m = r + 1
    BY <1>2, <1>4
  <2>2. a + 1 = m * q + (r + 1)
    BY <1>1, <1>2 DEF r
  <2>3. (a + 1) % m = r + 1
    <3>1. r + 1 \in 0 .. m - 1 /\ a + 1 \in Nat
      BY <1>2, <1>4
    <3>2. QED
      BY <2>2, <3>1, ModOf
  <2>4. QED
    BY <2>1, <2>3 DEF r
<1>5. QED
  BY <1>2, <1>3, <1>4

\* Wrapping first at the modulus of the indexes does not change the place in a ring.
LEMMA ModMod ==
    ASSUME NEW a \in Nat, NEW m \in Nat \ {0}, NEW s \in Nat \ {0}, m % s = 0
    PROVE  (a % m) % s = a % s
<1>1. PICK q \in Nat : a = m * q + (a % m)
  BY DivMod
<1>0. m \in Nat /\ (a % m) \in Nat
  BY DivMod
<1>2. PICK k \in Nat : m = s * k
  <2>1. PICK k \in Nat : m = s * k + (m % s)
    BY <1>0, DivMod
  <2>2. QED
    BY <2>1
<1>3. PICK u \in Nat : (a % m) = s * u + ((a % m) % s)
  BY <1>0, DivMod
<1> DEFINE t == (a % m) % s
<1>4. t \in 0 .. (s - 1)
  BY DivMod
<1> HIDE DEF t
<1>5. a = s * (k * q + u) + t
  <2>1. a = (s * k) * q + (s * u + t)
    BY <1>1, <1>2, <1>3 DEF t
  <2>2. (s * k) * q = s * (k * q)
    OBVIOUS
  <2>3. s * (k * q + u) = s * (k * q) + s * u
    OBVIOUS
  <2>4. QED
    BY <1>4, <2>1, <2>2, <2>3
<1>6. k * q + u \in Nat
  OBVIOUS
<1>7. a % s = t
  BY <1>4, <1>5, <1>6, ModOf
<1>8. QED
  BY <1>7 DEF t

\* Numbers less than the modulus apart have different remainders.
LEMMA Differ ==
    ASSUME NEW a \in Nat, NEW b \in Nat, NEW m \in Nat \ {0}, a < b, b < a + m
    PROVE  a % m # b % m
<1> SUFFICES ASSUME a % m = b % m PROVE FALSE
  OBVIOUS
<1>1. PICK q \in Nat : a = m * q + (a % m)
  BY DivMod
<1>2. PICK k \in Nat : b = m * k + (b % m)
  BY DivMod
<1>3. (a % m) \in Nat
  BY DivMod
<1>4. m * q < m * k /\ m * k < m * q + m
  BY <1>1, <1>2, <1>3
<1>5. q < k
  BY <1>4
<1>6. m * k >= m * (q + 1)
  BY <1>5
<1>7. m * (q + 1) = m * q + m
  OBVIOUS
<1>8. QED
  BY <1>4, <1>6, <1>7

\* The distance of two wrapped indexes is that of the numbers they stand for.
LEMMA HeldIs ==
    ASSUME NEW a \in Nat, NEW b \in Nat, NEW m \in Nat \ {0}, a <= b, b < a + m
    PROVE  ((b % m) - (a % m) + m) % m = b - a
<1>1. PICK q \in Nat : a = m * q + (a % m)
  BY DivMod
<1>2. PICK k \in Nat : b = m * k + (b % m)
  BY DivMod
<1> DEFINE x == a % m
           y == b % m
<1>3. x \in 0 .. (m - 1) /\ y \in 0 .. (m - 1)
  BY DivMod
<1> HIDE DEF x, y
<1>4. m * k + y = m * q + x + (b - a) /\ b - a \in 0 .. (m - 1)
  BY <1>1, <1>2 DEF x, y
<1>5. k = q \/ k = q + 1
  <2>1. m * k > m * q - m /\ m * k < m * q + 2 * m
    BY <1>3, <1>4
  <2>2. m * (q - 1) = m * q - m /\ m * (q + 2) = m * q + 2 * m
    OBVIOUS
  <2>3. k > q - 1
    <3>1. k <= q - 1 => m * k <= m * (q - 1)
      OBVIOUS
    <3>2. QED
      BY <2>1, <2>2, <3>1
  <2>4. k < q + 2
    <3>1. k >= q + 2 => m * k >= m * (q + 2)
      OBVIOUS
    <3>2. QED
      BY <2>1, <2>2, <3>1
  <2>5. QED
    BY <2>3, <2>4
<1>6. CASE k = q
  <2>1. y - x + m = m * 1 + (b - a)
    BY <1>3, <1>4, <1>6
  <2>2. y - x + m \in Nat
    BY <1>3
  <2>3. QED
    BY <1>4, <2>1, <2>2, ModOf DEF x, y
<1>7. CASE k = q + 1
  <2>1. m * (q + 1) = m * q + m
    OBVIOUS
  <2>2. y - x + m = m * 0 + (b - a)
    BY <1>3, <1>4, <1>7, <2>1
  <2>3. y - x + m \in Nat
    BY <1>3
  <2>4. QED
    BY <1>4, <2>2, <2>3, ModOf DEF x, y
<1>8. QED
  BY <1>5, <1>6, <1>7

\* What divides a divisor divides: every size of a ring divides the modulus.
LEMMA DivTrans ==
    ASSUME NEW l \in Nat \ {0}, NEW m \in Nat, NEW s \in Nat \ {0}, m % l = 0, l % s = 0
    PROVE  m % s = 0
<1>1. PICK q \in Nat : m = l * q
  <2>1. PICK q \in Nat : m = l * q + (m % l)
    BY DivMod
  <2>2. QED
    BY <2>1
<1>2. PICK k \in Nat : l = s * k
  <2>1. PICK k \in Nat : l = s * k + (l % s)
    BY DivMod
  <2>2. QED
    BY <2>1
<1>3. m = s * (k * q) + 0
  BY <1>1, <1>2
<1>4. QED
  BY <1>3, ModOf

\* A wrapped index can be added to as the number it stands for.
LEMMA ModPlus ==
    ASSUME NEW a \in Nat, NEW b \in Nat, NEW m \in Nat \ {0}
    PROVE  ((a % m) + b) % m = (a + b) % m
<1>1. PICK q \in Nat : a = m * q + (a % m)
  BY DivMod
<1>2. (a % m) + b \in Nat /\ a + b \in Nat /\ (a % m) \in Nat
  BY DivMod
<1>3. PICK k \in Nat : (a % m) + b = m * k + (((a % m) + b) % m)
  BY <1>2, DivMod
<1> DEFINE t == ((a % m) + b) % m
<1>4. t \in 0 .. (m - 1)
  BY <1>2, DivMod
<1> HIDE DEF t
<1>5. a + b = m * (q + k) + t
  <2>1. m * (q + k) = m * q + m * k
    OBVIOUS
  <2>2. QED
    BY <1>1, <1>2, <1>3, <1>4, <2>1 DEF t
<1>6. q + k \in Nat
  OBVIOUS
<1>7. QED
  BY <1>2, <1>4, <1>5, <1>6, ModOf DEF t

-----------------------------------------------------------------------------
(* A ring and its indexes.                                                 *)

\* What a use of a chain gives.
LEMMA SetupFacts ==
    ASSUME Served, setup \in Setups
    PROVE  /\ InitSize \in Nat \ {0} /\ SizeLimit \in Nat \ {0} /\ M \in Nat \ {0}
           /\ M % SizeLimit = 0 /\ SizeLimit < M /\ MaxInside \in Nat
           /\ GoodSize(InitSize) /\ setup.producers \subseteq Producers
           /\ Alone \/ MaxInside < InitSize
<1>1. /\ InitSize \in Nat \ {0} /\ SizeLimit \in Nat \ {0} /\ M \in Nat
      /\ M % SizeLimit = 0 /\ SizeLimit < M /\ MaxInside \in Nat
      /\ setup.producers \subseteq Producers
      /\ \E sizes \in SUBSET (1 .. SizeLimit) : Doubled(setup, sizes)
  BY SetupAssumption
<1>2. GoodSize(InitSize)
  BY <1>1 DEF GoodSize, Doubled
<1>3. Alone \/ MaxInside < InitSize
  BY DEF Served, Alone
<1>4. QED
  BY <1>1, <1>2, <1>3

\* A size divides the modulus, and a ring can be followed by one of twice the size.
LEMMA SizeFacts ==
    ASSUME Served, setup \in Setups, NEW n, GoodSize(n)
    PROVE  /\ n \in Nat \ {0} /\ n <= SizeLimit /\ n < M /\ M % n = 0
           /\ GoodSize(Least(2 * n, SizeLimit)) /\ Least(2 * n, SizeLimit) \in Nat \ {0}
<1>1. PICK sizes \in SUBSET (1 .. SizeLimit) : Doubled(setup, sizes) /\ n \in sizes
  BY DEF GoodSize
<1>2. /\ SizeLimit \in Nat \ {0} /\ M \in Nat \ {0} /\ M % SizeLimit = 0 /\ SizeLimit < M
  BY SetupFacts
<1>3. /\ n \in Nat \ {0} /\ n <= SizeLimit /\ SizeLimit % n = 0
      /\ n = SizeLimit \/ 2 * n \in sizes
  BY <1>1, <1>2 DEF Doubled
<1>4. M % n = 0
  BY <1>2, <1>3, DivTrans
<1>5. Least(2 * n, SizeLimit) \in sizes
  <2>1. CASE n = SizeLimit
    BY <1>1, <1>2, <2>1 DEF Least
  <2>2. CASE 2 * n \in sizes
    BY <1>1, <1>2, <1>3, <2>2 DEF Least
  <2>3. QED
    BY <1>3, <2>1, <2>2
<1>6. Least(2 * n, SizeLimit) \in Nat \ {0}
  <2>1. \A m \in 1 .. SizeLimit : m \in Nat \ {0}
    BY <1>2
  <2>2. \A m \in sizes : m \in 1 .. SizeLimit
    BY <1>1
  <2>3. QED
    BY <1>5, <2>1, <2>2
<1>7. GoodSize(Least(2 * n, SizeLimit))
  BY <1>1, <1>5 DEF GoodSize
<1>8. QED
  BY <1>2, <1>3, <1>4, <1>6, <1>7

\* The places of what a ring holds are slots of their own, and the indexes tell them.
LEMMA PlaceFacts ==
    ASSUME Served, setup \in Setups, NEW n, GoodSize(n)
    PROVE  /\ \A j \in Nat : (j % M) % n = j % n /\ (j % n) \in 0 .. n - 1
           /\ \A t \in Nat, i \in Nat, j \in Nat :
                 t <= i /\ i < t + n /\ t <= j /\ j < t + n /\ i % n = j % n => i = j
<1>1. n \in Nat \ {0} /\ M \in Nat \ {0} /\ M % n = 0
  BY SetupFacts, SizeFacts
<1>2. \A j \in Nat : (j % M) % n = j % n /\ (j % n) \in 0 .. n - 1
  BY <1>1, ModMod, DivMod
<1>3. ASSUME NEW t \in Nat, NEW i \in Nat, NEW j \in Nat,
             t <= i, i < t + n, t <= j, j < t + n, i % n = j % n
      PROVE  i = j
  <2>1. ~(i < j)
    <3>1. i < j => j < i + n
      BY <1>1, <1>3
    <3>2. QED
      BY <1>1, <1>3, <3>1, Differ
  <2>2. ~(j < i)
    <3>1. j < i => i < j + n
      BY <1>1, <1>3
    <3>2. QED
      BY <1>1, <1>3, <3>1, Differ
  <2>3. QED
    BY <2>1, <2>2
<1>4. QED
  BY <1>2, <1>3

\* The indexes tell a full ring from an empty one, and how many are in it.
LEMMA IndexFacts ==
    ASSUME Served, setup \in Setups, NEW n, GoodSize(n),
           NEW t \in Nat, NEW h \in Nat, t <= h, h <= t + n
    PROVE  /\ ((t % M) + n) % M = h % M <=> h = t + n
           /\ t % M = h % M <=> h = t
           /\ ((h % M) - (t % M) + M) % M = h - t
           /\ ((h % M) + 1) % M = (h + 1) % M /\ ((t % M) + 1) % M = (t + 1) % M
           /\ (h % M) \in 0 .. M - 1 /\ (t % M) \in 0 .. M - 1
<1>1. n \in Nat \ {0} /\ M \in Nat \ {0} /\ n < M
  BY SetupFacts, SizeFacts
<1>2. ((t % M) + n) % M = (t + n) % M
  BY <1>1, ModPlus
<1>3. h # t + n => h % M # (t + n) % M
  <2>1. h # t + n => h < t + n /\ t + n < h + M
    BY <1>1
  <2>2. t + n \in Nat
    BY <1>1
  <2>3. QED
    BY <1>1, <2>1, <2>2, Differ
<1>4. h # t => t % M # h % M
  <2>1. h # t => t < h /\ h < t + M
    BY <1>1
  <2>2. QED
    BY <1>1, <2>1, Differ
<1>5. ((h % M) - (t % M) + M) % M = h - t
  <2>1. h < t + M
    BY <1>1
  <2>2. QED
    BY <1>1, <2>1, HeldIs
<1>6. ((h % M) + 1) % M = (h + 1) % M /\ ((t % M) + 1) % M = (t + 1) % M
  BY <1>1, NextOne
<1>7. (h % M) \in 0 .. M - 1 /\ (t % M) \in 0 .. M - 1
  BY <1>1, DivMod
<1>8. QED
  BY <1>2, <1>3, <1>4, <1>5, <1>6, <1>7

\* A ring is replaced.
LEMMA RingUpdate ==
    ASSUME rings \in Seq(Ring), NEW i \in RingNo, NEW r \in Ring, rings' = [rings EXCEPT ![i] = r]
    PROVE  /\ rings' \in Seq(Ring) /\ Len(rings') = Len(rings) /\ rings'[i] = r
           /\ \A j \in RingNo : j # i => rings'[j] = rings[j]
  OBVIOUS

\* A ring is added.
LEMMA RingAdded ==
    ASSUME rings \in Seq(Ring), NEW r \in Ring, rings' = Append(rings, r)
    PROVE  /\ rings' \in Seq(Ring) /\ Len(rings') = Len(rings) + 1 /\ rings'[N + 1] = r
           /\ \A j \in RingNo : rings'[j] = rings[j]
  OBVIOUS


-----------------------------------------------------------------------------
(* What most steps leave alone.                                            *)

\* A step that moves no place and no value: who is storing, publishing or moving
\* the tail stays so, with the same element and the same slot.
Quiet ==
    /\ UNCHANGED <<setup, rings, order, tailPtr, popped>>
    /\ Moving' <=> Moving
    /\ \A p \in Producers :
          /\ (ppc[p] = "store") <=> (ppc'[p] = "store")
          /\ Publishing(p) <=> Publishing(p)'
          /\ ppc[p] = "store" \/ Publishing(p) => val'[p] = val[p] /\ slot'[p] = slot[p]

\* Such a step keeps what is known of indexes, slots and places.
LEMMA QuietStep ==
    ASSUME Quiet, NEW b, NEW H, NEW T, NEW J, GhostType(b, H, T, J), IndexInv(H, T),
           SlotInv(b, H, T, J), StoreInv(b, H, T, J), OrderInv(b, H, T)
    PROVE  /\ GhostType(b, H, T, J)' /\ IndexInv(H, T)' /\ SlotInv(b, H, T, J)'
           /\ StoreInv(b, H, T, J)' /\ OrderInv(b, H, T)' /\ (Unpublished' <=> Unpublished)
<1>1. Unpublished' <=> Unpublished
  BY DEF Quiet, Unpublished
<1>2. GhostType(b, H, T, J)'
  BY DEF Quiet, GhostType
<1>3. IndexInv(H, T)'
  BY DEF Quiet, IndexInv, GoodSize
<1>4. \A i, j : Hole(i, j, T, J)' <=> Hole(i, j, T, J)
  BY DEF Quiet, Hole
<1>5. SlotInv(b, H, T, J)'
  <2>1. SUFFICES ASSUME NEW i \in RingNo, NEW x \in 0 .. rings[i].size - 1, rings[i].vals[x] # Nil
                 PROVE  \E j \in T[i] .. H[i] - 1 :
                           /\ x = j % rings[i].size /\ ~Hole(i, j, T, J)'
                           /\ IsElement(i, j, rings[i].vals[x], b)'
    BY DEF Quiet, SlotInv
  <2>2. PICK j \in T[i] .. H[i] - 1 :
           /\ x = j % rings[i].size /\ ~Hole(i, j, T, J)
           /\ IsElement(i, j, rings[i].vals[x], b)
    BY <2>1 DEF SlotInv
  <2>3. IsElement(i, j, rings[i].vals[x], b)'
    BY <1>1, <2>2 DEF Quiet, IsElement
  <2>4. ~Hole(i, j, T, J)'
    BY <1>4, <2>2
  <2>5. QED
    BY <2>2, <2>3, <2>4
<1>6. StoreInv(b, H, T, J)'
  BY DEF Quiet, StoreInv
<1>7. OrderInv(b, H, T)'
  BY <1>1 DEF Quiet, OrderInv
<1>8. QED
  BY <1>1, <1>2, <1>3, <1>5, <1>6, <1>7

\* A push is pending until its element has a place: how many are changes with one pc.
LEMMA PendingStep ==
    ASSUME Served, NEW p \in Producers, \A q \in Producers : q # p => ppc'[q] = ppc[q]
    PROVE  /\ Cardinality(Pending) \in Nat
           /\ (p \in Pending <=> p \in Pending') => Cardinality(Pending') = Cardinality(Pending)
           /\ p \notin Pending /\ p \in Pending' => Cardinality(Pending') = Cardinality(Pending) + 1
           /\ p \in Pending /\ p \notin Pending' => Cardinality(Pending') = Cardinality(Pending) - 1
<1>1. IsFiniteSet(Pending) /\ Cardinality(Pending) \in Nat
  BY FS_Subset, FS_CardinalityType DEF Served, Pending
<1>2. \A q \in Producers : q # p => (q \in Pending' <=> q \in Pending)
  BY DEF Pending
<1>3. Pending \subseteq Producers /\ Pending' \subseteq Producers
  BY DEF Pending
<1>4. CASE p \in Pending <=> p \in Pending'
  <2>1. Pending' = Pending
    BY <1>2, <1>3, <1>4
  <2>2. QED
    BY <1>1, <1>4, <2>1
<1>5. CASE p \notin Pending /\ p \in Pending'
  <2>1. Pending' = Pending \cup {p}
    BY <1>2, <1>3, <1>5
  <2>2. Cardinality(Pending \cup {p}) = Cardinality(Pending) + 1
    BY <1>1, <1>5, FS_AddElement
  <2>3. QED
    BY <1>1, <1>5, <2>1, <2>2
<1>6. CASE p \in Pending /\ p \notin Pending'
  <2>1. Pending' = Pending \ {p}
    BY <1>2, <1>3, <1>6
  <2>2. Cardinality(Pending \ {p}) = Cardinality(Pending) - 1
    BY <1>1, <1>6, FS_RemoveElement
  <2>3. QED
    BY <1>1, <1>6, <2>1, <2>2
<1>7. QED
  BY <1>4, <1>5, <1>6

-----------------------------------------------------------------------------
(* The start.                                                              *)

\* An empty ring is a ring.
LEMMA EmptyRingType ==
    ASSUME NEW n \in Nat \ {0}
    PROVE  /\ EmptyRing(n) \in Ring /\ EmptyRing(n).vals \in [0 .. n - 1 -> 0 .. MaxPush]
           /\ EmptyRing(n).size = n /\ EmptyRing(n).head = 0 /\ EmptyRing(n).tail = 0
           /\ EmptyRing(n).next = 0 /\ \A x \in 0 .. n - 1 : EmptyRing(n).vals[x] = 0
<1>1. [i \in 0 .. n - 1 |-> Nil] \in [0 .. n - 1 -> 0 .. MaxPush]
  BY BoundAssumption
<1>2. [i \in 0 .. n - 1 |-> Nil] \in Slots
  BY <1>1 DEF Slots
<1>3. QED
  BY <1>1, <1>2 DEF EmptyRing, Ring

\* The invariant holds at the start: one empty ring and nothing in hand.
LEMMA InitIInv == ASSUME Served, Init PROVE IInv
<1>1. /\ setup \in Setups /\ Len(rings) = 1 /\ rings[1] = EmptyRing(InitSize)
      /\ InitSize \in Nat \ {0} /\ M \in Nat \ {0} /\ GoodSize(InitSize) /\ MaxInside \in Nat
  BY SetupFacts DEF Init
<1>2. \A p \in Producers : ppc[p] = "idle"
  BY DEF Init
<1>3. \A k \in Consumers : kpc[k] = "idle"
  BY DEF Init
<1>4. TypeInv
  <2>1. rings \in Seq(Ring)
    BY <1>1, EmptyRingType DEF Init
  <2>2. /\ 0 \in 0 .. MaxPush /\ 0 \in 0 .. N /\ N >= 1
        /\ 0 \in 0 .. SizeLimit - 1 /\ 0 \in 0 .. M - 1
    BY <1>1, BoundAssumption, SetupFacts
  <2>3. /\ ppc \in [Producers -> {"idle", "gate", "head", "reserve", "store", "publishHead",
                                "publishNext", "openGate"}]
        /\ val \in [Producers -> 0 .. MaxPush] /\ slot \in [Producers -> 0 .. SizeLimit - 1]
        /\ pring \in [Producers -> 0 .. N] /\ fresh \in [Producers -> 0 .. N]
    BY <2>2 DEF Init
  <2>4. /\ kpc \in [Consumers -> {"idle", "next", "look", "empty", "slot", "move"}]
        /\ kring \in [Consumers -> 0 .. N] /\ knext \in [Consumers -> 0 .. N]
        /\ ktail \in [Consumers -> 0 .. M - 1] /\ wasEmpty \in [Consumers -> BOOLEAN]
    BY <2>2 DEF Init
  <2>5. /\ begun \in 0 .. MaxPush /\ order \in Seq(1 .. MaxPush) /\ last \in 0 .. MaxPush
        /\ popped \in Nat /\ newChain \in BOOLEAN
    <3>1. <<>> \in Seq(1 .. MaxPush)
      OBVIOUS
    <3>2. QED
      BY <2>2, <3>1 DEF Init
  <2>6. QED
    BY <1>1, <2>1, <2>2, <2>3, <2>4, <2>5 DEF TypeInv
<1>5. ~Unpublished /\ ~Moving /\ Pending = {}
  BY <1>2, <1>3 DEF Unpublished, Publishing, Moving, Pending
<1>6. ProducerInv
  BY <1>2 DEF ProducerInv, Publishing, Growing, Init
<1>7. CountInv
  <2>1. Cardinality(Pending) = 0
    BY <1>5, FS_EmptySet
  <2>2. begun = 0 /\ popped = 0 /\ Len(order) = 0
    BY DEF Init
  <2>3. rings[1].size = InitSize
    BY <1>1, EmptyRingType
  <2>4. QED
    BY <1>1, <2>1, <2>2, <2>3 DEF CountInv
<1>8. PICK z : z = [i \in RingNo |-> 0]
  OBVIOUS
<1>9. PICK J : J = [p \in Producers |-> 0]
  OBVIOUS
<1>10. z \in [RingNo -> Nat] /\ J \in [Producers -> Nat] /\ RingNo = {1} /\ z[1] = 0
  BY <1>1, <1>8, <1>9
<1>11. GhostInv(z, z, z, J)
  <2>1. GhostType(z, z, z, J)
    BY <1>10 DEF GhostType
  <2>2. IndexInv(z, z)
    <3>1. 0 % M = 0
      BY <1>1
    <3>2. QED
      BY <1>1, <1>10, <3>1, EmptyRingType DEF IndexInv
  <2>3. ListInv(z, z, z)
    BY <1>1, <1>2, <1>5, <1>10, EmptyRingType DEF ListInv, Init
  <2>4. SlotInv(z, z, z, J)
    BY <1>1, <1>10, EmptyRingType DEF SlotInv
  <2>5. StoreInv(z, z, z, J)
    BY <1>2 DEF StoreInv
  <2>6. OrderInv(z, z, z)
    BY <1>1, <1>5, <1>10 DEF OrderInv, Init
  <2>7. ConsumerInv(z, z)
    BY <1>3 DEF ConsumerInv
  <2>8. QED
    BY <2>1, <2>2, <2>3, <2>4, <2>5, <2>6, <2>7 DEF GhostInv
<1>12. QED
  BY <1>4, <1>6, <1>7, <1>10, <1>11 DEF IInv

\* What the invariant consists of, after a step.
LEMMA Assemble ==
    ASSUME NEW b, NEW H, NEW T, NEW J, TypeInv', ProducerInv', CountInv',
           GhostType(b, H, T, J)', IndexInv(H, T)', ListInv(b, H, T)', SlotInv(b, H, T, J)',
           StoreInv(b, H, T, J)', OrderInv(b, H, T)', ConsumerInv(H, T)'
    PROVE  IInv'
<1>1. GhostInv(b, H, T, J)'
  BY DEF GhostInv
<1>2. /\ b \in [RingNo' -> Nat] /\ H \in [RingNo' -> Nat] /\ T \in [RingNo' -> Nat]
      /\ J \in [Producers -> Nat]
  BY DEF GhostType
<1>3. QED
  BY <1>1, <1>2 DEF IInv

\* The indexes tell of every ring whether it is full or empty and how many are in it.
LEMMA RingFacts ==
    ASSUME Served, TypeInv, NEW b, NEW H, NEW T, NEW J, GhostType(b, H, T, J), IndexInv(H, T),
           NEW i \in RingNo
    PROVE  /\ rings[i] \in Ring /\ rings[i].size \in Nat \ {0} /\ H[i] \in Nat /\ T[i] \in Nat
           /\ T[i] <= H[i] /\ H[i] <= T[i] + rings[i].size
           /\ Full(rings[i]) <=> H[i] = T[i] + rings[i].size
           /\ Empty(rings[i]) <=> H[i] = T[i]
           /\ Held(rings[i]) = H[i] - T[i]
           /\ (rings[i].head + 1) % M = (H[i] + 1) % M /\ (rings[i].tail + 1) % M = (T[i] + 1) % M
           /\ rings[i].head \in 0 .. M - 1 /\ rings[i].tail \in 0 .. M - 1
<1>1. setup \in Setups /\ rings[i] \in Ring
  BY DEF TypeInv
<1>2. H[i] \in Nat /\ T[i] \in Nat
  BY DEF GhostType
<1>3. /\ GoodSize(rings[i].size) /\ T[i] <= H[i] /\ H[i] <= T[i] + rings[i].size
      /\ rings[i].head = H[i] % M /\ rings[i].tail = T[i] % M
  BY DEF IndexInv
<1>4. rings[i].size \in Nat \ {0}
  BY <1>1, <1>3, SizeFacts
<1>5. /\ ((T[i] % M) + rings[i].size) % M = H[i] % M <=> H[i] = T[i] + rings[i].size
      /\ T[i] % M = H[i] % M <=> H[i] = T[i]
      /\ ((H[i] % M) - (T[i] % M) + M) % M = H[i] - T[i]
      /\ ((H[i] % M) + 1) % M = (H[i] + 1) % M /\ ((T[i] % M) + 1) % M = (T[i] + 1) % M
      /\ (H[i] % M) \in 0 .. M - 1 /\ (T[i] % M) \in 0 .. M - 1
  BY <1>1, <1>2, <1>3, IndexFacts
<1>6. QED
  BY <1>1, <1>2, <1>3, <1>4, <1>5 DEF Full, Empty, Held

-----------------------------------------------------------------------------
(* Consumers.                                                              *)

\* A consumer's step that takes nothing and moves no tail keeps all but what it knows.
LEMMA ConsumerFrame ==
    ASSUME UNCHANGED <<setup, rings, cvars, pvars, popped, dropped>>, Moving' <=> Moving,
           ProducerInv, CountInv, NEW b, NEW H, NEW T, NEW J, GhostInv(b, H, T, J),
           TypeInv', ConsumerInv(H, T)'
    PROVE  IInv'
<1>1. Quiet
  BY DEF Quiet, cvars, pvars, Publishing
<1>2. /\ GhostType(b, H, T, J)' /\ IndexInv(H, T)' /\ SlotInv(b, H, T, J)'
      /\ StoreInv(b, H, T, J)' /\ OrderInv(b, H, T)' /\ (Unpublished' <=> Unpublished)
  BY <1>1, QuietStep DEF GhostInv
<1>3. ListInv(b, H, T)'
  BY <1>2 DEF GhostInv, ListInv, cvars, pvars
<1>4. ProducerInv'
  BY DEF ProducerInv, cvars, pvars, Publishing, Growing, Alone
<1>5. CountInv'
  BY DEF CountInv, pvars, Pending, Alone
<1>6. QED
  BY <1>2, <1>3, <1>4, <1>5, Assemble

\* With one consumer, what it does is all that consumers do.
LEMMA OneConsumer ==
    ASSUME Served, TypeInv, NEW k \in Consumers, NEW to, kpc' = [kpc EXCEPT ![k] = to]
    PROVE  /\ Moving <=> kpc[k] = "move"
           /\ Moving' <=> to = "move"
           /\ kpc'[k] = to /\ \A l \in Consumers : l = k
  BY DEF Served, TypeInv, Moving

\* bufChain.popTail loads the tail of the chain.
LEMMA PopBeginStep ==
    ASSUME Served, IInv, NEW k \in Consumers, PopBegin(k), UNCHANGED setup
    PROVE  IInv'
<1>1. TypeInv /\ ProducerInv /\ CountInv
  BY DEF IInv
<1>2. PICK b, H, T, J : GhostInv(b, H, T, J)
  BY DEF IInv
<1>3. /\ kpc[k] = "idle" /\ kpc' = [kpc EXCEPT ![k] = "next"]
      /\ kring' = [kring EXCEPT ![k] = tailPtr]
      /\ UNCHANGED <<rings, cvars, pvars, knext, ktail, popped, last, wasEmpty, dropped>>
  BY DEF PopBegin, KMove
<1>4. ~Moving /\ ~Moving' /\ kpc'[k] = "next" /\ \A l \in Consumers : l = k
  BY <1>1, <1>3, OneConsumer
<1>5. tailPtr \in 1 .. N
  BY <1>2 DEF GhostInv, ListInv
<1>6. TypeInv'
  BY <1>1, <1>3, <1>5 DEF TypeInv, cvars, pvars
<1>7. ConsumerInv(H, T)'
  BY <1>1, <1>3, <1>4 DEF ConsumerInv, TypeInv, cvars
<1>8. QED
  BY <1>1, <1>2, <1>3, <1>4, <1>6, <1>7, ConsumerFrame

\* It loads d.next: a ring without a successor is the last one, or all but one.
LEMMA LoadNextStep ==
    ASSUME Served, IInv, NEW k \in Consumers, LoadNext(k), UNCHANGED setup
    PROVE  IInv'
<1>1. TypeInv /\ ProducerInv /\ CountInv
  BY DEF IInv
<1>2. PICK b, H, T, J : GhostInv(b, H, T, J)
  BY DEF IInv
<1>3. /\ kpc[k] = "next" /\ kpc' = [kpc EXCEPT ![k] = "look"]
      /\ knext' = [knext EXCEPT ![k] = rings[kring[k]].next]
      /\ wasEmpty' = [wasEmpty EXCEPT ![k] = (popped = Len(order))]
      /\ UNCHANGED <<rings, cvars, pvars, kring, ktail, popped, last, dropped>>
  BY DEF LoadNext, KMove
<1>4. ~Moving /\ ~Moving' /\ kpc'[k] = "look" /\ \A l \in Consumers : l = k
  BY <1>1, <1>3, OneConsumer
<1>5. /\ kring[k] = tailPtr /\ tailPtr \in 1 .. N
      /\ GhostType(b, H, T, J) /\ ListInv(b, H, T) /\ OrderInv(b, H, T)
  BY <1>2, <1>3 DEF GhostInv, ListInv, ConsumerInv
<1>6. rings[tailPtr].next \in {0, tailPtr + 1} /\ (rings[tailPtr].next # 0 => tailPtr < N)
  BY <1>5 DEF ListInv
<1>7. TypeInv'
  <2>1. rings[tailPtr].next \in 0 .. N
    BY <1>5, <1>6
  <2>2. (popped = Len(order)) \in BOOLEAN
    OBVIOUS
  <2>3. QED
    BY <1>1, <1>3, <1>5, <2>1, <2>2 DEF TypeInv, cvars, pvars
<1>8. ASSUME rings[tailPtr].next = 0, T[tailPtr] = H[tailPtr]
      PROVE  popped = Len(order)
  <2>1. /\ b[tailPtr] \in Nat /\ H[tailPtr] \in Nat /\ b[N] \in Nat
        /\ popped = b[tailPtr] + H[tailPtr]
    <3>1. N \in RingNo
      BY <1>1 DEF TypeInv
    <3>2. b[tailPtr] \in Nat /\ H[tailPtr] \in Nat /\ b[N] \in Nat
      BY <1>5, <3>1 DEF GhostType
    <3>3. popped = b[tailPtr] + T[tailPtr] + 0
      BY <1>4, <1>5 DEF OrderInv
    <3>4. QED
      BY <1>8, <3>2, <3>3
  <2>2. CASE tailPtr = N
    BY <1>5, <2>1, <2>2 DEF ListInv, OrderInv
  <2>3. CASE tailPtr # N
    <3>1. tailPtr = N - 1 /\ Unpublished /\ H[N] = 1
      BY <1>5, <1>8, <2>3 DEF ListInv
    <3>2. b[tailPtr + 1] = b[tailPtr] + H[tailPtr] /\ tailPtr + 1 = N
      BY <1>5, <3>1 DEF ListInv
    <3>3. QED
      BY <1>5, <2>1, <3>1, <3>2 DEF OrderInv
  <2>4. QED
    BY <2>2, <2>3
<1>9. ConsumerInv(H, T)'
  <2>1. knext'[k] = rings[tailPtr].next /\ wasEmpty'[k] = (popped = Len(order))
    BY <1>1, <1>3, <1>5 DEF TypeInv
  <2>2. UNCHANGED <<rings, tailPtr, kring>>
    BY <1>3 DEF cvars
  <2>3. QED
    BY <1>4, <1>5, <1>6, <1>8, <2>1, <2>2 DEF ConsumerInv
<1>10. QED
  BY <1>1, <1>2, <1>3, <1>4, <1>7, <1>9, ConsumerFrame

\* It looks at the indexes of a ring that has something: the slot at the tail.
LEMMA LookStep ==
    ASSUME Served, IInv, NEW k \in Consumers, Look(k), UNCHANGED setup
    PROVE  IInv'
<1>1. TypeInv /\ ProducerInv /\ CountInv
  BY DEF IInv
<1>2. PICK b, H, T, J : GhostInv(b, H, T, J)
  BY DEF IInv
<1>3. /\ kpc[k] = "look" /\ kpc' = [kpc EXCEPT ![k] = "slot"]
      /\ ~Empty(rings[kring[k]])
      /\ ktail' = [ktail EXCEPT ![k] = rings[kring[k]].tail]
      /\ UNCHANGED <<rings, cvars, pvars, kring, knext, popped, last, wasEmpty, dropped>>
  BY DEF Look, KMove
<1>4. ~Moving /\ ~Moving' /\ kpc'[k] = "slot" /\ \A l \in Consumers : l = k
  BY <1>1, <1>3, OneConsumer
<1>5. kring[k] = tailPtr /\ tailPtr \in 1 .. N /\ GhostType(b, H, T, J) /\ IndexInv(H, T)
  BY <1>2, <1>3 DEF GhostInv, ListInv, ConsumerInv
<1>6. /\ rings[tailPtr] \in Ring /\ T[tailPtr] < H[tailPtr]
      /\ rings[tailPtr].tail = T[tailPtr] % M
  <2>1. H[tailPtr] # T[tailPtr]
    BY <1>1, <1>3, <1>5, RingFacts
  <2>2. /\ T[tailPtr] <= H[tailPtr] /\ T[tailPtr] \in Nat /\ H[tailPtr] \in Nat
        /\ rings[tailPtr].tail = T[tailPtr] % M
    BY <1>5 DEF IndexInv, GhostType
  <2>3. rings[tailPtr] \in Ring
    BY <1>1, <1>5 DEF TypeInv
  <2>4. QED
    BY <2>1, <2>2, <2>3
<1>7. TypeInv'
  <2>1. rings[tailPtr].tail \in 0 .. M - 1
    BY <1>1, <1>5, RingFacts
  <2>2. QED
    BY <1>1, <1>3, <1>5, <2>1 DEF TypeInv, cvars, pvars
<1>8. ConsumerInv(H, T)'
  <2>1. ktail'[k] = T[tailPtr] % M
    BY <1>1, <1>3, <1>5, <1>6 DEF TypeInv
  <2>2. UNCHANGED <<rings, tailPtr, kring, knext, wasEmpty>> /\ M' = M
    BY <1>3 DEF cvars
  <2>3. kpc[k] = "look" /\ ConsumerInv(H, T)
    BY <1>2, <1>3 DEF GhostInv
  <2>4. QED
    BY <1>4, <1>5, <1>6, <2>1, <2>2, <2>3 DEF ConsumerInv
<1>9. QED
  BY <1>1, <1>2, <1>3, <1>4, <1>7, <1>8, ConsumerFrame

\* It finds the ring empty.
LEMMA LookEmptyStep ==
    ASSUME Served, IInv, NEW k \in Consumers, LookEmpty(k), UNCHANGED setup
    PROVE  IInv'
<1>1. TypeInv /\ ProducerInv /\ CountInv
  BY DEF IInv
<1>2. PICK b, H, T, J : GhostInv(b, H, T, J)
  BY DEF IInv
<1>3. /\ kpc[k] = "look" /\ kpc' = [kpc EXCEPT ![k] = "empty"]
      /\ Empty(rings[kring[k]])
      /\ wasEmpty' = [wasEmpty EXCEPT ![k] = wasEmpty[k] \/ popped = Len(order)]
      /\ UNCHANGED <<rings, cvars, pvars, kring, knext, ktail, popped, last, dropped>>
  BY DEF LookEmpty, KMove
<1>4. ~Moving /\ ~Moving' /\ kpc'[k] = "empty" /\ \A l \in Consumers : l = k
  BY <1>1, <1>3, OneConsumer
<1>5. kring[k] = tailPtr /\ tailPtr \in 1 .. N /\ GhostType(b, H, T, J) /\ IndexInv(H, T)
  BY <1>2, <1>3 DEF GhostInv, ListInv, ConsumerInv
<1>6. T[tailPtr] = H[tailPtr]
  BY <1>1, <1>3, <1>5, RingFacts
<1>7. TypeInv'
  <2>1. (wasEmpty[k] \/ popped = Len(order)) \in BOOLEAN
    BY <1>1 DEF TypeInv
  <2>2. QED
    BY <1>1, <1>3, <2>1 DEF TypeInv, cvars, pvars
<1>8. ConsumerInv(H, T)'
  <2>1. wasEmpty[k] => wasEmpty'[k]
    BY <1>1, <1>3 DEF TypeInv
  <2>2. UNCHANGED <<rings, tailPtr, kring, knext>>
    BY <1>3 DEF cvars
  <2>3. kpc[k] = "look" /\ ConsumerInv(H, T)
    BY <1>2, <1>3 DEF GhostInv
  <2>4. QED
    BY <1>4, <1>5, <1>6, <2>1, <2>2, <2>3 DEF ConsumerInv
<1>9. QED
  BY <1>1, <1>2, <1>3, <1>4, <1>7, <1>8, ConsumerFrame

\* It answers that there is nothing.
LEMMA FoundEmptyStep ==
    ASSUME Served, IInv, NEW k \in Consumers, FoundEmpty(k), UNCHANGED setup
    PROVE  IInv'
<1>1. TypeInv /\ ProducerInv /\ CountInv
  BY DEF IInv
<1>2. PICK b, H, T, J : GhostInv(b, H, T, J)
  BY DEF IInv
<1>3. /\ kpc[k] = "empty" /\ kpc' = [kpc EXCEPT ![k] = "idle"]
      /\ kring' = [kring EXCEPT ![k] = 0] /\ knext' = [knext EXCEPT ![k] = 0]
      /\ ktail' = [ktail EXCEPT ![k] = 0] /\ wasEmpty' = [wasEmpty EXCEPT ![k] = FALSE]
      /\ UNCHANGED <<rings, cvars, pvars, popped, last, dropped>>
  BY DEF FoundEmpty, KMove, PopDone
<1>4. ~Moving /\ ~Moving' /\ kpc'[k] = "idle" /\ \A l \in Consumers : l = k
  BY <1>1, <1>3, OneConsumer
<1>5. TypeInv'
  <2>1. 0 \in 0 .. M - 1
    BY <1>1, SetupFacts DEF TypeInv
  <2>2. QED
    BY <1>1, <1>3, <2>1 DEF TypeInv, cvars, pvars
<1>6. ConsumerInv(H, T)'
  BY <1>4 DEF ConsumerInv
<1>7. QED
  BY <1>1, <1>2, <1>3, <1>4, <1>5, <1>6, ConsumerFrame

\* It finds no value in the slot and looks at the indexes again.
LEMMA LookAgainStep ==
    ASSUME Served, IInv, NEW k \in Consumers, LookAgain(k), UNCHANGED setup
    PROVE  IInv'
<1>1. TypeInv /\ ProducerInv /\ CountInv
  BY DEF IInv
<1>2. PICK b, H, T, J : GhostInv(b, H, T, J)
  BY DEF IInv
<1>3. /\ kpc[k] = "slot" /\ kpc' = [kpc EXCEPT ![k] = "look"]
      /\ UNCHANGED <<rings, cvars, pvars, kring, knext, ktail, popped, last, wasEmpty, dropped>>
  BY DEF LookAgain, KMove
<1>4. ~Moving /\ ~Moving' /\ kpc'[k] = "look" /\ \A l \in Consumers : l = k
  BY <1>1, <1>3, OneConsumer
<1>5. TypeInv'
  BY <1>1, <1>3 DEF TypeInv, cvars, pvars
<1>6. ConsumerInv(H, T)'
  <2>1. UNCHANGED <<rings, tailPtr, kring, knext, wasEmpty>>
    BY <1>3 DEF cvars
  <2>2. /\ kring[k] = tailPtr
        /\ knext[k] # Nil => knext[k] = tailPtr + 1 /\ rings[tailPtr].next # Nil
        /\ T[tailPtr] < H[tailPtr]
    BY <1>2, <1>3 DEF GhostInv, ConsumerInv
  <2>3. T[tailPtr] # H[tailPtr]
    BY <1>2, <2>2 DEF GhostInv, GhostType, ListInv
  <2>4. QED
    BY <1>4, <2>1, <2>2, <2>3 DEF ConsumerInv
<1>7. QED
  BY <1>1, <1>2, <1>3, <1>4, <1>5, <1>6, ConsumerFrame

\* It moves on from a ring that is used up to the next one, and drops it.
LEMMA DropStep ==
    ASSUME Served, IInv, NEW k \in Consumers, Drop(k), UNCHANGED setup
    PROVE  IInv'
<1>1. TypeInv /\ ProducerInv /\ CountInv
  BY DEF IInv
<1>2. PICK b, H, T, J : GhostInv(b, H, T, J)
  BY DEF IInv
<1>3. /\ kpc[k] = "empty" /\ kpc' = [kpc EXCEPT ![k] = "next"] /\ knext[k] # 0
      /\ kring' = [kring EXCEPT ![k] = knext[k]]
      /\ UNCHANGED <<rings, headPtr, newChain, pvars, knext, ktail, popped, last, wasEmpty>>
  BY DEF Drop, KMove, NextSeen
<1>4. ~Moving /\ ~Moving' /\ kpc'[k] = "next" /\ \A l \in Consumers : l = k
  BY <1>1, <1>3, OneConsumer
<1>5. /\ GhostType(b, H, T, J) /\ IndexInv(H, T) /\ ListInv(b, H, T) /\ SlotInv(b, H, T, J)
      /\ StoreInv(b, H, T, J) /\ OrderInv(b, H, T) /\ ConsumerInv(H, T)
  BY <1>2 DEF GhostInv
<1>6. /\ kring[k] = tailPtr /\ knext[k] = tailPtr + 1 /\ rings[tailPtr].next # 0
      /\ T[tailPtr] = H[tailPtr]
  BY <1>3, <1>5 DEF ConsumerInv
<1>7. /\ tailPtr \in 1 .. N /\ tailPtr < N /\ (Unpublished => tailPtr + 1 < N)
      /\ N \in Nat
  BY <1>1, <1>5, <1>6 DEF ListInv, TypeInv
<1>8. /\ tailPtr' = tailPtr + 1 /\ kring' = [kring EXCEPT ![k] = tailPtr + 1]
      /\ dropped' = dropped \cup {tailPtr}
  BY <1>3, <1>6 DEF Drop, NextSeen
<1>9. /\ UNCHANGED <<setup, rings, order, popped, ppc, val, pring, slot, fresh, begun>>
      /\ (Unpublished' <=> Unpublished) /\ RingNo' = RingNo /\ N' = N /\ M' = M
  BY <1>3 DEF pvars, Unpublished, Publishing
<1>10. TypeInv'
  BY <1>1, <1>3, <1>7, <1>8 DEF TypeInv, pvars
<1>11. GhostType(b, H, T, J)' /\ IndexInv(H, T)'
  BY <1>5, <1>9 DEF GhostType, IndexInv, GoodSize
<1>12. ListInv(b, H, T)'
  <2>1. /\ b[1] = 0
        /\ \A i \in RingNo : i < N => b[i + 1] = b[i] + H[i] /\ b[i + 1] <= b[N]
    BY <1>5 DEF ListInv
  <2>2. \A i \in RingNo :
           rings[i].next = IF i < N - 1 \/ (i = N - 1 /\ ~Unpublished) THEN i + 1 ELSE Nil
    BY <1>5 DEF ListInv
  <2>3. headPtr = IF \E p \in Producers : ppc[p] = "publishHead" THEN N - 1 ELSE N
    BY <1>5 DEF ListInv
  <2>4. tailPtr' \in RingNo /\ (Unpublished => tailPtr' < N /\ H[N] = 1)
    BY <1>5, <1>7, <1>8 DEF ListInv
  <2>5. \A i \in RingNo : (i < tailPtr' => T[i] = H[i]) /\ (i > tailPtr' => T[i] = 0)
    BY <1>5, <1>6, <1>7, <1>8 DEF ListInv
  <2>6. dropped' = 1 .. tailPtr' - 1
    BY <1>5, <1>7, <1>8 DEF ListInv
  <2>7. QED
    BY <1>3, <1>9, <2>1, <2>2, <2>3, <2>4, <2>5, <2>6 DEF ListInv
<1>13. \A i, j : Hole(i, j, T, J)' <=> Hole(i, j, T, J)
  BY <1>4, <1>9 DEF Hole
<1>14. SlotInv(b, H, T, J)'
  <2>1. \A i, j, v : IsElement(i, j, v, b)' <=> IsElement(i, j, v, b)
    BY <1>9 DEF IsElement, Publishing
  <2>2. QED
    BY <1>5, <1>9, <1>13, <2>1 DEF SlotInv
<1>15. StoreInv(b, H, T, J)'
  BY <1>4, <1>5, <1>9 DEF StoreInv
<1>16. OrderInv(b, H, T)'
  <2>1. tailPtr + 1 \in 1 .. N /\ T[tailPtr + 1] = 0 /\ b[tailPtr + 1] = b[tailPtr] + H[tailPtr]
    BY <1>5, <1>7 DEF ListInv
  <2>2. b[tailPtr] \in Nat /\ H[tailPtr] \in Nat
    BY <1>5, <1>7 DEF GhostType
  <2>3. popped = b[tailPtr + 1] + T[tailPtr + 1]
    BY <1>4, <1>5, <1>6, <2>1, <2>2 DEF OrderInv
  <2>4. QED
    BY <1>4, <1>5, <1>8, <1>9, <2>1, <2>2, <2>3 DEF OrderInv, GhostType
<1>17. ConsumerInv(H, T)'
  BY <1>1, <1>4, <1>8 DEF ConsumerInv, TypeInv
<1>18. ProducerInv'
  BY <1>1, <1>3, <1>9 DEF ProducerInv, Publishing, Growing, Alone
<1>19. CountInv'
  BY <1>1, <1>9 DEF CountInv, Pending, Alone
<1>20. QED
  BY <1>10, <1>11, <1>12, <1>14, <1>15, <1>16, <1>17, <1>18, <1>19, Assemble

\* The elements of the rings before the last one have their places in the order.
LEMMA InLine ==
    ASSUME TypeInv, NEW b, NEW H, NEW T, NEW J, GhostType(b, H, T, J), ListInv(b, H, T),
           OrderInv(b, H, T), NEW i \in RingNo, i < N
    PROVE  b[i + 1] <= Len(order)
<1>1. b[i + 1] \in Nat /\ b[i + 1] <= b[N]
  <2>1. N \in Nat
    BY DEF TypeInv
  <2>2. i + 1 \in RingNo
    BY <2>1
  <2>3. QED
    BY <2>2 DEF ListInv, GhostType
<1>2. b[N] \in Nat /\ H[N] \in Nat /\ (Unpublished => H[N] = 1)
  BY DEF GhostType, ListInv, TypeInv
<1>3. Len(order) = b[N] + H[N] - (IF Unpublished THEN 1 ELSE 0)
  BY DEF OrderInv
<1>4. QED
  BY <1>1, <1>2, <1>3

\* What a consumer takes is the first element that has not been taken, and it is there.
LEMMA TakeFacts ==
    ASSUME Served, TypeInv, NEW b, NEW H, NEW T, NEW J, GhostInv(b, H, T, J),
           NEW k \in Consumers, Take(k)
    PROVE  LET n == rings[tailPtr].size
               v == rings[tailPtr].vals[T[tailPtr] % n]
           IN  /\ kring[k] = tailPtr /\ tailPtr \in 1 .. N /\ T[tailPtr] < H[tailPtr]
               /\ Place(k) = T[tailPtr] % n /\ (T[tailPtr] % n) \in 0 .. n - 1
               /\ v # 0 /\ v \in 1 .. MaxPush /\ ~Moving /\ popped + 1 <= Len(order)
               /\ v = order[popped + 1] /\ popped = b[tailPtr] + T[tailPtr]
               /\ \A p \in Producers : ppc[p] = "store" /\ tailPtr = N => J[p] # T[N]
<1> DEFINE t == tailPtr
           n == rings[t].size
           v == rings[t].vals[T[t] % n]
<1>1. /\ GhostType(b, H, T, J) /\ IndexInv(H, T) /\ ListInv(b, H, T) /\ SlotInv(b, H, T, J)
      /\ OrderInv(b, H, T) /\ ConsumerInv(H, T)
  BY DEF GhostInv
<1>2. kpc[k] = "slot" /\ rings[kring[k]].vals[Place(k)] # 0
  BY DEF Take, KMove
<1>3. kring[k] = t /\ T[t] < H[t] /\ ktail[k] = T[t] % M
  BY <1>1, <1>2 DEF ConsumerInv
<1>4. t \in 1 .. N /\ (Unpublished => t < N) /\ setup \in Setups
  BY <1>1 DEF ListInv, TypeInv
<1>5. /\ GoodSize(n) /\ T[t] \in Nat /\ H[t] \in Nat /\ H[t] <= T[t] + n
      /\ b[t] \in Nat /\ rings[t].vals \in [0 .. n - 1 -> 0 .. MaxPush]
  BY <1>1, <1>4 DEF IndexInv, GhostType
<1>6. (T[t] % M) % n = T[t] % n /\ (T[t] % n) \in 0 .. n - 1 /\ n \in Nat \ {0}
  BY <1>4, <1>5, PlaceFacts, SizeFacts
<1>7. Place(k) = T[t] % n
  BY <1>3, <1>6 DEF Place
<1>8. v # 0 /\ v \in 1 .. MaxPush
  <2>1. v # 0
    BY <1>2, <1>3, <1>7
  <2>2. v \in 0 .. MaxPush
    BY <1>5, <1>6
  <2>3. QED
    BY <2>1, <2>2, BoundAssumption
<1>9. ~Moving
  BY <1>2 DEF Moving, Served
<1>10. PICK j \in T[t] .. H[t] - 1 :
          T[t] % n = j % n /\ ~Hole(t, j, T, J) /\ IsElement(t, j, v, b)
  BY <1>1, <1>4, <1>6, <1>8 DEF SlotInv
<1>11. j = T[t]
  <2>1. j \in Nat /\ T[t] <= j /\ j < T[t] + n /\ T[t] < T[t] + n
    BY <1>5, <1>6, <1>10
  <2>2. \A a \in Nat, c \in Nat, d \in Nat :
           a <= c /\ c < a + n /\ a <= d /\ d < a + n /\ c % n = d % n => c = d
    BY <1>4, <1>5, PlaceFacts
  <2>3. QED
    BY <1>5, <1>10, <2>1, <2>2
<1>12. popped = b[t] + T[t]
  BY <1>1, <1>5, <1>9 DEF OrderInv
<1>13. v = order[popped + 1]
  <2>1. ~(Unpublished /\ t = N)
    BY <1>4
  <2>2. v = order[b[t] + T[t] + 1]
    BY <1>10, <1>11, <2>1 DEF IsElement
  <2>3. QED
    BY <1>12, <2>2
<1>14. \A p \in Producers : ppc[p] = "store" /\ t = N => J[p] # T[N]
  BY <1>10, <1>11 DEF Hole
<1>15. popped + 1 <= Len(order)
  <2>1. b[N] \in Nat /\ H[N] \in Nat /\ N \in Nat
    <3>1. N \in Nat /\ N \in RingNo
      BY DEF TypeInv
    <3>2. QED
      BY <1>1, <3>1 DEF GhostType
  <2>2. CASE t = N
    BY <1>1, <1>3, <1>4, <1>5, <1>12, <2>1, <2>2 DEF OrderInv
  <2>3. CASE t < N
    <3>1. b[t] + H[t] = b[t + 1] /\ t + 1 \in 1 .. N /\ b[t + 1] \in Nat
      BY <1>1, <1>4, <2>3 DEF ListInv, GhostType
    <3>2. b[t + 1] <= Len(order)
      BY <1>1, <1>4, <2>3, InLine
    <3>3. QED
      BY <1>3, <1>5, <1>12, <3>1, <3>2
  <2>4. QED
    BY <1>4, <2>1, <2>2, <2>3
<1>16. QED
  BY <1>3, <1>4, <1>6, <1>7, <1>8, <1>9, <1>12, <1>13, <1>14, <1>15

\* It takes the element, and the slot is free again.
LEMMA TakeStep ==
    ASSUME Served, IInv, NEW k \in Consumers, Take(k), UNCHANGED setup
    PROVE  IInv'
<1>1. TypeInv /\ ProducerInv /\ CountInv
  BY DEF IInv
<1>2. PICK b, H, T, J : GhostInv(b, H, T, J)
  BY DEF IInv
<1> DEFINE t == tailPtr
           n == rings[t].size
           x0 == T[t] % n
           v == rings[t].vals[x0]
<1>3. /\ kring[k] = t /\ t \in 1 .. N /\ T[t] < H[t] /\ Place(k) = x0 /\ x0 \in 0 .. n - 1
      /\ v \in 1 .. MaxPush /\ ~Moving /\ popped = b[t] + T[t]
      /\ \A p \in Producers : ppc[p] = "store" /\ t = N => J[p] # T[N]
  BY <1>1, <1>2, TakeFacts
<1>4. /\ kpc[k] = "slot" /\ kpc' = [kpc EXCEPT ![k] = "move"]
      /\ rings' = [rings EXCEPT ![t].vals[x0] = 0] /\ popped' = popped + 1 /\ last' = v
      /\ UNCHANGED <<cvars, pvars, kring, knext, ktail, wasEmpty, dropped>>
  BY <1>3 DEF Take, KMove
<1>5. Moving' /\ kpc'[k] = "move" /\ \A l \in Consumers : l = k
  BY <1>1, <1>4, OneConsumer
<1>6. /\ GhostType(b, H, T, J) /\ IndexInv(H, T) /\ ListInv(b, H, T) /\ SlotInv(b, H, T, J)
      /\ StoreInv(b, H, T, J) /\ OrderInv(b, H, T) /\ ConsumerInv(H, T)
  BY <1>2 DEF GhostInv
<1>7. /\ GoodSize(n) /\ rings[t] \in Ring /\ T[t] \in Nat /\ H[t] \in Nat /\ H[t] <= T[t] + n
      /\ rings[t].vals \in [0 .. n - 1 -> 0 .. MaxPush] /\ n \in Nat \ {0}
  <2>1. rings[t] \in Ring /\ n \in Nat \ {0} /\ T[t] \in Nat /\ H[t] \in Nat /\ H[t] <= T[t] + n
    BY <1>1, <1>3, <1>6, RingFacts
  <2>2. GoodSize(n) /\ rings[t].vals \in [0 .. n - 1 -> 0 .. MaxPush]
    BY <1>3, <1>6 DEF IndexInv
  <2>3. QED
    BY <2>1, <2>2
<1>8. PICK vals : vals = [rings[t].vals EXCEPT ![x0] = 0]
  OBVIOUS
<1>9. PICK r : r = [rings[t] EXCEPT !.vals = vals]
  OBVIOUS
<1>10. /\ vals \in [0 .. n - 1 -> 0 .. MaxPush] /\ vals[x0] = 0
       /\ \A x \in 0 .. n - 1 : x # x0 => vals[x] = rings[t].vals[x]
  <2>1. 0 \in 0 .. MaxPush
    BY BoundAssumption
  <2>2. PICK f \in [0 .. n - 1 -> 0 .. MaxPush] : f = rings[t].vals
    BY <1>7
  <2>3. QED
    BY <1>3, <1>8, <2>1, <2>2
<1>11. /\ r \in Ring /\ r.vals = vals /\ r.size = n /\ r.next = rings[t].next
       /\ r.head = rings[t].head /\ r.tail = rings[t].tail
  <2>1. vals \in Slots
    BY <1>7, <1>10 DEF Slots
  <2>2. QED
    BY <1>7, <1>9, <2>1 DEF Ring
<1>12. rings' = [rings EXCEPT ![t] = r]
  BY <1>1, <1>3, <1>4, <1>8, <1>9 DEF TypeInv
<1>13. /\ rings' \in Seq(Ring) /\ N' = N /\ RingNo' = RingNo /\ rings'[t] = r
       /\ \A i \in RingNo : i # t => rings'[i] = rings[i]
  BY <1>1, <1>3, <1>11, <1>12, RingUpdate DEF TypeInv
<1>14. \A i \in RingNo : /\ rings'[i].size = rings[i].size /\ rings'[i].next = rings[i].next
                         /\ rings'[i].head = rings[i].head /\ rings'[i].tail = rings[i].tail
  BY <1>11, <1>13
<1>15. /\ tailPtr' = t
       /\ UNCHANGED <<headPtr, newChain, ppc, val, pring, slot, fresh, begun, order>>
       /\ M' = M /\ (Unpublished' <=> Unpublished)
  BY <1>4 DEF cvars, pvars, Unpublished, Publishing
<1>16. TypeInv'
  <2>1. popped' \in Nat /\ last' \in 0 .. MaxPush
    BY <1>1, <1>3, <1>4 DEF TypeInv
  <2>2. kpc' \in [Consumers -> {"idle", "next", "look", "empty", "slot", "move"}]
    BY <1>1, <1>4 DEF TypeInv
  <2>3. QED
    BY <1>1, <1>4, <1>13, <1>15, <2>1, <2>2 DEF TypeInv
<1>17. GhostType(b, H, T, J)'
  BY <1>6, <1>13 DEF GhostType
<1>18. IndexInv(H, T)'
  <2>1. \A i \in RingNo : rings'[i].vals \in [0 .. rings[i].size - 1 -> 0 .. MaxPush]
    BY <1>6, <1>10, <1>11, <1>13 DEF IndexInv
  <2>2. QED
    BY <1>6, <1>13, <1>14, <1>15, <2>1 DEF IndexInv, GoodSize
<1>19. ListInv(b, H, T)'
  BY <1>4, <1>6, <1>13, <1>14, <1>15 DEF ListInv
<1>20. SlotInv(b, H, T, J)'
  <2>1. SUFFICES ASSUME NEW i \in RingNo, NEW x \in 0 .. rings[i].size - 1,
                        rings'[i].vals[x] # 0
                 PROVE  \E j \in T[i] .. H[i] - 1 :
                           /\ x = j % rings[i].size /\ ~Hole(i, j, T, J)'
                           /\ IsElement(i, j, rings[i].vals[x], b)'
    BY <1>13, <1>14 DEF SlotInv
  <2>2. rings'[i].vals[x] = rings[i].vals[x] /\ (i = t => x # x0)
    BY <1>10, <1>11, <1>13, <2>1
  <2>3. PICK j \in T[i] .. H[i] - 1 :
           /\ x = j % rings[i].size /\ ~Hole(i, j, T, J)
           /\ IsElement(i, j, rings[i].vals[x], b)
    BY <1>6, <2>1, <2>2 DEF SlotInv
  <2>4. ~Hole(i, j, T, J)'
    BY <1>13, <1>15, <2>2, <2>3 DEF Hole
  <2>5. IsElement(i, j, rings[i].vals[x], b)'
    BY <1>13, <1>15, <2>2, <2>3 DEF IsElement, Publishing
  <2>6. QED
    BY <2>3, <2>4, <2>5
<1>21. StoreInv(b, H, T, J)'
  BY <1>1, <1>3, <1>6, <1>13, <1>14, <1>15 DEF StoreInv, TypeInv
<1>22. OrderInv(b, H, T)'
  <2>1. b[t] \in Nat
    BY <1>3, <1>6 DEF GhostType
  <2>2. popped' = b[t] + T[t] + 1
    BY <1>3, <1>4, <1>7, <2>1
  <2>3. QED
    BY <1>5, <1>6, <1>13, <1>15, <2>2 DEF OrderInv
<1>23. ConsumerInv(H, T)'
  BY <1>3, <1>4, <1>5, <1>6, <1>14, <1>15 DEF ConsumerInv
<1>24. ProducerInv'
  BY <1>1, <1>4, <1>13, <1>15 DEF ProducerInv, Publishing, Growing, Alone
<1>25. CountInv'
  <2>1. /\ Pending' = Pending /\ (Alone' <=> Alone) /\ rings'[1].size = rings[1].size
        /\ MaxInside \in Nat
    BY <1>1, <1>13, <1>14, <1>15, SetupFacts DEF Pending, Alone, TypeInv
  <2>2. QED
    BY <1>1, <1>4, <1>13, <1>15, <2>1 DEF CountInv, TypeInv
<1>26. QED
  BY <1>16, <1>17, <1>18, <1>19, <1>20, <1>21, <1>22, <1>23, <1>24, <1>25, Assemble

\* It moves the tail past the element it has taken.
LEMMA MoveTailStep ==
    ASSUME Served, IInv, NEW k \in Consumers, MoveTail(k), UNCHANGED setup
    PROVE  IInv'
<1>1. TypeInv /\ ProducerInv /\ CountInv
  BY DEF IInv
<1>2. PICK b, H, T, J : GhostInv(b, H, T, J)
  BY DEF IInv
<1> DEFINE t == tailPtr
           n == rings[t].size
<1>3. /\ GhostType(b, H, T, J) /\ IndexInv(H, T) /\ ListInv(b, H, T) /\ SlotInv(b, H, T, J)
      /\ StoreInv(b, H, T, J) /\ OrderInv(b, H, T) /\ ConsumerInv(H, T)
  BY <1>2 DEF GhostInv
<1>4. /\ kpc[k] = "move" /\ kpc' = [kpc EXCEPT ![k] = "idle"] /\ kring[k] = t
      /\ rings' = [rings EXCEPT ![t] = TailMoved(rings[t])]
      /\ kring' = [kring EXCEPT ![k] = 0] /\ knext' = [knext EXCEPT ![k] = 0]
      /\ ktail' = [ktail EXCEPT ![k] = 0] /\ wasEmpty' = [wasEmpty EXCEPT ![k] = FALSE]
      /\ UNCHANGED <<cvars, pvars, popped, last, dropped>>
  <2>1. kpc[k] = "move"
    BY DEF MoveTail, KMove
  <2>2. kring[k] = t
    BY <1>3, <2>1 DEF ConsumerInv
  <2>3. QED
    BY <2>1, <2>2 DEF MoveTail, KMove, PopDone
<1>5. Moving /\ ~Moving' /\ kpc'[k] = "idle" /\ \A l \in Consumers : l = k
  <2>1. kpc' = [kpc EXCEPT ![k] = "idle"]
    BY <1>4
  <2>2. /\ Moving <=> kpc[k] = "move"
        /\ Moving' <=> "idle" = "move"
        /\ kpc'[k] = "idle" /\ \A l \in Consumers : l = k
    BY <1>1, <2>1, OneConsumer
  <2>3. QED
    BY <1>4, <2>2
<1>6. t \in 1 .. N /\ T[t] < H[t]
  BY <1>3, <1>4 DEF ListInv, ConsumerInv
<1>7. /\ rings[t] \in Ring /\ T[t] \in Nat /\ H[t] \in Nat /\ H[t] <= T[t] + n
      /\ (rings[t].tail + 1) % M = (T[t] + 1) % M
  BY <1>1, <1>3, <1>6, RingFacts
<1>8. PICK r : r = TailMoved(rings[t])
  OBVIOUS
<1>9. /\ r \in Ring /\ r.vals = rings[t].vals /\ r.size = n /\ r.next = rings[t].next
      /\ r.head = rings[t].head /\ r.tail = (T[t] + 1) % M
  <2>1. /\ r = [rings[t] EXCEPT !.tail = (rings[t].tail + 1) % M]
    BY <1>8 DEF TailMoved
  <2>2. ((T[t] + 1) % M) \in Nat
    <3>1. M \in Nat \ {0} /\ T[t] + 1 \in Nat
      <4>1. setup \in Setups
        BY <1>1 DEF TypeInv
      <4>2. M \in Nat \ {0}
        BY <4>1, SetupFacts
      <4>3. QED
        BY <1>7, <4>2
    <3>2. ((T[t] + 1) % M) \in 0 .. M - 1
      BY <3>1, DivMod
    <3>3. QED
      BY <3>1, <3>2
  <2>3. QED
    BY <1>7, <2>1, <2>2 DEF Ring
<1>10. /\ rings' \in Seq(Ring) /\ N' = N /\ RingNo' = RingNo /\ rings'[t] = r
       /\ \A i \in RingNo : i # t => rings'[i] = rings[i]
  BY <1>1, <1>4, <1>6, <1>8, <1>9, RingUpdate DEF TypeInv
<1>11. \A i \in RingNo : /\ rings'[i].size = rings[i].size /\ rings'[i].next = rings[i].next
                         /\ rings'[i].head = rings[i].head /\ rings'[i].vals = rings[i].vals
  BY <1>9, <1>10
<1>12. /\ tailPtr' = t /\ M' = M /\ (Unpublished' <=> Unpublished)
       /\ UNCHANGED <<headPtr, newChain, ppc, val, pring, slot, fresh, begun, order>>
  BY <1>4 DEF cvars, pvars, Unpublished, Publishing
<1>13. PICK T2 : T2 = [T EXCEPT ![t] = T[t] + 1]
  OBVIOUS
<1>14. /\ T2 \in [RingNo -> Nat] /\ T2[t] = T[t] + 1
       /\ \A i \in RingNo : i # t => T2[i] = T[i]
  BY <1>3, <1>6, <1>7, <1>13 DEF GhostType
<1>15. TypeInv'
  <2>1. kpc' \in [Consumers -> {"idle", "next", "look", "empty", "slot", "move"}]
    BY <1>1, <1>4 DEF TypeInv
  <2>2. /\ kring' \in [Consumers -> 0 .. N] /\ knext' \in [Consumers -> 0 .. N]
        /\ ktail' \in [Consumers -> 0 .. M - 1] /\ wasEmpty' \in [Consumers -> BOOLEAN]
    BY <1>1, <1>4, SetupFacts DEF TypeInv
  <2>3. QED
    BY <1>1, <1>4, <1>10, <1>12, <2>1, <2>2 DEF TypeInv
<1>16. GhostType(b, H, T2, J)'
  BY <1>3, <1>10, <1>14 DEF GhostType
<1>17. IndexInv(H, T2)'
  <2>1. SUFFICES ASSUME NEW i \in RingNo
                 PROVE  /\ T2[i] <= H[i] /\ H[i] <= T2[i] + rings[i].size
                        /\ rings'[i].tail = T2[i] % M
    BY <1>3, <1>4, <1>10, <1>11, <1>12 DEF IndexInv, GoodSize
  <2>2. CASE i = t
    <3>1. n \in Nat
      BY <1>7 DEF Ring
    <3>2. T[t] + 1 <= H[t] /\ H[t] <= T[t] + 1 + n
      BY <1>6, <1>7, <3>1
    <3>3. QED
      BY <1>9, <1>10, <1>14, <2>2, <3>2
  <2>3. CASE i # t
    BY <1>3, <1>10, <1>14, <2>3 DEF IndexInv
  <2>4. QED
    BY <2>2, <2>3
<1>18. ListInv(b, H, T2)'
  <2>1. \A i \in RingNo : (i < t => T2[i] = H[i]) /\ (i > t => T2[i] = 0)
    BY <1>3, <1>6, <1>14 DEF ListInv
  <2>2. UNCHANGED <<headPtr, tailPtr, dropped, ppc>>
    BY <1>4, <1>12
  <2>3. QED
    BY <1>3, <1>10, <1>11, <1>12, <2>1, <2>2 DEF ListInv
<1>19. SlotInv(b, H, T2, J)'
  <2>1. SUFFICES ASSUME NEW i \in RingNo, NEW x \in 0 .. rings[i].size - 1,
                        rings[i].vals[x] # 0
                 PROVE  \E j \in T2[i] .. H[i] - 1 :
                           /\ x = j % rings[i].size /\ ~Hole(i, j, T2, J)'
                           /\ IsElement(i, j, rings[i].vals[x], b)'
    BY <1>10, <1>11 DEF SlotInv
  <2>2. PICK j \in T[i] .. H[i] - 1 :
           /\ x = j % rings[i].size /\ ~Hole(i, j, T, J)
           /\ IsElement(i, j, rings[i].vals[x], b)
    BY <1>3, <2>1 DEF SlotInv
  <2>3. j \in T2[i] .. H[i] - 1
    <3>1. CASE i = t
      <4>1. j # T[t]
        BY <1>5, <2>2, <3>1 DEF Hole
      <4>2. QED
        BY <1>7, <1>14, <2>2, <3>1, <4>1
    <3>2. CASE i # t
      BY <1>14, <2>2, <3>2
    <3>3. QED
      BY <3>1, <3>2
  <2>4. ~Hole(i, j, T2, J)'
    BY <1>5, <1>10, <1>12, <2>2 DEF Hole
  <2>5. IsElement(i, j, rings[i].vals[x], b)'
    BY <1>10, <1>11, <1>12, <2>2 DEF IsElement, Publishing
  <2>6. QED
    BY <2>2, <2>3, <2>4, <2>5
<1>20. StoreInv(b, H, T2, J)'
  <2>1. SUFFICES ASSUME NEW p \in Producers, ppc[p] = "store"
                 PROVE  /\ J[p] \in T2[N] .. H[N] - 1 /\ slot[p] = J[p] % rings[N].size
                        /\ order[b[N] + J[p] + 1] = val[p]
                        /\ \A q \in Producers : q # p /\ ppc[q] = "store" => J[p] # J[q]
    BY <1>1, <1>5, <1>10, <1>11, <1>12 DEF StoreInv, TypeInv
  <2>2. /\ J[p] \in T[N] .. H[N] - 1 /\ slot[p] = J[p] % rings[N].size
        /\ order[b[N] + J[p] + 1] = val[p]
        /\ \A q \in Producers : q # p /\ ppc[q] = "store" => J[p] # J[q]
        /\ t = N => J[p] # T[N]
    BY <1>3, <1>5, <2>1 DEF StoreInv
  <2>3. J[p] \in T2[N] .. H[N] - 1
    <3>1. CASE t = N
      BY <1>7, <1>14, <2>2, <3>1
    <3>2. CASE t # N
      <4>1. N \in RingNo
        BY <1>1 DEF TypeInv
      <4>2. T2[N] = T[N]
        BY <1>14, <3>2, <4>1
      <4>3. QED
        BY <2>2, <4>2
    <3>3. QED
      BY <3>1, <3>2
  <2>4. QED
    BY <2>2, <2>3
<1>21. OrderInv(b, H, T2)'
  <2>1. b[t] \in Nat
    BY <1>3, <1>6 DEF GhostType
  <2>2. popped = b[t] + T2[t]
    BY <1>3, <1>5, <1>7, <1>14, <2>1 DEF OrderInv
  <2>3. popped = b[t] + T2[t] + 0
    BY <1>7, <1>14, <2>1, <2>2
  <2>4. QED
    BY <1>3, <1>4, <1>5, <1>10, <1>12, <2>3 DEF OrderInv
<1>22. ConsumerInv(H, T2)'
  BY <1>5 DEF ConsumerInv
<1>23. ProducerInv'
  BY <1>1, <1>4, <1>10, <1>12 DEF ProducerInv, Publishing, Growing, Alone
<1>24. CountInv'
  <2>1. Pending' = Pending /\ (Alone' <=> Alone) /\ rings'[1].size = rings[1].size
    <3>1. 1 \in RingNo
      BY <1>1 DEF TypeInv
    <3>2. Pending' = Pending /\ (Alone' <=> Alone)
      BY <1>12 DEF Pending, Alone
    <3>3. QED
      BY <1>11, <3>1, <3>2
  <2>2. QED
    BY <1>1, <1>4, <1>10, <1>12, <2>1 DEF CountInv
<1>25. QED
  BY <1>15, <1>16, <1>17, <1>18, <1>19, <1>20, <1>21, <1>22, <1>23, <1>24, Assemble

-----------------------------------------------------------------------------
(* Producers that move no place.                                           *)

\* A step of a producer that moves no place keeps what is known of the rings.
LEMMA ProducerFrame ==
    ASSUME Quiet, UNCHANGED kvars, NEW b, NEW H, NEW T, NEW J, GhostInv(b, H, T, J),
           headPtr' = (IF \E p \in Producers : ppc'[p] = "publishHead" THEN N - 1 ELSE N),
           TypeInv', ProducerInv', CountInv'
    PROVE  IInv'
<1>1. /\ GhostType(b, H, T, J)' /\ IndexInv(H, T)' /\ SlotInv(b, H, T, J)'
      /\ StoreInv(b, H, T, J)' /\ OrderInv(b, H, T)' /\ (Unpublished' <=> Unpublished)
  BY QuietStep DEF GhostInv
<1>2. /\ UNCHANGED <<rings, tailPtr, dropped, kpc, kring, knext, ktail, wasEmpty>>
      /\ RingNo' = RingNo /\ N' = N /\ M' = M
  BY DEF Quiet, kvars
<1>3. ListInv(b, H, T)'
  BY <1>1, <1>2 DEF GhostInv, ListInv
<1>4. ConsumerInv(H, T)'
  BY <1>2 DEF GhostInv, ConsumerInv
<1>5. QED
  BY <1>1, <1>3, <1>4, Assemble

\* While a ring is added, the one producer that there is adds it.
LEMMA OneProducer ==
    ASSUME ProducerInv, NEW p \in Producers, ppc[p] # "idle", newChain \/ Alone
    PROVE  /\ Alone /\ (newChain <=> Growing(p))
           /\ \A q \in Producers : q # p => ppc[q] = "idle"
<1>1. Alone
  BY DEF ProducerInv
<1>2. \A q \in Producers : q # p => ppc[q] = "idle"
  BY <1>1 DEF ProducerInv, Alone
<1>3. newChain <=> Growing(p)
  BY <1>2 DEF ProducerInv, Growing
<1>4. QED
  BY <1>1, <1>2, <1>3

\* A push begins.
LEMMA PushBeginStep ==
    ASSUME Served, IInv, NEW p \in Producers, PushBegin(p)
    PROVE  IInv'
<1>1. TypeInv /\ ProducerInv /\ CountInv
  BY DEF IInv
<1>2. PICK b, H, T, J : GhostInv(b, H, T, J)
  BY DEF IInv
<1>3. /\ ppc[p] = "idle" /\ ppc' = [ppc EXCEPT ![p] = "gate"] /\ p \in setup.producers
      /\ begun < MaxPush /\ begun - popped < MaxInside /\ begun' = begun + 1
      /\ val' = [val EXCEPT ![p] = begun + 1]
      /\ UNCHANGED <<setup, rings, cvars, pring, slot, fresh, order, kvars>>
  BY DEF PushBegin, PMove
<1>4. MaxInside \in Nat /\ begun \in Nat /\ begun + 1 \in 1 .. MaxPush /\ popped \in Nat
  BY <1>1, <1>3, SetupFacts, BoundAssumption DEF TypeInv
<1>5. /\ ppc'[p] = "gate" /\ val'[p] = begun + 1
      /\ \A q \in Producers : q # p => ppc'[q] = ppc[q] /\ val'[q] = val[q]
  BY <1>1, <1>3 DEF TypeInv
<1>6. Quiet
  BY <1>3, <1>5 DEF Quiet, cvars, kvars, Moving, Publishing
<1>7. TypeInv'
  BY <1>1, <1>3, <1>4 DEF TypeInv, cvars, kvars
<1>8. ProducerInv'
  <2>1. UNCHANGED <<setup, rings, newChain, pring, fresh>> /\ (Alone' <=> Alone)
    BY <1>3 DEF cvars, Alone
  <2>2. \A q \in Producers : Growing(q)' <=> Growing(q)
    BY <1>3, <1>5 DEF Growing
  <2>3. QED
    BY <1>1, <1>3, <1>4, <1>5, <2>1, <2>2 DEF ProducerInv, Publishing
<1>9. CountInv'
  <2>1. /\ Cardinality(Pending') = Cardinality(Pending) + 1 /\ Cardinality(Pending) \in Nat
    <3>1. p \notin Pending /\ p \in Pending'
      BY <1>3, <1>5 DEF Pending
    <3>2. \A q \in Producers : q # p => ppc'[q] = ppc[q]
      BY <1>3, <1>5
    <3>3. QED
      BY <3>1, <3>2, PendingStep
  <2>2. Len(order) \in Nat
    BY <1>1 DEF TypeInv
  <2>3. UNCHANGED <<setup, rings, order, popped>> /\ (Alone' <=> Alone)
    BY <1>3 DEF cvars, kvars, Alone
  <2>4. QED
    BY <1>1, <1>3, <1>4, <2>1, <2>2, <2>3 DEF CountInv
<1>10. headPtr' = IF \E q \in Producers : ppc'[q] = "publishHead" THEN N - 1 ELSE N
  BY <1>2, <1>3, <1>5 DEF GhostInv, ListInv, cvars
<1>11. QED
  BY <1>2, <1>3, <1>6, <1>7, <1>8, <1>9, <1>10, ProducerFrame

\* It passes the gate.
LEMMA PassGateStep ==
    ASSUME Served, IInv, NEW p \in Producers, PassGate(p), UNCHANGED setup
    PROVE  IInv'
<1>1. TypeInv /\ ProducerInv /\ CountInv
  BY DEF IInv
<1>2. PICK b, H, T, J : GhostInv(b, H, T, J)
  BY DEF IInv
<1>3. /\ ppc[p] = "gate" /\ ppc' = [ppc EXCEPT ![p] = "head"]
      /\ UNCHANGED <<rings, cvars, val, pring, slot, fresh, begun, order, kvars>>
  BY DEF PassGate, PMove
<1>4. ppc'[p] = "head" /\ \A q \in Producers : q # p => ppc'[q] = ppc[q]
  BY <1>1, <1>3 DEF TypeInv
<1>5. Quiet
  BY <1>3, <1>4 DEF Quiet, cvars, kvars, Moving, Publishing
<1>6. TypeInv'
  BY <1>1, <1>3 DEF TypeInv, cvars, kvars
<1>7. ProducerInv'
  <2>1. UNCHANGED <<rings, newChain, pring, fresh, val>> /\ (Alone' <=> Alone)
    BY <1>3 DEF cvars, Alone
  <2>2. \A q \in Producers : Growing(q)' <=> Growing(q)
    BY <1>3, <1>4 DEF Growing
  <2>3. QED
    BY <1>1, <1>3, <1>4, <2>1, <2>2 DEF ProducerInv, Publishing
<1>8. CountInv'
  <2>1. Cardinality(Pending') = Cardinality(Pending)
    <3>1. p \in Pending /\ p \in Pending'
      BY <1>3, <1>4 DEF Pending
    <3>2. \A q \in Producers : q # p => ppc'[q] = ppc[q]
      BY <1>3, <1>4
    <3>3. QED
      BY <3>1, <3>2, PendingStep
  <2>2. UNCHANGED <<rings, order, popped, begun>> /\ (Alone' <=> Alone)
    BY <1>3 DEF cvars, kvars, Alone
  <2>3. QED
    BY <1>1, <2>1, <2>2 DEF CountInv
<1>9. headPtr' = IF \E q \in Producers : ppc'[q] = "publishHead" THEN N - 1 ELSE N
  BY <1>2, <1>3, <1>4 DEF GhostInv, ListInv, cvars
<1>10. QED
  BY <1>2, <1>3, <1>5, <1>6, <1>7, <1>8, <1>9, ProducerFrame

\* It loads the head of the chain: the last ring, as nobody is adding one.
LEMMA LoadHeadStep ==
    ASSUME Served, IInv, NEW p \in Producers, LoadHead(p), UNCHANGED setup
    PROVE  IInv'
<1>1. TypeInv /\ ProducerInv /\ CountInv
  BY DEF IInv
<1>2. PICK b, H, T, J : GhostInv(b, H, T, J)
  BY DEF IInv
<1>3. /\ ppc[p] = "head" /\ ppc' = [ppc EXCEPT ![p] = "reserve"]
      /\ pring' = [pring EXCEPT ![p] = headPtr]
      /\ UNCHANGED <<rings, cvars, val, slot, fresh, begun, order, kvars>>
  BY DEF LoadHead, PMove, RingToPush
<1>4. headPtr = N
  <2>1. \A q \in Producers : ppc[q] # "publishHead"
    BY <1>1, <1>3, OneProducer DEF ProducerInv, Growing
  <2>2. QED
    BY <1>2, <2>1 DEF GhostInv, ListInv
<1>5. /\ ppc'[p] = "reserve" /\ pring'[p] = N
      /\ \A q \in Producers : q # p => ppc'[q] = ppc[q] /\ pring'[q] = pring[q]
  BY <1>1, <1>3, <1>4 DEF TypeInv
<1>6. Quiet
  BY <1>3, <1>5 DEF Quiet, cvars, kvars, Moving, Publishing
<1>7. TypeInv'
  BY <1>1, <1>3, <1>4 DEF TypeInv, cvars, kvars
<1>8. ProducerInv'
  <2>1. UNCHANGED <<rings, newChain, fresh, val>> /\ (Alone' <=> Alone)
    BY <1>3 DEF cvars, Alone
  <2>2. \A q \in Producers : Growing(q)' <=> Growing(q)
    BY <1>3, <1>5 DEF Growing
  <2>3. QED
    BY <1>1, <1>3, <1>5, <2>1, <2>2 DEF ProducerInv, Publishing
<1>9. CountInv'
  <2>1. Cardinality(Pending') = Cardinality(Pending)
    <3>1. p \in Pending /\ p \in Pending'
      BY <1>3, <1>5 DEF Pending
    <3>2. \A q \in Producers : q # p => ppc'[q] = ppc[q]
      BY <1>3, <1>5
    <3>3. QED
      BY <3>1, <3>2, PendingStep
  <2>2. UNCHANGED <<rings, order, popped, begun>> /\ (Alone' <=> Alone)
    BY <1>3 DEF cvars, kvars, Alone
  <2>3. QED
    BY <1>1, <2>1, <2>2 DEF CountInv
<1>10. headPtr' = IF \E q \in Producers : ppc'[q] = "publishHead" THEN N - 1 ELSE N
  BY <1>2, <1>3, <1>5 DEF GhostInv, ListInv, cvars
<1>11. QED
  BY <1>2, <1>3, <1>6, <1>7, <1>8, <1>9, <1>10, ProducerFrame

\* It makes the ring that it has added the head of the chain.
LEMMA PublishHeadStep ==
    ASSUME Served, IInv, NEW p \in Producers, PublishHead(p), UNCHANGED setup
    PROVE  IInv'
<1>1. TypeInv /\ ProducerInv /\ CountInv
  BY DEF IInv
<1>2. PICK b, H, T, J : GhostInv(b, H, T, J)
  BY DEF IInv
<1>3. /\ ppc[p] = "publishHead" /\ ppc' = [ppc EXCEPT ![p] = "publishNext"]
      /\ headPtr' = fresh[p]
      /\ UNCHANGED <<rings, tailPtr, newChain, val, pring, slot, fresh, begun, order, kvars>>
  BY DEF PublishHead, PMove
<1>4. /\ fresh[p] = N /\ pring[p] = N - 1 /\ newChain /\ Alone
      /\ \A q \in Producers : q # p => ppc[q] = "idle"
  BY <1>1, <1>3, OneProducer DEF ProducerInv, Publishing, Growing
<1>5. ppc'[p] = "publishNext" /\ \A q \in Producers : q # p => ppc'[q] = ppc[q]
  BY <1>1, <1>3 DEF TypeInv
<1>6. Quiet
  BY <1>3, <1>5 DEF Quiet, kvars, Moving, Publishing
<1>7. TypeInv'
  BY <1>1, <1>3, <1>4 DEF TypeInv, kvars
<1>8. ProducerInv'
  <2>1. UNCHANGED <<rings, newChain, pring, fresh, val>> /\ (Alone' <=> Alone)
    BY <1>3 DEF Alone
  <2>2. \A q \in Producers : Growing(q)' <=> Growing(q)
    BY <1>3, <1>5 DEF Growing
  <2>3. QED
    BY <1>1, <1>3, <1>4, <1>5, <2>1, <2>2 DEF ProducerInv, Publishing
<1>9. CountInv'
  <2>1. Cardinality(Pending') = Cardinality(Pending)
    <3>1. p \in Pending /\ p \in Pending'
      BY <1>3, <1>5 DEF Pending
    <3>2. \A q \in Producers : q # p => ppc'[q] = ppc[q]
      BY <1>3, <1>5
    <3>3. QED
      BY <3>1, <3>2, PendingStep
  <2>2. UNCHANGED <<rings, order, popped, begun>> /\ (Alone' <=> Alone)
    BY <1>3 DEF kvars, Alone
  <2>3. QED
    BY <1>1, <2>1, <2>2 DEF CountInv
<1>10. headPtr' = IF \E q \in Producers : ppc'[q] = "publishHead" THEN N - 1 ELSE N
  BY <1>3, <1>4, <1>5
<1>11. QED
  BY <1>2, <1>3, <1>6, <1>7, <1>8, <1>9, <1>10, ProducerFrame

\* It opens the gate.
LEMMA PushDoneStep ==
    ASSUME Served, IInv, NEW p \in Producers, PushDone(p), UNCHANGED setup
    PROVE  IInv'
<1>1. TypeInv /\ ProducerInv /\ CountInv
  BY DEF IInv
<1>2. PICK b, H, T, J : GhostInv(b, H, T, J)
  BY DEF IInv
<1>3. /\ ppc[p] = "openGate" /\ ppc' = [ppc EXCEPT ![p] = "idle"] /\ newChain' = FALSE
      /\ val' = [val EXCEPT ![p] = 0] /\ pring' = [pring EXCEPT ![p] = 0]
      /\ slot' = [slot EXCEPT ![p] = 0] /\ fresh' = [fresh EXCEPT ![p] = 0]
      /\ UNCHANGED <<rings, headPtr, tailPtr, begun, order, kvars>>
  BY DEF PushDone, PMove, Finish, GateAfterGrowth
<1>4. Alone /\ \A q \in Producers : q # p => ppc[q] = "idle"
  BY <1>1, <1>3, OneProducer DEF ProducerInv, Growing
<1>5. ppc'[p] = "idle" /\ \A q \in Producers : ppc'[q] = "idle"
  BY <1>1, <1>3, <1>4 DEF TypeInv
<1>6. Quiet
  BY <1>3, <1>4, <1>5 DEF Quiet, kvars, Moving, Publishing
<1>7. TypeInv'
  <2>1. 0 \in 0 .. N /\ 0 \in 0 .. MaxPush /\ 0 \in 0 .. SizeLimit - 1
    BY <1>1, BoundAssumption, SetupFacts DEF TypeInv
  <2>2. QED
    BY <1>1, <1>3, <2>1 DEF TypeInv, kvars
<1>8. ProducerInv'
  BY <1>3, <1>5 DEF ProducerInv, Publishing, Growing
<1>9. CountInv'
  <2>1. Cardinality(Pending') = Cardinality(Pending)
    <3>1. p \notin Pending /\ p \notin Pending'
      BY <1>3, <1>4, <1>5 DEF Pending
    <3>2. \A q \in Producers : q # p => ppc'[q] = ppc[q]
      BY <1>3, <1>4, <1>5
    <3>3. QED
      BY <3>1, <3>2, PendingStep
  <2>2. UNCHANGED <<rings, order, popped, begun>> /\ (Alone' <=> Alone)
    BY <1>3 DEF kvars, Alone
  <2>3. QED
    BY <1>1, <2>1, <2>2 DEF CountInv
<1>10. headPtr' = IF \E q \in Producers : ppc'[q] = "publishHead" THEN N - 1 ELSE N
  BY <1>2, <1>3, <1>4, <1>5 DEF GhostInv, ListInv
<1>11. QED
  BY <1>2, <1>3, <1>6, <1>7, <1>8, <1>9, <1>10, ProducerFrame

-----------------------------------------------------------------------------
(* Producers that place an element.                                        *)

\* The places of a ring that the chain knows are places of the order.
LEMMA PlaceInOrder ==
    ASSUME TypeInv, NEW b, NEW H, NEW T, NEW J, GhostType(b, H, T, J), ListInv(b, H, T),
           OrderInv(b, H, T), NEW i \in RingNo, ~(Unpublished /\ i = N),
           NEW j \in T[i] .. H[i] - 1
    PROVE  b[i] + j + 1 \in 1 .. Len(order)
<1>1. /\ b[i] \in Nat /\ T[i] \in Nat /\ H[i] \in Nat /\ Len(order) \in Nat
      /\ j \in Nat /\ j + 1 <= H[i]
  <2>1. b[i] \in Nat /\ T[i] \in Nat /\ H[i] \in Nat
    BY DEF GhostType
  <2>2. Len(order) \in Nat
    BY DEF TypeInv
  <2>3. j \in Nat /\ j + 1 <= H[i]
    BY <2>1
  <2>4. QED
    BY <2>1, <2>2, <2>3
<1>2. CASE i = N
  <2>1. Len(order) = b[i] + H[i]
    BY <1>1, <1>2 DEF OrderInv
  <2>2. QED
    BY <1>1, <2>1
<1>3. CASE i # N
  <2>1. i < N
    BY <1>3 DEF TypeInv
  <2>2. b[i] + H[i] <= Len(order)
    BY <2>1, InLine DEF ListInv
  <2>3. QED
    BY <1>1, <2>2
<1>4. QED
  BY <1>2, <1>3

\* It reserves the slot at the head of the last ring: the element has its place.
LEMMA ReserveStep ==
    ASSUME Served, IInv, NEW p \in Producers, Reserve(p), UNCHANGED setup
    PROVE  IInv'
<1>1. TypeInv /\ ProducerInv /\ CountInv
  BY DEF IInv
<1>2. PICK b, H, T, J : GhostInv(b, H, T, J)
  BY DEF IInv
<1> DEFINE n == rings[N].size
           e == val[p]
<1>3. /\ GhostType(b, H, T, J) /\ IndexInv(H, T) /\ ListInv(b, H, T) /\ SlotInv(b, H, T, J)
      /\ StoreInv(b, H, T, J) /\ OrderInv(b, H, T) /\ ConsumerInv(H, T)
  BY <1>2 DEF GhostInv
<1>4. /\ ppc[p] = "reserve" /\ ppc' = [ppc EXCEPT ![p] = "store"] /\ pring[p] = N
      /\ ~Full(rings[N])
      /\ rings' = [rings EXCEPT ![N].head = (rings[N].head + 1) % M]
      /\ slot' = [slot EXCEPT ![p] = rings[N].head % n]
      /\ order' = Append(order, e)
      /\ UNCHANGED <<cvars, val, pring, fresh, begun, kvars>>
  <2>1. ppc[p] = "reserve"
    BY DEF Reserve, PMove
  <2>2. pring[p] = N
    BY <1>1, <2>1 DEF ProducerInv
  <2>3. rings' = [rings EXCEPT ![N].head = (rings[N].head + 1) % M]
    BY <1>1, <2>2 DEF Reserve, TypeInv
  <2>4. QED
    BY <2>1, <2>2, <2>3 DEF Reserve, PMove
<1>5. ~Unpublished /\ ~newChain /\ e \in 1 .. MaxPush
  <2>1. \A q \in Producers : ~Growing(q)
    BY <1>1, <1>4, OneProducer DEF ProducerInv, Growing
  <2>2. QED
    BY <1>1, <1>4, <2>1 DEF Unpublished, Publishing, Growing, ProducerInv
<1>6. /\ N \in RingNo /\ rings[N] \in Ring /\ n \in Nat \ {0} /\ H[N] \in Nat /\ T[N] \in Nat
      /\ T[N] <= H[N] /\ H[N] < T[N] + n /\ (rings[N].head + 1) % M = (H[N] + 1) % M
      /\ rings[N].head = H[N] % M /\ GoodSize(n) /\ setup \in Setups
  <2>1. N \in RingNo /\ setup \in Setups
    BY <1>1 DEF TypeInv
  <2>2. /\ rings[N] \in Ring /\ n \in Nat \ {0} /\ H[N] \in Nat /\ T[N] \in Nat
        /\ T[N] <= H[N] /\ H[N] <= T[N] + n /\ (rings[N].head + 1) % M = (H[N] + 1) % M
        /\ H[N] # T[N] + n
    BY <1>1, <1>3, <1>4, <2>1, RingFacts
  <2>3. rings[N].head = H[N] % M /\ GoodSize(n)
    BY <1>3, <2>1 DEF IndexInv
  <2>4. QED
    BY <2>1, <2>2, <2>3
<1>7. PICK h : h = H[N]
  OBVIOUS
<1>8. rings[N].head % n = h % n
  BY <1>6, <1>7, PlaceFacts
<1>9. PICK r : r = [rings[N] EXCEPT !.head = (h + 1) % M]
  OBVIOUS
<1>10. /\ r \in Ring /\ r.vals = rings[N].vals /\ r.size = n /\ r.next = rings[N].next
       /\ r.tail = rings[N].tail /\ r.head = (h + 1) % M
  <2>1. ((h + 1) % M) \in Nat
    <3>1. M \in Nat \ {0} /\ h + 1 \in Nat
      BY <1>6, <1>7, SetupFacts
    <3>2. ((h + 1) % M) \in 0 .. M - 1
      BY <3>1, DivMod
    <3>3. QED
      BY <3>1, <3>2
  <2>2. QED
    BY <1>6, <1>9, <2>1 DEF Ring
<1>11. /\ rings' \in Seq(Ring) /\ N' = N /\ RingNo' = RingNo /\ rings'[N] = r
       /\ \A i \in RingNo : i # N => rings'[i] = rings[i]
  <2>1. rings' = [rings EXCEPT ![N] = r]
    BY <1>1, <1>4, <1>6, <1>7, <1>9 DEF TypeInv
  <2>2. QED
    BY <1>1, <1>6, <1>10, <2>1, RingUpdate DEF TypeInv
<1>12. \A i \in RingNo : /\ rings'[i].size = rings[i].size /\ rings'[i].next = rings[i].next
                         /\ rings'[i].tail = rings[i].tail /\ rings'[i].vals = rings[i].vals
  BY <1>10, <1>11
<1>13. /\ ppc'[p] = "store" /\ slot'[p] = h % n
       /\ \A q \in Producers : q # p => ppc'[q] = ppc[q] /\ slot'[q] = slot[q]
  BY <1>1, <1>4, <1>8 DEF TypeInv
<1>14. /\ UNCHANGED <<headPtr, tailPtr, newChain, kpc, kring, knext, ktail, wasEmpty, popped,
                      dropped, val, pring, fresh, begun, last>>
       /\ M' = M /\ ~Unpublished' /\ (Moving' <=> Moving)
  <2>1. ~Unpublished'
    BY <1>5, <1>13 DEF Unpublished, Publishing
  <2>2. QED
    BY <1>4, <2>1 DEF cvars, kvars, Moving
<1>15. /\ order' \in Seq(1 .. MaxPush) /\ Len(order') = Len(order) + 1
       /\ order'[Len(order) + 1] = e
       /\ \A i \in 1 .. Len(order) : order'[i] = order[i]
  BY <1>1, <1>4, <1>5 DEF TypeInv
<1>16. PICK H2 : H2 = [H EXCEPT ![N] = h + 1]
  OBVIOUS
<1>17. PICK J2 : J2 = [J EXCEPT ![p] = h]
  OBVIOUS
<1>18. /\ H2 \in [RingNo -> Nat] /\ H2[N] = h + 1 /\ h \in Nat
       /\ \A i \in RingNo : i # N => H2[i] = H[i]
  BY <1>3, <1>6, <1>7, <1>16 DEF GhostType
<1>19. /\ J2 \in [Producers -> Nat] /\ J2[p] = h
       /\ \A q \in Producers : q # p => J2[q] = J[q]
  BY <1>3, <1>6, <1>7, <1>17 DEF GhostType
<1>20. GhostType(b, H2, T, J2)'
  BY <1>3, <1>11, <1>18, <1>19 DEF GhostType
<1>21. TypeInv'
  <2>1. ppc' \in [Producers -> {"idle", "gate", "head", "reserve", "store", "publishHead",
                                "publishNext", "openGate"}]
    BY <1>1, <1>4 DEF TypeInv
  <2>2. slot' \in [Producers -> 0 .. SizeLimit - 1]
    <3>1. (h % n) \in 0 .. SizeLimit - 1
      <4>1. n <= SizeLimit /\ SizeLimit \in Nat
        BY <1>6, SizeFacts, SetupFacts
      <4>2. (h % n) \in 0 .. n - 1
        BY <1>6, <1>7, PlaceFacts
      <4>3. QED
        BY <1>6, <4>1, <4>2
    <3>2. QED
      BY <1>1, <1>4, <1>8, <3>1 DEF TypeInv
  <2>3. QED
    BY <1>1, <1>11, <1>14, <1>15, <2>1, <2>2 DEF TypeInv
<1>22. IndexInv(H2, T)'
  <2>1. SUFFICES ASSUME NEW i \in RingNo
                 PROVE  /\ T[i] <= H2[i] /\ H2[i] <= T[i] + rings[i].size
                        /\ rings'[i].head = H2[i] % M
    BY <1>3, <1>11, <1>12, <1>14 DEF IndexInv, GoodSize
  <2>2. CASE i = N
    <3>1. T[N] <= h + 1 /\ h + 1 <= T[N] + n
      BY <1>6, <1>7
    <3>2. QED
      BY <1>10, <1>11, <1>18, <2>2, <3>1
  <2>3. CASE i # N
    BY <1>3, <1>11, <1>18, <2>3 DEF IndexInv
  <2>4. QED
    BY <2>2, <2>3
<1>23. ListInv(b, H2, T)'
  <2>1. /\ b[1] = 0
        /\ \A i \in RingNo : i < N => b[i + 1] = b[i] + H2[i] /\ b[i + 1] <= b[N]
    <3>1. \A i \in RingNo : i < N => H2[i] = H[i]
      BY <1>6, <1>18
    <3>2. QED
      BY <1>3, <3>1 DEF ListInv
  <2>2. \A i \in RingNo : rings[i].next = IF i < N - 1 \/ i = N - 1 THEN i + 1 ELSE Nil
    BY <1>3, <1>5 DEF ListInv
  <2>3. headPtr = N /\ \A q \in Producers : ppc'[q] # "publishHead"
    <3>1. \A q \in Producers : ppc[q] # "publishHead"
      BY <1>5 DEF Unpublished, Publishing
    <3>2. QED
      BY <1>3, <1>13, <3>1 DEF ListInv
  <2>4. tailPtr \in RingNo /\ dropped = 1 .. tailPtr - 1
    BY <1>3 DEF ListInv
  <2>5. \A i \in RingNo : (i < tailPtr => T[i] = H2[i]) /\ (i > tailPtr => T[i] = 0)
    BY <1>3, <1>18, <2>4 DEF ListInv
  <2>6. QED
    BY <1>11, <1>12, <1>14, <2>1, <2>2, <2>3, <2>4, <2>5 DEF ListInv
<1>24. SlotInv(b, H2, T, J2)'
  <2>1. SUFFICES ASSUME NEW i \in RingNo, NEW x \in 0 .. rings[i].size - 1,
                        rings[i].vals[x] # 0
                 PROVE  \E j \in T[i] .. H2[i] - 1 :
                           /\ x = j % rings[i].size /\ ~Hole(i, j, T, J2)'
                           /\ IsElement(i, j, rings[i].vals[x], b)'
    BY <1>11, <1>12 DEF SlotInv
  <2>2. PICK j \in T[i] .. H[i] - 1 :
           /\ x = j % rings[i].size /\ ~Hole(i, j, T, J)
           /\ IsElement(i, j, rings[i].vals[x], b)
    BY <1>3, <2>1 DEF SlotInv
  <2>3. T[i] \in Nat /\ H[i] \in Nat /\ j \in T[i] .. H2[i] - 1 /\ (i = N => j # h)
    <3>1. T[i] \in Nat /\ H[i] \in Nat
      BY <1>3 DEF GhostType
    <3>2. CASE i = N
      BY <1>7, <1>18, <2>2, <3>1, <3>2
    <3>3. CASE i # N
      BY <1>18, <2>2, <3>1, <3>3
    <3>4. QED
      BY <3>1, <3>2, <3>3
  <2>4. ~Hole(i, j, T, J2)'
    BY <1>11, <1>13, <1>14, <1>19, <2>2, <2>3 DEF Hole
  <2>5. IsElement(i, j, rings[i].vals[x], b)'
    <3>1. b[i] + j + 1 \in 1 .. Len(order)
      BY <1>1, <1>3, <1>5, PlaceInOrder
    <3>2. rings[i].vals[x] = order[b[i] + j + 1]
      BY <1>5, <2>2 DEF IsElement
    <3>3. QED
      BY <1>12, <1>14, <1>15, <3>1, <3>2 DEF IsElement
  <2>6. QED
    BY <2>2, <2>3, <2>4, <2>5
<1>25. StoreInv(b, H2, T, J2)'
  <2>1. b[N] \in Nat /\ Len(order) = b[N] + h
    BY <1>3, <1>5, <1>6, <1>7 DEF OrderInv, GhostType
  <2>2. /\ J2[p] \in T[N] .. H2[N] - 1 /\ slot'[p] = J2[p] % n
        /\ order'[b[N] + J2[p] + 1] = val[p]
        /\ Moving /\ tailPtr = N => J2[p] # T[N]
    <3>1. order'[b[N] + h + 1] = val[p]
      BY <1>15, <2>1
    <3>2. Moving /\ tailPtr = N => h # T[N]
      BY <1>3, <1>6, <1>7 DEF ConsumerInv, Moving
    <3>3. QED
      BY <1>6, <1>7, <1>13, <1>18, <1>19, <3>1, <3>2
  <2>3. ASSUME NEW q \in Producers, q # p, ppc[q] = "store"
        PROVE  /\ J2[q] \in T[N] .. H2[N] - 1 /\ slot'[q] = J2[q] % n
               /\ order'[b[N] + J2[q] + 1] = val[q] /\ J2[q] # h
               /\ Moving /\ tailPtr = N => J2[q] # T[N]
               /\ \A w \in Producers : w # p /\ w # q /\ ppc[w] = "store" => J2[q] # J2[w]
    <3>1. /\ J[q] \in T[N] .. H[N] - 1 /\ slot[q] = J[q] % n
          /\ order[b[N] + J[q] + 1] = val[q]
          /\ Moving /\ tailPtr = N => J[q] # T[N]
          /\ \A w \in Producers : w # q /\ ppc[w] = "store" => J[q] # J[w]
      BY <1>3, <2>3 DEF StoreInv
    <3>2. b[N] + J[q] + 1 \in 1 .. Len(order)
      BY <1>1, <1>3, <1>5, <1>6, <3>1, PlaceInOrder
    <3>3. J[q] \in T[N] .. h /\ J[q] # h
      BY <1>6, <1>7, <3>1
    <3>4. J2[q] = J[q] /\ slot'[q] = slot[q] /\ T[N] <= J[q] /\ J[q] \in T[N] .. (h + 1) - 1
      BY <1>6, <1>7, <1>13, <1>18, <1>19, <2>3, <3>1
    <3>5. \A w \in Producers : w # p /\ w # q /\ ppc[w] = "store" => J[q] # J2[w]
      BY <1>19, <3>1
    <3>6. order'[b[N] + J[q] + 1] = val[q]
      BY <1>15, <3>1, <3>2
    <3>7. QED
      BY <1>18, <3>1, <3>3, <3>4, <3>5, <3>6
  <2>4. \A q \in Producers : q # p => (ppc'[q] = "store" <=> ppc[q] = "store")
    BY <1>13
  <2>5. ASSUME NEW q \in Producers, ppc'[q] = "store"
        PROVE  /\ J2[q] \in T[N] .. H2[N] - 1 /\ slot'[q] = J2[q] % n
               /\ order'[b[N] + J2[q] + 1] = val[q]
               /\ \A w \in Producers : w # q /\ ppc'[w] = "store" => J2[q] # J2[w]
               /\ Moving /\ tailPtr = N => J2[q] # T[N]
    <3>1. CASE q = p
      BY <1>19, <2>2, <2>3, <2>4, <3>1
    <3>2. CASE q # p
      BY <1>19, <2>3, <2>4, <2>5, <3>2
    <3>3. QED
      BY <3>1, <3>2
  <2>6. rings'[N].size = n
    BY <1>6, <1>12
  <2>7. QED
    BY <1>11, <1>14, <2>5, <2>6 DEF StoreInv
<1>26. OrderInv(b, H2, T)'
  <2>1. b[N] \in Nat /\ Len(order) = b[N] + h
    BY <1>3, <1>5, <1>6, <1>7 DEF OrderInv, GhostType
  <2>2. Len(order') = b[N] + H2[N] - 0
    <3>1. Len(order') = Len(order) + 1 /\ H2[N] = h + 1 /\ h \in Nat
      BY <1>15, <1>18
    <3>2. QED
      BY <2>1, <3>1
  <2>3. QED
    BY <1>3, <1>11, <1>14, <2>2 DEF OrderInv
<1>27. ConsumerInv(H2, T)'
  <2>1. tailPtr \in RingNo /\ (tailPtr = N => rings[tailPtr].next = 0)
    BY <1>3, <1>6 DEF ListInv
  <2>2. T[tailPtr] <= H[tailPtr] /\ T[tailPtr] \in Nat /\ H[tailPtr] \in Nat
    BY <1>3, <2>1 DEF IndexInv, GhostType
  <2>3. tailPtr = N => H2[tailPtr] = H[tailPtr] + 1
    BY <1>7, <1>18
  <2>4. tailPtr # N => H2[tailPtr] = H[tailPtr]
    BY <1>18, <2>1
  <2>5. rings'[tailPtr].next = rings[tailPtr].next
    BY <1>12, <2>1
  <2>6. QED
    BY <1>3, <1>14, <2>1, <2>2, <2>3, <2>4, <2>5 DEF ConsumerInv
<1>28. ProducerInv'
  <2>1. \A q \in Producers : Growing(q)' <=> Growing(q)
    BY <1>4, <1>13 DEF Growing
  <2>2. Alone' <=> Alone
    BY DEF Alone
  <2>3. QED
    BY <1>1, <1>4, <1>11, <1>13, <1>14, <2>1, <2>2 DEF ProducerInv, Publishing
<1>29. CountInv'
  <2>1. /\ Cardinality(Pending') = Cardinality(Pending) - 1 /\ Cardinality(Pending) \in Nat
    <3>1. p \in Pending /\ p \notin Pending'
      BY <1>4, <1>13 DEF Pending
    <3>2. \A q \in Producers : q # p => ppc'[q] = ppc[q]
      BY <1>4, <1>13
    <3>3. QED
      BY <3>1, <3>2, PendingStep
  <2>2. Len(order) \in Nat /\ 1 \in RingNo /\ (Alone' <=> Alone)
    BY <1>1 DEF TypeInv, Alone
  <2>3. Len(order') + Cardinality(Pending') = Len(order) + Cardinality(Pending)
    <3>1. Len(order') = Len(order) + 1
      BY <1>15
    <3>2. QED
      BY <2>1, <2>2, <3>1
  <2>4. rings'[1].size = rings[1].size
    BY <1>12, <2>2
  <2>5. UNCHANGED <<begun, popped>> /\ N' = N
    BY <1>11, <1>14
  <2>6. QED
    BY <1>1, <2>2, <2>3, <2>4, <2>5 DEF CountInv
<1>30. QED
  BY <1>20, <1>21, <1>22, <1>23, <1>24, <1>25, <1>26, <1>27, <1>28, <1>29, Assemble

\* It stores its element in the slot that it has reserved.
LEMMA StoreStep ==
    ASSUME Served, IInv, NEW p \in Producers, Store(p), UNCHANGED setup
    PROVE  IInv'
<1>1. TypeInv /\ ProducerInv /\ CountInv
  BY DEF IInv
<1>2. PICK b, H, T, J : GhostInv(b, H, T, J)
  BY DEF IInv
<1> DEFINE n == rings[N].size
           x0 == slot[p]
           e == val[p]
<1>3. /\ GhostType(b, H, T, J) /\ IndexInv(H, T) /\ ListInv(b, H, T) /\ SlotInv(b, H, T, J)
      /\ StoreInv(b, H, T, J) /\ OrderInv(b, H, T) /\ ConsumerInv(H, T)
  BY <1>2 DEF GhostInv
<1>4. /\ ppc[p] = "store" /\ ppc' = [ppc EXCEPT ![p] = "idle"] /\ pring[p] = N
      /\ rings' = [rings EXCEPT ![N].vals[x0] = e]
      /\ val' = [val EXCEPT ![p] = 0] /\ pring' = [pring EXCEPT ![p] = 0]
      /\ slot' = [slot EXCEPT ![p] = 0] /\ fresh' = [fresh EXCEPT ![p] = 0]
      /\ UNCHANGED <<cvars, begun, order, kvars>>
  <2>1. ppc[p] = "store"
    BY DEF Store, PMove
  <2>2. pring[p] = N
    BY <1>1, <2>1 DEF ProducerInv
  <2>3. QED
    BY <2>1, <2>2 DEF Store, PMove, Finish
<1>5. ~Unpublished /\ ~newChain /\ e \in 1 .. MaxPush
  <2>1. \A q \in Producers : ~Growing(q)
    BY <1>1, <1>4, OneProducer DEF ProducerInv, Growing
  <2>2. QED
    BY <1>1, <1>4, <2>1 DEF Unpublished, Publishing, Growing, ProducerInv
<1>6. /\ N \in RingNo /\ rings[N] \in Ring /\ n \in Nat \ {0} /\ H[N] \in Nat /\ T[N] \in Nat
      /\ GoodSize(n) /\ setup \in Setups /\ rings[N].vals \in [0 .. n - 1 -> 0 .. MaxPush]
  <2>1. N \in RingNo /\ setup \in Setups
    BY <1>1 DEF TypeInv
  <2>2. rings[N] \in Ring /\ n \in Nat \ {0} /\ H[N] \in Nat /\ T[N] \in Nat
    BY <1>1, <1>3, <2>1, RingFacts
  <2>3. GoodSize(n) /\ rings[N].vals \in [0 .. n - 1 -> 0 .. MaxPush]
    BY <1>3, <2>1 DEF IndexInv
  <2>4. QED
    BY <2>1, <2>2, <2>3
<1>7. /\ J[p] \in T[N] .. H[N] - 1 /\ x0 = J[p] % n /\ order[b[N] + J[p] + 1] = e
      /\ \A q \in Producers : q # p /\ ppc[q] = "store" => J[p] # J[q]
      /\ Moving /\ tailPtr = N => J[p] # T[N]
  BY <1>3, <1>4 DEF StoreInv
<1>8. x0 \in 0 .. n - 1
  <2>1. J[p] \in Nat
    BY <1>6, <1>7
  <2>2. (J[p] % n) \in 0 .. n - 1
    BY <1>6, <2>1, PlaceFacts
  <2>3. QED
    BY <1>7, <2>2
<1>9. PICK vals : vals = [rings[N].vals EXCEPT ![x0] = e]
  OBVIOUS
<1>10. PICK r : r = [rings[N] EXCEPT !.vals = vals]
  OBVIOUS
<1>11. /\ vals \in [0 .. n - 1 -> 0 .. MaxPush] /\ vals[x0] = e
       /\ \A x \in 0 .. n - 1 : x # x0 => vals[x] = rings[N].vals[x]
  <2>1. e \in 0 .. MaxPush
    BY <1>5
  <2>2. QED
    BY <1>6, <1>8, <1>9, <2>1
<1>12. /\ r \in Ring /\ r.vals = vals /\ r.size = n /\ r.next = rings[N].next
       /\ r.head = rings[N].head /\ r.tail = rings[N].tail
  <2>1. vals \in Slots
    BY <1>6, <1>11 DEF Slots
  <2>2. QED
    BY <1>6, <1>10, <2>1 DEF Ring
<1>13. /\ rings' \in Seq(Ring) /\ N' = N /\ RingNo' = RingNo /\ rings'[N] = r
       /\ \A i \in RingNo : i # N => rings'[i] = rings[i]
  <2>1. rings' = [rings EXCEPT ![N] = r]
    BY <1>1, <1>4, <1>6, <1>9, <1>10 DEF TypeInv
  <2>2. QED
    BY <1>1, <1>6, <1>12, <2>1, RingUpdate DEF TypeInv
<1>14. \A i \in RingNo : /\ rings'[i].size = rings[i].size /\ rings'[i].next = rings[i].next
                         /\ rings'[i].head = rings[i].head /\ rings'[i].tail = rings[i].tail
  BY <1>12, <1>13
<1>15. /\ ppc'[p] = "idle"
       /\ \A q \in Producers :
             q # p => ppc'[q] = ppc[q] /\ slot'[q] = slot[q] /\ val'[q] = val[q]
                                        /\ pring'[q] = pring[q] /\ fresh'[q] = fresh[q]
  BY <1>1, <1>4 DEF TypeInv
<1>16. /\ UNCHANGED <<headPtr, tailPtr, newChain, kpc, kring, knext, ktail, wasEmpty, popped,
                      dropped, begun, last, order>>
       /\ M' = M /\ ~Unpublished' /\ (Moving' <=> Moving)
  <2>1. ~Unpublished'
    BY <1>5, <1>15 DEF Unpublished, Publishing
  <2>2. QED
    BY <1>4, <2>1 DEF cvars, kvars, Moving
<1>17. TypeInv'
  <2>1. 0 \in 0 .. N /\ 0 \in 0 .. MaxPush /\ 0 \in 0 .. SizeLimit - 1
    BY <1>1, BoundAssumption, SetupFacts DEF TypeInv
  <2>2. ppc' \in [Producers -> {"idle", "gate", "head", "reserve", "store", "publishHead",
                                "publishNext", "openGate"}]
    BY <1>1, <1>4 DEF TypeInv
  <2>3. /\ val' \in [Producers -> 0 .. MaxPush] /\ slot' \in [Producers -> 0 .. SizeLimit - 1]
        /\ pring' \in [Producers -> 0 .. N] /\ fresh' \in [Producers -> 0 .. N]
    BY <1>1, <1>4, <2>1 DEF TypeInv
  <2>4. QED
    BY <1>1, <1>13, <1>16, <2>2, <2>3 DEF TypeInv
<1>18. GhostType(b, H, T, J)'
  BY <1>3, <1>13 DEF GhostType
<1>19. IndexInv(H, T)'
  <2>1. \A i \in RingNo : rings'[i].vals \in [0 .. rings[i].size - 1 -> 0 .. MaxPush]
    BY <1>3, <1>11, <1>12, <1>13 DEF IndexInv
  <2>2. QED
    BY <1>3, <1>13, <1>14, <1>16, <2>1 DEF IndexInv, GoodSize
<1>20. ListInv(b, H, T)'
  <2>1. \A q \in Producers : ppc[q] # "publishHead" /\ ppc'[q] # "publishHead"
    BY <1>5, <1>15 DEF Unpublished, Publishing
  <2>2. QED
    BY <1>3, <1>5, <1>13, <1>14, <1>16, <2>1 DEF ListInv
<1>21. SlotInv(b, H, T, J)'
  <2>1. SUFFICES ASSUME NEW i \in RingNo, NEW x \in 0 .. rings[i].size - 1,
                        rings'[i].vals[x] # 0
                 PROVE  \E j \in T[i] .. H[i] - 1 :
                           /\ x = j % rings[i].size /\ ~Hole(i, j, T, J)'
                           /\ rings'[i].vals[x] = order[b[i] + j + 1]
    BY <1>13, <1>14, <1>16 DEF SlotInv, IsElement
  <2>2. CASE i = N /\ x = x0
    <3>1. rings'[i].vals[x] = e
      BY <1>11, <1>12, <1>13, <2>2
    <3>2. ~Hole(i, J[p], T, J)'
      BY <1>7, <1>13, <1>15, <1>16, <2>2 DEF Hole
    <3>3. QED
      BY <1>7, <2>2, <3>1, <3>2
  <2>3. CASE ~(i = N /\ x = x0)
    <3>1. rings'[i].vals[x] = rings[i].vals[x]
      BY <1>11, <1>12, <1>13, <2>3
    <3>2. PICK j \in T[i] .. H[i] - 1 :
             /\ x = j % rings[i].size /\ ~Hole(i, j, T, J)
             /\ IsElement(i, j, rings[i].vals[x], b)
      BY <1>3, <2>1, <3>1 DEF SlotInv
    <3>3. ~Hole(i, j, T, J)'
      BY <1>13, <1>15, <1>16, <3>2 DEF Hole
    <3>4. rings[i].vals[x] = order[b[i] + j + 1]
      BY <1>5, <3>2 DEF IsElement
    <3>5. QED
      BY <3>1, <3>2, <3>3, <3>4
  <2>4. QED
    BY <2>2, <2>3
<1>22. StoreInv(b, H, T, J)'
  <2>1. rings'[N].size = rings[N].size
    BY <1>6, <1>14
  <2>2. \A q \in Producers : ppc'[q] = "store" => q # p /\ ppc[q] = "store"
    BY <1>15
  <2>3. QED
    BY <1>3, <1>13, <1>15, <1>16, <2>1, <2>2 DEF StoreInv
<1>23. OrderInv(b, H, T)'
  BY <1>3, <1>5, <1>13, <1>16 DEF OrderInv
<1>24. ConsumerInv(H, T)'
  <2>1. rings'[tailPtr].next = rings[tailPtr].next
    BY <1>3, <1>14 DEF ListInv
  <2>2. QED
    BY <1>3, <1>16, <2>1 DEF ConsumerInv
<1>25. ProducerInv'
  <2>1. \A q \in Producers : Growing(q)' <=> Growing(q)
    BY <1>4, <1>15 DEF Growing
  <2>2. Alone' <=> Alone
    BY DEF Alone
  <2>3. QED
    BY <1>1, <1>13, <1>15, <1>16, <2>1, <2>2 DEF ProducerInv, Publishing
<1>26. CountInv'
  <2>1. Cardinality(Pending') = Cardinality(Pending)
    <3>1. p \notin Pending /\ p \notin Pending'
      BY <1>4, <1>15 DEF Pending
    <3>2. \A q \in Producers : q # p => ppc'[q] = ppc[q]
      BY <1>15
    <3>3. QED
      BY <3>1, <3>2, PendingStep
  <2>2. 1 \in RingNo /\ (Alone' <=> Alone)
    BY <1>1 DEF TypeInv, Alone
  <2>3. rings'[1].size = rings[1].size
    BY <1>14, <2>2
  <2>4. QED
    BY <1>1, <1>13, <1>16, <2>1, <2>2, <2>3 DEF CountInv
<1>27. QED
  BY <1>17, <1>18, <1>19, <1>20, <1>21, <1>22, <1>23, <1>24, <1>25, <1>26, Assemble

-----------------------------------------------------------------------------
(* A ring is added.                                                        *)

\* Only the one producer of a chain ever finds the ring full: where there are more, the
\* elements inside are fewer than its slots.
LEMMA GrowIsAlone ==
    ASSUME Served, TypeInv, ProducerInv, CountInv, NEW b, NEW H, NEW T, NEW J,
           GhostInv(b, H, T, J), NEW p \in Producers, ppc[p] = "reserve", Full(rings[pring[p]])
    PROVE  /\ pring[p] = N /\ Alone /\ ~newChain /\ ~Unpublished
           /\ \A q \in Producers : q # p => ppc[q] = "idle"
<1>1. pring[p] = N
  BY DEF ProducerInv
<1>2. ~newChain /\ ~Unpublished
  <2>1. \A q \in Producers : ~Growing(q)
    BY OneProducer DEF ProducerInv, Growing
  <2>2. QED
    BY <2>1 DEF Unpublished, Publishing, Growing, ProducerInv
<1>3. ASSUME ~Alone
      PROVE  FALSE
  <2>1. N = 1 /\ rings[1].size = InitSize /\ MaxInside < InitSize /\ MaxInside \in Nat
    BY <1>3, SetupFacts DEF CountInv, TypeInv
  <2>2. H[1] = T[1] + InitSize /\ T[1] \in Nat /\ InitSize \in Nat
    BY <1>1, <2>1, RingFacts DEF GhostInv
  <2>3. b[1] = 0 /\ tailPtr = 1
    BY <2>1 DEF GhostInv, ListInv
  <2>4. Len(order) = T[1] + InitSize
    BY <1>2, <2>1, <2>2, <2>3 DEF GhostInv, OrderInv
  <2>5. popped <= T[1] + 1
    BY <2>2, <2>3 DEF GhostInv, OrderInv
  <2>6. Cardinality(Pending) >= 1 /\ Cardinality(Pending) \in Nat
    <3>1. p \in Pending
      BY DEF Pending
    <3>2. IsFiniteSet(Pending)
      BY FS_Subset DEF Served, Pending
    <3>3. Cardinality(Pending) # 0
      BY <3>1, <3>2, FS_EmptySet
    <3>4. QED
      BY <3>2, <3>3, FS_CardinalityType
  <2>7. begun - popped >= InitSize
    <3>1. begun = Len(order) + Cardinality(Pending) /\ popped \in Nat
      BY DEF CountInv, TypeInv
    <3>2. QED
      BY <2>2, <2>4, <2>5, <2>6, <3>1
  <2>8. QED
    BY <2>1, <2>2, <2>7 DEF CountInv, TypeInv
<1>4. \A q \in Producers : q # p => ppc[q] = "idle"
  BY <1>3, OneProducer
<1>5. QED
  BY <1>1, <1>2, <1>3, <1>4

\* The new ring has the element in its first slot.
LEMMA GrownRingFacts ==
    ASSUME NEW n, Least(2 * n, SizeLimit) \in Nat \ {0}, NEW e \in 1 .. MaxPush
    PROVE  LET r == GrownRing(n, e)
               m == Least(2 * n, SizeLimit)
           IN  /\ r \in Ring /\ r.size = m /\ r.head = 1 /\ r.tail = 0 /\ r.next = 0
               /\ r.vals \in [0 .. m - 1 -> 0 .. MaxPush] /\ r.vals[0] = e
               /\ \A x \in 0 .. m - 1 : x # 0 => r.vals[x] = 0
<1> DEFINE m == Least(2 * n, SizeLimit)
           r0 == EmptyRing(m)
           r == GrownRing(n, e)
<1>1. m \in Nat \ {0}
  OBVIOUS
<1> HIDE DEF m
<1>2. /\ r0 \in Ring /\ r0.vals \in [0 .. m - 1 -> 0 .. MaxPush] /\ r0.size = m
      /\ r0.tail = 0 /\ r0.next = 0 /\ \A x \in 0 .. m - 1 : r0.vals[x] = 0
  BY <1>1, EmptyRingType
<1>3. r = [r0 EXCEPT !.head = 1, !.vals[0] = e]
  BY DEF GrownRing, m
<1> HIDE DEF r, r0
<1>4. PICK vals : vals = [r0.vals EXCEPT ![0] = e]
  OBVIOUS
<1>5. 0 \in 0 .. m - 1 /\ e \in 0 .. MaxPush
  BY <1>1
<1>6. /\ vals \in [0 .. m - 1 -> 0 .. MaxPush] /\ vals[0] = e
      /\ \A x \in 0 .. m - 1 : x # 0 => vals[x] = 0
  BY <1>2, <1>4, <1>5
<1>7. r = [r0 EXCEPT !.head = 1, !.vals = vals]
  BY <1>2, <1>3, <1>4 DEF Ring
<1>8. vals \in Slots
  BY <1>1, <1>6 DEF Slots
<1>9. r \in Ring /\ r.size = m /\ r.head = 1 /\ r.tail = 0 /\ r.next = 0 /\ r.vals = vals
  BY <1>2, <1>7, <1>8 DEF Ring
<1>10. QED
  BY <1>6, <1>9 DEF m, r

\* A ring that is full is followed by a new one, which its producer has yet to publish.
LEMMA GrowStep ==
    ASSUME Served, IInv, NEW p \in Producers, Grow(p), UNCHANGED setup
    PROVE  IInv'
<1>1. TypeInv /\ ProducerInv /\ CountInv
  BY DEF IInv
<1>2. PICK b, H, T, J : GhostInv(b, H, T, J)
  BY DEF IInv
<1> DEFINE n == rings[N].size
           m == Least(2 * n, SizeLimit)
           e == val[p]
<1>3. /\ GhostType(b, H, T, J) /\ IndexInv(H, T) /\ ListInv(b, H, T) /\ SlotInv(b, H, T, J)
      /\ OrderInv(b, H, T) /\ ConsumerInv(H, T)
  BY <1>2 DEF GhostInv
<1>4. /\ ppc[p] = "reserve" /\ pring[p] = N /\ Alone /\ ~newChain /\ ~Unpublished
      /\ \A q \in Producers : q # p => ppc[q] = "idle"
  <2>1. ppc[p] = "reserve" /\ Full(rings[pring[p]])
    BY DEF Grow
  <2>2. QED
    BY <1>1, <1>2, <2>1, GrowIsAlone
<1>5. /\ ppc' = [ppc EXCEPT ![p] = "publishHead"] /\ newChain' = TRUE
      /\ rings' = Append(rings, GrownRing(n, e)) /\ fresh' = [fresh EXCEPT ![p] = N + 1]
      /\ UNCHANGED <<headPtr, tailPtr, val, pring, slot, begun, order, kvars>>
  BY <1>4 DEF Grow, PMove
<1>6. N \in RingNo /\ N \in Nat /\ setup \in Setups /\ p \in setup.producers /\ e \in 1 .. MaxPush
  BY <1>1, <1>4 DEF TypeInv, ProducerInv
<1>7. GoodSize(n) /\ GoodSize(m) /\ m \in Nat \ {0} /\ m < M /\ M \in Nat \ {0}
  <2>1. GoodSize(n)
    BY <1>3, <1>6 DEF IndexInv
  <2>2. GoodSize(m) /\ m \in Nat \ {0}
    BY <1>6, <2>1, SizeFacts
  <2>3. m < M /\ M \in Nat \ {0}
    BY <1>6, <2>2, SizeFacts, SetupFacts
  <2>4. QED
    BY <2>1, <2>2, <2>3
<1>8. PICK r : r = GrownRing(n, e)
  OBVIOUS
<1>9. /\ r \in Ring /\ r.size = m /\ r.head = 1 /\ r.tail = 0 /\ r.next = 0
      /\ r.vals \in [0 .. m - 1 -> 0 .. MaxPush] /\ r.vals[0] = e
      /\ \A x \in 0 .. m - 1 : x # 0 => r.vals[x] = 0
  BY <1>6, <1>7, <1>8, GrownRingFacts
<1>10. /\ rings' \in Seq(Ring) /\ N' = N + 1 /\ RingNo' = 1 .. N + 1 /\ rings'[N + 1] = r
       /\ \A i \in RingNo : rings'[i] = rings[i]
  BY <1>1, <1>5, <1>8, <1>9, RingAdded DEF TypeInv
<1>11. /\ ppc'[p] = "publishHead" /\ fresh'[p] = N + 1
       /\ \A q \in Producers : q # p => ppc'[q] = "idle"
  BY <1>1, <1>4, <1>5 DEF TypeInv
<1>12. /\ UNCHANGED <<kpc, kring, knext, ktail, wasEmpty, popped, dropped, last>>
       /\ M' = M /\ Unpublished' /\ (Moving' <=> Moving)
  <2>1. Unpublished'
    BY <1>11 DEF Unpublished, Publishing
  <2>2. QED
    BY <1>5, <2>1 DEF kvars, Moving
<1>13. TypeInv'
  <2>1. ppc' \in [Producers -> {"idle", "gate", "head", "reserve", "store", "publishHead",
                                "publishNext", "openGate"}]
    BY <1>1, <1>5 DEF TypeInv
  <2>2. 0 .. N \subseteq 0 .. N + 1 /\ N + 1 \in 0 .. N + 1 /\ N + 1 >= 1
    BY <1>6
  <2>3. fresh \in [Producers -> 0 .. N + 1]
    BY <1>1, <2>2 DEF TypeInv
  <2>4. fresh' \in [Producers -> 0 .. N + 1] /\ pring' \in [Producers -> 0 .. N + 1]
    BY <1>1, <1>5, <2>2, <2>3 DEF TypeInv
  <2>5. kring' \in [Consumers -> 0 .. N + 1] /\ knext' \in [Consumers -> 0 .. N + 1]
    BY <1>1, <1>12, <2>2 DEF TypeInv
  <2>6. QED
    BY <1>1, <1>5, <1>10, <1>12, <2>1, <2>2, <2>4, <2>5 DEF TypeInv
<1>14. ProducerInv'
  <2>1. Alone' /\ setup.producers' = setup.producers /\ val' = val /\ pring'[p] = N
    BY <1>4, <1>5 DEF Alone
  <2>2. Growing(p)' /\ newChain'
    BY <1>5, <1>11 DEF Growing
  <2>3. (N + 1) - 1 = N
    BY <1>6
  <2>4. QED
    BY <1>6, <1>10, <1>11, <2>1, <2>2, <2>3 DEF ProducerInv, Publishing
<1>15. CountInv'
  <2>1. Cardinality(Pending') = Cardinality(Pending)
    <3>1. p \in Pending /\ p \in Pending'
      BY <1>4, <1>11 DEF Pending
    <3>2. \A q \in Producers : q # p => ppc'[q] = ppc[q]
      BY <1>4, <1>11
    <3>3. QED
      BY <3>1, <3>2, PendingStep
  <2>2. Alone'
    BY <1>4 DEF Alone
  <2>3. QED
    BY <1>1, <1>5, <1>12, <2>1, <2>2 DEF CountInv
<1>16. PICK b2 : b2 = [i \in 1 .. N + 1 |-> IF i = N + 1 THEN b[N] + H[N] ELSE b[i]]
  OBVIOUS
<1>17. PICK H2 : H2 = [i \in 1 .. N + 1 |-> IF i = N + 1 THEN 1 ELSE H[i]]
  OBVIOUS
<1>18. PICK T2 : T2 = [i \in 1 .. N + 1 |-> IF i = N + 1 THEN 0 ELSE T[i]]
  OBVIOUS
<1>19. /\ b2[N + 1] = b[N] + H[N] /\ H2[N + 1] = 1 /\ T2[N + 1] = 0
       /\ \A i \in RingNo : b2[i] = b[i] /\ H2[i] = H[i] /\ T2[i] = T[i]
  BY <1>6, <1>16, <1>17, <1>18
<1>20. /\ b[N] \in Nat /\ H[N] \in Nat
       /\ \A i \in RingNo : b[i] \in Nat /\ H[i] \in Nat /\ T[i] \in Nat
  BY <1>3, <1>6 DEF GhostType
<1>21. GhostType(b2, H2, T2, J)'
  <2>1. \A i \in 1 .. N + 1 : i = N + 1 \/ i \in RingNo
    BY <1>6
  <2>2. b2 \in [1 .. N + 1 -> Nat] /\ H2 \in [1 .. N + 1 -> Nat] /\ T2 \in [1 .. N + 1 -> Nat]
    BY <1>16, <1>17, <1>18, <1>20, <2>1
  <2>3. QED
    BY <1>3, <1>10, <2>2 DEF GhostType
<1>22. IndexInv(H2, T2)'
  <2>1. SUFFICES ASSUME NEW i \in 1 .. N + 1
                 PROVE  /\ GoodSize(rings'[i].size)
                        /\ rings'[i].vals \in [0 .. rings'[i].size - 1 -> 0 .. MaxPush]
                        /\ T2[i] <= H2[i] /\ H2[i] <= T2[i] + rings'[i].size
                        /\ rings'[i].head = H2[i] % M /\ rings'[i].tail = T2[i] % M
    BY <1>10, <1>12 DEF IndexInv, GoodSize
  <2>2. CASE i = N + 1
    <3>1. 1 % M = 1 /\ 0 % M = 0
      BY <1>7
    <3>2. QED
      BY <1>7, <1>9, <1>10, <1>19, <2>2, <3>1
  <2>3. CASE i # N + 1
    <3>1. i \in RingNo
      BY <1>6, <2>3
    <3>2. QED
      BY <1>3, <1>10, <1>19, <3>1 DEF IndexInv
  <2>4. QED
    BY <2>2, <2>3
<1>23. ListInv(b2, H2, T2)'
  <2>1. b2[1] = 0
    BY <1>1, <1>3, <1>19 DEF ListInv, TypeInv
  <2>2. ASSUME NEW i \in 1 .. N + 1, i < N + 1
        PROVE  b2[i + 1] = b2[i] + H2[i] /\ b2[i + 1] <= b2[N + 1]
    <3>1. i \in RingNo
      BY <1>6, <2>2
    <3>2. CASE i = N
      BY <1>19, <1>20, <3>1, <3>2
    <3>3. CASE i # N
      <4>1. i < N /\ i + 1 \in RingNo
        BY <1>6, <3>1, <3>3
      <4>2. b[i + 1] = b[i] + H[i] /\ b[i + 1] <= b[N] /\ b[i + 1] \in Nat
        BY <1>3, <1>20, <3>1, <4>1 DEF ListInv
      <4>3. QED
        BY <1>19, <1>20, <3>1, <4>1, <4>2
    <3>4. QED
      BY <3>2, <3>3
  <2>3. ASSUME NEW i \in 1 .. N + 1
        PROVE  rings'[i].next = IF i < N THEN i + 1 ELSE 0
    <3>1. CASE i = N + 1
      BY <1>6, <1>9, <1>10, <3>1
    <3>2. CASE i # N + 1
      <4>1. i \in RingNo
        BY <1>6, <3>2
      <4>2. rings[i].next = IF i < N - 1 \/ i = N - 1 THEN i + 1 ELSE 0
        BY <1>3, <1>4, <4>1 DEF ListInv
      <4>3. rings'[i] = rings[i] /\ i \in 1 .. N
        BY <1>10, <4>1
      <4>4. QED
        BY <1>6, <3>2, <4>2, <4>3
    <3>3. QED
      BY <3>1, <3>2
  <2>4. headPtr' = N
    <3>1. \A q \in Producers : ppc[q] # "publishHead"
      BY <1>4
    <3>2. QED
      BY <1>3, <1>5, <3>1 DEF ListInv
  <2>5. tailPtr' \in RingNo /\ tailPtr' = tailPtr /\ dropped' = 1 .. tailPtr' - 1
    BY <1>3, <1>5, <1>12 DEF ListInv
  <2>6. ASSUME NEW i \in 1 .. N + 1
        PROVE  (i < tailPtr' => T2[i] = H2[i]) /\ (i > tailPtr' => T2[i] = 0)
    <3>1. CASE i = N + 1
      BY <1>6, <1>19, <2>5, <3>1
    <3>2. CASE i # N + 1
      <4>1. i \in RingNo
        BY <1>6, <3>2
      <4>2. QED
        BY <1>3, <1>19, <2>5, <4>1 DEF ListInv
    <3>3. QED
      BY <3>1, <3>2
  <2>7. (N + 1) - 1 = N /\ tailPtr' < N + 1 /\ tailPtr' \in 1 .. N + 1
    BY <1>6, <2>5
  <2>8. QED
    BY <1>10, <1>11, <1>12, <1>19, <2>1, <2>2, <2>3, <2>4, <2>5, <2>6, <2>7 DEF ListInv
<1>24. SlotInv(b2, H2, T2, J)'
  <2>1. SUFFICES ASSUME NEW i \in 1 .. N + 1, NEW x \in 0 .. rings'[i].size - 1,
                        rings'[i].vals[x] # 0
                 PROVE  \E j \in T2[i] .. H2[i] - 1 :
                           /\ x = j % rings'[i].size /\ ~Hole(i, j, T2, J)'
                           /\ IsElement(i, j, rings[i].vals[x], b2)'
    BY <1>10 DEF SlotInv
  <2>2. \A j : Hole(i, j, T2, J)' <=> Moving /\ i = tailPtr /\ j = T2[i]
    BY <1>5, <1>11, <1>12 DEF Hole
  <2>3. CASE i = N + 1
    <3>1. x = 0 /\ rings'[i].vals[x] = e
      BY <1>9, <1>10, <2>1, <2>3
    <3>2. 0 \in T2[i] .. H2[i] - 1 /\ 0 % rings'[i].size = 0
      BY <1>7, <1>9, <1>10, <1>19, <2>3
    <3>3. ~Hole(i, 0, T2, J)'
      BY <1>3, <1>6, <2>2, <2>3 DEF ListInv
    <3>4. IsElement(i, 0, rings[i].vals[x], b2)'
      <4>1. Publishing(p)' /\ val' = val
        BY <1>5, <1>11 DEF Publishing
      <4>2. QED
        BY <1>10, <1>12, <2>3, <3>1, <4>1 DEF IsElement
    <3>5. QED
      BY <3>1, <3>2, <3>3, <3>4
  <2>4. CASE i # N + 1
    <3>1. i \in RingNo
      BY <1>6, <2>4
    <3>2. rings'[i] = rings[i] /\ H2[i] = H[i] /\ T2[i] = T[i] /\ b2[i] = b[i]
      BY <1>10, <1>19, <3>1
    <3>3. PICK j \in T[i] .. H[i] - 1 :
             /\ x = j % rings[i].size /\ ~Hole(i, j, T, J)
             /\ IsElement(i, j, rings[i].vals[x], b)
      BY <1>3, <2>1, <3>1, <3>2 DEF SlotInv
    <3>4. ~Hole(i, j, T2, J)'
      BY <2>2, <3>2, <3>3 DEF Hole
    <3>5. IsElement(i, j, rings[i].vals[x], b2)'
      <4>1. rings[i].vals[x] = order[b[i] + j + 1]
        BY <1>4, <3>3 DEF IsElement
      <4>2. ~(Unpublished' /\ i = N')
        BY <1>10, <2>4
      <4>3. order' = order
        BY <1>5
      <4>4. QED
        BY <3>2, <4>1, <4>2, <4>3 DEF IsElement
    <3>6. QED
      BY <3>2, <3>3, <3>4, <3>5
  <2>5. QED
    BY <2>3, <2>4
<1>25. StoreInv(b2, H2, T2, J)'
  <2>1. \A q \in Producers : ppc'[q] # "store"
    BY <1>11
  <2>2. QED
    BY <2>1 DEF StoreInv
<1>26. OrderInv(b2, H2, T2)'
  <2>1. Len(order) = b[N] + H[N] - 0
    BY <1>3, <1>4 DEF OrderInv
  <2>2. Len(order) = b2[N + 1] + H2[N + 1] - 1
    BY <1>19, <1>20, <2>1
  <2>3. tailPtr \in RingNo /\ tailPtr' = tailPtr /\ order' = order
    BY <1>3, <1>5 DEF ListInv
  <2>4. popped = b2[tailPtr] + T2[tailPtr] + (IF Moving THEN 1 ELSE 0)
    BY <1>3, <1>19, <2>3 DEF OrderInv
  <2>5. QED
    BY <1>10, <1>12, <2>2, <2>3, <2>4 DEF OrderInv
<1>27. ConsumerInv(H2, T2)'
  <2>1. tailPtr \in RingNo /\ tailPtr' = tailPtr
    BY <1>3, <1>5 DEF ListInv
  <2>2. rings'[tailPtr] = rings[tailPtr] /\ H2[tailPtr] = H[tailPtr] /\ T2[tailPtr] = T[tailPtr]
    BY <1>10, <1>19, <2>1
  <2>3. QED
    BY <1>3, <1>12, <2>1, <2>2 DEF ConsumerInv
<1>28. QED
  BY <1>13, <1>14, <1>15, <1>21, <1>22, <1>23, <1>24, <1>25, <1>26, <1>27, Assemble

\* The ring that was full gets its successor: the first element of the new ring has its place.
LEMMA PublishNextStep ==
    ASSUME Served, IInv, NEW p \in Producers, PublishNext(p), UNCHANGED setup
    PROVE  IInv'
<1>1. TypeInv /\ ProducerInv /\ CountInv
  BY DEF IInv
<1>2. PICK b, H, T, J : GhostInv(b, H, T, J)
  BY DEF IInv
<1> DEFINE e == val[p]
<1>3. /\ GhostType(b, H, T, J) /\ IndexInv(H, T) /\ ListInv(b, H, T) /\ SlotInv(b, H, T, J)
      /\ OrderInv(b, H, T) /\ ConsumerInv(H, T)
  BY <1>2 DEF GhostInv
<1>4. /\ ppc[p] = "publishNext" /\ pring[p] = N - 1 /\ fresh[p] = N /\ Alone /\ newChain
      /\ Unpublished /\ e \in 1 .. MaxPush /\ \A q \in Producers : q # p => ppc[q] = "idle"
  <2>1. ppc[p] = "publishNext"
    BY DEF PublishNext, PMove
  <2>2. QED
    BY <1>1, <2>1, OneProducer DEF ProducerInv, Publishing, Growing, Unpublished
<1>5. /\ ppc' = [ppc EXCEPT ![p] = "openGate"] /\ rings' = [rings EXCEPT ![N - 1].next = N]
      /\ order' = Append(order, e)
      /\ UNCHANGED <<cvars, val, pring, slot, fresh, begun, kvars>>
  BY <1>4 DEF PublishNext, PMove
<1>6. /\ N \in RingNo /\ N \in Nat /\ tailPtr \in RingNo /\ tailPtr < N /\ N - 1 \in RingNo
      /\ H[N] = 1 /\ T[N] = 0 /\ b[N] \in Nat
  <2>1. N \in RingNo /\ N \in Nat
    BY <1>1 DEF TypeInv
  <2>2. tailPtr \in RingNo /\ tailPtr < N /\ H[N] = 1
    BY <1>3, <1>4 DEF ListInv
  <2>3. T[N] = 0
    BY <1>3, <2>1, <2>2 DEF ListInv
  <2>4. b[N] \in Nat
    BY <1>3, <2>1 DEF GhostType
  <2>5. QED
    BY <2>1, <2>2, <2>3, <2>4
<1>7. PICK r : r = [rings[N - 1] EXCEPT !.next = N]
  OBVIOUS
<1>8. /\ r \in Ring /\ r.next = N /\ r.size = rings[N - 1].size /\ r.head = rings[N - 1].head
      /\ r.tail = rings[N - 1].tail /\ r.vals = rings[N - 1].vals
  <2>1. rings[N - 1] \in Ring
    BY <1>1, <1>6 DEF TypeInv
  <2>2. QED
    BY <1>6, <1>7, <2>1 DEF Ring
<1>9. /\ rings' \in Seq(Ring) /\ N' = N /\ RingNo' = RingNo /\ rings'[N - 1] = r
      /\ \A i \in RingNo : i # N - 1 => rings'[i] = rings[i]
  <2>1. rings' = [rings EXCEPT ![N - 1] = r]
    BY <1>1, <1>5, <1>6, <1>7 DEF TypeInv
  <2>2. QED
    BY <1>1, <1>6, <1>8, <2>1, RingUpdate DEF TypeInv
<1>10. \A i \in RingNo : /\ rings'[i].size = rings[i].size /\ rings'[i].head = rings[i].head
                         /\ rings'[i].tail = rings[i].tail /\ rings'[i].vals = rings[i].vals
  BY <1>8, <1>9
<1>11. ppc'[p] = "openGate" /\ \A q \in Producers : q # p => ppc'[q] = "idle"
  BY <1>1, <1>4, <1>5 DEF TypeInv
<1>12. /\ UNCHANGED <<headPtr, tailPtr, newChain, kpc, kring, knext, ktail, wasEmpty, popped,
                      dropped, last>>
       /\ M' = M /\ ~Unpublished' /\ (Moving' <=> Moving)
  <2>1. ~Unpublished'
    BY <1>11 DEF Unpublished, Publishing
  <2>2. QED
    BY <1>5, <2>1 DEF cvars, kvars, Moving
<1>13. /\ order' \in Seq(1 .. MaxPush) /\ Len(order') = Len(order) + 1
       /\ order'[Len(order) + 1] = e
       /\ \A i \in 1 .. Len(order) : order'[i] = order[i]
  BY <1>1, <1>4, <1>5 DEF TypeInv
<1>14. Len(order) = b[N]
  <2>1. Len(order) = b[N] + 1 - 1
    BY <1>3, <1>4, <1>6 DEF OrderInv
  <2>2. QED
    BY <1>6, <2>1
<1>15. TypeInv'
  <2>1. ppc' \in [Producers -> {"idle", "gate", "head", "reserve", "store", "publishHead",
                                "publishNext", "openGate"}]
    BY <1>1, <1>5 DEF TypeInv
  <2>2. QED
    BY <1>1, <1>5, <1>9, <1>12, <1>13, <2>1 DEF TypeInv
<1>16. ProducerInv'
  <2>1. Alone' /\ setup.producers' = setup.producers /\ val' = val
    BY <1>4, <1>5 DEF Alone
  <2>2. Growing(p)' /\ newChain'
    BY <1>4, <1>11, <1>12 DEF Growing
  <2>3. QED
    BY <1>1, <1>4, <1>11, <2>1, <2>2 DEF ProducerInv, Publishing
<1>17. CountInv'
  <2>1. /\ Cardinality(Pending') = Cardinality(Pending) - 1 /\ Cardinality(Pending) \in Nat
    <3>1. p \in Pending /\ p \notin Pending'
      BY <1>4, <1>11 DEF Pending
    <3>2. \A q \in Producers : q # p => ppc'[q] = ppc[q]
      BY <1>4, <1>11
    <3>3. QED
      BY <3>1, <3>2, PendingStep
  <2>2. Len(order') + Cardinality(Pending') = Len(order) + Cardinality(Pending)
    BY <1>6, <1>13, <1>14, <2>1
  <2>3. Alone'
    BY <1>4 DEF Alone
  <2>4. QED
    BY <1>1, <1>5, <1>12, <2>2, <2>3 DEF CountInv
<1>18. GhostType(b, H, T, J)' /\ IndexInv(H, T)'
  BY <1>3, <1>9, <1>10, <1>12 DEF GhostType, IndexInv, GoodSize
<1>19. ListInv(b, H, T)'
  <2>1. ASSUME NEW i \in RingNo
        PROVE  rings'[i].next = IF i < N - 1 \/ i = N - 1 THEN i + 1 ELSE 0
    <3>1. CASE i = N - 1
      BY <1>6, <1>8, <1>9, <3>1
    <3>2. CASE i # N - 1
      BY <1>3, <1>9, <3>2 DEF ListInv
    <3>3. QED
      BY <3>1, <3>2
  <2>2. headPtr = N
    BY <1>3, <1>4 DEF ListInv
  <2>3. \A q \in Producers : ppc'[q] # "publishHead"
    BY <1>11
  <2>4. QED
    BY <1>3, <1>9, <1>12, <2>1, <2>2, <2>3 DEF ListInv
<1>20. \A i, j : Hole(i, j, T, J)' <=> Hole(i, j, T, J)
  BY <1>4, <1>9, <1>11, <1>12 DEF Hole
<1>21. SlotInv(b, H, T, J)'
  <2>1. SUFFICES ASSUME NEW i \in RingNo, NEW x \in 0 .. rings[i].size - 1,
                        rings[i].vals[x] # 0
                 PROVE  \E j \in T[i] .. H[i] - 1 :
                           /\ x = j % rings[i].size /\ ~Hole(i, j, T, J)'
                           /\ IsElement(i, j, rings[i].vals[x], b)'
    BY <1>9, <1>10 DEF SlotInv
  <2>2. PICK j \in T[i] .. H[i] - 1 :
           /\ x = j % rings[i].size /\ ~Hole(i, j, T, J)
           /\ IsElement(i, j, rings[i].vals[x], b)
    BY <1>3, <2>1 DEF SlotInv
  <2>3. rings[i].vals[x] = order'[b[i] + j + 1]
    <3>1. CASE i = N
      <4>1. rings[i].vals[x] = e
        BY <1>4, <2>2, <3>1 DEF IsElement, Publishing
      <4>2. j = 0
        BY <1>6, <2>2, <3>1
      <4>3. QED
        BY <1>6, <1>13, <1>14, <3>1, <4>1, <4>2
    <3>2. CASE i # N
      <4>1. b[i] + j + 1 \in 1 .. Len(order)
        BY <1>1, <1>3, <3>2, PlaceInOrder
      <4>2. QED
        BY <1>13, <2>2, <3>2, <4>1 DEF IsElement
    <3>3. QED
      BY <3>1, <3>2
  <2>4. IsElement(i, j, rings[i].vals[x], b)'
    BY <1>10, <1>12, <2>3 DEF IsElement
  <2>5. QED
    BY <1>20, <2>2, <2>4
<1>22. StoreInv(b, H, T, J)'
  <2>1. \A q \in Producers : ppc'[q] # "store"
    BY <1>11
  <2>2. QED
    BY <2>1 DEF StoreInv
<1>23. OrderInv(b, H, T)'
  <2>1. Len(order') = b[N] + H[N] - 0
    BY <1>6, <1>13, <1>14
  <2>2. QED
    BY <1>3, <1>9, <1>12, <2>1 DEF OrderInv
<1>24. ConsumerInv(H, T)'
  <2>1. rings[tailPtr].next # 0 => rings'[tailPtr].next # 0
    BY <1>6, <1>8, <1>9
  <2>2. QED
    BY <1>3, <1>12, <2>1 DEF ConsumerInv
<1>25. QED
  BY <1>15, <1>16, <1>17, <1>18, <1>19, <1>21, <1>22, <1>23, <1>24, Assemble

-----------------------------------------------------------------------------
(* The theorems.                                                           *)

\* The invariant is inductive: every step of a producer or of the consumer keeps it.
LEMMA StepIInv == ASSUME Served, IInv, [Next]_vars PROVE IInv'
<1>1. ASSUME NEW p \in Producers, PushBegin(p) \/ Producer(p)
      PROVE  IInv'
  <2>1. CASE PushBegin(p)
    BY <2>1, PushBeginStep
  <2>2. ASSUME Producer(p)
        PROVE  IInv'
    <3>1. UNCHANGED setup
      BY <2>2 DEF Producer
    <3>2. QED
      BY <2>2, <3>1, PassGateStep, LoadHeadStep, ReserveStep, StoreStep, GrowStep,
         PublishHeadStep, PublishNextStep, PushDoneStep DEF Producer
  <2>3. QED
    BY <1>1, <2>1, <2>2
<1>2. ASSUME NEW k \in Consumers, Consumer(k)
      PROVE  IInv'
  <2>1. UNCHANGED setup
    BY <1>2 DEF Consumer
  <2>2. QED
    BY <1>2, <2>1, PopBeginStep, LoadNextStep, LookStep, LookEmptyStep, FoundEmptyStep,
       DropStep, TakeStep, LookAgainStep, MoveTailStep DEF Consumer
<1>3. CASE UNCHANGED vars
  <2>1. TypeInv /\ ProducerInv /\ CountInv
    BY DEF IInv
  <2>2. PICK b, H, T, J : GhostInv(b, H, T, J)
    BY DEF IInv
  <2>3. Moving' <=> Moving
    BY <1>3 DEF vars, kvars, Moving
  <2>4. TypeInv'
    BY <1>3, <2>1 DEF vars, kvars, pvars, cvars, TypeInv
  <2>5. ConsumerInv(H, T)'
    BY <1>3, <2>2 DEF vars, kvars, cvars, GhostInv, ConsumerInv
  <2>6. UNCHANGED <<setup, rings, cvars, pvars, popped, dropped>>
    BY <1>3 DEF vars, kvars
  <2>7. QED
    BY <2>1, <2>2, <2>3, <2>4, <2>5, <2>6, ConsumerFrame
<1>4. QED
  BY <1>1, <1>2, <1>3 DEF Next

\* No more is taken than was placed.
LEMMA TakenWasPlaced ==
    ASSUME TypeInv, NEW b, NEW H, NEW T, NEW J, GhostInv(b, H, T, J)
    PROVE  popped <= Len(order)
<1>1. /\ GhostType(b, H, T, J) /\ IndexInv(H, T) /\ ListInv(b, H, T) /\ OrderInv(b, H, T)
      /\ ConsumerInv(H, T)
  BY DEF GhostInv
<1> DEFINE t == tailPtr
<1>2. t \in RingNo /\ N \in Nat /\ (Unpublished => t < N)
  BY <1>1 DEF ListInv, TypeInv
<1>3. b[t] \in Nat /\ T[t] \in Nat /\ H[t] \in Nat /\ T[t] <= H[t] /\ (Moving => T[t] < H[t])
  BY <1>1, <1>2 DEF GhostType, IndexInv, ConsumerInv, Moving
<1>4. popped <= b[t] + H[t]
  BY <1>1, <1>3 DEF OrderInv
<1>5. CASE t = N
  BY <1>1, <1>2, <1>3, <1>4, <1>5 DEF OrderInv
<1>6. CASE t < N
  <2>1. b[t + 1] <= Len(order)
    BY <1>1, <1>2, <1>6, InLine
  <2>2. b[t + 1] = b[t] + H[t]
    BY <1>1, <1>2, <1>6 DEF ListInv
  <2>3. Len(order) \in Nat /\ popped \in Nat
    BY DEF TypeInv
  <2>4. QED
    BY <1>3, <1>4, <2>1, <2>2, <2>3
<1>7. QED
  BY <1>2, <1>5, <1>6

\* The rings, the slots and the answers are sound where the invariant holds.
LEMMA IInvIsSound == ASSUME Served, IInv PROVE ChainSound
<1>1. TypeInv /\ ProducerInv /\ CountInv
  BY DEF IInv
<1>2. PICK b, H, T, J : GhostInv(b, H, T, J)
  BY DEF IInv
<1>3. /\ GhostType(b, H, T, J) /\ IndexInv(H, T) /\ ListInv(b, H, T) /\ SlotInv(b, H, T, J)
      /\ StoreInv(b, H, T, J) /\ OrderInv(b, H, T) /\ ConsumerInv(H, T)
  BY <1>2 DEF GhostInv
<1>4. setup \in Setups /\ N \in Nat /\ N \in RingNo
  BY <1>1 DEF TypeInv
<1>5. TypeOK
  <2>1. ASSUME NEW i \in RingNo
        PROVE  /\ rings[i].size \in 1 .. SizeLimit
               /\ rings[i].head \in 0 .. IndexMod - 1 /\ rings[i].tail \in 0 .. IndexMod - 1
               /\ rings[i].vals \in [0 .. rings[i].size - 1 -> 0 .. MaxPush]
               /\ rings[i].next \in RingNo \cup {Nil}
    <3>1. GoodSize(rings[i].size) /\ rings[i].vals \in [0 .. rings[i].size - 1 -> 0 .. MaxPush]
      BY <1>3 DEF IndexInv
    <3>2. rings[i].size \in 1 .. SizeLimit
      <4>1. rings[i].size \in Nat \ {0} /\ rings[i].size <= SizeLimit /\ SizeLimit \in Nat
        BY <1>4, <3>1, SizeFacts, SetupFacts
      <4>2. QED
        BY <4>1
    <3>3. rings[i].head \in 0 .. M - 1 /\ rings[i].tail \in 0 .. M - 1
      BY <1>1, <1>3, RingFacts
    <3>4. rings[i].next \in RingNo \cup {Nil}
      BY <1>3, <1>4 DEF ListInv
    <3>5. QED
      BY <3>1, <3>2, <3>3, <3>4
  <2>2. headPtr \in RingNo /\ tailPtr \in RingNo /\ dropped \subseteq RingNo
    <3>1. tailPtr \in RingNo /\ dropped = 1 .. tailPtr - 1
      BY <1>3 DEF ListInv
    <3>2. CASE \E p \in Producers : ppc[p] = "publishHead"
      <4>1. tailPtr < N /\ headPtr = N - 1
        BY <1>3, <3>2 DEF ListInv, Unpublished, Publishing
      <4>2. QED
        BY <1>4, <3>1, <4>1
    <3>3. CASE ~\E p \in Producers : ppc[p] = "publishHead"
      BY <1>3, <1>4, <3>1, <3>3 DEF ListInv
    <3>4. QED
      BY <3>2, <3>3
  <2>3. \A p \in Producers :
          /\ ppc[p] \in {"idle", "gate", "head", "reserve", "store", "publishHead",
                         "publishNext", "openGate"}
          /\ val[p] \in 0 .. MaxPush /\ slot[p] \in 0 .. SizeLimit - 1
          /\ pring[p] \in RingNo \cup {Nil} /\ fresh[p] \in RingNo \cup {Nil}
    BY <1>1, <1>4 DEF TypeInv
  <2>4. \A k \in Consumers :
          /\ kpc[k] \in {"idle", "next", "look", "empty", "slot", "move"}
          /\ kring[k] \in RingNo \cup {Nil} /\ knext[k] \in RingNo \cup {Nil}
          /\ ktail[k] \in 0 .. IndexMod - 1
    BY <1>1, <1>4 DEF TypeInv
  <2>5. popped \in 0 .. MaxPush
    <3>1. popped <= Len(order) /\ popped \in Nat /\ Len(order) \in Nat
      BY <1>1, <1>2, TakenWasPlaced DEF TypeInv
    <3>2. Cardinality(Pending) \in Nat
      BY FS_Subset, FS_CardinalityType DEF Served, Pending
    <3>3. begun \in 0 .. MaxPush /\ Len(order) + Cardinality(Pending) = begun
      BY <1>1 DEF CountInv, TypeInv
    <3>4. QED
      BY <3>1, <3>2, <3>3, BoundAssumption
  <2>6. QED
    BY <1>1, <1>4, <2>1, <2>2, <2>3, <2>4, <2>5 DEF TypeOK, TypeInv
<1>6. NeverOverfull
  <2>1. SUFFICES ASSUME NEW i \in RingNo PROVE Held(rings[i]) <= rings[i].size
    BY DEF NeverOverfull
  <2>2. /\ Held(rings[i]) = H[i] - T[i] /\ H[i] <= T[i] + rings[i].size /\ H[i] \in Nat
        /\ T[i] \in Nat /\ rings[i].size \in Nat \ {0}
    BY <1>1, <1>3, RingFacts
  <2>3. QED
    BY <2>2
<1>7. SlotIsFree
  <2>1. SUFFICES ASSUME NEW p \in Producers, ppc[p] = "store", rings[pring[p]].vals[slot[p]] # 0
                 PROVE  FALSE
    BY DEF SlotIsFree
  <2> DEFINE n == rings[N].size
  <2>2. /\ pring[p] = N /\ J[p] \in T[N] .. H[N] - 1 /\ slot[p] = J[p] % n
        /\ T[N] \in Nat /\ H[N] \in Nat /\ H[N] <= T[N] + n /\ n \in Nat \ {0} /\ GoodSize(n)
    <3>1. pring[p] = N
      BY <1>1, <2>1 DEF ProducerInv
    <3>2. J[p] \in T[N] .. H[N] - 1 /\ slot[p] = J[p] % n
      BY <1>3, <2>1 DEF StoreInv
    <3>3. T[N] \in Nat /\ H[N] \in Nat /\ H[N] <= T[N] + n /\ n \in Nat \ {0}
      BY <1>1, <1>3, <1>4, RingFacts
    <3>4. GoodSize(n)
      BY <1>3, <1>4 DEF IndexInv
    <3>5. QED
      BY <3>1, <3>2, <3>3, <3>4
  <2>3. J[p] \in Nat /\ T[N] <= J[p] /\ J[p] < T[N] + n
    BY <2>2
  <2>4. slot[p] \in 0 .. n - 1
    <3>1. (J[p] % n) \in 0 .. n - 1
      BY <1>4, <2>2, <2>3, PlaceFacts
    <3>2. QED
      BY <2>2, <3>1
  <2>5. PICK j \in T[N] .. H[N] - 1 : slot[p] = j % n /\ ~Hole(N, j, T, J)
    BY <1>3, <1>4, <2>1, <2>2, <2>4 DEF SlotInv
  <2>6. j \in Nat /\ T[N] <= j /\ j < T[N] + n
    BY <2>2, <2>5
  <2>7. \A a \in Nat, c \in Nat, d \in Nat :
           a <= c /\ c < a + n /\ a <= d /\ d < a + n /\ c % n = d % n => c = d
    BY <1>4, <2>2, PlaceFacts
  <2>8. j = J[p]
    BY <2>2, <2>3, <2>5, <2>6, <2>7
  <2>9. QED
    BY <2>1, <2>5, <2>8 DEF Hole
<1>8. PermanentlyEmpty
  <2>1. SUFFICES ASSUME NEW i \in dropped PROVE Empty(rings[i])
    BY DEF PermanentlyEmpty
  <2>2. i \in RingNo /\ T[i] = H[i]
    <3>1. tailPtr \in 1 .. N /\ i \in 1 .. tailPtr - 1
      BY <1>3, <2>1 DEF ListInv
    <3>2. i \in RingNo /\ i < tailPtr
      BY <1>4, <3>1
    <3>3. QED
      BY <1>3, <3>2 DEF ListInv
  <2>3. QED
    BY <1>1, <1>3, <2>2, RingFacts
<1>9. NothingIsRight
  BY <1>3 DEF NothingIsRight, ConsumerInv
<1>10. QED
  BY <1>5, <1>6, <1>7, <1>8, <1>9 DEF ChainSound

\* A producer's step other than PublishNext sets no ring's next, and no consumer's does.
LEMMA StepKeepsNext ==
    ASSUME Served, IInv, Next
    PROVE  \A i \in RingNo : rings[i].next # 0 => rings'[i].next = rings[i].next
<1>1. TypeInv /\ ProducerInv /\ CountInv
  BY DEF IInv
<1>2. PICK b, H, T, J : GhostInv(b, H, T, J)
  BY DEF IInv
<1>3. N \in Nat /\ N \in RingNo /\ \A i \in RingNo : rings[i] \in Ring
  BY <1>1 DEF TypeInv
<1>4. ASSUME NEW i \in RingNo, rings[i].next # 0
      PROVE  rings'[i].next = rings[i].next
  <2>1. ASSUME NEW p \in Producers, Reserve(p)
        PROVE  rings'[i].next = rings[i].next
    BY <1>1, <1>3, <2>1 DEF Reserve, TypeInv, Ring
  <2>2. ASSUME NEW p \in Producers, Store(p)
        PROVE  rings'[i].next = rings[i].next
    BY <1>1, <1>3, <2>2 DEF Store, TypeInv, Ring
  <2>3. ASSUME NEW p \in Producers, Grow(p)
        PROVE  rings'[i].next = rings[i].next
    <3>1. rings' = rings \/ \E r : rings' = Append(rings, r)
      BY <2>3 DEF Grow
    <3>2. ASSUME NEW r, rings' = Append(rings, r)
          PROVE  rings'[i] = rings[i]
      BY <1>1, <3>2 DEF TypeInv
    <3>3. QED
      BY <3>1, <3>2
  <2>4. ASSUME NEW p \in Producers, PublishNext(p)
        PROVE  rings'[i].next = rings[i].next
    <3>1. Publishing(p) /\ pring[p] = N - 1
      BY <1>1, <2>4 DEF PublishNext, PMove, ProducerInv, Publishing
    <3>2. i # N - 1
      BY <1>2, <1>4, <3>1 DEF GhostInv, ListInv, Unpublished
    <3>3. QED
      BY <1>1, <1>3, <2>4, <3>1, <3>2 DEF PublishNext, TypeInv, Ring
  <2>5. ASSUME NEW k \in Consumers, Take(k)
        PROVE  rings'[i].next = rings[i].next
    BY <1>1, <1>3, <2>5 DEF Take, TypeInv, Ring
  <2>6. ASSUME NEW k \in Consumers, MoveTail(k)
        PROVE  rings'[i].next = rings[i].next
    BY <1>1, <1>3, <2>6 DEF MoveTail, TailMoved, TypeInv, Ring
  <2>7. ASSUME NEW p \in Producers,
               PushBegin(p) \/ PassGate(p) \/ LoadHead(p) \/ PublishHead(p) \/ PushDone(p)
        PROVE  rings'[i].next = rings[i].next
    BY <2>7 DEF PushBegin, PassGate, LoadHead, PublishHead, PushDone
  <2>8. ASSUME NEW k \in Consumers,
               PopBegin(k) \/ LoadNext(k) \/ Look(k) \/ LookEmpty(k) \/ FoundEmpty(k) \/ Drop(k)
                   \/ LookAgain(k)
        PROVE  rings'[i].next = rings[i].next
    BY <2>8 DEF PopBegin, LoadNext, Look, LookEmpty, FoundEmpty, Drop, LookAgain
  <2>9. QED
    BY <2>1, <2>2, <2>3, <2>4, <2>5, <2>6, <2>7, <2>8 DEF Next, Producer, Consumer
<1>5. QED
  BY <1>4

\* An element placed at the end of the order is one pushed to the queue.
LEMMA PlacedIsPushed ==
    ASSUME NEW s \in Seq(1 .. MaxPush), NEW i \in Nat, i <= Len(s), NEW e \in 1 .. MaxPush
    PROVE  SubSeq(Append(s, e), i + 1, Len(Append(s, e))) = Append(SubSeq(s, i + 1, Len(s)), e)
<1> DEFINE n == Len(s)
           s2 == Append(s, e)
           u == SubSeq(s, i + 1, n)
<1>1. /\ n \in Nat /\ s2 \in Seq(1 .. MaxPush) /\ Len(s2) = n + 1 /\ s2[n + 1] = e
      /\ s2 = s \o <<e>> /\ i + 1 \in 1 .. n + 1 /\ n + 1 \in i + 1 .. n + 1
  BY AppendProperties, AppendIsConcat
<1>2. SubSeq(s2, i + 1, n + 1) = SubSeq(s2, i + 1, n) \o <<e>>
  <2>1. SubSeq(s2, i + 1, n + 1) = SubSeq(s2, i + 1, (n + 1) - 1) \o <<s2[n + 1]>>
    BY <1>1, SubSeqRecursiveSecond
  <2>2. (n + 1) - 1 = n
    BY <1>1
  <2>3. QED
    BY <1>1, <2>1, <2>2
<1>3. SubSeq(s2, i + 1, n) = u
  <2>1. CASE i = n
    <3>1. n < i + 1 /\ i + 1 \in Int /\ n \in Int
      BY <1>1, <2>1
    <3>2. QED
      BY <3>1, SubSeqEmpty
  <2>2. CASE i < n
    <3>1. i + 1 \in 1 .. Len(s) /\ n \in i + 1 .. Len(s) /\ <<e>> \in Seq(1 .. MaxPush)
      BY <1>1, <2>2
    <3>2. QED
      BY <1>1, <3>1, SubSeqOfConcat1
  <2>3. QED
    BY <1>1, <2>1, <2>2
<1>4. u \in Seq(1 .. MaxPush)
  <2>1. \A j \in i + 1 .. n : s[j] \in 1 .. MaxPush
    <3>1. \A j \in i + 1 .. n : j \in 1 .. Len(s)
      BY <1>1
    <3>2. QED
      BY <3>1, ElementOfSeq
  <2>2. i + 1 \in Int /\ n \in Int
    BY <1>1
  <2>3. QED
    BY <2>1, <2>2, SubSeqProperties
<1>5. u \o <<e>> = Append(u, e)
  BY <1>4, AppendIsConcat
<1>6. QED
  BY <1>1, <1>2, <1>3, <1>5

\* The element taken is the first of the queue.
LEMMA TakenIsPopped ==
    ASSUME NEW s \in Seq(1 .. MaxPush), NEW i \in Nat, i + 1 <= Len(s)
    PROVE  LET q == SubSeq(s, i + 1, Len(s))
           IN  q # <<>> /\ Head(q) = s[i + 1] /\ Tail(q) = SubSeq(s, (i + 1) + 1, Len(s))
<1> DEFINE q == SubSeq(s, i + 1, Len(s))
<1>1. Len(s) \in Nat /\ i + 1 \in 1 .. Len(s) /\ i + 1 \in 1 .. Len(s) + 1
  OBVIOUS
<1>2. Len(q) = Len(s) - (i + 1) + 1
  <2>1. \A j \in i + 1 .. Len(s) : s[j] \in 1 .. MaxPush
    <3>1. \A j \in i + 1 .. Len(s) : j \in 1 .. Len(s)
      OBVIOUS
    <3>2. QED
      BY <3>1, ElementOfSeq
  <2>2. i + 1 \in Int /\ Len(s) \in Int /\ i + 1 <= Len(s)
    BY <1>1
  <2>3. Len(q) = IF i + 1 <= Len(s) THEN Len(s) - (i + 1) + 1 ELSE 0
    BY <2>1, <2>2, SubSeqProperties
  <2>4. QED
    BY <2>2, <2>3
<1>3. q # <<>>
  <2> HIDE DEF q
  <2>1. Len(q) # 0
    <3>1. PICK n \in Nat : n = Len(s)
      BY <1>1
    <3>2. Len(q) = n - (i + 1) + 1 /\ i + 1 <= n
      BY <1>2, <3>1
    <3>3. n - (i + 1) + 1 # 0
      BY <3>2
    <3>4. QED
      BY <3>2, <3>3
  <2>2. Len(<<>>) = 0
    BY EmptySeq
  <2>3. QED
    BY <2>1, <2>2
<1>4. Head(q) = s[i + 1] /\ Tail(q) = SubSeq(s, (i + 1) + 1, Len(s))
  BY <1>1, HeadTailOfSubSeq
<1>5. QED
  BY <1>3, <1>4

\* Every step is a push, a pop or nothing to the queue.
LEMMA StepIsFifo ==
    ASSUME Served, IInv, [Next]_vars
    PROVE  [Abstract!Next]_(Abstract!vars)
<1>1. TypeInv /\ ProducerInv /\ CountInv
  BY DEF IInv
<1>2. PICK b, H, T, J : GhostInv(b, H, T, J)
  BY DEF IInv
<1>3. popped <= Len(order) /\ popped \in Nat /\ order \in Seq(1 .. MaxPush)
  BY <1>1, <1>2, TakenWasPlaced DEF TypeInv
<1>4. ASSUME NEW p \in Producers, ppc[p] # "idle", order' = Append(order, val[p]),
             UNCHANGED <<popped, last>>
      PROVE  Abstract!Next
  <2>1. val[p] \in 1 .. MaxPush
    BY <1>1, <1>4 DEF ProducerInv
  <2>2. SubSeq(order', popped' + 1, Len(order'))
           = Append(SubSeq(order, popped + 1, Len(order)), val[p])
    BY <1>3, <1>4, <2>1, PlacedIsPushed
  <2>3. QED
    BY <1>4, <2>1, <2>2 DEF Abstract!Next, Abstract!Push
<1>5. ASSUME NEW k \in Consumers, Take(k)
      PROVE  Abstract!Next
  <2>1. /\ popped + 1 <= Len(order) /\ kring[k] = tailPtr
        /\ rings[tailPtr].vals[Place(k)] = order[popped + 1]
    BY <1>1, <1>2, <1>5, TakeFacts
  <2>2. last' = order[popped + 1] /\ popped' = popped + 1 /\ order' = order
    BY <1>5, <2>1 DEF Take, pvars
  <2>3. LET q == SubSeq(order, popped + 1, Len(order))
        IN  q # <<>> /\ Head(q) = last' /\ Tail(q) = SubSeq(order', popped' + 1, Len(order'))
    BY <1>3, <2>1, <2>2, TakenIsPopped
  <2>4. QED
    BY <2>3 DEF Abstract!Next, Abstract!Pop
<1>6. ASSUME UNCHANGED <<order, popped, last>>
      PROVE  UNCHANGED Abstract!vars
  BY <1>6 DEF Abstract!vars
<1>7. ASSUME NEW p \in Producers, PushBegin(p) \/ Producer(p)
      PROVE  [Abstract!Next]_(Abstract!vars)
  <2>1. CASE Reserve(p)
    <3>1. ppc[p] # "idle" /\ order' = Append(order, val[p]) /\ UNCHANGED <<popped, last>>
      BY <2>1 DEF Reserve, PMove, kvars
    <3>2. QED
      BY <1>4, <3>1
  <2>2. CASE PublishNext(p)
    <3>1. ppc[p] # "idle" /\ order' = Append(order, val[p]) /\ UNCHANGED <<popped, last>>
      BY <2>2 DEF PublishNext, PMove, kvars
    <3>2. QED
      BY <1>4, <3>1
  <2>3. CASE ~Reserve(p) /\ ~PublishNext(p)
    <3>1. UNCHANGED <<order, popped, last>>
      BY <1>7, <2>3 DEF Producer, PushBegin, PassGate, LoadHead, Store, Grow, PublishHead,
         PushDone, kvars
    <3>2. QED
      BY <1>6, <3>1
  <2>4. QED
    BY <2>1, <2>2, <2>3
<1>8. ASSUME NEW k \in Consumers, Consumer(k)
      PROVE  [Abstract!Next]_(Abstract!vars)
  <2>1. CASE Take(k)
    BY <1>5, <2>1
  <2>2. CASE ~Take(k)
    <3>1. UNCHANGED <<order, popped, last>>
      BY <1>8, <2>2 DEF Consumer, PopBegin, LoadNext, Look, LookEmpty, FoundEmpty, Drop,
         LookAgain, MoveTail, pvars
    <3>2. QED
      BY <1>6, <3>1
  <2>3. QED
    BY <2>1, <2>2
<1>9. CASE UNCHANGED vars
  BY <1>6, <1>9 DEF vars, pvars, kvars
<1>10. QED
  BY <1>7, <1>8, <1>9 DEF Next

\* The invariant holds in every state: a chain with one consumer never mixes up its rings.
THEOREM Invariant == ASSUME Served PROVE Spec => []IInv
<1>1. Init => IInv
  BY InitIInv
<1>2. IInv /\ [Next]_vars => IInv'
  BY StepIInv
<1>3. QED
  BY <1>1, <1>2, PTL DEF Spec

\* bufDequeue and bufChain (queue.go) are sound: no ring is overfull, no element is
\* overwritten, no ring with elements is dropped, no answer of nothing is wrong.
THEOREM Sound == ASSUME Served PROVE Spec => []ChainSound
<1>1. IInv => ChainSound
  BY IInvIsSound
<1>2. QED
  BY Invariant, <1>1, PTL

\* A ring that has a successor keeps it: next "only transitions from nil to non-nil".
THEOREM NextIsSetOnce == ASSUME Served PROVE Spec => NextSetOnce
<1>1. IInv /\ [Next]_vars
         => [\A i \in RingNo : rings[i].next # Nil => rings'[i].next = rings[i].next]_vars
  BY StepKeepsNext
<1>2. QED
  BY Invariant, <1>1, PTL DEF Spec, NextSetOnce

\* The chain is a queue: what it does is to push elements and pop them in their order.
THEOREM StepsAreQueue ==
    ASSUME Served
    PROVE  Spec => Abstract!Init /\ [][Abstract!Next]_(Abstract!vars)
<1>1. Init => Abstract!Init
  BY DEF Init, Abstract!Init, Abstract!Nothing
<1>2. IInv /\ [Next]_vars => [Abstract!Next]_(Abstract!vars)
  BY StepIsFifo
<1>3. QED
  BY Invariant, <1>1, <1>2, PTL DEF Spec

=============================================================================
