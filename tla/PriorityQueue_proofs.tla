------------------------ MODULE PriorityQueue_proofs ------------------------
(***************************************************************************)
(* For every MaxStarving, Modulus and ChainBound: the types of the write   *)
(* queue, and the bounds on how long a packet of each chain is passed over *)
(* by the others.                                                          *)
(***************************************************************************)
EXTENDS PriorityQueue, FiniteSetTheorems, WellFoundedInduction, TLAPS

\* The fields of the write queue keep their types; starving stays a uint8
\* although TryPop increments it without a test.
THEOREM TypeCorrect == Spec => []TypeOK
<1> USE MaxStarvingAssumption, ModulusAssumption DEF Class, MidMayGo, Bumped, Relieved
<1>1. Init => TypeOK
  <2> SUFFICES ASSUME Init PROVE TypeOK
    OBVIOUS
  <2>1. starving \in 0 .. Modulus - 1 /\ attempt \in 1 .. 3
    BY DEF Init
  <2>2. /\ chain \in [Class -> Nat] /\ overtaken \in [Class -> Nat]
        /\ stop \in BOOLEAN
    BY Zenon DEF Init
  <2>3. QED
    BY <2>1, <2>2, Zenon DEF Init, TypeOK
<1>2. TypeOK /\ [Next]_vars => TypeOK'
  <2> SUFFICES ASSUME TypeOK, [Next]_vars PROVE TypeOK'
    OBVIOUS
  <2> USE DEF TypeOK
  <2>1. ASSUME NEW f \in Flag, Push(f) PROVE TypeOK'
    BY <2>1 DEF Push, Broadcast, ChainOf
  <2>2. CASE PushPing
    BY <2>1, <2>2 DEF PushPing, Flag
  <2>3. CASE Stop
    BY <2>3 DEF Stop, Broadcast
  <2>4. CASE StartPop
    BY <2>4 DEF StartPop, FirstLook
  <2>5. CASE Leave
    BY <2>5 DEF Leave, Skip
  <2>6. ASSUME NEW c \in Class, Take(c), starving' \in 0 .. Modulus - 1
        PROVE  TypeOK'
    BY <2>6 DEF Take
  <2>7. ASSUME NEW p \in {"mid", "low", "mid2", "empty", "asleep"}, Skip(p)
        PROVE  TypeOK'
    BY <2>7 DEF Skip
  <2>8. (starving + 1) % Modulus \in 0 .. Modulus - 1 /\ starving \div 2 \in 0 .. Modulus - 1
    OBVIOUS
  <2>9. CASE LookHigh
    BY <2>6, <2>7, <2>9 DEF LookHigh
  <2>10. CASE LookMid
    BY <2>6, <2>7, <2>8, <2>10 DEF LookMid
  <2>11. CASE LookLow
    BY <2>6, <2>7, <2>8, <2>11 DEF LookLow
  <2>12. CASE LookMidAgain
    BY <2>6, <2>7, <2>8, <2>12 DEF LookMidAgain
  <2>13. CASE FoundEmpty
    BY <2>13 DEF FoundEmpty
  <2>14. CASE Enlist
    BY <2>7, <2>14 DEF Enlist
  <2>15. CASE UNCHANGED vars
    BY <2>15 DEF vars
  <2>16. QED
    BY <2>1, <2>2, <2>3, <2>4, <2>9, <2>10, <2>11, <2>12, <2>13, <2>14, <2>15, <2>5 DEF Next, Pop
<1>3. QED
  BY <1>1, <1>2, PTL DEF Spec

-----------------------------------------------------------------------------

\* Nobody has been overtaken in an empty chain.
EmptyNotOvertaken == \A c \in Class : chain[c] = 0 => overtaken[c] = 0

\* Past the look at highChain no ping has been overtaken since: had one been
\* waiting, the look would have found it.
PingInv ==
    /\ overtaken["high"] <= 1
    /\ pc \notin {"idle", "high", "gone"} => overtaken["high"] = 0

\* Every packet of mid that overtook one of low was counted by starving, all
\* but the one of the second look, which happens only to a chain found empty.
LowInv ==
    /\ overtaken["low"] <= starving + 1
    /\ overtaken["low"] <= MaxStarving + 1
    /\ pc = "mid2" => overtaken["low"] = 0

IInv == EmptyNotOvertaken /\ PingInv /\ LowInv

\* IInv is inductive: the pushes and the stop leave the history alone, and each
\* look at a chain keeps the bound because of what the looks before it saw.
LEMMA IInvInductive == Spec => []IInv
<1> USE MaxStarvingAssumption, ModulusAssumption DEF Class, MidMayGo, Bumped, Relieved
<1>1. Init => IInv
  BY DEF Init, IInv, EmptyNotOvertaken, PingInv, LowInv
<1>2. TypeOK /\ IInv /\ [Next]_vars => IInv'
  <2> SUFFICES ASSUME TypeOK, IInv, [Next]_vars PROVE IInv'
    OBVIOUS
  <2> USE DEF TypeOK, IInv, EmptyNotOvertaken, PingInv, LowInv
  <2>1. ASSUME NEW f \in Flag, Push(f) PROVE IInv'
    <3>1. EmptyNotOvertaken'
      BY <2>1 DEF Push, ChainOf
    <3>2. PingInv' /\ LowInv'
      BY <2>1 DEF Push, Broadcast, ChainOf
    <3>3. QED
      BY <3>1, <3>2
  <2>2. CASE PushPing
    BY <2>1, <2>2 DEF PushPing, Flag
  <2>3. CASE Stop
    BY <2>3 DEF Stop, Broadcast
  <2>4. CASE StartPop
    BY <2>4 DEF StartPop, FirstLook
  <2>5. CASE Leave
    BY <2>5 DEF Leave, Skip
  <2>6. ASSUME NEW c \in Class, Take(c) PROVE EmptyNotOvertaken'
    BY <2>6 DEF Take
  <2>7. CASE LookHigh
    <3>1. CASE Take("high") /\ UNCHANGED starving
      <4>1. overtaken'["high"] = 0 /\ overtaken'["low"] \in {0, overtaken["low"]} /\ pc' = "idle"
        BY <3>1 DEF Take, Rival
      <4>2. QED
        BY <2>6, <3>1, <4>1
    <3>2. CASE chain["high"] = 0 /\ Skip("mid")
      BY <3>2 DEF Skip
    <3>3. QED
      BY <2>7, <3>1, <3>2 DEF LookHigh
  <2>8. CASE LookMid
    <3>1. CASE starving < MaxStarving /\ Take("mid") /\ starving' = (starving + 1) % Modulus
      <4>1. starving' = starving + 1
        BY <3>1
      <4>2. /\ overtaken'["high"] <= 1
            /\ overtaken'["low"] <= overtaken["low"] + 1
            /\ pc' = "idle"
        BY <2>8, <3>1 DEF Take, Rival, LookMid
      <4>3. QED
        BY <2>6, <3>1, <4>1, <4>2 DEF Take
    <3>2. CASE Skip("low")
      BY <2>8, <3>2 DEF Skip, LookMid
    <3>3. QED
      BY <2>8, <3>1, <3>2 DEF LookMid
  <2>9. CASE LookLow
    <3>1. CASE Take("low") /\ starving' = starving \div 2
      <4>1. overtaken'["high"] <= 1 /\ overtaken'["low"] = 0 /\ pc' = "idle"
        BY <2>9, <3>1 DEF Take, Rival, LookLow
      <4>2. QED
        BY <2>6, <3>1, <4>1
    <3>2. CASE chain["low"] = 0 /\ Skip(IF starving > 0 THEN "mid2" ELSE "empty")
      BY <2>9, <3>2 DEF Skip, LookLow
    <3>3. QED
      BY <2>9, <3>1, <3>2 DEF LookLow
  <2>10. CASE LookMidAgain
    <3>1. CASE Take("mid") /\ starving' = (starving + 1) % Modulus
      <4>1. /\ overtaken'["high"] <= 1
            /\ overtaken'["low"] <= 1
            /\ starving' >= 0
            /\ pc' = "idle"
        BY <2>10, <3>1 DEF Take, Rival, LookMidAgain
      <4>2. QED
        BY <2>6, <3>1, <4>1 DEF Take
    <3>2. CASE chain["mid"] = 0 /\ Skip("empty")
      BY <2>10, <3>2 DEF Skip, LookMidAgain
    <3>3. QED
      BY <2>10, <3>1, <3>2 DEF LookMidAgain
  <2>11. CASE FoundEmpty
    BY <2>11 DEF FoundEmpty
  <2>12. CASE Enlist
    BY <2>12 DEF Enlist, Skip
  <2>13. CASE UNCHANGED vars
    BY <2>13 DEF vars
  <2>14. QED
    BY <2>1, <2>2, <2>3, <2>4, <2>7, <2>8, <2>9, <2>10, <2>11, <2>12, <2>13, <2>5 DEF Next, Pop
<1>3. QED
  BY <1>1, <1>2, TypeCorrect, PTL DEF Spec

\* A packet of the low chain is overtaken by at most MaxStarving + 1 of the
\* middle chain (maxStarving, "not pop too much, lowestChain will wait too long").
THEOREM LowestBounded == Spec => []LowestBypass
<1>1. IInv => LowestBypass
  BY DEF IInv, LowInv, LowestBypass
<1>2. QED
  BY <1>1, IInvInductive, PTL

\* A ping is overtaken by at most one packet ("the ping package need highest
\* priority, prevent ping calculation error", push).
THEOREM PingFirst == Spec => []PingBypass
<1>1. IInv => PingBypass
  BY DEF IInv, PingInv, PingBypass
<1>2. QED
  BY <1>1, IInvInductive, PTL

-----------------------------------------------------------------------------
(* Powers of two, and how often starving is halved.                        *)

\* The subsets of 1..n+1 are those of 1..n, without n+1 and with it.
LEMMA TwoExp == \A n \in Nat : 2^n \in Nat /\ 2^(n + 1) = 2 * 2^n
<1> SUFFICES ASSUME NEW n \in Nat PROVE 2^n \in Nat /\ 2^(n + 1) = 2 * 2^n
  OBVIOUS
<1> DEFINE A == SUBSET (1 .. n)
           B == {X \cup {n + 1} : X \in A}
           f == [X \in A |-> X \cup {n + 1}]
<1>1. /\ IsFiniteSet(1 .. n) /\ Cardinality(1 .. n) = n
      /\ IsFiniteSet(1 .. n + 1) /\ Cardinality(1 .. n + 1) = n + 1
  BY FS_Interval
<1>2. /\ IsFiniteSet(A) /\ Cardinality(A) = 2^n /\ Cardinality(A) \in Nat
      /\ Cardinality(SUBSET (1 .. n + 1)) = 2^(n + 1)
  BY <1>1, FS_SUBSET, FS_CardinalityType
<1>3. f \in Bijection(A, B)
  <2>1. \A X \in A : X = (X \cup {n + 1}) \ {n + 1}
    OBVIOUS
  <2>2. \A X, Y \in A : f[X] = f[Y] => X = Y
    BY <2>1
  <2>3. f \in [A -> B] /\ \A Z \in B : \E X \in A : f[X] = Z
    OBVIOUS
  <2> HIDE DEF A, B, f
  <2>4. QED
    BY <2>2, <2>3 DEF Bijection, Injection, Surjection, IsInjective
<1>4. IsFiniteSet(B) /\ Cardinality(B) = Cardinality(A)
  BY <1>2, <1>3, FS_Bijection DEF ExistsBijection
<1>5. A \cap B = {}
  OBVIOUS
<1>6. SUBSET (1 .. n + 1) = A \cup B
  <2>1. 1 .. n + 1 = (1 .. n) \cup {n + 1}
    OBVIOUS
  <2>2. ASSUME NEW X \in SUBSET (1 .. n + 1), n + 1 \in X PROVE X \in B
    <3>1. X \ {n + 1} \in A /\ X = (X \ {n + 1}) \cup {n + 1}
      BY <2>1, <2>2
    <3>2. QED
      BY <3>1
  <2>3. ASSUME NEW X \in SUBSET (1 .. n + 1), n + 1 \notin X PROVE X \in A
    BY <2>1, <2>3
  <2>4. A \subseteq SUBSET (1 .. n + 1) /\ B \subseteq SUBSET (1 .. n + 1)
    BY <2>1
  <2> HIDE DEF A, B
  <2>5. QED
    BY <2>2, <2>3, <2>4
<1> HIDE DEF A, B
<1>7. Cardinality(A \cup B) = Cardinality(A) + Cardinality(B)
  <2>1. Cardinality(A \cup B) = Cardinality(A) + Cardinality(B) - Cardinality(A \cap B)
    BY <1>2, <1>4, FS_Union
  <2>2. Cardinality(A \cap B) = 0
    BY <1>5, FS_EmptySet
  <2>3. QED
    BY <1>2, <1>4, <2>1, <2>2
<1>8. 2^(n + 1) = Cardinality(A) + Cardinality(A)
  BY <1>2, <1>4, <1>6, <1>7, Zenon
<1>9. QED
  BY <1>2, <1>8

LEMMA TwoExpGrows == \A n \in Nat : 2^n > n
<1> DEFINE T == {n \in Nat : ~(2^n > n)}
<1> SUFFICES ASSUME T # {} PROVE FALSE
  OBVIOUS
<1>1. PICK n \in T : \A m \in T : ~(<<m, n>> \in OpToRel(<, Nat))
  BY NatLessThanWellFounded, WFMin
<1>2. \A m \in T : ~(m < n)
  BY <1>1 DEF OpToRel
<1>3. n # 0
  <2>1. 2^0 > 0
    OBVIOUS
  <2>2. 0 \notin T
    BY <2>1
  <2>3. QED
    BY <2>2
<1>4. n - 1 \in Nat /\ 2^(n - 1) > n - 1
  BY <1>2, <1>3
<1>5. 2^(n - 1) \in Nat /\ 2^(n - 1 + 1) = 2 * 2^(n - 1) /\ n - 1 + 1 = n
  BY <1>4, TwoExp
<1>6. QED
  BY <1>4, <1>5

\* How far starving can be after so many halvings.
Most(k) == (Modulus - 1) \div (2^k)

LEMMA MostFacts ==
    /\ Most(0) = Modulus - 1 /\ Most(Modulus) = 0
    /\ \A k \in Nat : Most(k) \in Nat /\ Most(k) \div 2 = Most(k + 1)
<1> USE ModulusAssumption, MaxStarvingAssumption
<1>1. Modulus - 1 \in Nat
  OBVIOUS
<1>2. Most(0) = Modulus - 1
  <2>1. 2^0 = 1
    OBVIOUS
  <2>2. QED
    BY <1>1, <2>1 DEF Most
<1>3. \A a, b \in Nat : b > 0 => a \div b \in Nat /\ (a \div b) \div 2 = a \div (2 * b)
  OBVIOUS
<1>4. \A a, b \in Nat : b > a => a \div b = 0
  OBVIOUS
<1>5. Most(Modulus) = 0
  <2>1. 2^Modulus \in Nat /\ 2^Modulus > Modulus - 1
    BY TwoExp, TwoExpGrows
  <2>2. QED
    BY <1>1, <1>4, <2>1 DEF Most
<1>6. ASSUME NEW k \in Nat PROVE Most(k) \in Nat /\ Most(k) \div 2 = Most(k + 1)
  <2>1. 2^k \in Nat /\ 2^k > 0 /\ 2^(k + 1) = 2 * 2^k
    BY TwoExp, TwoExpGrows
  <2>2. QED
    BY <1>1, <1>3, <2>1 DEF Most
<1>7. QED
  BY <1>2, <1>5, <1>6

\* There is a number of halvings after which starving is below MaxStarving.
LEMMA HalvingsFacts == Halvings \in Nat /\ Halvings >= 1 /\ Most(Halvings) < MaxStarving
<1> USE ModulusAssumption, MaxStarvingAssumption
<1> DEFINE T == {k \in 0 .. Modulus : Most(k) < MaxStarving}
<1>1. T \subseteq Nat /\ T # {}
  BY MostFacts
<1>2. PICK k \in T : \A j \in T : ~(<<j, k>> \in OpToRel(<, Nat))
  BY <1>1, NatLessThanWellFounded, WFMin
<1>3. \A j \in 0 .. k - 1 : Most(j) >= MaxStarving
  <2> SUFFICES ASSUME NEW j \in 0 .. k - 1 PROVE Most(j) >= MaxStarving
    OBVIOUS
  <2>1. j \in Nat /\ j \in 0 .. Modulus /\ j < k /\ k \in Nat
    BY <1>1
  <2>2. j \notin T
    BY <1>2, <2>1 DEF OpToRel
  <2>3. QED
    BY <2>1, <2>2, MostFacts
<1>4. /\ Halvings \in 0 .. Modulus /\ Most(Halvings) < MaxStarving
  BY <1>2, <1>3 DEF Halvings, Most
<1>5. Halvings # 0
  BY <1>4, MostFacts
<1>6. QED
  BY <1>4, <1>5

-----------------------------------------------------------------------------
(* How long a packet of the middle chain is passed over.                   *)

\* Each packet of low that overtook one of mid halved starving, and from the second
\* on LookMid had found it too large to take mid first.
MidInv ==
    /\ starving <= Most(overtaken["mid"])
    /\ overtaken["mid"] <= Halvings
    /\ pc = "low" /\ overtaken["mid"] > 0 => starving >= MaxStarving

LEMMA MidInvInductive == Spec => []MidInv
<1> USE MaxStarvingAssumption, ModulusAssumption DEF Class
<1>1. Init => MidInv
  BY HalvingsFacts, MostFacts DEF Init, MidInv
<1>2. TypeOK /\ TypeOK' /\ IInv /\ MidInv /\ [Next]_vars => MidInv'
  <2> SUFFICES ASSUME TypeOK, TypeOK', IInv, MidInv, [Next]_vars PROVE MidInv'
    OBVIOUS
  <2>a. /\ starving \in Nat /\ starving' \in Nat /\ starving' <= Modulus - 1
        /\ overtaken["mid"] \in Nat /\ chain["mid"] \in Nat
    BY DEF TypeOK
  <2>b. chain["mid"] = 0 => overtaken["mid"] = 0
    BY DEF IInv, EmptyNotOvertaken
  <2>1. ASSUME UNCHANGED <<starving, overtaken>>, pc' # "low" \/ pc = "low" PROVE MidInv'
    BY <2>1 DEF MidInv
  <2>2. ASSUME overtaken'["mid"] = 0 PROVE MidInv'
    BY <2>2, <2>a, HalvingsFacts, MostFacts DEF MidInv
  <2>3. ASSUME NEW f \in Flag, Push(f) PROVE MidInv'
    BY <2>1, <2>3 DEF Push, Broadcast
  <2>4. CASE PushPing
    BY <2>3, <2>4 DEF PushPing, Flag
  <2>5. CASE Stop
    BY <2>1, <2>5 DEF Stop, Broadcast
  <2>6. CASE StartPop \/ Leave \/ FoundEmpty \/ Enlist
    BY <2>1, <2>6 DEF StartPop, FirstLook, Leave, FoundEmpty, Enlist, Skip
  <2>7. CASE LookHigh
    <3>1. CASE Take("high") /\ UNCHANGED starving
      <4>1. overtaken'["mid"] \in {0, overtaken["mid"]} /\ pc' = "idle"
        BY <3>1 DEF Take, Rival
      <4>2. QED
        BY <2>2, <3>1, <4>1 DEF MidInv
    <3>2. CASE Skip("mid")
      BY <2>1, <3>2 DEF Skip
    <3>3. QED
      BY <2>7, <3>1, <3>2 DEF LookHigh
  <2>8. CASE LookMid
    <3>1. CASE Take("mid")
      BY <2>2, <3>1 DEF Take
    \* A packet that waits is passed over only when starving is too large.
    <3>2. CASE ~(MidMayGo /\ chain["mid"] > 0) /\ Skip("low")
      BY <2>a, <2>b, <3>2 DEF Skip, MidMayGo, MidInv
    <3>3. QED
      BY <2>8, <3>1, <3>2 DEF LookMid
  <2>9. CASE LookLow
    <3>1. CASE Take("low") /\ starving' = Relieved
      <4>1. CASE chain["mid"] = 0
        BY <2>2, <3>1, <4>1 DEF Take
      <4>2. CASE chain["mid"] # 0
        <5> DEFINE k == overtaken["mid"]
        <5>1. overtaken'["mid"] = k + 1 /\ pc' = "idle" /\ starving' = starving \div 2
          BY <3>1, <4>2 DEF Take, Rival, Relieved
        <5>2. starving' <= Most(k + 1)
          <6>1. starving <= Most(k) /\ Most(k) \in Nat /\ Most(k) \div 2 = Most(k + 1)
            BY <2>a, MostFacts DEF MidInv
          <6>2. \A a, b \in Nat : a <= b => a \div 2 <= b \div 2
            OBVIOUS
          <6>3. QED
            BY <2>a, <5>1, <6>1, <6>2
        <5>3. k # Halvings
          <6>1. CASE k = 0
            BY <6>1, HalvingsFacts
          <6>2. CASE k > 0
            BY <2>9, <2>a, <6>2, HalvingsFacts, MostFacts DEF LookLow, MidInv
          <6>3. QED
            BY <2>a, <6>1, <6>2
        <5>4. k + 1 <= Halvings
          <6>1. k \in Nat /\ k <= Halvings /\ Halvings \in Nat
            BY <2>a, HalvingsFacts DEF MidInv
          <6>2. QED
            BY <5>3, <6>1
        <5>5. QED
          BY <5>1, <5>2, <5>4 DEF MidInv
      <4>3. QED
        BY <4>1, <4>2
    <3>2. CASE Skip(IF starving > 0 THEN "mid2" ELSE "empty")
      BY <2>1, <3>2 DEF Skip
    <3>3. QED
      BY <2>9, <3>1, <3>2 DEF LookLow
  <2>10. CASE LookMidAgain
    <3>1. CASE Take("mid")
      BY <2>2, <3>1 DEF Take
    <3>2. CASE Skip("empty")
      BY <2>1, <3>2 DEF Skip
    <3>3. QED
      BY <2>10, <3>1, <3>2 DEF LookMidAgain
  <2>11. CASE UNCHANGED vars
    BY <2>1, <2>11 DEF vars
  <2>12. QED
    BY <2>3, <2>4, <2>5, <2>6, <2>7, <2>8, <2>9, <2>10, <2>11 DEF Next, Pop
<1>3. QED
  BY <1>1, <1>2, TypeCorrect, IInvInductive, PTL DEF Spec

\* A packet of the middle chain is overtaken by no more packets of the low chain than
\* it takes halvings to bring the largest starving below maxStarving.
THEOREM MiddleBounded == Spec => []MiddleBypass
<1>1. MidInv => MiddleBypass
  BY DEF MidInv, MiddleBypass
<1>2. QED
  BY <1>1, MidInvInductive, PTL

=============================================================================
