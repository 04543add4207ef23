--------------------------- MODULE MuxOpen_proofs ----------------------------
(***************************************************************************)
(* For any number of connections and messages: what an end of a mux has    *)
(* opened, received and dropped is sound at any moment, and when the mux   *)
(* is quiet both ends agree on every connection.                           *)
(*                                                                         *)
(* The argument follows a connection through the places it can be in while *)
(* it is opened: its NewConn on the link, newConnQueue, the goroutine that *)
(* pops it, its NewConnOk on the link, readSession that says ok.  It is in *)
(* the first three at most once, so that Accept opens it once and nothing  *)
(* puts it back into connMap after a close.  In the low chain messages and *)
(* the close keep their order: nothing of a connection follows its close.  *)
(***************************************************************************)
EXTENDS MuxOpen, FiniteSetTheorems, WellFoundedInduction, TLAPS

\* How often a sequence holds an element.
Count(s, p) == Cardinality({i \in 1 .. Len(s) : s[i] = p})

Msg(c) == [kind |-> "NewMsg", id |-> c]
CloseOf(c) == [kind |-> "ConnClose", id |-> c]

\* What travels to an end in a chain.
KindsTo(e, ch) ==
    IF ch = "low" THEN {"NewMsg", "ConnClose"}
    ELSE IF e = "acceptor" THEN {"NewConn"} ELSE {"NewConnOk"}
PacketsTo(e, ch) == [kind : KindsTo(e, ch), id : Conns]

Opening == {"waiting", "failed"}
Established == {"open", "closed"}

LinkType ==
    /\ link \in [Ends -> [Chains -> Seq(Packet)]]
    /\ \A e \in Ends, ch \in Chains : link[e][ch] \in Seq(PacketsTo(e, ch))

RestType ==
    /\ connMap \in [Ends -> SUBSET Conns]
    /\ app \in [Ends -> [Conns -> {"none", "open", "closed"} \cup Opening]]
    /\ \A c \in Conns : app["acceptor"][c] \notin Opening
    /\ closingFlag \in [Ends -> [Conns -> BOOLEAN]]
    /\ ok \in Conns \cup {NoConn}
    /\ newConnQueue \in Seq(Conns)
    /\ apc \in {"pop", "set", "hand", "ok"}
    /\ accepted \in Conns \cup {NoConn} /\ (apc # "pop" => accepted \in Conns)
    /\ sent \in [Ends -> [Conns -> 0 .. MaxMsgs]]
    /\ received \in [Ends -> [Conns -> Nat]]
    /\ dropped \in [Ends -> [Conns -> Nat]]

TypeInv == LinkType /\ RestType

\* Ids on their way from NewConn to Accept: in NewConn packets, in newConnQueue,
\* and at the goroutine that has popped one and not yet handed it over.
ToAcceptor == link["acceptor"]["middle"]
ToOpener == link["opener"]["middle"]
AtHand == apc \in {"set", "hand"}

\* An id is on that way once, and meanwhile the acceptor has no connection of it.
OnceInv ==
    /\ \A i \in 1 .. Len(ToAcceptor), j \in 1 .. Len(ToAcceptor) :
          i # j => ToAcceptor[i].id # ToAcceptor[j].id
    /\ \A i \in 1 .. Len(newConnQueue), j \in 1 .. Len(newConnQueue) :
          i # j => newConnQueue[i] # newConnQueue[j]
    /\ \A i \in 1 .. Len(ToAcceptor), j \in 1 .. Len(newConnQueue) :
          ToAcceptor[i].id # newConnQueue[j]
    /\ AtHand => /\ \A i \in 1 .. Len(ToAcceptor) : ToAcceptor[i].id # accepted
                 /\ \A j \in 1 .. Len(newConnQueue) : newConnQueue[j] # accepted

\* c has come from the opener and not been handed to Accept.
Pending(c) == app["opener"][c] \in Opening /\ app["acceptor"][c] = "none"

PendingInv ==
    /\ \A i \in 1 .. Len(ToAcceptor) : Pending(ToAcceptor[i].id)
    /\ \A j \in 1 .. Len(newConnQueue) : Pending(newConnQueue[j])
    /\ AtHand => Pending(accepted)

\* Only what Accept has returned is acknowledged and opened.
OpenInv ==
    /\ apc = "ok" => app["acceptor"][accepted] \in Established
    /\ \A i \in 1 .. Len(ToOpener) : app["acceptor"][ToOpener[i].id] \in Established
    /\ ok # NoConn => app["acceptor"][ok] \in Established
    /\ \A c \in Conns :
          /\ app["opener"][c] \in Established => app["acceptor"][c] \in Established
          /\ app["opener"][c] = "none" => app["acceptor"][c] = "none"

\* A NewConn that waits is somewhere on the way there or back.
WaitInv ==
    \A c \in Conns : app["opener"][c] = "waiting" =>
        \/ \E i \in 1 .. Len(ToAcceptor) : ToAcceptor[i].id = c
        \/ \E j \in 1 .. Len(newConnQueue) : newConnQueue[j] = c
        \/ apc # "pop" /\ accepted = c
        \/ \E i \in 1 .. Len(ToOpener) : ToOpener[i].id = c
        \/ ok = c

\* The maps hold the connections that are opened or open, and the one that is
\* about to be handed to Accept.
MapInv ==
    \A c \in Conns :
        /\ c \in connMap["opener"] <=> app["opener"][c] \in Opening \cup {"open"}
        /\ c \in connMap["acceptor"] <=>
              app["acceptor"][c] = "open" \/ (apc = "hand" /\ accepted = c)

\* The low chain to e: who sent has or had the connection, and nothing of a
\* connection comes behind its close.
Low(e) == link[e]["low"]

LowInv ==
    \A e \in Ends : \A i \in 1 .. Len(Low(e)) :
        /\ app[Other(e)][Low(e)[i].id] \in Established
        /\ Low(e)[i].kind = "ConnClose" =>
              /\ app[Other(e)][Low(e)[i].id] = "closed"
              /\ \A j \in i + 1 .. Len(Low(e)) : Low(e)[j].id # Low(e)[i].id

\* No message is lost on the link or counted twice.
CountInv ==
    \A e \in Ends, c \in Conns :
        Count(Low(e), Msg(c)) + received[e][c] + dropped[e][c] = sent[Other(e)][c]

\* The end of a stream comes from a close, and a close is on its way, known, or
\* met by a close of the other end.
CloseInv ==
    \A e \in Ends, c \in Conns :
        /\ closingFlag[e][c] => /\ app[Other(e)][c] = "closed"
                                /\ received[e][c] = sent[Other(e)][c]
        /\ app[Other(e)][c] = "closed" =>
              \/ closingFlag[e][c] \/ app[e][c] = "closed"
              \/ \E i \in 1 .. Len(Low(e)) : Low(e)[i] = CloseOf(c)

IInv ==
    /\ TypeInv /\ OnceInv /\ PendingInv /\ OpenInv /\ WaitInv /\ MapInv
    /\ LowInv /\ CountInv /\ CloseInv /\ DroppedOnlyAfterClose

-----------------------------------------------------------------------------
(* Sequences, counting and the least free id.                              *)

LEMMA AppendFacts ==
    ASSUME NEW S, NEW s \in Seq(S), NEW x \in S
    PROVE  /\ Append(s, x) \in Seq(S)
           /\ Len(s) \in Nat /\ Len(Append(s, x)) = Len(s) + 1
           /\ Append(s, x)[Len(s) + 1] = x
           /\ \A i \in 1 .. Len(s) : Append(s, x)[i] = s[i]
OBVIOUS

LEMMA TailFacts ==
    ASSUME NEW S, NEW s \in Seq(S), s # <<>>
    PROVE  /\ Head(s) = s[1] /\ Head(s) \in S
           /\ Tail(s) \in Seq(S)
           /\ Len(s) \in Nat /\ Len(s) >= 1 /\ Len(Tail(s)) = Len(s) - 1
           /\ \A i \in 1 .. Len(s) - 1 : Tail(s)[i] = s[i + 1]
OBVIOUS

LEMMA CountType ==
    ASSUME NEW S, NEW s \in Seq(S), NEW p
    PROVE  /\ Count(s, p) \in Nat
           /\ IsFiniteSet({i \in 1 .. Len(s) : s[i] = p})
<1>1. IsFiniteSet(1 .. Len(s))
  BY FS_Interval
<1>2. {i \in 1 .. Len(s) : s[i] = p} \in SUBSET (1 .. Len(s))
  OBVIOUS
<1>3. QED
  BY <1>1, <1>2, FS_Subset, FS_CardinalityType DEF Count

\* An element that is stored counts once more.
LEMMA CountAppend ==
    ASSUME NEW S, NEW s \in Seq(S), NEW p, NEW x \in S
    PROVE  Count(Append(s, x), p) = Count(s, p) + (IF x = p THEN 1 ELSE 0)
<1> DEFINE A == {i \in 1 .. Len(s) : s[i] = p}
           B == {i \in 1 .. Len(Append(s, x)) : Append(s, x)[i] = p}
<1>1. IsFiniteSet(A) /\ Count(s, p) = Cardinality(A) /\ Cardinality(A) \in Nat
  BY CountType, FS_CardinalityType DEF Count
<1>2. Count(Append(s, x), p) = Cardinality(B)
  BY DEF Count
<1>3. B = IF x = p THEN A \cup {Len(s) + 1} ELSE A
  OBVIOUS
<1>4. Len(s) + 1 \notin A
  OBVIOUS
<1> HIDE DEF A, B
<1>5. CASE x = p
  <2>1. B = A \cup {Len(s) + 1}
    BY <1>3, <1>5
  <2>2. Cardinality(A \cup {Len(s) + 1}) = Cardinality(A) + 1
    BY <1>1, <1>4, FS_AddElement
  <2>3. QED
    BY <1>1, <1>2, <1>5, <2>1, <2>2
<1>6. CASE x # p
  BY <1>1, <1>2, <1>3, <1>6
<1>7. QED
  BY <1>5, <1>6

\* An element that is taken counts once less: the rest moves down by one place.
LEMMA CountTail ==
    ASSUME NEW S, NEW s \in Seq(S), NEW p, s # <<>>
    PROVE  Count(Tail(s), p) = Count(s, p) - (IF Head(s) = p THEN 1 ELSE 0)
<1> DEFINE A == {i \in 1 .. Len(s) : s[i] = p}
           B == {i \in 1 .. Len(Tail(s)) : Tail(s)[i] = p}
           f == [i \in B |-> i + 1]
<1>1. IsFiniteSet(A) /\ Count(s, p) = Cardinality(A) /\ Cardinality(A) \in Nat
  BY CountType, FS_CardinalityType DEF Count
<1>2. Count(Tail(s), p) = Cardinality(B) /\ IsFiniteSet(B)
  <2>1. Tail(s) \in Seq(S)
    OBVIOUS
  <2>2. QED
    BY <2>1, CountType DEF Count
<1>3. f \in Bijection(B, A \ {1})
  <2>1. /\ Len(Tail(s)) = Len(s) - 1
        /\ \A i \in 1 .. Len(Tail(s)) : Tail(s)[i] = s[i + 1]
    OBVIOUS
  <2>2. \A i \in B : i + 1 \in A \ {1}
    BY <2>1
  <2>3. \A j \in A \ {1} : j - 1 \in B /\ f[j - 1] = j
    BY <2>1
  <2>4. f \in [B -> A \ {1}]
    BY <2>2
  <2>5. \A i, j \in B : f[i] = f[j] => i = j
    OBVIOUS
  <2>6. \A j \in A \ {1} : \E i \in B : f[i] = j
    BY <2>3
  <2> HIDE DEF A, B, f
  <2>7. QED
    BY <2>4, <2>5, <2>6 DEF Bijection, Injection, Surjection, IsInjective
<1>4. Cardinality(A \ {1}) = Cardinality(B)
  BY <1>2, <1>3, FS_Bijection DEF ExistsBijection
<1>5. 1 \in A <=> Head(s) = p
  OBVIOUS
<1> HIDE DEF A, B
<1>6. Cardinality(A \ {1}) = IF 1 \in A THEN Cardinality(A) - 1 ELSE Cardinality(A)
  BY <1>1, FS_RemoveElement
<1>7. QED
  BY <1>1, <1>2, <1>4, <1>5, <1>6

\* What none of the elements is does not count.
LEMMA CountNone ==
    ASSUME NEW s, NEW p, \A i \in 1 .. Len(s) : s[i] # p
    PROVE  Count(s, p) = 0
<1>1. {i \in 1 .. Len(s) : s[i] = p} = {}
  OBVIOUS
<1>2. QED
  BY <1>1, FS_EmptySet DEF Count

\* getId finds an id that was never handed out.
LEMMA NextIdIsFree ==
    ASSUME \E c \in Conns : app["opener"][c] = "none"
    PROVE  NextId \in Conns /\ app["opener"][NextId] = "none"
<1> DEFINE T == {c \in Conns : app["opener"][c] = "none"}
<1>1. T \subseteq Nat /\ T # {}
  BY BoundAssumption DEF Conns
<1>2. PICK x \in T : \A y \in T : ~(<<y, x>> \in OpToRel(<, Nat))
  BY <1>1, NatLessThanWellFounded, WFMin
<1>3. \A y \in T : ~(y < x)
  BY <1>1, <1>2 DEF OpToRel
<1>4. \A d \in 1 .. x - 1 : app["opener"][d] # "none"
  BY <1>1, <1>3, BoundAssumption DEF Conns
<1>5. QED
  BY <1>2, <1>4 DEF NextId

-----------------------------------------------------------------------------
(* What each step does, place by place.                                    *)

Places == <<ToAcceptor, ToOpener, Low("opener"), Low("acceptor")>>

AppSet(e, c, v) ==
    \A d \in Ends, k \in Conns : app'[d][k] = IF d = e /\ k = c THEN v ELSE app[d][k]

NewConnStep(c) ==
    /\ app["opener"][c] = "none" /\ AppSet("opener", c, "waiting")
    /\ ToAcceptor' = Append(ToAcceptor, [kind |-> "NewConn", id |-> c])
    /\ connMap'["opener"] = connMap["opener"] \cup {c}
    /\ connMap'["acceptor"] = connMap["acceptor"]
    /\ UNCHANGED <<ToOpener, Low("opener"), Low("acceptor"), closingFlag, ok, avars, hvars>>

OpenedStep(c) ==
    /\ ok = c /\ ok' = NoConn
    /\ app["opener"][c] = "waiting" /\ AppSet("opener", c, "open")
    /\ UNCHANGED <<Places, connMap, closingFlag, avars, hvars>>

GiveUpStep(c) ==
    /\ app["opener"][c] = "waiting" /\ AppSet("opener", c, "failed")
    /\ UNCHANGED <<Places, connMap, closingFlag, ok, avars, hvars>>

PopStep ==
    /\ apc = "pop" /\ apc' = "set" /\ newConnQueue # <<>>
    /\ accepted' = Head(newConnQueue) /\ newConnQueue' = Tail(newConnQueue)
    /\ UNCHANGED <<Places, connMap, app, closingFlag, ok, hvars>>

SetStep ==
    /\ apc = "set" /\ apc' = "hand"
    /\ connMap'["acceptor"] = connMap["acceptor"] \cup {accepted}
    /\ connMap'["opener"] = connMap["opener"]
    /\ UNCHANGED <<Places, app, closingFlag, ok, newConnQueue, accepted, hvars>>

AcceptStep ==
    /\ apc = "hand" /\ apc' = "ok"
    /\ AppSet("acceptor", accepted, "open")
    /\ UNCHANGED <<Places, connMap, closingFlag, ok, newConnQueue, accepted, hvars>>

SendOkStep ==
    /\ apc = "ok" /\ apc' = "pop"
    /\ ToOpener' = Append(ToOpener, [kind |-> "NewConnOk", id |-> accepted])
    /\ UNCHANGED <<ToAcceptor, Low("opener"), Low("acceptor"), connMap, app, closingFlag, ok,
                   newConnQueue, accepted, hvars>>

TakeNewConn ==
    /\ ToAcceptor # <<>> /\ ToAcceptor' = Tail(ToAcceptor)
    /\ newConnQueue' = Append(newConnQueue, Head(ToAcceptor).id)
    /\ UNCHANGED <<ToOpener, Low("opener"), Low("acceptor"), connMap, app, closingFlag, ok,
                   apc, accepted, hvars>>

TakeOk ==
    /\ ToOpener # <<>> /\ ToOpener' = Tail(ToOpener) /\ ok = NoConn
    /\ IF Head(ToOpener).id \in connMap["opener"] THEN ok' = Head(ToOpener).id ELSE ok' = ok
    /\ UNCHANGED <<ToAcceptor, Low("opener"), Low("acceptor"), connMap, app, closingFlag,
                   avars, hvars>>

\* The head of a low chain: its kind and id.
TakeLow(e, c) ==
    /\ Low(e) # <<>> /\ Low(e)' = Tail(Low(e)) /\ Low(Other(e))' = Low(Other(e))
    /\ Head(Low(e)) \in {Msg(c), CloseOf(c)}
    /\ UNCHANGED <<ToAcceptor, ToOpener, connMap, app, ok, avars, sent>>

TakeMsg(e, c) ==
    /\ TakeLow(e, c) /\ Head(Low(e)) = Msg(c) /\ c \in connMap[e]
    /\ \A d \in Ends, k \in Conns :
          received'[d][k] = received[d][k] + IF d = e /\ k = c THEN 1 ELSE 0
    /\ UNCHANGED <<closingFlag, dropped>>

TakeClose(e, c) ==
    /\ TakeLow(e, c) /\ Head(Low(e)) = CloseOf(c) /\ c \in connMap[e]
    /\ \A d \in Ends, k \in Conns :
          closingFlag'[d][k] = IF d = e /\ k = c THEN TRUE ELSE closingFlag[d][k]
    /\ UNCHANGED <<received, dropped>>

TakeUnknown(e, c) ==
    /\ TakeLow(e, c) /\ c \notin connMap[e]
    /\ \A d \in Ends, k \in Conns :
          dropped'[d][k] =
            dropped[d][k] + IF d = e /\ k = c /\ Head(Low(e)) = Msg(c) THEN 1 ELSE 0
    /\ UNCHANGED <<closingFlag, received>>

SendStep(e, c) ==
    /\ app[e][c] = "open" /\ ~closingFlag[e][c]
    /\ \A d \in Ends, k \in Conns :
          sent'[d][k] = sent[d][k] + IF d = e /\ k = c THEN 1 ELSE 0
    /\ Low(Other(e))' = Append(Low(Other(e)), Msg(c)) /\ Low(e)' = Low(e)
    /\ UNCHANGED <<ToAcceptor, ToOpener, connMap, app, closingFlag, ok, avars, received, dropped>>

CloseStep(e, c) ==
    /\ app[e][c] = "open" /\ AppSet(e, c, "closed")
    /\ connMap'[e] = connMap[e] \ {c} /\ connMap'[Other(e)] = connMap[Other(e)]
    /\ Low(Other(e))' = Append(Low(Other(e)), CloseOf(c)) /\ Low(e)' = Low(e)
    /\ UNCHANGED <<ToAcceptor, ToOpener, closingFlag, ok, avars, hvars>>

Step ==
    \/ \E c \in Conns : NewConnStep(c) \/ OpenedStep(c) \/ GiveUpStep(c)
    \/ PopStep \/ SetStep \/ AcceptStep \/ SendOkStep \/ TakeNewConn \/ TakeOk
    \/ \E e \in Ends, c \in Conns :
          \/ TakeMsg(e, c) \/ TakeClose(e, c) \/ TakeUnknown(e, c)
          \/ SendStep(e, c) \/ CloseStep(e, c)

LEMMA EndFacts ==
    /\ \A e \in Ends : Other(e) \in Ends /\ Other(e) # e /\ Other(Other(e)) = e
    /\ Other("opener") = "acceptor" /\ Other("acceptor") = "opener"
    /\ Ends = {"opener", "acceptor"} /\ Chains = {"middle", "low"}
BY DEF Ends, Other, Chains

\* A packet that is sent arrives behind the others of its chain, and nowhere else.
LEMMA SendingFacts ==
    ASSUME LinkType, NEW e \in Ends, NEW ch \in Chains, NEW p \in PacketsTo(e, ch),
           link' = [link EXCEPT ![e][ch] = Append(@, p)]
    PROVE  /\ LinkType'
           /\ link'[e][ch] = Append(link[e][ch], p)
           /\ \A d \in Ends, h \in Chains : d # e \/ h # ch => link'[d][h] = link[d][h]
<1>1. p \in Packet
  BY DEF Packet, PacketsTo, KindsTo
<1>2. link[e][ch] \in Seq(Packet) /\ link[e][ch] \in Seq(PacketsTo(e, ch))
  BY DEF LinkType
<1>3. Append(link[e][ch], p) \in Seq(Packet) /\ Append(link[e][ch], p) \in Seq(PacketsTo(e, ch))
  BY <1>1, <1>2, AppendFacts
<1>4. /\ link' \in [Ends -> [Chains -> Seq(Packet)]]
      /\ link'[e][ch] = Append(link[e][ch], p)
      /\ \A d \in Ends, h \in Chains : d # e \/ h # ch => link'[d][h] = link[d][h]
  BY <1>3 DEF LinkType
<1>5. \A d \in Ends, h \in Chains : link'[d][h] \in Seq(PacketsTo(d, h))
  <2> SUFFICES ASSUME NEW d \in Ends, NEW h \in Chains
               PROVE  link'[d][h] \in Seq(PacketsTo(d, h))
    OBVIOUS
  <2>1. CASE d = e /\ h = ch
    BY <1>3, <1>4, <2>1
  <2>2. CASE d # e \/ h # ch
    BY <1>4, <2>2 DEF LinkType
  <2>3. QED
    BY <2>1, <2>2
<1>6. LinkType'
  BY <1>4, <1>5 DEF LinkType, PacketsTo, KindsTo
<1>7. QED
  BY <1>4, <1>6

\* A packet that is received leaves its chain, and no other changes.
LEMMA TakingFacts ==
    ASSUME LinkType, NEW e \in Ends, NEW ch \in Chains, link[e][ch] # <<>>,
           link' = [link EXCEPT ![e][ch] = Tail(@)]
    PROVE  /\ LinkType'
           /\ link'[e][ch] = Tail(link[e][ch])
           /\ \A d \in Ends, h \in Chains : d # e \/ h # ch => link'[d][h] = link[d][h]
<1>1. link[e][ch] \in Seq(Packet) /\ link[e][ch] \in Seq(PacketsTo(e, ch))
  BY DEF LinkType
<1>2. Tail(link[e][ch]) \in Seq(Packet) /\ Tail(link[e][ch]) \in Seq(PacketsTo(e, ch))
  BY <1>1, TailFacts
<1>3. /\ link' \in [Ends -> [Chains -> Seq(Packet)]]
      /\ link'[e][ch] = Tail(link[e][ch])
      /\ \A d \in Ends, h \in Chains : d # e \/ h # ch => link'[d][h] = link[d][h]
  BY <1>2 DEF LinkType
<1>4. \A d \in Ends, h \in Chains : link'[d][h] \in Seq(PacketsTo(d, h))
  <2> SUFFICES ASSUME NEW d \in Ends, NEW h \in Chains
               PROVE  link'[d][h] \in Seq(PacketsTo(d, h))
    OBVIOUS
  <2>1. CASE d = e /\ h = ch
    BY <1>2, <1>3, <2>1
  <2>2. CASE d # e \/ h # ch
    BY <1>3, <2>2 DEF LinkType
  <2>3. QED
    BY <2>1, <2>2
<1>5. LinkType'
  BY <1>3, <1>4 DEF LinkType, PacketsTo, KindsTo
<1>6. QED
  BY <1>3, <1>5

\* A counter of one end and one connection goes up.
LEMMA Bumped ==
    ASSUME NEW f \in [Ends -> [Conns -> Nat]], NEW e \in Ends, NEW c \in Conns, NEW g,
           g = [f EXCEPT ![e][c] = @ + 1]
    PROVE  \A d \in Ends, k \in Conns : g[d][k] = f[d][k] + IF d = e /\ k = c THEN 1 ELSE 0
<1> SUFFICES ASSUME NEW d \in Ends, NEW k \in Conns
             PROVE  g[d][k] = f[d][k] + IF d = e /\ k = c THEN 1 ELSE 0
  OBVIOUS
<1>1. f[d][k] \in Nat
  OBVIOUS
<1>2. CASE d = e /\ k = c
  BY <1>1, <1>2
<1>3. CASE ~(d = e /\ k = c)
  <2>1. g[d][k] = f[d][k]
    BY <1>3
  <2>2. QED
    BY <1>1, <1>3, <2>1
<1>4. QED
  BY <1>2, <1>3

\* NewConn and NewConnOk go in the middle chains.
LEMMA MiddleSendings ==
    ASSUME LinkType, NEW c \in Conns
    PROVE  /\ link' = Sending("opener", "NewConn", c) =>
                 /\ LinkType'
                 /\ ToAcceptor' = Append(ToAcceptor, [kind |-> "NewConn", id |-> c])
                 /\ UNCHANGED <<ToOpener, Low("opener"), Low("acceptor")>>
           /\ link' = Sending("acceptor", "NewConnOk", c) =>
                 /\ LinkType'
                 /\ ToOpener' = Append(ToOpener, [kind |-> "NewConnOk", id |-> c])
                 /\ UNCHANGED <<ToAcceptor, Low("opener"), Low("acceptor")>>
<1> DEFINE new == [kind |-> "NewConn", id |-> c]
           done == [kind |-> "NewConnOk", id |-> c]
<1>1. /\ new \in PacketsTo("acceptor", "middle") /\ done \in PacketsTo("opener", "middle")
      /\ "opener" \in Ends /\ "acceptor" \in Ends /\ "middle" \in Chains /\ "low" \in Chains
  BY DEF PacketsTo, KindsTo, Ends, Chains
<1>2. /\ Sending("opener", "NewConn", c) = [link EXCEPT !["acceptor"]["middle"] = Append(@, new)]
      /\ Sending("acceptor", "NewConnOk", c) = [link EXCEPT !["opener"]["middle"] = Append(@, done)]
  BY EndFacts DEF Sending, ChainOf
<1> HIDE DEF new, done
<1>3. ASSUME link' = Sending("opener", "NewConn", c)
      PROVE  /\ LinkType' /\ ToAcceptor' = Append(ToAcceptor, new)
             /\ UNCHANGED <<ToOpener, Low("opener"), Low("acceptor")>>
  <2>1. /\ LinkType'
        /\ link'["acceptor"]["middle"] = Append(link["acceptor"]["middle"], new)
        /\ \A d \in Ends, h \in Chains :
              d # "acceptor" \/ h # "middle" => link'[d][h] = link[d][h]
    BY <1>1, <1>2, <1>3, SendingFacts
  <2>2. QED
    BY <1>1, <2>1 DEF ToAcceptor, ToOpener, Low
<1>4. ASSUME link' = Sending("acceptor", "NewConnOk", c)
      PROVE  /\ LinkType' /\ ToOpener' = Append(ToOpener, done)
             /\ UNCHANGED <<ToAcceptor, Low("opener"), Low("acceptor")>>
  <2>1. /\ LinkType'
        /\ link'["opener"]["middle"] = Append(link["opener"]["middle"], done)
        /\ \A d \in Ends, h \in Chains :
              d # "opener" \/ h # "middle" => link'[d][h] = link[d][h]
    BY <1>1, <1>2, <1>4, SendingFacts
  <2>2. QED
    BY <1>1, <2>1 DEF ToAcceptor, ToOpener, Low
<1>5. QED
  BY <1>3, <1>4 DEF new, done

\* Messages and closes go in the low chain of the other end.
LEMMA LowSendings ==
    ASSUME LinkType, NEW e \in Ends, NEW c \in Conns
    PROVE  /\ link' = Sending(e, "NewMsg", c) =>
                 /\ LinkType'
                 /\ Low(Other(e))' = Append(Low(Other(e)), Msg(c)) /\ Low(e)' = Low(e)
                 /\ UNCHANGED <<ToAcceptor, ToOpener>>
           /\ link' = Sending(e, "ConnClose", c) =>
                 /\ LinkType'
                 /\ Low(Other(e))' = Append(Low(Other(e)), CloseOf(c)) /\ Low(e)' = Low(e)
                 /\ UNCHANGED <<ToAcceptor, ToOpener>>
<1>1. /\ Msg(c) \in PacketsTo(Other(e), "low") /\ CloseOf(c) \in PacketsTo(Other(e), "low")
      /\ "opener" \in Ends /\ "acceptor" \in Ends /\ "middle" \in Chains /\ "low" \in Chains
  BY DEF PacketsTo, KindsTo, Ends, Chains, Msg, CloseOf
<1>2. /\ Sending(e, "NewMsg", c) = [link EXCEPT ![Other(e)]["low"] = Append(@, Msg(c))]
      /\ Sending(e, "ConnClose", c) = [link EXCEPT ![Other(e)]["low"] = Append(@, CloseOf(c))]
  BY DEF Sending, ChainOf, Msg, CloseOf
<1>3. ASSUME NEW p \in PacketsTo(Other(e), "low"),
             link' = [link EXCEPT ![Other(e)]["low"] = Append(@, p)]
      PROVE  /\ LinkType'
             /\ Low(Other(e))' = Append(Low(Other(e)), p) /\ Low(e)' = Low(e)
             /\ UNCHANGED <<ToAcceptor, ToOpener>>
  <2>1. /\ LinkType'
        /\ link'[Other(e)]["low"] = Append(link[Other(e)]["low"], p)
        /\ \A d \in Ends, h \in Chains :
              d # Other(e) \/ h # "low" => link'[d][h] = link[d][h]
    <3>1. Other(e) \in Ends
      BY EndFacts
    <3>2. QED
      BY <1>1, <1>3, <3>1, SendingFacts
  <2>2. QED
    BY <1>1, <2>1, EndFacts DEF ToAcceptor, ToOpener, Low
<1>4. QED
  BY <1>1, <1>2, <1>3

\* What is received on a chain is what travels in it.
LEMMA HeadFacts ==
    ASSUME LinkType, NEW e \in Ends, NEW ch \in Chains, link[e][ch] # <<>>
    PROVE  /\ Head(link[e][ch]).id \in Conns
           /\ Head(link[e][ch]).kind \in KindsTo(e, ch)
           /\ Head(link[e][ch])
                = [kind |-> Head(link[e][ch]).kind, id |-> Head(link[e][ch]).id]
<1>1. link[e][ch] \in Seq(PacketsTo(e, ch))
  BY DEF LinkType
<1>2. Head(link[e][ch]) \in PacketsTo(e, ch)
  BY <1>1, TailFacts
<1>3. QED
  BY <1>2 DEF PacketsTo

LEMMA ReadSteps ==
    ASSUME TypeInv, NEW e \in Ends, ReadSession(e)
    PROVE  Step /\ TypeInv'
<1> USE DEF avars, hvars
<1>1. PICK ch \in Chains :
        /\ Receive(e, ch)
        /\ LET p == Head(link[e][ch])
           IN  \/ ReceiveNewConn(e, p) \/ ReceiveUnknown(e, p) \/ ReceiveOk(e, p)
               \/ ReceiveMsg(e, p) \/ ReceiveClose(e, p)
  BY DEF ReadSession
<1> DEFINE p == Head(link[e][ch])
<1>2. /\ link[e][ch] # <<>> /\ Ready(e)
      /\ link' = [link EXCEPT ![e][ch] = Tail(@)]
  BY <1>1 DEF Receive
<1>3. /\ LinkType' /\ link'[e][ch] = Tail(link[e][ch])
      /\ \A d \in Ends, h \in Chains : d # e \/ h # ch => link'[d][h] = link[d][h]
  BY <1>2, TakingFacts DEF TypeInv
<1>4. p.id \in Conns /\ p.kind \in KindsTo(e, ch) /\ p = [kind |-> p.kind, id |-> p.id]
  BY <1>2, HeadFacts DEF TypeInv
<1> DEFINE c == p.id
<1>5. RestType
  BY DEF TypeInv
<1>6. CASE ch = "middle" /\ e = "acceptor"
  <2>1. p.kind = "NewConn" /\ p = Head(ToAcceptor)
    BY <1>4, <1>6 DEF KindsTo, ToAcceptor
  <2>2. ReceiveNewConn(e, p)
    BY <1>1, <2>1 DEF ReceiveUnknown, ReceiveOk, ReceiveMsg, ReceiveClose
  <2>3. TakeNewConn
    BY <1>2, <1>3, <1>6, <2>1, <2>2, EndFacts
       DEF TakeNewConn, ReceiveNewConn, ToAcceptor, ToOpener, Low
  <2>4. Append(newConnQueue, c) \in Seq(Conns)
    BY <1>4, <1>5, AppendFacts DEF RestType
  <2>5. RestType'
    BY <1>5, <2>2, <2>4 DEF ReceiveNewConn, RestType
  <2>6. QED
    BY <1>3, <2>3, <2>5 DEF Step, TypeInv
<1>7. CASE ch = "middle" /\ e = "opener"
  <2>1. p.kind = "NewConnOk" /\ p = Head(ToOpener) /\ ok = NoConn
    BY <1>2, <1>4, <1>7 DEF KindsTo, ToOpener, Ready
  <2>2. ReceiveUnknown(e, p) \/ ReceiveOk(e, p)
    BY <1>1, <2>1 DEF ReceiveNewConn, ReceiveMsg, ReceiveClose
  <2>3. ToOpener # <<>> /\ ToOpener' = Tail(ToOpener)
        /\ UNCHANGED <<ToAcceptor, Low("opener"), Low("acceptor")>>
    BY <1>2, <1>3, <1>7, EndFacts DEF ToAcceptor, ToOpener, Low
  <2>4. dropped' = dropped
    <3>1. CASE ReceiveOk(e, p)
      BY <3>1 DEF ReceiveOk
    <3>2. CASE ReceiveUnknown(e, p)
      <4>1. dropped' = [dropped EXCEPT ![e][c] = @ + 0]
        BY <2>1, <3>2 DEF ReceiveUnknown
      <4>2. dropped[e][c] + 0 = dropped[e][c] /\ dropped \in [Ends -> [Conns -> Nat]]
        BY <1>4, <1>5 DEF RestType
      <4>3. QED
        BY <4>1, <4>2
    <3>3. QED
      BY <2>2, <3>1, <3>2
  <2>5. TakeOk
    BY <1>7, <2>1, <2>2, <2>3, <2>4 DEF TakeOk, ReceiveUnknown, ReceiveOk
  <2>6. RestType'
    BY <1>4, <1>5, <2>2, <2>4 DEF ReceiveUnknown, ReceiveOk, RestType
  <2>7. QED
    BY <1>3, <2>5, <2>6 DEF Step, TypeInv
<1>8. CASE ch = "low"
  <2>1. p \in {Msg(c), CloseOf(c)} /\ p.kind \in {"NewMsg", "ConnClose"} /\ p = Head(Low(e))
    BY <1>4, <1>8 DEF KindsTo, Msg, CloseOf, Low
  <2>2. /\ Low(e) # <<>> /\ Low(e)' = Tail(Low(e)) /\ Low(Other(e))' = Low(Other(e))
        /\ UNCHANGED <<ToAcceptor, ToOpener>>
    BY <1>2, <1>3, <1>8, EndFacts DEF ToAcceptor, ToOpener, Low
  <2>3. Msg(c) # CloseOf(c) /\ Msg(c).kind = "NewMsg" /\ CloseOf(c).kind = "ConnClose"
    BY DEF Msg, CloseOf
  <2>4. CASE ReceiveMsg(e, p)
    <3>1. TakeLow(e, c) /\ Head(Low(e)) = Msg(c)
      BY <2>1, <2>2, <2>3, <2>4 DEF ReceiveMsg, TakeLow
    <3>2. \A d \in Ends, k \in Conns :
             received'[d][k] = received[d][k] + IF d = e /\ k = c THEN 1 ELSE 0
      <4>1. received' = [received EXCEPT ![e][c] = @ + 1]
        BY <2>4 DEF ReceiveMsg
      <4>2. c \in Conns /\ received \in [Ends -> [Conns -> Nat]]
        BY <1>4, <1>5 DEF RestType
      <4>3. QED
        BY <4>1, <4>2, Bumped
    <3>3. TakeMsg(e, c)
      BY <2>4, <3>1, <3>2 DEF ReceiveMsg, TakeMsg
    <3>4. RestType'
      BY <1>4, <1>5, <2>4 DEF ReceiveMsg, RestType
    <3>5. QED
      BY <1>3, <1>4, <3>3, <3>4 DEF Step, TypeInv
  <2>5. CASE ReceiveClose(e, p)
    <3>1. TakeLow(e, c) /\ Head(Low(e)) = CloseOf(c)
      BY <2>1, <2>2, <2>3, <2>5 DEF ReceiveClose, TakeLow
    <3>2. \A d \in Ends, k \in Conns :
             closingFlag'[d][k] = IF d = e /\ k = c THEN TRUE ELSE closingFlag[d][k]
      BY <1>4, <1>5, <2>5 DEF ReceiveClose, RestType
    <3>3. TakeClose(e, c)
      BY <2>5, <3>1, <3>2 DEF ReceiveClose, TakeClose
    <3>4. RestType'
      BY <1>4, <1>5, <2>5 DEF ReceiveClose, RestType
    <3>5. QED
      BY <1>3, <1>4, <3>3, <3>4 DEF Step, TypeInv
  <2>6. CASE ReceiveUnknown(e, p)
    <3>1. TakeLow(e, c)
      BY <2>1, <2>2, <2>6 DEF ReceiveUnknown, TakeLow
    <3>2. p.kind = "NewMsg" <=> Head(Low(e)) = Msg(c)
      BY <2>1, <2>3
    <3>3. \A d \in Ends, k \in Conns :
             dropped'[d][k] =
               dropped[d][k] + IF d = e /\ k = c /\ Head(Low(e)) = Msg(c) THEN 1 ELSE 0
      <4>1. CASE p.kind = "NewMsg"
        <5>1. dropped' = [dropped EXCEPT ![e][c] = @ + 1]
          BY <2>6, <4>1 DEF ReceiveUnknown
        <5>2. QED
          BY <1>4, <1>5, <3>2, <4>1, <5>1 DEF RestType
      <4>2. CASE p.kind # "NewMsg"
        <5>1. dropped' = [dropped EXCEPT ![e][c] = @ + 0]
          BY <2>6, <4>2 DEF ReceiveUnknown
        <5>2. QED
          BY SMTT(20), <1>4, <1>5, <3>2, <4>2, <5>1 DEF RestType
      <4>3. QED
        BY <4>1, <4>2
    <3>4. TakeUnknown(e, c)
      BY <2>6, <3>1, <3>3 DEF ReceiveUnknown, TakeUnknown
    <3>5. dropped' \in [Ends -> [Conns -> Nat]]
      <4>1. \E n \in {0, 1} : dropped' = [dropped EXCEPT ![e][c] = @ + n]
        BY <2>6 DEF ReceiveUnknown
      <4>2. QED
        BY <1>4, <1>5, <4>1 DEF RestType
    <3>6. RestType'
      BY <1>5, <2>6, <3>5 DEF ReceiveUnknown, RestType
    <3>7. QED
      BY <1>3, <1>4, <3>4, <3>6 DEF Step, TypeInv
  <2>7. QED
    BY <1>1, <2>1, <2>4, <2>5, <2>6 DEF ReceiveNewConn, ReceiveOk
<1>9. QED
  BY <1>6, <1>7, <1>8, EndFacts

LEMMA NextSteps == TypeInv /\ Next => Step /\ TypeInv'
<1> SUFFICES ASSUME TypeInv, Next PROVE Step /\ TypeInv'
  OBVIOUS
<1> USE DEF avars, hvars
<1>a. LinkType /\ RestType
  BY DEF TypeInv
<1>b. ASSUME UNCHANGED link PROVE LinkType' /\ UNCHANGED Places
  BY <1>a, <1>b DEF LinkType, Places, ToAcceptor, ToOpener, Low
<1>c. ASSUME NEW e \in Ends, NEW c \in Conns, NEW v, app' = [app EXCEPT ![e][c] = v]
      PROVE  AppSet(e, c, v)
  BY <1>a, <1>c DEF RestType, AppSet
<1>1. CASE NewConn
  <2> DEFINE c == NextId
  <2>1. c \in Conns /\ app["opener"][c] = "none"
    BY <1>1, NextIdIsFree DEF NewConn
  <2>2. /\ app' = [app EXCEPT !["opener"][c] = "waiting"]
        /\ connMap' = [connMap EXCEPT !["opener"] = connMap["opener"] \cup {c}]
        /\ link' = Sending("opener", "NewConn", c)
        /\ UNCHANGED <<closingFlag, ok, avars, hvars>>
    BY <1>1 DEF NewConn, Register
  <2> HIDE DEF c
  <2>3. /\ LinkType'
        /\ ToAcceptor' = Append(ToAcceptor, [kind |-> "NewConn", id |-> c])
        /\ UNCHANGED <<ToOpener, Low("opener"), Low("acceptor")>>
    BY <1>a, <2>1, <2>2, MiddleSendings, EndFacts
  <2>4. NewConnStep(c)
    BY <1>a, <1>c, <2>1, <2>2, <2>3, EndFacts DEF NewConnStep, RestType
  <2>5. RestType'
    BY <1>a, <2>1, <2>2, EndFacts DEF RestType, Opening
  <2>6. QED
    BY <2>1, <2>3, <2>4, <2>5 DEF Step, TypeInv
<1>2. ASSUME NEW c \in Conns, Opened(c) PROVE Step /\ TypeInv'
  <2>1. OpenedStep(c)
    BY <1>2, <1>b, <1>c, EndFacts DEF Opened, OpenedStep
  <2>2. RestType'
    BY <1>2, <1>a, EndFacts DEF Opened, RestType, Opening
  <2>3. QED
    BY <1>2, <1>b, <2>1, <2>2 DEF Opened, Step, TypeInv
<1>3. ASSUME NEW c \in Conns, GiveUp(c) PROVE Step /\ TypeInv'
  <2>1. GiveUpStep(c)
    BY <1>3, <1>b, <1>c, EndFacts DEF GiveUp, GiveUpStep
  <2>2. RestType'
    BY <1>3, <1>a, EndFacts DEF GiveUp, RestType, Opening
  <2>3. QED
    BY <1>3, <1>b, <2>1, <2>2 DEF GiveUp, Step, TypeInv
<1>4. CASE PopNewConn
  <2>1. PopStep
    BY <1>4, <1>b DEF PopNewConn, PopStep, StepAfter
  <2>2. Head(newConnQueue) \in Conns /\ Tail(newConnQueue) \in Seq(Conns)
    BY <1>a, <1>4, TailFacts DEF PopNewConn, RestType
  <2>3. RestType'
    BY <1>a, <2>1, <2>2 DEF PopStep, RestType
  <2>4. QED
    BY <1>4, <1>b, <2>1, <2>3 DEF PopNewConn, Step, TypeInv
<1>5. CASE SetAccepted
  <2>1. SetStep
    BY <1>a, <1>5, <1>b, EndFacts DEF SetAccepted, SetStep, StepAfter, RestType
  <2>2. RestType'
    BY <1>a, <1>5, EndFacts DEF SetAccepted, StepAfter, RestType
  <2>3. QED
    BY <1>5, <1>b, <2>1, <2>2 DEF SetAccepted, Step, TypeInv
<1>6. CASE Accept
  <2>1. accepted \in Conns
    BY <1>a, <1>6 DEF Accept, RestType
  <2>2. AcceptStep
    BY <1>6, <1>b, <1>c, <2>1, EndFacts DEF Accept, AcceptStep, StepAfter
  <2>3. RestType'
    BY <1>a, <1>6, <2>1, EndFacts DEF Accept, StepAfter, RestType, Opening
  <2>4. QED
    BY <1>6, <1>b, <2>2, <2>3 DEF Accept, Step, TypeInv
<1>7. CASE SendOk
  <2>1. accepted \in Conns
    BY <1>a, <1>7 DEF SendOk, RestType
  <2>2. /\ LinkType'
        /\ ToOpener' = Append(ToOpener, [kind |-> "NewConnOk", id |-> accepted])
        /\ UNCHANGED <<ToAcceptor, Low("opener"), Low("acceptor")>>
    BY <1>a, <1>7, <2>1, MiddleSendings DEF SendOk
  <2>3. SendOkStep
    BY <1>7, <2>2 DEF SendOk, SendOkStep, StepAfter
  <2>4. RestType'
    BY <1>a, <1>7 DEF SendOk, StepAfter, RestType
  <2>5. QED
    BY <2>2, <2>3, <2>4 DEF Step, TypeInv
<1>8. ASSUME NEW e \in Ends, NEW c \in Conns, Send(e, c) PROVE Step /\ TypeInv'
  <2>1. /\ LinkType' /\ Low(Other(e))' = Append(Low(Other(e)), Msg(c)) /\ Low(e)' = Low(e)
        /\ UNCHANGED <<ToAcceptor, ToOpener>>
    BY <1>a, <1>8, LowSendings DEF Send
  <2>2. \A d \in Ends, k \in Conns :
           sent'[d][k] = sent[d][k] + IF d = e /\ k = c THEN 1 ELSE 0
    <3>1. sent' = [sent EXCEPT ![e][c] = @ + 1] /\ sent \in [Ends -> [Conns -> Nat]]
      BY <1>a, <1>8, BoundAssumption DEF Send, RestType
    <3>2. QED
      BY <3>1, Bumped
  <2>3. SendStep(e, c)
    BY <1>8, <2>1, <2>2 DEF Send, SendStep
  <2>4. RestType'
    BY <1>a, <1>8, BoundAssumption DEF Send, RestType
  <2>5. QED
    BY <2>1, <2>3, <2>4 DEF Step, TypeInv
<1>9. ASSUME NEW e \in Ends, NEW c \in Conns, Close(e, c) PROVE Step /\ TypeInv'
  <2>1. /\ LinkType' /\ Low(Other(e))' = Append(Low(Other(e)), CloseOf(c)) /\ Low(e)' = Low(e)
        /\ UNCHANGED <<ToAcceptor, ToOpener>>
    BY <1>a, <1>9, LowSendings DEF Close
  <2>2. connMap'[e] = connMap[e] \ {c} /\ connMap'[Other(e)] = connMap[Other(e)]
    BY <1>a, <1>9, EndFacts DEF Close, Unregister, RestType
  <2>3. CloseStep(e, c)
    BY <1>9, <1>c, <2>1, <2>2 DEF Close, CloseStep
  <2>4. RestType'
    BY ZenonT(40), <1>a, <1>9, EndFacts DEF Close, Unregister, RestType, Opening
  <2>5. QED
    BY <2>1, <2>3, <2>4 DEF Step, TypeInv
<1>10. QED
  BY <1>1, <1>2, <1>3, <1>4, <1>5, <1>6, <1>7, <1>8, <1>9, ReadSteps DEF Next, Acceptor

-----------------------------------------------------------------------------
(* The way of an id through the acceptor.                                  *)

LEMMA SequenceTypes ==
    ASSUME TypeInv
    PROVE  /\ ToAcceptor \in Seq(PacketsTo("acceptor", "middle"))
           /\ ToOpener \in Seq(PacketsTo("opener", "middle"))
           /\ \A e \in Ends : Low(e) \in Seq(PacketsTo(e, "low"))
           /\ newConnQueue \in Seq(Conns)
           /\ Len(ToAcceptor) \in Nat /\ Len(ToOpener) \in Nat /\ Len(newConnQueue) \in Nat
           /\ \A e \in Ends : Len(Low(e)) \in Nat
<1>1. /\ ToAcceptor \in Seq(PacketsTo("acceptor", "middle"))
      /\ ToOpener \in Seq(PacketsTo("opener", "middle"))
      /\ \A e \in Ends : Low(e) \in Seq(PacketsTo(e, "low"))
  BY EndFacts DEF TypeInv, LinkType, ToAcceptor, ToOpener, Low
<1>2. newConnQueue \in Seq(Conns)
  BY DEF TypeInv, RestType
<1>3. QED
  BY <1>1, <1>2

LEMMA IdTypes ==
    ASSUME TypeInv
    PROVE  /\ \A i \in 1 .. Len(ToAcceptor) : ToAcceptor[i].id \in Conns
           /\ \A i \in 1 .. Len(ToOpener) : ToOpener[i].id \in Conns
           /\ \A e \in Ends : \A i \in 1 .. Len(Low(e)) :
                 /\ Low(e)[i].id \in Conns
                 /\ Low(e)[i] \in {Msg(Low(e)[i].id), CloseOf(Low(e)[i].id)}
           /\ \A i \in 1 .. Len(newConnQueue) : newConnQueue[i] \in Conns
<1>1. /\ \A i \in 1 .. Len(ToAcceptor) : ToAcceptor[i] \in PacketsTo("acceptor", "middle")
      /\ \A i \in 1 .. Len(ToOpener) : ToOpener[i] \in PacketsTo("opener", "middle")
      /\ \A e \in Ends : \A i \in 1 .. Len(Low(e)) : Low(e)[i] \in PacketsTo(e, "low")
      /\ \A i \in 1 .. Len(newConnQueue) : newConnQueue[i] \in Conns
  BY SequenceTypes
<1>2. QED
  BY <1>1 DEF PacketsTo, KindsTo, Msg, CloseOf

\* The head of a queue is at its first place, and the others move down.
LEMMA QueueFacts ==
    ASSUME TypeInv
    PROVE  /\ ToAcceptor # <<>> =>
                 /\ Len(ToAcceptor) >= 1 /\ Head(ToAcceptor) = ToAcceptor[1]
                 /\ Len(Tail(ToAcceptor)) = Len(ToAcceptor) - 1
                 /\ \A i \in 1 .. Len(ToAcceptor) - 1 : Tail(ToAcceptor)[i] = ToAcceptor[i + 1]
           /\ newConnQueue # <<>> =>
                 /\ Len(newConnQueue) >= 1 /\ Head(newConnQueue) = newConnQueue[1]
                 /\ Len(Tail(newConnQueue)) = Len(newConnQueue) - 1
                 /\ \A i \in 1 .. Len(newConnQueue) - 1 : Tail(newConnQueue)[i] = newConnQueue[i + 1]
           /\ \A c \in Conns : LET s == Append(newConnQueue, c) IN
                 /\ Len(s) = Len(newConnQueue) + 1 /\ s[Len(newConnQueue) + 1] = c
                 /\ \A i \in 1 .. Len(newConnQueue) : s[i] = newConnQueue[i]
           /\ \A c \in Conns : LET s == Append(ToAcceptor, [kind |-> "NewConn", id |-> c]) IN
                 /\ Len(s) = Len(ToAcceptor) + 1 /\ s[Len(ToAcceptor) + 1].id = c
                 /\ \A i \in 1 .. Len(ToAcceptor) : s[i] = ToAcceptor[i]
<1>1. /\ ToAcceptor \in Seq(PacketsTo("acceptor", "middle")) /\ newConnQueue \in Seq(Conns)
  BY SequenceTypes
<1>2. ASSUME NEW c \in Conns
      PROVE  LET s == Append(ToAcceptor, [kind |-> "NewConn", id |-> c]) IN
                 /\ Len(s) = Len(ToAcceptor) + 1 /\ s[Len(ToAcceptor) + 1].id = c
                 /\ \A i \in 1 .. Len(ToAcceptor) : s[i] = ToAcceptor[i]
  <2>1. [kind |-> "NewConn", id |-> c] \in PacketsTo("acceptor", "middle")
    BY DEF PacketsTo, KindsTo
  <2>2. QED
    BY <1>1, <2>1, AppendFacts
<1>3. ASSUME ToAcceptor # <<>>
      PROVE  /\ Len(ToAcceptor) >= 1 /\ Head(ToAcceptor) = ToAcceptor[1]
             /\ Len(Tail(ToAcceptor)) = Len(ToAcceptor) - 1
             /\ \A i \in 1 .. Len(ToAcceptor) - 1 : Tail(ToAcceptor)[i] = ToAcceptor[i + 1]
  BY <1>1, <1>3, TailFacts
<1>4. ASSUME newConnQueue # <<>>
      PROVE  /\ Len(newConnQueue) >= 1 /\ Head(newConnQueue) = newConnQueue[1]
             /\ Len(Tail(newConnQueue)) = Len(newConnQueue) - 1
             /\ \A i \in 1 .. Len(newConnQueue) - 1 : Tail(newConnQueue)[i] = newConnQueue[i + 1]
  BY <1>1, <1>4, TailFacts
<1>5. QED
  BY <1>1, <1>2, <1>3, <1>4, AppendFacts

Way == <<ToAcceptor, newConnQueue, apc, accepted>>

\* Every step either leaves the way of the ids alone or is one of these.
LEMMA OnceStep == IInv /\ Step => OnceInv'
<1> SUFFICES ASSUME IInv, Step PROVE OnceInv'
  OBVIOUS
<1> USE DEF avars, AtHand
<1>a. TypeInv /\ OnceInv /\ PendingInv
  BY DEF IInv
<1>b. Len(ToAcceptor) \in Nat /\ Len(newConnQueue) \in Nat
  BY <1>a, SequenceTypes
<1>c. ASSUME UNCHANGED Way PROVE OnceInv'
  BY <1>a, <1>c DEF OnceInv, Way
<1>1. ASSUME NEW c \in Conns, NewConnStep(c) PROVE OnceInv'
  <2>1. /\ \A i \in 1 .. Len(ToAcceptor) : ToAcceptor[i].id # c
        /\ \A j \in 1 .. Len(newConnQueue) : newConnQueue[j] # c
        /\ AtHand => accepted # c
    BY <1>1, <1>a DEF NewConnStep, PendingInv, Pending, Opening
  <2>2. /\ Len(ToAcceptor') = Len(ToAcceptor) + 1 /\ ToAcceptor'[Len(ToAcceptor) + 1].id = c
        /\ \A i \in 1 .. Len(ToAcceptor) : ToAcceptor'[i] = ToAcceptor[i]
    BY <1>1, <1>a, QueueFacts DEF NewConnStep
  <2>3. UNCHANGED <<newConnQueue, apc, accepted>>
    BY <1>1 DEF NewConnStep
  <2>4. QED
    BY <1>a, <1>b, <2>1, <2>2, <2>3 DEF OnceInv
<1>2. CASE TakeNewConn
  <2>1. /\ Len(ToAcceptor) >= 1 /\ Head(ToAcceptor) = ToAcceptor[1]
        /\ Len(ToAcceptor') = Len(ToAcceptor) - 1
        /\ \A i \in 1 .. Len(ToAcceptor) - 1 : ToAcceptor'[i] = ToAcceptor[i + 1]
    BY <1>2, <1>a, QueueFacts DEF TakeNewConn
  <2>2. ToAcceptor[1].id \in Conns
    BY <1>a, <1>b, <2>1, IdTypes
  <2>3. /\ Len(newConnQueue') = Len(newConnQueue) + 1
        /\ newConnQueue'[Len(newConnQueue) + 1] = ToAcceptor[1].id
        /\ \A i \in 1 .. Len(newConnQueue) : newConnQueue'[i] = newConnQueue[i]
    BY <1>2, <1>a, <2>1, <2>2, QueueFacts DEF TakeNewConn
  <2>4. UNCHANGED <<apc, accepted>>
    BY <1>2 DEF TakeNewConn
  <2>5. \A i \in 1 .. Len(ToAcceptor'), j \in 1 .. Len(ToAcceptor') :
           i # j => ToAcceptor'[i].id # ToAcceptor'[j].id
    BY <1>a, <1>b, <2>1 DEF OnceInv
  <2>6. \A i \in 1 .. Len(newConnQueue'), j \in 1 .. Len(newConnQueue') :
           i # j => newConnQueue'[i] # newConnQueue'[j]
    BY <1>a, <1>b, <2>1, <2>3 DEF OnceInv
  <2>7. \A i \in 1 .. Len(ToAcceptor'), j \in 1 .. Len(newConnQueue') :
           ToAcceptor'[i].id # newConnQueue'[j]
    BY <1>a, <1>b, <2>1, <2>3 DEF OnceInv
  <2>8. AtHand' => /\ \A i \in 1 .. Len(ToAcceptor') : ToAcceptor'[i].id # accepted'
                   /\ \A j \in 1 .. Len(newConnQueue') : newConnQueue'[j] # accepted'
    <3>1. ASSUME AtHand PROVE \A i \in 1 .. Len(ToAcceptor') : ToAcceptor'[i].id # accepted
      BY <1>a, <1>b, <2>1, <3>1 DEF OnceInv
    <3>2. ASSUME AtHand PROVE \A j \in 1 .. Len(newConnQueue') : newConnQueue'[j] # accepted
      BY <1>a, <1>b, <2>1, <2>3, <3>2 DEF OnceInv
    <3>3. QED
      BY <2>4, <3>1, <3>2
  <2>9. QED
    BY <2>5, <2>6, <2>7, <2>8 DEF OnceInv
<1>3. CASE PopStep
  <2>1. /\ Len(newConnQueue) >= 1 /\ accepted' = newConnQueue[1]
        /\ Len(newConnQueue') = Len(newConnQueue) - 1
        /\ \A i \in 1 .. Len(newConnQueue) - 1 : newConnQueue'[i] = newConnQueue[i + 1]
    BY <1>3, <1>a, QueueFacts DEF PopStep
  <2>2. UNCHANGED ToAcceptor
    BY <1>3 DEF PopStep, Places
  <2>3. QED
    BY <1>a, <1>b, <2>1, <2>2 DEF OnceInv
<1>4. CASE SetStep \/ AcceptStep \/ SendOkStep
  <2>1. UNCHANGED <<ToAcceptor, newConnQueue, accepted>> /\ (AtHand' => AtHand)
    BY <1>4 DEF SetStep, AcceptStep, SendOkStep, Places
  <2>2. QED
    BY <1>a, <2>1 DEF OnceInv
<1>5. ASSUME NEW c \in Conns, OpenedStep(c) \/ GiveUpStep(c) PROVE OnceInv'
  BY <1>5, <1>c DEF OpenedStep, GiveUpStep, Places, Way
<1>6. CASE TakeOk
  BY <1>6, <1>c DEF TakeOk, Way
<1>7. ASSUME NEW e \in Ends, NEW c \in Conns, TakeLow(e, c) \/ SendStep(e, c) \/ CloseStep(e, c)
      PROVE  OnceInv'
  BY <1>7, <1>c DEF TakeLow, SendStep, CloseStep, Way
<1>8. QED
  BY <1>1, <1>2, <1>3, <1>4, <1>5, <1>6, <1>7 DEF Step, TakeMsg, TakeClose, TakeUnknown

LEMMA PendingStep == IInv /\ Step => PendingInv'
<1> SUFFICES ASSUME IInv, Step PROVE PendingInv'
  OBVIOUS
<1> USE DEF avars, AtHand, Pending
<1>a. TypeInv /\ OnceInv /\ PendingInv /\ OpenInv
  BY DEF IInv
<1>b. Len(ToAcceptor) \in Nat /\ Len(newConnQueue) \in Nat
  BY <1>a, SequenceTypes
<1>c. /\ \A i \in 1 .. Len(ToAcceptor) : ToAcceptor[i].id \in Conns
      /\ \A i \in 1 .. Len(newConnQueue) : newConnQueue[i] \in Conns
      /\ apc # "pop" => accepted \in Conns
  BY <1>a, IdTypes DEF TypeInv, RestType
<1>d. ASSUME UNCHANGED Way, \A c \in Conns : Pending(c) => Pending(c)'
      PROVE  PendingInv'
  BY <1>a, <1>c, <1>d DEF PendingInv, Way
<1>1. ASSUME NEW c \in Conns, NewConnStep(c) PROVE PendingInv'
  <2>1. /\ Len(ToAcceptor') = Len(ToAcceptor) + 1 /\ ToAcceptor'[Len(ToAcceptor) + 1].id = c
        /\ \A i \in 1 .. Len(ToAcceptor) : ToAcceptor'[i] = ToAcceptor[i]
    BY <1>1, <1>a, QueueFacts DEF NewConnStep
  <2>2. UNCHANGED <<newConnQueue, apc, accepted>>
    BY <1>1 DEF NewConnStep
  <2>3. Pending(c)'
    BY <1>1, <1>a, EndFacts DEF NewConnStep, AppSet, OpenInv, Opening
  <2>4. \A k \in Conns : Pending(k) => Pending(k)'
    BY <1>1, <1>a, EndFacts DEF NewConnStep, AppSet, Opening
  <2>5. QED
    BY <1>a, <1>b, <1>c, <2>1, <2>2, <2>3, <2>4 DEF PendingInv
<1>2. CASE TakeNewConn
  <2>1. /\ Len(ToAcceptor) >= 1 /\ Head(ToAcceptor) = ToAcceptor[1]
        /\ Len(ToAcceptor') = Len(ToAcceptor) - 1
        /\ \A i \in 1 .. Len(ToAcceptor) - 1 : ToAcceptor'[i] = ToAcceptor[i + 1]
    BY <1>2, <1>a, QueueFacts DEF TakeNewConn
  <2>2. ToAcceptor[1].id \in Conns
    BY <1>a, <1>b, <2>1, IdTypes
  <2>3. /\ Len(newConnQueue') = Len(newConnQueue) + 1
        /\ newConnQueue'[Len(newConnQueue) + 1] = ToAcceptor[1].id
        /\ \A i \in 1 .. Len(newConnQueue) : newConnQueue'[i] = newConnQueue[i]
    BY <1>2, <1>a, <2>1, <2>2, QueueFacts DEF TakeNewConn
  <2>4. UNCHANGED <<app, apc, accepted>>
    BY <1>2 DEF TakeNewConn
  <2>5. \A k \in Conns : Pending(k)' <=> Pending(k)
    BY <2>4
  <2>6. \A i \in 1 .. Len(ToAcceptor') : Pending(ToAcceptor[i].id)'
    <3> SUFFICES ASSUME NEW i \in 1 .. Len(ToAcceptor) - 1
                 PROVE  Pending(ToAcceptor[i].id)'
      BY <2>1
    <3>1. i + 1 \in 1 .. Len(ToAcceptor)
      BY <2>1, <1>b
    <3>2. Pending(ToAcceptor[i + 1].id)
      BY <1>a, <3>1 DEF PendingInv
    <3>3. QED
      BY <2>1, <2>4, <3>2
  <2>7. \A j \in 1 .. Len(newConnQueue') : Pending(newConnQueue[j])'
    <3> SUFFICES ASSUME NEW j \in 1 .. Len(newConnQueue) + 1
                 PROVE  Pending(newConnQueue[j])'
      BY <2>3
    <3>1. CASE j = Len(newConnQueue) + 1
      BY <1>a, <2>1, <2>3, <2>4, <3>1 DEF PendingInv
    <3>2. CASE j # Len(newConnQueue) + 1
      <4>1. j \in 1 .. Len(newConnQueue)
        BY <1>b, <3>2
      <4>2. QED
        BY <1>a, <2>3, <2>4, <4>1 DEF PendingInv
    <3>3. QED
      BY <3>1, <3>2
  <2>8. AtHand' => Pending(accepted)'
    BY <1>a, <2>4 DEF PendingInv
  <2>9. QED
    BY <2>6, <2>7, <2>8 DEF PendingInv
<1>3. CASE PopStep
  <2>1. /\ Len(newConnQueue) >= 1 /\ accepted' = newConnQueue[1]
        /\ Len(newConnQueue') = Len(newConnQueue) - 1
        /\ \A i \in 1 .. Len(newConnQueue) - 1 : newConnQueue'[i] = newConnQueue[i + 1]
    BY <1>3, <1>a, QueueFacts DEF PopStep
  <2>2. UNCHANGED <<ToAcceptor, app>>
    BY <1>3 DEF PopStep, Places
  <2>3. QED
    BY SMTT(20), <1>a, <1>b, <2>1, <2>2 DEF PendingInv
<1>4. CASE SetStep \/ SendOkStep
  <2>1. UNCHANGED <<ToAcceptor, newConnQueue, accepted, app>> /\ (AtHand' => AtHand)
    BY <1>4 DEF SetStep, SendOkStep, Places
  <2>2. QED
    BY <1>a, <2>1 DEF PendingInv
<1>5. CASE AcceptStep
  <2>1. \A k \in Conns : k # accepted /\ Pending(k) => Pending(k)'
    BY <1>5, EndFacts DEF AcceptStep, AppSet
  <2>2. UNCHANGED <<ToAcceptor, newConnQueue>> /\ AtHand /\ ~AtHand'
    BY <1>5 DEF AcceptStep, Places
  <2>3. QED
    BY <1>a, <1>c, <2>1, <2>2 DEF PendingInv, OnceInv
<1>6. ASSUME NEW c \in Conns, OpenedStep(c) \/ GiveUpStep(c) PROVE PendingInv'
  <2>1. UNCHANGED Way
    BY <1>6 DEF OpenedStep, GiveUpStep, Places, Way
  <2>2. CASE OpenedStep(c)
    <3>1. app["acceptor"][c] \in Established /\ c # NoConn
      BY <1>a, <2>2, BoundAssumption DEF OpenedStep, OpenInv, NoConn, Conns
    <3>2. \A k \in Conns : Pending(k) => Pending(k)'
      BY <2>2, <3>1, EndFacts DEF OpenedStep, AppSet, Established
    <3>3. QED
      BY <1>d, <2>1, <3>2
  <2>3. CASE GiveUpStep(c)
    <3>1. \A k \in Conns : Pending(k) => Pending(k)'
      BY <2>3, EndFacts DEF GiveUpStep, AppSet, Opening
    <3>2. QED
      BY <1>d, <2>1, <3>1
  <2>4. QED
    BY <1>6, <2>2, <2>3
<1>7. CASE TakeOk
  BY <1>7, <1>d DEF TakeOk, Way
<1>8. ASSUME NEW e \in Ends, NEW c \in Conns, TakeLow(e, c) \/ SendStep(e, c)
      PROVE  PendingInv'
  BY <1>8, <1>d DEF TakeLow, SendStep, Way
<1>9. ASSUME NEW e \in Ends, NEW c \in Conns, CloseStep(e, c) PROVE PendingInv'
  <2>1. app[e][c] = "open" /\ AppSet(e, c, "closed") /\ UNCHANGED Way
    BY <1>9 DEF CloseStep, Way
  <2>2. \A k \in Conns : Pending(k) => Pending(k)'
    BY <1>a, <2>1, EndFacts DEF AppSet, Opening, OpenInv, Established
  <2>3. QED
    BY <1>d, <2>1, <2>2
<1>10. QED
  BY <1>1, <1>2, <1>3, <1>4, <1>5, <1>6, <1>7, <1>8, <1>9
     DEF Step, TakeMsg, TakeClose, TakeUnknown

\* The acknowledgements on their way to the opener.
LEMMA AckFacts ==
    ASSUME TypeInv
    PROVE  /\ ToOpener # <<>> =>
                 /\ Len(ToOpener) >= 1 /\ Head(ToOpener) = ToOpener[1]
                 /\ Len(Tail(ToOpener)) = Len(ToOpener) - 1
                 /\ \A i \in 1 .. Len(ToOpener) - 1 : Tail(ToOpener)[i] = ToOpener[i + 1]
           /\ \A c \in Conns : LET s == Append(ToOpener, [kind |-> "NewConnOk", id |-> c]) IN
                 /\ Len(s) = Len(ToOpener) + 1 /\ s[Len(ToOpener) + 1].id = c
                 /\ \A i \in 1 .. Len(ToOpener) : s[i] = ToOpener[i]
<1>1. ToOpener \in Seq(PacketsTo("opener", "middle"))
  BY SequenceTypes
<1>2. ASSUME NEW c \in Conns
      PROVE  LET s == Append(ToOpener, [kind |-> "NewConnOk", id |-> c]) IN
                 /\ Len(s) = Len(ToOpener) + 1 /\ s[Len(ToOpener) + 1].id = c
                 /\ \A i \in 1 .. Len(ToOpener) : s[i] = ToOpener[i]
  <2>1. [kind |-> "NewConnOk", id |-> c] \in PacketsTo("opener", "middle")
    BY DEF PacketsTo, KindsTo
  <2>2. QED
    BY <1>1, <2>1, AppendFacts
<1>3. ASSUME ToOpener # <<>>
      PROVE  /\ Len(ToOpener) >= 1 /\ Head(ToOpener) = ToOpener[1]
             /\ Len(Tail(ToOpener)) = Len(ToOpener) - 1
             /\ \A i \in 1 .. Len(ToOpener) - 1 : Tail(ToOpener)[i] = ToOpener[i + 1]
  BY <1>1, <1>3, TailFacts
<1>4. QED
  BY <1>2, <1>3

\* What Accept has returned stays so; so does what the opener has established.
LEMMA EstablishedStays ==
    IInv /\ Step => \A e \in Ends, c \in Conns :
                       app[e][c] \in Established => app'[e][c] \in Established
<1> SUFFICES ASSUME IInv, Step, NEW d \in Ends, NEW k \in Conns, app[d][k] \in Established
             PROVE  app'[d][k] \in Established
  OBVIOUS
<1> USE DEF Established
<1>1. ASSUME UNCHANGED app PROVE app'[d][k] \in Established
  BY <1>1
<1>2. ASSUME NEW e \in Ends, NEW c \in Conns, NEW v, AppSet(e, c, v),
             v \in Established \/ app[e][c] \notin Established
      PROVE  app'[d][k] \in Established
  BY <1>2 DEF AppSet
<1>3. ASSUME NEW c \in Conns, NewConnStep(c) \/ OpenedStep(c) \/ GiveUpStep(c)
      PROVE  app'[d][k] \in Established
  <2>1. \E v : AppSet("opener", c, v) /\ app["opener"][c] \notin Established
    BY <1>3 DEF NewConnStep, OpenedStep, GiveUpStep
  <2>2. QED
    BY <2>1, <1>2, EndFacts
<1>4. CASE AcceptStep
  <2>1. accepted \in Conns /\ AppSet("acceptor", accepted, "open")
    BY <1>4 DEF AcceptStep, IInv, TypeInv, RestType
  <2>2. QED
    BY <2>1, <1>2, EndFacts
<1>5. CASE PopStep \/ SetStep \/ SendOkStep \/ TakeNewConn \/ TakeOk
  BY <1>5 DEF PopStep, SetStep, SendOkStep, TakeNewConn, TakeOk
<1>6. ASSUME NEW e \in Ends, NEW c \in Conns, TakeLow(e, c) \/ SendStep(e, c)
      PROVE  app'[d][k] \in Established
  BY <1>6 DEF TakeLow, SendStep
<1>7. ASSUME NEW e \in Ends, NEW c \in Conns, CloseStep(e, c)
      PROVE  app'[d][k] \in Established
  BY <1>7, <1>2 DEF CloseStep
<1>8. QED
  BY <1>3, <1>4, <1>5, <1>6, <1>7 DEF Step, TakeMsg, TakeClose, TakeUnknown

\* The acknowledgements after a step: none but of what was accepted.
LEMMA AckStep ==
    ASSUME IInv, Step
    PROVE  /\ apc' = "ok" => accepted' \in Conns /\ app'["acceptor"][accepted'] \in Established
           /\ \A i \in 1 .. Len(ToOpener') : app'["acceptor"][ToOpener'[i].id] \in Established
           /\ ok' # NoConn => app'["acceptor"][ok'] \in Established
<1> USE DEF avars
<1>a. TypeInv /\ OpenInv
  BY DEF IInv
<1>b. /\ Len(ToOpener) \in Nat
      /\ \A i \in 1 .. Len(ToOpener) : ToOpener[i].id \in Conns
      /\ apc # "pop" => accepted \in Conns
      /\ ok # NoConn => ok \in Conns
  BY <1>a, SequenceTypes, IdTypes DEF TypeInv, RestType
<1>c. \A c \in Conns : app["acceptor"][c] \in Established => app'["acceptor"][c] \in Established
  BY EstablishedStays, EndFacts
<1>1. apc' = "ok" => accepted' \in Conns /\ app'["acceptor"][accepted'] \in Established
  <2>1. CASE AcceptStep
    BY <2>1, <1>b, EndFacts DEF AcceptStep, AppSet, Established
  <2>2. CASE PopStep \/ SetStep \/ SendOkStep
    BY <2>2 DEF PopStep, SetStep, SendOkStep
  <2>3. CASE UNCHANGED <<apc, accepted>>
    BY <2>3, <1>a, <1>b, <1>c DEF OpenInv
  <2>4. QED
    BY ZenonT(40), <2>1, <2>2, <2>3
       DEF Step, NewConnStep, OpenedStep, GiveUpStep, TakeNewConn, TakeOk, TakeMsg, TakeClose,
           TakeUnknown, TakeLow, SendStep, CloseStep
<1>2. \A i \in 1 .. Len(ToOpener') : app'["acceptor"][ToOpener'[i].id] \in Established
  <2>1. CASE SendOkStep
    <3>1. app'["acceptor"][accepted] \in Established
      BY <2>1, <1>a, <1>b, <1>c DEF SendOkStep, OpenInv
    <3>2. /\ Len(ToOpener') = Len(ToOpener) + 1 /\ ToOpener'[Len(ToOpener) + 1].id = accepted
          /\ \A i \in 1 .. Len(ToOpener) : ToOpener'[i] = ToOpener[i]
      BY <2>1, <1>a, <1>b, AckFacts DEF SendOkStep
    <3>3. QED
      BY <3>1, <3>2, <1>a, <1>b, <1>c DEF OpenInv
  <2>2. CASE TakeOk
    <3>1. /\ Len(ToOpener') = Len(ToOpener) - 1
          /\ \A i \in 1 .. Len(ToOpener) - 1 : ToOpener'[i] = ToOpener[i + 1]
      BY <2>2, <1>a, AckFacts DEF TakeOk
    <3>2. QED
      BY <3>1, <1>a, <1>b, <1>c DEF OpenInv
  <2>3. CASE UNCHANGED ToOpener
    BY <2>3, <1>a, <1>b, <1>c DEF OpenInv
  <2>4. QED
    BY ZenonT(40), <2>1, <2>2, <2>3
       DEF Step, NewConnStep, OpenedStep, GiveUpStep, PopStep, SetStep, AcceptStep, TakeNewConn,
           TakeMsg, TakeClose, TakeUnknown, TakeLow, SendStep, CloseStep, Places
<1>3. ok' # NoConn => app'["acceptor"][ok'] \in Established
  <2>1. CASE TakeOk
    <3>1. ok = NoConn /\ (ok' = ok \/ ok' = ToOpener[1].id) /\ 1 \in 1 .. Len(ToOpener)
      BY <2>1, <1>a, <1>b, AckFacts DEF TakeOk
    <3>2. QED
      BY <3>1, <1>a, <1>b, <1>c DEF OpenInv
  <2>2. CASE \E c \in Conns : OpenedStep(c)
    BY <2>2 DEF OpenedStep
  <2>3. CASE UNCHANGED ok
    BY <2>3, <1>a, <1>b, <1>c DEF OpenInv
  <2>4. QED
    BY ZenonT(40), <2>1, <2>2, <2>3
       DEF Step, NewConnStep, GiveUpStep, PopStep, SetStep, AcceptStep, SendOkStep, TakeNewConn,
           TakeMsg, TakeClose, TakeUnknown, TakeLow, SendStep, CloseStep
<1>4. QED
  BY <1>1, <1>2, <1>3

LEMMA OpenStep == IInv /\ Step => OpenInv'
<1> SUFFICES ASSUME IInv, Step PROVE OpenInv'
  OBVIOUS
<1> USE DEF avars
<1>a. TypeInv /\ OpenInv /\ PendingInv
  BY DEF IInv
<1>b. \A c \in Conns : app["acceptor"][c] \in Established => app'["acceptor"][c] \in Established
  BY EstablishedStays, EndFacts
<1> DEFINE P(k) == /\ app["opener"][k] \in Established => app["acceptor"][k] \in Established
                   /\ app["opener"][k] = "none" => app["acceptor"][k] = "none"
<1>1. ASSUME NEW k \in Conns PROVE P(k)'
  <2>a. P(k)
    BY <1>a DEF OpenInv
  <2>1. CASE UNCHANGED <<app["opener"][k], app["acceptor"][k]>>
    BY <2>a, <2>1
  <2>2. ASSUME NEW c \in Conns, NewConnStep(c) \/ OpenedStep(c) \/ GiveUpStep(c) PROVE P(k)'
    <3>1. app'["acceptor"][k] = app["acceptor"][k]
      BY <2>2, EndFacts DEF NewConnStep, OpenedStep, GiveUpStep, AppSet
    <3>2. CASE k # c
      BY <2>2, <2>1, <3>1, <3>2, EndFacts DEF NewConnStep, OpenedStep, GiveUpStep, AppSet
    <3>3. CASE k = c /\ (NewConnStep(c) \/ GiveUpStep(c))
      BY <3>3, EndFacts DEF NewConnStep, GiveUpStep, AppSet, Established
    <3>4. CASE k = c /\ OpenedStep(c)
      <4>1. ok # NoConn /\ ok = c
        BY <3>4, BoundAssumption DEF OpenedStep, NoConn, Conns
      <4>2. app["acceptor"][k] \in Established /\ app'["opener"][k] = "open"
        BY <3>4, <4>1, <1>a, EndFacts DEF OpenInv, OpenedStep, AppSet
      <4>3. QED
        BY <3>1, <4>2
    <3>5. QED
      BY <2>2, <3>2, <3>3, <3>4
  <2>3. CASE AcceptStep
    <3>1. AppSet("acceptor", accepted, "open") /\ Pending(accepted)
      BY <2>3, <1>a DEF AcceptStep, PendingInv, AtHand
    <3>2. app'["opener"][k] = app["opener"][k]
      BY <3>1, EndFacts DEF AppSet
    <3>3. CASE k = accepted
      BY <3>1, <3>2, <3>3, EndFacts DEF AppSet, Pending, Opening, Established
    <3>4. CASE k # accepted
      BY <3>1, <3>2, <3>4, <2>a, EndFacts DEF AppSet
    <3>5. QED
      BY <3>3, <3>4
  <2>4. ASSUME NEW e \in Ends, NEW c \in Conns, CloseStep(e, c) PROVE P(k)'
    <3>1. app[e][c] = "open" /\ AppSet(e, c, "closed")
      BY <2>4 DEF CloseStep
    <3>2. /\ app'["opener"][k] = "none" => app["opener"][k] = "none"
          /\ app["acceptor"][k] = "none" => app'["acceptor"][k] = "none"
          /\ app'["opener"][k] \in Established => app["opener"][k] \in Established
      <4>1. app'["opener"][k] = app["opener"][k]
            \/ (app["opener"][k] = "open" /\ app'["opener"][k] = "closed")
        BY <3>1, EndFacts DEF AppSet
      <4>2. app'["acceptor"][k] = app["acceptor"][k]
            \/ (app["acceptor"][k] = "open" /\ app'["acceptor"][k] = "closed")
        BY <3>1, EndFacts DEF AppSet
      <4>3. QED
        BY <4>1, <4>2 DEF Established
    <3>3. QED
      BY <3>2, <2>a, <1>b
  <2>5. CASE UNCHANGED app
    BY <2>a, <2>5
  <2>6. QED
    BY <2>2, <2>3, <2>4, <2>5
       DEF Step, PopStep, SetStep, SendOkStep, TakeNewConn, TakeOk, TakeMsg, TakeClose,
           TakeUnknown, TakeLow, SendStep
<1>2. QED
  BY <1>1, AckStep DEF OpenInv

\* The ways a connection that is being opened can be on.
Underway(c) ==
    \/ \E i \in 1 .. Len(ToAcceptor) : ToAcceptor[i].id = c
    \/ \E j \in 1 .. Len(newConnQueue) : newConnQueue[j] = c
    \/ apc # "pop" /\ accepted = c
    \/ \E i \in 1 .. Len(ToOpener) : ToOpener[i].id = c
    \/ ok = c

LEMMA UnderwayStep ==
    ASSUME IInv, Step, NEW k \in Conns, app["opener"][k] = "waiting",
           app'["opener"][k] = "waiting"
    PROVE  Underway(k)'
<1> USE DEF avars
<1>a. TypeInv /\ MapInv /\ Underway(k)
  BY DEF IInv, WaitInv, Underway
<1>b. /\ Len(ToAcceptor) \in Nat /\ Len(newConnQueue) \in Nat /\ Len(ToOpener) \in Nat
      /\ \A i \in 1 .. Len(ToAcceptor) : ToAcceptor[i].id \in Conns
      /\ apc # "pop" => accepted \in Conns
  BY <1>a, SequenceTypes, IdTypes DEF TypeInv, RestType
<1>1. ASSUME NEW c \in Conns, NewConnStep(c) PROVE Underway(k)'
  <2>1. \A i \in 1 .. Len(ToAcceptor) : i \in 1 .. Len(ToAcceptor') /\ ToAcceptor'[i] = ToAcceptor[i]
    BY <1>1, <1>a, <1>b, QueueFacts DEF NewConnStep
  <2>2. UNCHANGED <<newConnQueue, apc, accepted, ToOpener, ok>>
    BY <1>1 DEF NewConnStep
  <2>3. QED
    BY <1>a, <2>1, <2>2 DEF Underway
<1>2. ASSUME NEW c \in Conns, OpenedStep(c) PROVE Underway(k)'
  <2>1. ok = c /\ app'["opener"][c] = "open"
    BY <1>2, EndFacts DEF OpenedStep, AppSet
  <2>2. UNCHANGED <<ToAcceptor, newConnQueue, apc, accepted, ToOpener>>
    BY <1>2 DEF OpenedStep, Places
  <2>3. QED
    BY <1>a, <2>1, <2>2 DEF Underway
<1>3. ASSUME NEW c \in Conns, GiveUpStep(c) PROVE Underway(k)'
  BY <1>3, <1>a DEF GiveUpStep, Places, Underway
<1>4. CASE PopStep
  <2>1. /\ Len(newConnQueue) >= 1 /\ accepted' = newConnQueue[1] /\ apc = "pop" /\ apc' = "set"
        /\ Len(newConnQueue') = Len(newConnQueue) - 1
        /\ \A i \in 1 .. Len(newConnQueue) - 1 : newConnQueue'[i] = newConnQueue[i + 1]
    BY <1>4, <1>a, QueueFacts DEF PopStep
  <2>2. UNCHANGED <<ToAcceptor, ToOpener, ok>>
    BY <1>4 DEF PopStep, Places
  <2>3. ASSUME NEW j \in 1 .. Len(newConnQueue), newConnQueue[j] = k PROVE Underway(k)'
    <3>1. CASE j = 1
      BY <2>1, <2>3, <3>1 DEF Underway
    <3>2. CASE j # 1
      <4>1. j - 1 \in 1 .. Len(newConnQueue') /\ newConnQueue'[j - 1] = k
        BY <1>b, <2>1, <2>3, <3>2
      <4>2. QED
        BY <4>1 DEF Underway
    <3>3. QED
      BY <3>1, <3>2
  <2>4. QED
    BY <1>a, <2>1, <2>2, <2>3 DEF Underway
<1>5. CASE SetStep \/ AcceptStep
  BY <1>5, <1>a DEF SetStep, AcceptStep, Places, Underway
<1>6. CASE SendOkStep
  <2>1. /\ Len(ToOpener') = Len(ToOpener) + 1 /\ ToOpener'[Len(ToOpener) + 1].id = accepted
        /\ \A i \in 1 .. Len(ToOpener) : ToOpener'[i] = ToOpener[i]
    BY <1>6, <1>a, <1>b, AckFacts DEF SendOkStep
  <2>2. UNCHANGED <<ToAcceptor, newConnQueue, ok>>
    BY <1>6 DEF SendOkStep
  <2>3. /\ Len(ToOpener) + 1 \in 1 .. Len(ToOpener')
        /\ \A i \in 1 .. Len(ToOpener) : i \in 1 .. Len(ToOpener')
    BY <1>b, <2>1
  <2>4. QED
    BY <1>a, <2>1, <2>2, <2>3 DEF Underway
<1>7. CASE TakeNewConn
  <2>1. /\ Len(ToAcceptor) >= 1 /\ Head(ToAcceptor) = ToAcceptor[1]
        /\ Len(ToAcceptor') = Len(ToAcceptor) - 1
        /\ \A i \in 1 .. Len(ToAcceptor) - 1 : ToAcceptor'[i] = ToAcceptor[i + 1]
    BY <1>7, <1>a, QueueFacts DEF TakeNewConn
  <2>2. ToAcceptor[1].id \in Conns
    BY <1>b, <2>1
  <2>3. /\ Len(newConnQueue') = Len(newConnQueue) + 1
        /\ newConnQueue'[Len(newConnQueue) + 1] = ToAcceptor[1].id
        /\ \A i \in 1 .. Len(newConnQueue) : newConnQueue'[i] = newConnQueue[i]
    BY <1>7, <1>a, <2>1, <2>2, QueueFacts DEF TakeNewConn
  <2>4. UNCHANGED <<ToOpener, apc, accepted, ok>>
    BY <1>7 DEF TakeNewConn
  <2>5. ASSUME NEW i \in 1 .. Len(ToAcceptor), ToAcceptor[i].id = k PROVE Underway(k)'
    <3>1. CASE i = 1
      <4>1. Len(newConnQueue) + 1 \in 1 .. Len(newConnQueue')
        BY <1>b, <2>3
      <4>2. QED
        BY <4>1, <2>3, <2>5, <3>1 DEF Underway
    <3>2. CASE i # 1
      <4>1. i - 1 \in 1 .. Len(ToAcceptor') /\ ToAcceptor'[i - 1].id = k
        BY <1>b, <2>1, <2>5, <3>2
      <4>2. QED
        BY <4>1 DEF Underway
    <3>3. QED
      BY <3>1, <3>2
  <2>6. \A j \in 1 .. Len(newConnQueue) : j \in 1 .. Len(newConnQueue')
    BY <1>b, <2>3
  <2>7. QED
    BY <1>a, <2>3, <2>4, <2>5, <2>6 DEF Underway
<1>8. CASE TakeOk
  <2>1. /\ Len(ToOpener) >= 1 /\ Head(ToOpener) = ToOpener[1]
        /\ Len(ToOpener') = Len(ToOpener) - 1 /\ ok = NoConn
        /\ \A i \in 1 .. Len(ToOpener) - 1 : ToOpener'[i] = ToOpener[i + 1]
        /\ ToOpener[1].id \in connMap["opener"] => ok' = ToOpener[1].id
    BY <1>8, <1>a, AckFacts DEF TakeOk
  <2>2. UNCHANGED <<ToAcceptor, newConnQueue, apc, accepted>>
    BY <1>8 DEF TakeOk
  <2>3. k \in connMap["opener"] /\ ok # k
    BY <1>a, <2>1, BoundAssumption DEF MapInv, Opening, NoConn, Conns
  <2>4. ASSUME NEW i \in 1 .. Len(ToOpener), ToOpener[i].id = k PROVE Underway(k)'
    <3>1. CASE i = 1
      BY <2>1, <2>3, <2>4, <3>1 DEF Underway
    <3>2. CASE i # 1
      <4>1. i - 1 \in 1 .. Len(ToOpener') /\ ToOpener'[i - 1].id = k
        BY <1>b, <2>1, <2>4, <3>2
      <4>2. QED
        BY <4>1 DEF Underway
    <3>3. QED
      BY <3>1, <3>2
  <2>5. QED
    BY <1>a, <2>2, <2>3, <2>4 DEF Underway
<1>9. ASSUME NEW e \in Ends, NEW c \in Conns, TakeLow(e, c) \/ SendStep(e, c) \/ CloseStep(e, c)
      PROVE  Underway(k)'
  BY <1>9, <1>a DEF TakeLow, SendStep, CloseStep, Underway
<1>10. QED
  BY <1>1, <1>2, <1>3, <1>4, <1>5, <1>6, <1>7, <1>8, <1>9
     DEF Step, TakeMsg, TakeClose, TakeUnknown

LEMMA WaitStep == IInv /\ Step => WaitInv'
<1> SUFFICES ASSUME IInv, Step, NEW k \in Conns, app'["opener"][k] = "waiting"
             PROVE  Underway(k)'
  BY DEF WaitInv, Underway
<1>1. CASE app["opener"][k] = "waiting"
  BY <1>1, UnderwayStep
<1>2. CASE app["opener"][k] # "waiting"
  <2>1. NewConnStep(k)
    <3>1. app' # app
      BY <1>2
    <3>2. ~ \E e \in Ends, c \in Conns : CloseStep(e, c)
      BY <1>2, EndFacts DEF CloseStep, AppSet
    <3>3. ~ \E c \in Conns : OpenedStep(c) \/ GiveUpStep(c)
      BY <1>2, EndFacts DEF OpenedStep, GiveUpStep, AppSet
    <3>4. ~AcceptStep
      BY <1>2, EndFacts DEF AcceptStep, AppSet
    <3>5. \E c \in Conns : NewConnStep(c)
      BY <3>1, <3>2, <3>3, <3>4
         DEF Step, PopStep, SetStep, SendOkStep, TakeNewConn, TakeOk, TakeMsg, TakeClose,
             TakeUnknown, TakeLow, SendStep
    <3>6. QED
      BY <1>2, <3>5, EndFacts DEF NewConnStep, AppSet
  <2>2. /\ Len(ToAcceptor') = Len(ToAcceptor) + 1 /\ ToAcceptor'[Len(ToAcceptor) + 1].id = k
        /\ Len(ToAcceptor) \in Nat
    BY <2>1, QueueFacts, SequenceTypes DEF IInv, NewConnStep
  <2>3. Len(ToAcceptor) + 1 \in 1 .. Len(ToAcceptor')
    BY <2>2
  <2>4. QED
    BY <2>2, <2>3 DEF Underway
<1>3. QED
  BY <1>1, <1>2

-----------------------------------------------------------------------------
(* The maps and the low chains.                                            *)

LEMMA MapStep == IInv /\ Step => MapInv'
<1> SUFFICES ASSUME IInv, Step, NEW k \in Conns
             PROVE  /\ k \in connMap'["opener"] <=> app'["opener"][k] \in Opening \cup {"open"}
                    /\ k \in connMap'["acceptor"] <=>
                          app'["acceptor"][k] = "open" \/ (apc' = "hand" /\ accepted' = k)
  BY DEF MapInv
<1> USE DEF avars, Opening
<1>a. /\ k \in connMap["opener"] <=> app["opener"][k] \in Opening \cup {"open"}
      /\ k \in connMap["acceptor"] <=>
            app["acceptor"][k] = "open" \/ (apc = "hand" /\ accepted = k)
  BY DEF IInv, MapInv
<1>b. TypeInv /\ PendingInv
  BY DEF IInv
<1> DEFINE G == /\ k \in connMap'["opener"] <=> app'["opener"][k] \in Opening \cup {"open"}
                /\ k \in connMap'["acceptor"] <=>
                      app'["acceptor"][k] = "open" \/ (apc' = "hand" /\ accepted' = k)
<1>1. ASSUME NEW c \in Conns, NewConnStep(c) \/ OpenedStep(c) \/ GiveUpStep(c) PROVE G
  <2>1. UNCHANGED <<apc, accepted, connMap["acceptor"], app["acceptor"][k]>>
    BY <1>1, EndFacts DEF NewConnStep, OpenedStep, GiveUpStep, AppSet
  <2>2. CASE NewConnStep(c)
    BY <2>1, <2>2, <1>a, EndFacts DEF NewConnStep, AppSet
  <2>3. CASE OpenedStep(c)
    BY <2>1, <2>3, <1>a, EndFacts DEF OpenedStep, AppSet
  <2>4. CASE GiveUpStep(c)
    BY <2>1, <2>4, <1>a, EndFacts DEF GiveUpStep, AppSet
  <2>5. QED
    BY <1>1, <2>2, <2>3, <2>4
<1>2. CASE PopStep \/ SendOkStep
  BY <1>2, <1>a DEF PopStep, SendOkStep
<1>3. CASE SetStep
  BY <1>3, <1>a DEF SetStep
<1>4. CASE AcceptStep
  BY <1>4, <1>a, EndFacts DEF AcceptStep, AppSet
<1>5. CASE TakeNewConn \/ TakeOk
  BY <1>5, <1>a DEF TakeNewConn, TakeOk
<1>6. ASSUME NEW e \in Ends, NEW c \in Conns, TakeLow(e, c) \/ SendStep(e, c) PROVE G
  BY <1>6, <1>a DEF TakeLow, SendStep
<1>7. ASSUME NEW e \in Ends, NEW c \in Conns, CloseStep(e, c) PROVE G
  <2>1. app[e][c] = "open" /\ AppSet(e, c, "closed") /\ UNCHANGED <<apc, accepted>>
    BY <1>7 DEF CloseStep
  <2>2. connMap'[e] = connMap[e] \ {c} /\ connMap'[Other(e)] = connMap[Other(e)]
    BY <1>7 DEF CloseStep
  <2>3. CASE e = "opener"
    BY <2>1, <2>2, <2>3, <1>a, EndFacts DEF AppSet
  <2>4. CASE e = "acceptor"
    \* What is closed was handed over already.
    <3>1. ~(apc = "hand" /\ accepted = c)
      BY <1>b, <2>1, <2>4 DEF PendingInv, AtHand, Pending
    <3>2. QED
      BY <2>1, <2>2, <2>4, <3>1, <1>a, EndFacts DEF AppSet
  <2>5. QED
    BY <2>3, <2>4, EndFacts
<1>8. QED
  BY <1>1, <1>2, <1>3, <1>4, <1>5, <1>6, <1>7 DEF Step, TakeMsg, TakeClose, TakeUnknown

\* What a connection was closed at stays closed.
LEMMA ClosedStays ==
    IInv /\ Step => \A e \in Ends, c \in Conns : app[e][c] = "closed" => app'[e][c] = "closed"
<1> SUFFICES ASSUME IInv, Step, NEW d \in Ends, NEW k \in Conns, app[d][k] = "closed"
             PROVE  app'[d][k] = "closed"
  OBVIOUS
<1>1. ASSUME NEW c \in Conns, NewConnStep(c) \/ OpenedStep(c) \/ GiveUpStep(c)
      PROVE  app'[d][k] = "closed"
  BY <1>1, EndFacts DEF NewConnStep, OpenedStep, GiveUpStep, AppSet
<1>2. CASE AcceptStep
  <2>1. app["acceptor"][accepted] = "none"
    BY <1>2 DEF AcceptStep, IInv, PendingInv, AtHand, Pending
  <2>2. QED
    BY <1>2, <2>1, EndFacts DEF AcceptStep, AppSet
<1>3. CASE PopStep \/ SetStep \/ SendOkStep \/ TakeNewConn \/ TakeOk
  BY <1>3 DEF PopStep, SetStep, SendOkStep, TakeNewConn, TakeOk
<1>4. ASSUME NEW e \in Ends, NEW c \in Conns, TakeLow(e, c) \/ SendStep(e, c)
      PROVE  app'[d][k] = "closed"
  BY <1>4 DEF TakeLow, SendStep
<1>5. ASSUME NEW e \in Ends, NEW c \in Conns, CloseStep(e, c) PROVE app'[d][k] = "closed"
  BY <1>5 DEF CloseStep, AppSet
<1>6. QED
  BY <1>1, <1>2, <1>3, <1>4, <1>5 DEF Step, TakeMsg, TakeClose, TakeUnknown

\* The low chain of an end and what happens to it.
LEMMA LowFacts ==
    ASSUME TypeInv, NEW e \in Ends
    PROVE  /\ Low(e) # <<>> =>
                 /\ Len(Low(e)) >= 1 /\ Head(Low(e)) = Low(e)[1]
                 /\ Len(Tail(Low(e))) = Len(Low(e)) - 1
                 /\ \A i \in 1 .. Len(Low(e)) - 1 : Tail(Low(e))[i] = Low(e)[i + 1]
           /\ \A c \in Conns : \A p \in {Msg(c), CloseOf(c)} :
                 /\ Len(Append(Low(e), p)) = Len(Low(e)) + 1
                 /\ Append(Low(e), p)[Len(Low(e)) + 1] = p
                 /\ \A i \in 1 .. Len(Low(e)) : Append(Low(e), p)[i] = Low(e)[i]
           /\ Len(Low(e)) \in Nat
<1>1. Low(e) \in Seq(PacketsTo(e, "low"))
  BY SequenceTypes
<1>2. \A c \in Conns : Msg(c) \in PacketsTo(e, "low") /\ CloseOf(c) \in PacketsTo(e, "low")
  BY DEF PacketsTo, KindsTo, Msg, CloseOf
<1>3. ASSUME NEW c \in Conns, NEW p \in {Msg(c), CloseOf(c)}
      PROVE  /\ Len(Append(Low(e), p)) = Len(Low(e)) + 1
             /\ Append(Low(e), p)[Len(Low(e)) + 1] = p
             /\ \A i \in 1 .. Len(Low(e)) : Append(Low(e), p)[i] = Low(e)[i]
  <2>1. p \in PacketsTo(e, "low")
    BY <1>2
  <2>2. QED
    BY <1>1, <2>1, AppendFacts
<1>4. ASSUME Low(e) # <<>>
      PROVE  /\ Len(Low(e)) >= 1 /\ Head(Low(e)) = Low(e)[1]
             /\ Len(Tail(Low(e))) = Len(Low(e)) - 1
             /\ \A i \in 1 .. Len(Low(e)) - 1 : Tail(Low(e))[i] = Low(e)[i + 1]
  BY <1>1, <1>4, TailFacts
<1>5. QED
  BY <1>1, <1>3, <1>4

\* A step takes the head of a low chain, appends to it, or leaves it.
Takes(e, c) == TakeMsg(e, c) \/ TakeClose(e, c) \/ TakeUnknown(e, c)
TakesLow(e) == /\ Low(e) # <<>> /\ Low(e)' = Tail(Low(e)) /\ UNCHANGED app
               /\ \E c \in Conns : Takes(e, c)
AddsMsg(e, c) == /\ Low(e)' = Append(Low(e), Msg(c)) /\ UNCHANGED app
                 /\ app[Other(e)][c] = "open"
AddsClose(e, c) == /\ Low(e)' = Append(Low(e), CloseOf(c)) /\ AppSet(Other(e), c, "closed")
                   /\ app[Other(e)][c] = "open"

LEMMA LowCases ==
    ASSUME Step, NEW e \in Ends
    PROVE  \/ UNCHANGED Low(e) \/ TakesLow(e)
           \/ \E c \in Conns : AddsMsg(e, c) \/ AddsClose(e, c)
<1>1. e = "opener" \/ e = "acceptor"
  BY EndFacts
<1>2. ASSUME NEW d \in Ends, NEW c \in Conns,
             Takes(d, c) \/ SendStep(d, c) \/ CloseStep(d, c)
      PROVE  \/ UNCHANGED Low(e) \/ TakesLow(e) \/ AddsMsg(e, c) \/ AddsClose(e, c)
  <2>1. d = e \/ (e = Other(d) /\ d = Other(e))
    BY DEF Ends, Other
  <2>2. Takes(d, c) => TakeLow(d, c)
    BY DEF Takes, TakeMsg, TakeClose, TakeUnknown
  <2>3. QED
    BY <1>2, <2>1, <2>2 DEF TakeLow, SendStep, CloseStep, TakesLow, AddsMsg, AddsClose
<1>3. ASSUME NEW c \in Conns, NewConnStep(c) \/ OpenedStep(c) \/ GiveUpStep(c)
      PROVE  UNCHANGED Low(e)
  BY <1>1, <1>3 DEF NewConnStep, OpenedStep, GiveUpStep, Places
<1>4. CASE PopStep \/ SetStep \/ AcceptStep \/ SendOkStep \/ TakeNewConn \/ TakeOk
  BY <1>1, <1>4 DEF PopStep, SetStep, AcceptStep, SendOkStep, TakeNewConn, TakeOk, Places
<1>5. QED
  BY <1>2, <1>3, <1>4 DEF Step, Takes

LEMMA LowStep == IInv /\ Step => LowInv'
<1> SUFFICES ASSUME IInv, Step, NEW e \in Ends, NEW i \in 1 .. Len(Low(e)')
             PROVE  /\ app'[Other(e)][Low(e)'[i].id] \in Established
                    /\ Low(e)'[i].kind = "ConnClose" =>
                          /\ app'[Other(e)][Low(e)'[i].id] = "closed"
                          /\ \A j \in i + 1 .. Len(Low(e)') : Low(e)'[j].id # Low(e)'[i].id
  BY DEF LowInv
<1>a. TypeInv /\ LowInv
  BY DEF IInv
<1>b. Other(e) \in Ends
  BY EndFacts
<1> DEFINE s == Low(e)
<1>c. \A n \in 1 .. Len(s) :
         /\ app[Other(e)][s[n].id] \in Established
         /\ s[n].kind = "ConnClose" =>
              /\ app[Other(e)][s[n].id] = "closed"
              /\ \A j \in n + 1 .. Len(s) : s[j].id # s[n].id
  BY <1>a DEF LowInv
<1>d. \A n \in 1 .. Len(s) :
         /\ app'[Other(e)][s[n].id] \in Established
         /\ app[Other(e)][s[n].id] = "closed" => app'[Other(e)][s[n].id] = "closed"
  <2>1. \A n \in 1 .. Len(s) : s[n].id \in Conns
    BY <1>a, IdTypes
  <2>2. QED
    BY <1>b, <1>c, <2>1, EstablishedStays, ClosedStays
<1>e. Len(s) \in Nat /\ i \in 1 .. Len(s')
  BY <1>a, LowFacts
<1> DEFINE G(t) == /\ app'[Other(e)][t[i].id] \in Established
                   /\ t[i].kind = "ConnClose" =>
                        /\ app'[Other(e)][t[i].id] = "closed"
                        /\ \A j \in i + 1 .. Len(t) : t[j].id # t[i].id
<1> SUFFICES G(s')
  OBVIOUS
<1>1. CASE UNCHANGED Low(e)
  BY <1>1, <1>c, <1>d, <1>e
<1>2. CASE TakesLow(e)
  <2>1. Len(s') = Len(s) - 1 /\ \A n \in 1 .. Len(s) - 1 : s'[n] = s[n + 1]
    BY <1>2, <1>a, LowFacts DEF TakesLow
  <2> HIDE DEF s
  <2>2. i + 1 \in 1 .. Len(s) /\ s'[i] = s[i + 1]
    BY <1>e, <2>1
  <2>3. ASSUME s'[i].kind = "ConnClose", NEW j \in i + 1 .. Len(s') PROVE s'[j].id # s'[i].id
    <3>1. j \in 1 .. Len(s) - 1 /\ j + 1 \in i + 1 + 1 .. Len(s)
      BY <1>e, <2>1
    <3>2. s'[j] = s[j + 1]
      BY <2>1, <3>1
    <3>3. QED
      BY <1>c, <2>2, <2>3, <3>1, <3>2
  <2>4. QED
    BY <1>c, <1>d, <2>2, <2>3
<1>3. ASSUME NEW c \in Conns, NEW p \in {Msg(c), CloseOf(c)}, s' = Append(s, p),
             app[Other(e)][c] = "open",
             app'[Other(e)][c] = IF p = CloseOf(c) THEN "closed" ELSE "open"
      PROVE  G(s')
  <2>1. /\ Len(s') = Len(s) + 1 /\ s'[Len(s) + 1] = p
        /\ \A n \in 1 .. Len(s) : s'[n] = s[n]
    BY <1>3, <1>a, LowFacts
  <2>2. /\ p.id = c /\ Msg(c).kind = "NewMsg" /\ CloseOf(c).kind = "ConnClose"
        /\ (p.kind = "ConnClose" <=> p = CloseOf(c))
    BY DEF Msg, CloseOf
  <2> HIDE DEF s
  <2>3. CASE i = Len(s) + 1
    <3>1. \A j \in i + 1 .. Len(s') : FALSE
      BY <1>e, <2>1, <2>3
    <3>2. app'[Other(e)][c] \in Established
      BY <1>3 DEF Established
    <3>3. QED
      BY <1>3, <2>1, <2>2, <2>3, <3>1, <3>2
  <2>4. CASE i \in 1 .. Len(s)
    <3>1. s'[i] = s[i]
      BY <2>1, <2>4
    <3>2. ASSUME s[i].kind = "ConnClose", NEW j \in i + 1 .. Len(s') PROVE s'[j].id # s[i].id
      <4>1. CASE j = Len(s) + 1
        BY <1>3, <1>c, <2>1, <2>2, <2>4, <3>2, <4>1
      <4>2. CASE j # Len(s) + 1
        <5>1. j \in i + 1 .. Len(s) /\ s'[j] = s[j]
          BY <1>e, <2>1, <2>4, <4>2
        <5>2. QED
          BY <1>c, <2>4, <3>2, <5>1
      <4>3. QED
        BY <4>1, <4>2
    <3>3. QED
      BY <1>c, <1>d, <2>4, <3>1, <3>2
  <2>5. QED
    BY <1>e, <2>1, <2>3, <2>4
<1>4. ASSUME NEW c \in Conns, AddsMsg(e, c) \/ AddsClose(e, c) PROVE G(s')
  <2>1. Msg(c) # CloseOf(c)
    BY DEF Msg, CloseOf
  <2>2. CASE AddsMsg(e, c)
    BY <2>1, <2>2, <1>3 DEF AddsMsg
  <2>3. CASE AddsClose(e, c)
    BY <2>1, <2>3, <1>3, <1>b DEF AddsClose, AppSet
  <2>4. QED
    BY <1>4, <2>2, <2>3
<1>5. QED
  BY <1>1, <1>2, <1>4, LowCases

-----------------------------------------------------------------------------
(* Messages and the end of a stream.                                       *)

LEMMA PacketFacts ==
    \A c, d \in Conns :
        /\ Msg(c) # CloseOf(d) /\ (Msg(c) = Msg(d) => c = d) /\ (CloseOf(c) = CloseOf(d) => c = d)
        /\ Msg(c).id = c /\ CloseOf(c).id = c /\ CloseOf(c).kind = "ConnClose"
        /\ Msg(c) \in [kind : {"NewMsg", "ConnClose"}, id : Conns]
        /\ CloseOf(c) \in [kind : {"NewMsg", "ConnClose"}, id : Conns]
BY DEF Msg, CloseOf

\* A packet for a connection that is not in the map: the user closed it.
LEMMA UnknownIsClosed ==
    ASSUME IInv, NEW e \in Ends, NEW c \in Conns, TakeLow(e, c)
    PROVE  /\ app[Other(e)][c] \in Established
           /\ c \notin connMap[e] => app[e][c] = "closed"
           /\ c \in connMap[e] => app[e][c] # "closed"
<1>a. TypeInv /\ LowInv /\ OpenInv /\ MapInv /\ PendingInv
  BY DEF IInv
<1>b. Low(e) # <<>> /\ Head(Low(e)) \in {Msg(c), CloseOf(c)}
  BY DEF TakeLow
<1>1. Head(Low(e)) = Low(e)[1] /\ 1 \in 1 .. Len(Low(e))
  BY <1>a, <1>b, LowFacts
<1>2. Low(e)[1].id = c
  BY <1>b, <1>1, PacketFacts
<1>3. app[Other(e)][c] \in Established
  BY <1>a, <1>1, <1>2 DEF LowInv
<1>4. app[e][c] \in {"none", "open", "closed"} \cup Opening
  BY <1>a DEF TypeInv, RestType
<1>5. CASE e = "acceptor"
  <2>1. app[e][c] # "none"
        /\ (c \in connMap[e] <=> app[e][c] = "open" \/ (apc = "hand" /\ accepted = c))
        /\ app[e][c] \notin Opening
    <3>1. app["opener"][c] \in Established
      BY <1>3, <1>5, EndFacts
    <3>2. ~(apc \in {"set", "hand"} /\ accepted = c)
      BY <1>a, <3>1 DEF PendingInv, AtHand, Pending, Opening, Established
    <3>3. app["acceptor"][c] \in Established
      BY <1>a, <3>1 DEF OpenInv
    <3>4. QED
      BY <1>a, <1>5, <3>3 DEF MapInv, Established, Opening
  <2>2. apc = "hand" /\ accepted = c => FALSE
    BY <1>a, <1>3, <1>5, EndFacts DEF PendingInv, AtHand, Pending, Opening, Established
  <2>3. QED
    BY <1>3, <1>4, <2>1, <2>2
<1>6. CASE e = "opener"
  <2>1. app["acceptor"][c] \in Established
    BY <1>3, <1>6, EndFacts
  <2>2. app[e][c] # "none"
    BY <1>a, <1>6, <2>1 DEF OpenInv, Established
  <2>3. c \in connMap[e] <=> app[e][c] \in Opening \cup {"open"}
    BY <1>a, <1>6 DEF MapInv
  <2>4. QED
    BY <1>3, <1>4, <2>2, <2>3 DEF Opening
<1>7. QED
  BY <1>5, <1>6, EndFacts

\* How many messages of a connection are on the link.
OnLink(e, c) == Count(Low(e), Msg(c))

LEMMA OnLinkFacts ==
    ASSUME TypeInv, NEW e \in Ends, NEW c \in Conns
    PROVE  /\ OnLink(e, c) \in Nat
           /\ \A d \in Conns :
                 /\ Low(e)' = Append(Low(e), Msg(d)) =>
                       OnLink(e, c)' = OnLink(e, c) + (IF c = d THEN 1 ELSE 0)
                 /\ Low(e)' = Append(Low(e), CloseOf(d)) => OnLink(e, c)' = OnLink(e, c)
           /\ Low(e) # <<>> /\ Low(e)' = Tail(Low(e)) =>
                 OnLink(e, c)' = OnLink(e, c) - (IF Head(Low(e)) = Msg(c) THEN 1 ELSE 0)
           /\ Low(e)' = Low(e) => OnLink(e, c)' = OnLink(e, c)
<1>1. Low(e) \in Seq(PacketsTo(e, "low"))
  BY SequenceTypes
<1>2. OnLink(e, c) \in Nat
  BY <1>1, CountType DEF OnLink
<1>3. ASSUME NEW d \in Conns
      PROVE  /\ Low(e)' = Append(Low(e), Msg(d)) =>
                   OnLink(e, c)' = OnLink(e, c) + (IF c = d THEN 1 ELSE 0)
             /\ Low(e)' = Append(Low(e), CloseOf(d)) => OnLink(e, c)' = OnLink(e, c)
  <2>1. /\ Msg(d) \in PacketsTo(e, "low") /\ CloseOf(d) \in PacketsTo(e, "low")
        /\ (Msg(d) = Msg(c) <=> c = d) /\ CloseOf(d) # Msg(c)
    BY DEF PacketsTo, KindsTo, Msg, CloseOf
  <2>2. /\ Count(Append(Low(e), Msg(d)), Msg(c))
             = Count(Low(e), Msg(c)) + (IF Msg(d) = Msg(c) THEN 1 ELSE 0)
        /\ Count(Append(Low(e), CloseOf(d)), Msg(c))
             = Count(Low(e), Msg(c)) + (IF CloseOf(d) = Msg(c) THEN 1 ELSE 0)
    BY <1>1, <2>1, CountAppend
  <2>3. ASSUME Low(e)' = Append(Low(e), Msg(d))
        PROVE  OnLink(e, c)' = OnLink(e, c) + (IF c = d THEN 1 ELSE 0)
    BY <2>1, <2>2, <2>3 DEF OnLink
  <2>4. ASSUME Low(e)' = Append(Low(e), CloseOf(d))
        PROVE  OnLink(e, c)' = OnLink(e, c)
    BY <1>2, <2>1, <2>2, <2>4 DEF OnLink
  <2>5. QED
    BY <2>3, <2>4
<1>4. ASSUME Low(e) # <<>>, Low(e)' = Tail(Low(e))
      PROVE  OnLink(e, c)' = OnLink(e, c) - (IF Head(Low(e)) = Msg(c) THEN 1 ELSE 0)
  <2>1. Count(Tail(Low(e)), Msg(c))
          = Count(Low(e), Msg(c)) - (IF Head(Low(e)) = Msg(c) THEN 1 ELSE 0)
    BY <1>1, <1>4, CountTail
  <2>2. QED
    BY <1>4, <2>1 DEF OnLink
<1>5. ASSUME Low(e)' = Low(e) PROVE OnLink(e, c)' = OnLink(e, c)
  BY <1>5 DEF OnLink
<1>6. QED
  BY <1>2, <1>3, <1>4, <1>5

\* A message that leaves the link is received or dropped.
LEMMA CountStep == IInv /\ Step => CountInv'
<1> SUFFICES ASSUME IInv, Step, NEW e \in Ends, NEW k \in Conns
             PROVE  OnLink(e, k)' + received'[e][k] + dropped'[e][k] = sent'[Other(e)][k]
  BY DEF CountInv, OnLink
<1> USE DEF hvars
<1>a. TypeInv /\ OnLink(e, k) + received[e][k] + dropped[e][k] = sent[Other(e)][k]
  BY DEF IInv, CountInv, OnLink
<1>b. /\ OnLink(e, k) \in Nat /\ received[e][k] \in Nat /\ dropped[e][k] \in Nat
      /\ sent[Other(e)][k] \in Nat
  <2>1. Other(e) \in Ends
    BY EndFacts
  <2>2. QED
    BY <1>a, <2>1, OnLinkFacts, BoundAssumption DEF TypeInv, RestType
<1>c. Other(e) \in Ends /\ Other(e) # e /\ (e = "opener" \/ e = "acceptor")
  BY EndFacts
<1> DEFINE G == OnLink(e, k)' + received'[e][k] + dropped'[e][k] = sent'[Other(e)][k]
<1>1. ASSUME UNCHANGED <<Low(e), hvars>> PROVE G
  <2>1. OnLink(e, k)' = OnLink(e, k)
    BY <1>1 DEF OnLink
  <2>2. QED
    BY <1>1, <1>a, <2>1
<1>2. ASSUME NEW d \in Ends, NEW c \in Conns, TakeLow(d, c),
             TakeMsg(d, c) \/ TakeClose(d, c) \/ TakeUnknown(d, c)
      PROVE  G
  <2>1. CASE d # e
    <3>1. Low(e)' = Low(e)
      BY <1>2, <2>1, EndFacts DEF TakeLow
    <3>2. UNCHANGED <<received[e][k], dropped[e][k], sent>>
      <4>1. CASE TakeMsg(d, c)
        BY <4>1, <1>2, <1>b, <2>1 DEF TakeMsg, TakeLow
      <4>2. CASE TakeClose(d, c)
        BY <4>2, <1>2 DEF TakeClose, TakeLow
      <4>3. CASE TakeUnknown(d, c)
        BY <4>3, <1>2, <1>b, <2>1 DEF TakeUnknown, TakeLow
      <4>4. QED
        BY <1>2, <4>1, <4>2, <4>3
    <3>3. OnLink(e, k)' = OnLink(e, k)
      BY <3>1 DEF OnLink
    <3>4. QED
      BY <1>a, <3>2, <3>3
  <2>2. CASE d = e
    <3>1. /\ OnLink(e, k)' = OnLink(e, k) - (IF Head(Low(e)) = Msg(k) THEN 1 ELSE 0)
          /\ UNCHANGED sent
      BY <1>2, <1>a, <2>2, OnLinkFacts DEF TakeLow
    <3>2. /\ Head(Low(e)) = Msg(k) => Head(Low(e)) = Msg(c) /\ k = c
          /\ k = c /\ Head(Low(e)) = Msg(c) => Head(Low(e)) = Msg(k)
          /\ Head(Low(e)) = CloseOf(c) => Head(Low(e)) # Msg(k) /\ Head(Low(e)) # Msg(c)
      BY <1>2, <2>2, PacketFacts DEF TakeLow
    <3>3. CASE TakeMsg(d, c)
      <4>1. /\ received'[e][k] = received[e][k] + IF Head(Low(e)) = Msg(k) THEN 1 ELSE 0
            /\ dropped'[e][k] = dropped[e][k]
        BY <2>2, <3>2, <3>3 DEF TakeMsg
      <4>2. QED
        BY <1>a, <1>b, <3>1, <4>1
    <3>4. CASE TakeClose(d, c)
      <4>1. Head(Low(e)) # Msg(k) /\ UNCHANGED <<received, dropped>>
        BY <2>2, <3>2, <3>4 DEF TakeClose
      <4>2. QED
        BY <1>a, <1>b, <3>1, <4>1
    <3>5. CASE TakeUnknown(d, c)
      <4>1. /\ dropped'[e][k] = dropped[e][k] + IF Head(Low(e)) = Msg(k) THEN 1 ELSE 0
            /\ received'[e][k] = received[e][k]
        BY <2>2, <3>2, <3>5 DEF TakeUnknown
      <4>2. QED
        BY <1>a, <1>b, <3>1, <4>1
    <3>6. QED
      BY <1>2, <3>3, <3>4, <3>5
  <2>3. QED
    BY <2>1, <2>2
<1>3. ASSUME NEW d \in Ends, NEW c \in Conns, SendStep(d, c) PROVE G
  <2>1. UNCHANGED <<received, dropped>>
    BY <1>3 DEF SendStep
  <2>2. CASE d = e
    <3>1. Low(e)' = Low(e) /\ sent'[Other(e)][k] = sent[Other(e)][k]
      BY <1>3, <1>b, <1>c, <2>2 DEF SendStep
    <3>2. OnLink(e, k)' = OnLink(e, k)
      BY <3>1 DEF OnLink
    <3>3. QED
      BY <1>a, <2>1, <3>1, <3>2
  <2>3. CASE d = Other(e)
    <3>1. Low(e)' = Append(Low(e), Msg(c))
      BY <1>3, <2>3, EndFacts DEF SendStep
    <3>2. sent'[Other(e)][k] = sent[Other(e)][k] + IF k = c THEN 1 ELSE 0
      BY <1>3, <1>c, <2>3 DEF SendStep
    <3>3. OnLink(e, k)' = OnLink(e, k) + (IF k = c THEN 1 ELSE 0)
      BY <1>a, <3>1, OnLinkFacts
    <3>4. QED
      BY <1>a, <1>b, <2>1, <3>2, <3>3
  <2>4. QED
    BY <2>2, <2>3 DEF Ends, Other
<1>4. ASSUME NEW d \in Ends, NEW c \in Conns, CloseStep(d, c) PROVE G
  <2>1. Low(e)' = Low(e) \/ Low(e)' = Append(Low(e), CloseOf(c))
    <3>1. d = e \/ Other(d) = e
      BY DEF Ends, Other
    <3>2. QED
      BY <1>4, <3>1 DEF CloseStep
  <2>2. OnLink(e, k)' = OnLink(e, k)
    BY <1>a, <2>1, OnLinkFacts
  <2>3. UNCHANGED hvars
    BY <1>4 DEF CloseStep
  <2>4. QED
    BY <1>a, <2>2, <2>3
<1>5. ASSUME NEW c \in Conns, NewConnStep(c) \/ OpenedStep(c) \/ GiveUpStep(c) PROVE G
  BY <1>1, <1>5, <1>c DEF NewConnStep, OpenedStep, GiveUpStep, Places
<1>6. CASE PopStep \/ SetStep \/ AcceptStep \/ SendOkStep \/ TakeNewConn \/ TakeOk
  BY <1>1, <1>6, <1>c
     DEF PopStep, SetStep, AcceptStep, SendOkStep, TakeNewConn, TakeOk, Places
<1>7. QED
  BY <1>2, <1>3, <1>4, <1>5, <1>6 DEF Step, TakeMsg, TakeClose, TakeUnknown

\* A message that meets no connection is one of a connection that was closed.
LEMMA DroppedStep == IInv /\ Step => DroppedOnlyAfterClose'
<1> SUFFICES ASSUME IInv, Step, NEW e \in Ends, NEW k \in Conns, dropped'[e][k] > 0
             PROVE  app'[e][k] = "closed"
  BY DEF DroppedOnlyAfterClose
<1> USE DEF hvars
<1>a. /\ TypeInv /\ dropped[e][k] \in Nat
      /\ dropped[e][k] > 0 => app[e][k] = "closed"
  BY DEF IInv, DroppedOnlyAfterClose, TypeInv, RestType
<1>1. CASE dropped[e][k] > 0
  BY <1>1, <1>a, ClosedStays
<1>2. ASSUME dropped'[e][k] # dropped[e][k] PROVE app'[e][k] = "closed"
  <2>1. PICK d \in Ends, c \in Conns : TakeUnknown(d, c)
    BY <1>2 DEF Step, NewConnStep, OpenedStep, GiveUpStep, PopStep, SetStep, AcceptStep,
                SendOkStep, TakeNewConn, TakeOk, TakeMsg, TakeClose, SendStep, CloseStep
  <2>2. d = e /\ c = k
    BY <2>1, <1>2, <1>a DEF TakeUnknown
  <2>3. QED
    BY <2>1, <2>2, UnknownIsClosed, ClosedStays DEF TakeUnknown
<1>3. QED
  BY <1>1, <1>2, <1>a

\* What was received stays received, and an end that was seen stays seen; only an
\* open connection sends.
LEMMA HistoryFacts ==
    ASSUME IInv, Step, NEW e \in Ends, NEW k \in Conns
    PROVE  /\ received[e][k] \in Nat /\ received'[e][k] \in Int
           /\ received'[e][k] >= received[e][k]
           /\ closingFlag[e][k] => closingFlag'[e][k]
           /\ sent'[e][k] = sent[e][k] \/ app[e][k] = "open"
           /\ closingFlag'[e][k] = closingFlag[e][k] \/ TakeClose(e, k)
<1> USE DEF hvars
<1>a. /\ received[e][k] \in Nat /\ sent[e][k] \in Nat
      /\ closingFlag[e][k] \in BOOLEAN
  BY BoundAssumption DEF IInv, TypeInv, RestType
<1>1. received'[e][k] \in Int /\ received'[e][k] >= received[e][k]
  <2>1. ASSUME NEW d \in Ends, NEW c \in Conns, TakeMsg(d, c)
        PROVE  received'[e][k] \in Int /\ received'[e][k] >= received[e][k]
    BY <2>1, <1>a DEF TakeMsg
  <2>2. CASE UNCHANGED received
    BY <2>2, <1>a
  <2>3. QED
    BY <2>1, <2>2
       DEF Step, NewConnStep, OpenedStep, GiveUpStep, PopStep, SetStep, AcceptStep, SendOkStep,
           TakeNewConn, TakeOk, TakeClose, TakeUnknown, SendStep, CloseStep
<1>2. sent'[e][k] = sent[e][k] \/ app[e][k] = "open"
  <2>1. ASSUME NEW d \in Ends, NEW c \in Conns, SendStep(d, c)
        PROVE  sent'[e][k] = sent[e][k] \/ app[e][k] = "open"
    BY <2>1, <1>a DEF SendStep
  <2>2. QED
    BY <2>1
       DEF Step, NewConnStep, OpenedStep, GiveUpStep, PopStep, SetStep, AcceptStep, SendOkStep,
           TakeNewConn, TakeOk, TakeMsg, TakeClose, TakeUnknown, TakeLow, CloseStep
<1>3. /\ closingFlag[e][k] => closingFlag'[e][k]
      /\ closingFlag'[e][k] = closingFlag[e][k] \/ TakeClose(e, k)
  <2>1. ASSUME NEW d \in Ends, NEW c \in Conns, TakeClose(d, c)
        PROVE  /\ closingFlag[e][k] => closingFlag'[e][k]
               /\ closingFlag'[e][k] = closingFlag[e][k] \/ TakeClose(e, k)
    <3>1. CASE d = e /\ c = k
      BY <2>1, <3>1 DEF TakeClose
    <3>2. CASE ~(d = e /\ c = k)
      BY <2>1, <3>2 DEF TakeClose
    <3>3. QED
      BY <3>1, <3>2
  <2>2. CASE UNCHANGED closingFlag
    BY <2>2
  <2>3. QED
    BY <2>1, <2>2
       DEF Step, NewConnStep, OpenedStep, GiveUpStep, PopStep, SetStep, AcceptStep, SendOkStep,
           TakeNewConn, TakeOk, TakeMsg, TakeUnknown, SendStep, CloseStep
<1>4. QED
  BY <1>a, <1>1, <1>2, <1>3

\* The close is the last packet of its connection: all messages came before it.
LEMMA NothingBehindClose ==
    ASSUME IInv, NEW e \in Ends, NEW k \in Conns, TakeClose(e, k)
    PROVE  app[Other(e)][k] = "closed" /\ received[e][k] = sent[Other(e)][k]
<1>a. TypeInv /\ LowInv /\ CountInv /\ DroppedOnlyAfterClose
  BY DEF IInv
<1>b. TakeLow(e, k) /\ Low(e) # <<>> /\ Head(Low(e)) = CloseOf(k) /\ k \in connMap[e]
  BY DEF TakeClose, TakeLow
<1>1. Low(e)[1] = CloseOf(k) /\ Len(Low(e)) \in Nat /\ 1 \in 1 .. Len(Low(e))
  BY <1>a, <1>b, LowFacts
<1>2. /\ app[Other(e)][k] = "closed"
      /\ \A j \in 1 + 1 .. Len(Low(e)) : Low(e)[j].id # k
  BY <1>a, <1>1, PacketFacts DEF LowInv
<1>3. \A i \in 1 .. Len(Low(e)) : Low(e)[i] # Msg(k)
  <2> SUFFICES ASSUME NEW i \in 1 .. Len(Low(e)) PROVE Low(e)[i] # Msg(k)
    OBVIOUS
  <2>1. CASE i = 1
    BY <1>1, <2>1, PacketFacts
  <2>2. CASE i # 1
    <3>1. i \in 1 + 1 .. Len(Low(e))
      BY <1>1, <2>2
    <3>2. QED
      BY <1>2, <3>1, PacketFacts
  <2>3. QED
    BY <2>1, <2>2
<1>4. Count(Low(e), Msg(k)) = 0
  BY <1>3, CountNone
<1>5. dropped[e][k] = 0
  <2>1. app[e][k] # "closed"
    BY <1>b, UnknownIsClosed
  <2>2. dropped[e][k] \in Nat
    BY <1>a DEF TypeInv, RestType
  <2>3. QED
    BY <1>a, <2>1, <2>2 DEF DroppedOnlyAfterClose
<1>6. received[e][k] \in Nat /\ 0 + received[e][k] + 0 = sent[Other(e)][k]
  BY <1>a, <1>4, <1>5 DEF CountInv, TypeInv, RestType
<1>7. QED
  BY <1>2, <1>6

\* Only a close closes.
LEMMA OnlyClosed ==
    ASSUME Step, NEW d \in Ends, NEW k \in Conns, app[d][k] # "closed", app'[d][k] = "closed"
    PROVE  CloseStep(d, k)
<1>1. ~ \E c \in Conns : NewConnStep(c) \/ OpenedStep(c) \/ GiveUpStep(c)
  BY ZenonT(40), EndFacts DEF NewConnStep, OpenedStep, GiveUpStep, AppSet
<1>2. ~AcceptStep
  BY DEF AcceptStep, AppSet
<1>3. PICK e \in Ends, c \in Conns : CloseStep(e, c)
  BY <1>1, <1>2
     DEF Step, PopStep, SetStep, SendOkStep, TakeNewConn, TakeOk, TakeMsg, TakeClose,
         TakeUnknown, TakeLow, SendStep
<1>4. QED
  BY <1>3 DEF CloseStep, AppSet

LEMMA CloseStepInv == IInv /\ Step /\ TypeInv' => CloseInv'
<1> SUFFICES ASSUME IInv, Step, TypeInv', NEW e \in Ends, NEW k \in Conns
             PROVE  /\ closingFlag'[e][k] => /\ app'[Other(e)][k] = "closed"
                                             /\ received'[e][k] = sent'[Other(e)][k]
                    /\ app'[Other(e)][k] = "closed" =>
                          \/ closingFlag'[e][k] \/ app'[e][k] = "closed"
                          \/ \E i \in 1 .. Len(Low(e)') : Low(e)'[i] = CloseOf(k)
  BY DEF CloseInv
<1>a. TypeInv /\ CloseInv
  BY DEF IInv
<1>b. Other(e) \in Ends
  BY EndFacts
<1>1. ASSUME closingFlag'[e][k]
      PROVE  app'[Other(e)][k] = "closed" /\ received'[e][k] = sent'[Other(e)][k]
  <2>1. app[Other(e)][k] = "closed" /\ received[e][k] = sent[Other(e)][k]
    <3>1. CASE closingFlag[e][k]
      BY <1>a, <3>1 DEF CloseInv
    <3>2. CASE ~closingFlag[e][k]
      BY <1>1, <3>2, HistoryFacts, NothingBehindClose
    <3>3. QED
      BY <3>1, <3>2
  <2>2. app'[Other(e)][k] = "closed" /\ sent'[Other(e)][k] = sent[Other(e)][k]
    BY <1>b, <2>1, ClosedStays, HistoryFacts
  <2>3. /\ OnLink(e, k)' \in Nat /\ dropped'[e][k] \in Nat
        /\ OnLink(e, k)' + received'[e][k] + dropped'[e][k] = sent'[Other(e)][k]
    <3>1. CountInv'
      BY CountStep
    <3>2. Low(e)' \in Seq(PacketsTo(e, "low"))
      BY EndFacts DEF TypeInv, LinkType, Low, PacketsTo, KindsTo
    <3>3. OnLink(e, k)' \in Nat
      BY <3>2, CountType DEF OnLink
    <3>4. QED
      BY <3>1, <3>3 DEF CountInv, OnLink, TypeInv, RestType
  <2>4. received[e][k] \in Nat /\ received'[e][k] \in Int /\ received'[e][k] >= received[e][k]
    BY HistoryFacts
  <2>5. QED
    BY <2>1, <2>2, <2>3, <2>4
<1>2. ASSUME app'[Other(e)][k] = "closed"
      PROVE  \/ closingFlag'[e][k] \/ app'[e][k] = "closed"
             \/ \E i \in 1 .. Len(Low(e)') : Low(e)'[i] = CloseOf(k)
  <2> DEFINE G == \/ closingFlag'[e][k] \/ app'[e][k] = "closed"
                  \/ \E i \in 1 .. Len(Low(e)') : Low(e)'[i] = CloseOf(k)
  <2>a. Len(Low(e)) \in Nat
    BY <1>a, LowFacts
  <2>1. ASSUME NEW i \in 1 .. Len(Low(e)), Low(e)[i] = CloseOf(k) PROVE G
    <3>1. CASE UNCHANGED Low(e)
      BY <2>1, <3>1
    <3>2. ASSUME NEW c \in Conns, NEW p \in {Msg(c), CloseOf(c)}, Low(e)' = Append(Low(e), p)
          PROVE  G
      <4>1. i \in 1 .. Len(Low(e)') /\ Low(e)'[i] = Low(e)[i]
        BY <1>a, <2>a, <3>2, LowFacts
      <4>2. QED
        BY <2>1, <4>1
    <3>3. CASE TakesLow(e)
      <4>1. /\ Head(Low(e)) = Low(e)[1] /\ Len(Low(e)') = Len(Low(e)) - 1
            /\ \A n \in 1 .. Len(Low(e)) - 1 : Low(e)'[n] = Low(e)[n + 1]
        BY <1>a, <3>3, LowFacts DEF TakesLow
      <4>2. CASE i = 1
        <5>1. PICK c \in Conns : TakeMsg(e, c) \/ TakeClose(e, c) \/ TakeUnknown(e, c)
          BY <3>3 DEF TakesLow, Takes
        <5>2. TakeLow(e, c) /\ Head(Low(e)) = CloseOf(k)
          BY <2>1, <4>1, <4>2, <5>1 DEF TakeMsg, TakeClose, TakeUnknown
        <5>3. c = k /\ ~TakeMsg(e, c)
          BY <5>2, PacketFacts DEF TakeLow, TakeMsg
        <5>4. CASE TakeClose(e, k)
          BY <5>4 DEF TakeClose
        <5>5. CASE TakeUnknown(e, k)
          BY <5>2, <5>3, <5>5, UnknownIsClosed, ClosedStays DEF TakeUnknown
        <5>6. QED
          BY <5>1, <5>3, <5>4, <5>5
      <4>3. CASE i # 1
        <5>1. i - 1 \in 1 .. Len(Low(e)') /\ Low(e)'[i - 1] = Low(e)[i]
          BY <2>a, <4>1, <4>3
        <5>2. QED
          BY <2>1, <5>1
      <4>4. QED
        BY <4>2, <4>3
    <3>4. QED
      BY <3>1, <3>2, <3>3, LowCases DEF AddsMsg, AddsClose
  <2>2. CASE app[Other(e)][k] = "closed"
    <3>1. CASE closingFlag[e][k]
      BY <3>1, HistoryFacts
    <3>2. CASE app[e][k] = "closed"
      BY <3>2, ClosedStays
    <3>3. QED
      BY <1>a, <2>1, <2>2, <3>1, <3>2 DEF CloseInv
  <2>3. CASE app[Other(e)][k] # "closed"
    <3>1. CloseStep(Other(e), k)
      BY <1>2, <1>b, <2>3, OnlyClosed
    <3>2. Low(e)' = Append(Low(e), CloseOf(k))
      BY <3>1, EndFacts DEF CloseStep
    <3>3. Len(Low(e)') = Len(Low(e)) + 1 /\ Low(e)'[Len(Low(e)) + 1] = CloseOf(k)
      BY <1>a, <3>2, LowFacts
    <3>4. Len(Low(e)) + 1 \in 1 .. Len(Low(e)')
      BY <2>a, <3>3
    <3>5. QED
      BY <3>3, <3>4
  <2>4. QED
    BY <2>2, <2>3
<1>3. QED
  BY <1>1, <1>2

-----------------------------------------------------------------------------
(* The invariant and what follows from it.                                 *)

LEMMA InitInvariant == Init => IInv
<1> SUFFICES ASSUME Init PROVE IInv
  OBVIOUS
<1> USE BoundAssumption, EndFacts
<1>1. /\ \A e \in Ends, ch \in Chains : link[e][ch] = <<>>
      /\ \A e \in Ends, c \in Conns :
            /\ app[e][c] = "none" /\ closingFlag[e][c] = FALSE
            /\ sent[e][c] = 0 /\ received[e][c] = 0 /\ dropped[e][c] = 0
      /\ \A e \in Ends : connMap[e] = {}
      /\ ok = NoConn /\ newConnQueue = <<>> /\ apc = "pop" /\ accepted = NoConn
  BY DEF Init
<1>2. TypeInv
  <2>1. \A S : <<>> \in Seq(S)
    OBVIOUS
  <2>2. LinkType
    BY <1>1, <2>1 DEF Init, LinkType
  <2>3. RestType
    BY <1>1, <2>1 DEF Init, RestType, Opening
  <2>4. QED
    BY <2>2, <2>3 DEF TypeInv
<1>3. ToAcceptor = <<>> /\ ToOpener = <<>> /\ \A e \in Ends : Low(e) = <<>>
  BY <1>1 DEF ToAcceptor, ToOpener, Low
<1>4. OnceInv /\ PendingInv /\ OpenInv /\ WaitInv /\ LowInv
  BY <1>1, <1>3 DEF OnceInv, PendingInv, OpenInv, WaitInv, LowInv, AtHand, Established
<1>5. MapInv
  BY <1>1 DEF MapInv, Opening
<1>6. CountInv
  <2>1. \A e \in Ends, c \in Conns : Count(Low(e), Msg(c)) = 0
    BY <1>3, CountNone
  <2>2. QED
    BY <1>1, <2>1 DEF CountInv
<1>7. CloseInv /\ DroppedOnlyAfterClose
  BY <1>1 DEF CloseInv, DroppedOnlyAfterClose
<1>8. QED
  BY <1>2, <1>4, <1>5, <1>6, <1>7 DEF IInv

LEMMA NextInvariant == IInv /\ [Next]_vars => IInv'
<1> SUFFICES ASSUME IInv, [Next]_vars PROVE IInv'
  OBVIOUS
<1>1. CASE Next
  <2>1. Step /\ TypeInv'
    BY <1>1, NextSteps DEF IInv
  <2>2. QED
    BY <2>1, OnceStep, PendingStep, OpenStep, WaitStep, MapStep, LowStep, CountStep,
       CloseStepInv, DroppedStep DEF IInv
<1>2. CASE UNCHANGED vars
  <2> USE <1>2 DEF vars, avars, hvars
  <2>1. UNCHANGED Places
    BY DEF Places, ToAcceptor, ToOpener, Low
  <2>2. TypeInv'
    BY DEF IInv, TypeInv, LinkType, RestType
  <2>3. OnceInv' /\ PendingInv'
    BY <2>1 DEF IInv, OnceInv, PendingInv, AtHand, Pending, Places
  <2>4. OpenInv' /\ WaitInv' /\ MapInv'
    BY <2>1 DEF IInv, OpenInv, WaitInv, MapInv, Places
  <2>5. \A e \in Ends : Low(e)' = Low(e)
    BY DEF Low
  <2>6. LowInv' /\ CountInv'
    BY <2>5 DEF IInv, LowInv, CountInv
  <2>7. CloseInv' /\ DroppedOnlyAfterClose'
    BY <2>5 DEF IInv, CloseInv, DroppedOnlyAfterClose
  <2>8. QED
    BY <2>2, <2>3, <2>4, <2>6, <2>7 DEF IInv
<1>3. QED
  BY <1>1, <1>2

\* The inductive invariant holds in every reachable state.
THEOREM Invariant == Spec => []IInv
<1>1. Init => IInv
  BY InitInvariant
<1>2. IInv /\ [Next]_vars => IInv'
  BY NextInvariant
<1>3. QED
  BY <1>1, <1>2, PTL DEF Spec

LEMMA InvariantIsSound == IInv => SessionSound
<1> SUFFICES ASSUME IInv PROVE SessionSound
  OBVIOUS
<1>1. TypeOK
  <2>1. ASSUME NEW e \in Ends, NEW c \in Conns
        PROVE  sent[e][c] \in 0 .. MaxMsgs /\ received[e][c] + dropped[e][c] \in 0 .. MaxMsgs
    <3>1. Low(e) \in Seq(PacketsTo(e, "low")) /\ Other(e) \in Ends
      BY EndFacts, SequenceTypes DEF IInv
    <3>2. Count(Low(e), Msg(c)) \in Nat
      BY <3>1, CountType
    <3>3. /\ sent[e][c] \in 0 .. MaxMsgs /\ sent[Other(e)][c] \in 0 .. MaxMsgs
          /\ received[e][c] \in Nat /\ dropped[e][c] \in Nat
      BY <3>1 DEF IInv, TypeInv, RestType
    <3>4. Count(Low(e), Msg(c)) + received[e][c] + dropped[e][c] = sent[Other(e)][c]
      BY DEF IInv, CountInv
    <3>5. QED
      BY <3>2, <3>3, <3>4, BoundAssumption
  <2>2. QED
    BY <2>1 DEF IInv, TypeInv, LinkType, RestType, TypeOK, Opening
<1>2. OpenedIsAccepted
  BY DEF IInv, OpenInv, OpenedIsAccepted, Established
<1>3. CloseComesLast
  BY DEF IInv, CloseInv, CloseComesLast
<1>4. QED
  BY <1>1, <1>2, <1>3 DEF IInv, SessionSound

LEMMA InvariantIsAgreement == IInv => EndsAgree
<1> SUFFICES ASSUME IInv, Quiet, ~TimedOut, NEW c \in Conns, NEW e \in Ends
             PROVE  /\ app["opener"][c] = app["acceptor"][c]
                    /\ c \in connMap[e] <=> app[e][c] = "open"
  BY DEF EndsAgree
<1>a. /\ ToAcceptor = <<>> /\ ToOpener = <<>> /\ \A d \in Ends : Low(d) = <<>>
      /\ ok = NoConn /\ apc = "pop" /\ newConnQueue = <<>>
      /\ \A d \in Ends : closingFlag[d][c] => app[d][c] # "open"
      /\ app["opener"][c] # "failed" /\ c # NoConn
  BY EndFacts, BoundAssumption
     DEF Quiet, TimedOut, ToAcceptor, ToOpener, Low, NoConn, Conns
<1>b. /\ \A d \in Ends : app[d][c] \in {"none", "waiting", "failed", "open", "closed"}
      /\ app["acceptor"][c] \notin {"waiting", "failed"}
  BY DEF IInv, TypeInv, RestType, Opening
\* Nothing is on a way, so nobody waits.
<1>1. app["opener"][c] # "waiting"
  BY <1>a DEF IInv, WaitInv
\* A close that is neither on its way nor known was met by a close.
<1>2. \A d \in Ends : app[Other(d)][c] = "closed" /\ app[d][c] = "open" => FALSE
  BY <1>a DEF IInv, CloseInv
<1>3. /\ app["opener"][c] \in {"open", "closed"} => app["acceptor"][c] \in {"open", "closed"}
      /\ app["opener"][c] = "none" => app["acceptor"][c] = "none"
  BY DEF IInv, OpenInv, Established
<1>4. app["opener"][c] = app["acceptor"][c]
  BY <1>a, <1>b, <1>1, <1>2, <1>3, EndFacts
<1>5. c \in connMap[e] <=> app[e][c] = "open"
  <2>1. CASE e = "opener"
    BY <1>a, <1>1, <2>1 DEF IInv, MapInv, Opening
  <2>2. CASE e = "acceptor"
    BY <1>a, <2>2 DEF IInv, MapInv
  <2>3. QED
    BY <2>1, <2>2, EndFacts
<1>6. QED
  BY <1>4, <1>5

\* What an end has opened, received and dropped is sound at any moment: NewConn
\* returns only what Accept has returned, a message is dropped only for a closed
\* connection, and the end of a stream comes behind all its messages.
THEOREM Sound == Spec => []SessionSound
<1>1. IInv => SessionSound
  BY InvariantIsSound
<1>2. QED
  BY Invariant, <1>1, PTL

\* When nothing is on its way and nobody has timed out, the two ends agree on every
\* connection, and connMap holds the open ones and nothing else.
THEOREM Agreement == Spec => []EndsAgree
<1>1. IInv => EndsAgree
  BY InvariantIsAgreement
<1>2. QED
  BY Invariant, <1>1, PTL

=============================================================================
