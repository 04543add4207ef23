---------------------------- MODULE Bridge_proofs ----------------------------
(***************************************************************************)
(* For any number of sessions and any limit of retries: the types of the   *)
(* bridge, and that the signal of the registered session is watched.       *)
(*                                                                         *)
(* retryTime stays within its limit because ping, which alone raises it,   *)
(* removes the entry before it looks at it again, and what others put in   *)
(* its place starts from zero.                                             *)
(***************************************************************************)
EXTENDS Bridge, TLAPS

\* An entry that has used up its retries is about to be removed by ping.
RetryInv ==
    client # NoEntry => client.retryTime < MaxRetry \/ del[Ping] \in {"load", "delete"}

\* A goroutine in typeDeal that holds the registered entry.
HoldInv ==
    \A s \in Sessions : main[s] = "replace" \/ chan[s] = "replace" => client # NoEntry

\* A session that was not started is not being registered.
StartInv == \A s \in Sessions : life[s] = "none" => main[s] = "none"

EntryInv == TypeOK /\ RetryInv /\ SignalIsWatched
IInv == EntryInv /\ HoldInv /\ StartInv

-----------------------------------------------------------------------------
(* Entries.                                                                *)

LEMMA EntryFields ==
    \A e \in Entry : /\ e.signal \in Sessions \cup {NoSession}
                     /\ e.tunnel \in Sessions \cup {NoSession}
                     /\ e.retryTime \in 0 .. MaxRetry
BY DEF Entry

LEMMA NewClients ==
    /\ \A s \in Sessions \cup {NoSession}, t \in Sessions \cup {NoSession} :
          /\ NewClient(t, s) \in Entry /\ NewClient(t, s) # NoEntry
          /\ NewClient(t, s).retryTime = 0 /\ NewClient(t, s).signal = s
BY RetryAssumption, EntryAssumption DEF NewClient, Entry

LEMMA EntryChanges ==
    ASSUME NEW e \in Entry
    PROVE  /\ \A s \in Sessions : [e EXCEPT !.signal = s] \in Entry
           /\ \A s \in Sessions : [e EXCEPT !.signal = s].signal = s
           /\ \A s \in Sessions : [e EXCEPT !.tunnel = s] \in Entry
           /\ \A n \in 0 .. MaxRetry : [e EXCEPT !.retryTime = n] \in Entry
BY DEF Entry

\* An entry that is still registered keeps its retries when a part is replaced.
LEMMA RetriesKept ==
    ASSUME NEW e \in Entry, NEW s \in Sessions
    PROVE  /\ [e EXCEPT !.signal = s].retryTime = e.retryTime
           /\ [e EXCEPT !.tunnel = s].retryTime = e.retryTime
           /\ [e EXCEPT !.tunnel = s].signal = e.signal
BY DEF Entry

-----------------------------------------------------------------------------
(* Types.                                                                  *)

LEMMA InitInvariant == Init => IInv
<1> SUFFICES ASSUME Init PROVE IInv
  OBVIOUS
<1>1. client \in Entry \cup {NoEntry}
  BY NewClients DEF Init
<1>2. TypeOK
  BY <1>1 DEF Init, TypeOK
<1>3. RetryInv
  BY RetryAssumption DEF Init, RetryInv, NewClient
<1>4. SignalIsWatched
  BY NewClients, SessionAssumption DEF Init, SignalIsWatched, Registered
<1>5. HoldInv /\ StartInv
  BY DEF Init, HoldInv, StartInv
<1>6. QED
  BY <1>2, <1>3, <1>4, <1>5 DEF IInv, EntryInv

LEMMA StepEntry == IInv /\ [Next]_vars => EntryInv'
<1> SUFFICES ASSUME IInv, [Next]_vars PROVE EntryInv'
  OBVIOUS
<1> USE DEF servers, clients
<1>0. TypeOK /\ HoldInv /\ StartInv /\ RetryInv /\ SignalIsWatched
  BY DEF IInv, EntryInv
<1>a. /\ \A s \in Sessions : s \in Deleters /\ s # Ping
      /\ Ping \in Deleters
  BY SessionAssumption DEF Deleters
<1>b. client \in Entry \/ client = NoEntry
  BY <1>0 DEF TypeOK
\* Steps that leave the entry and those who watch it alone.
<1>c. ASSUME TypeOK', UNCHANGED <<client, del>>,
             \A s \in Sessions : main[s] = "health" => main'[s] = "health"
      PROVE  EntryInv'
  BY <1>0, <1>c DEF EntryInv, RetryInv, SignalIsWatched, Registered
<1>1. ASSUME NEW s \in Sessions, Start(s) PROVE EntryInv'
  <2>1. TypeOK'
    BY <1>0, <1>1 DEF Start, TypeOK
  <2>2. /\ UNCHANGED <<client, del>>
        /\ \A r \in Sessions : main[r] = "health" => main'[r] = "health"
    BY <1>0, <1>1 DEF Start, StartInv, TypeOK
  <2>3. QED
    BY <1>c, <2>1, <2>2
<1>2. ASSUME NEW s \in Sessions, ClientStep(s) \/ Break(s) PROVE EntryInv'
  <2>1. TypeOK'
    BY <1>0, <1>2
    DEF ClientStep, DialTunnel, AssignTunnel, HandleMain, TunnelLost, Close, Break, TypeOK
  <2>2. UNCHANGED <<client, del, main>>
    BY <1>2
    DEF ClientStep, DialTunnel, AssignTunnel, HandleMain, TunnelLost, Close, Break
  <2>3. QED
    BY <1>c, <2>1, <2>2
<1>3. ASSUME NEW s \in Sessions, RegisterMain(s) PROVE EntryInv'
  <2>1. CASE client = NoEntry
    <3>1. /\ client' = NewClient(NoSession, s) /\ main' = [main EXCEPT ![s] = "health"]
          /\ UNCHANGED <<chan, del, signal, tunnel, life, newChan>>
      BY <1>3, <2>1 DEF RegisterMain
    <3>2. /\ client' \in Entry /\ client'.retryTime = 0 /\ client'.signal = s
      BY <3>1, NewClients
    <3>3. TypeOK'
      BY <1>0, <3>1, <3>2 DEF TypeOK
    <3>4. main'[s] = "health"
      BY <1>0, <3>1 DEF TypeOK
    <3>5. QED
      BY <3>2, <3>3, <3>4, RetryAssumption DEF EntryInv, RetryInv, SignalIsWatched, Registered
  <2>2. CASE client # NoEntry
    <3>1. TypeOK'
      BY <1>0, <1>3, <2>2 DEF RegisterMain, TypeOK
    <3>2. /\ UNCHANGED <<client, del>>
          /\ \A r \in Sessions : main[r] = "health" => main'[r] = "health"
      BY <1>0, <1>3, <2>2 DEF RegisterMain, TypeOK
    <3>3. QED
      BY <1>c, <3>1, <3>2
  <2>3. QED
    BY <2>1, <2>2
<1>4. ASSUME NEW s \in Sessions, ReplaceSignal(s) PROVE EntryInv'
  <2>1. CASE main[s] = "replace" /\ client # NoEntry
    <3>1. /\ client' = [client EXCEPT !.signal = s] /\ main' = [main EXCEPT ![s] = "health"]
          /\ UNCHANGED <<chan, del, signal, tunnel, life, newChan>>
      BY <1>4, <2>1 DEF ReplaceSignal
    <3>2. /\ client' \in Entry /\ client'.retryTime = client.retryTime /\ client'.signal = s
      BY <1>b, <2>1, <3>1, EntryChanges, RetriesKept
    <3>3. TypeOK'
      BY <1>0, <3>1, <3>2 DEF TypeOK
    <3>4. main'[s] = "health"
      BY <1>0, <3>1 DEF TypeOK
    <3>5. QED
      BY <1>0, <2>1, <3>1, <3>2, <3>3, <3>4 DEF EntryInv, RetryInv, SignalIsWatched, Registered
  <2>2. CASE main[s] = "detached"
    <3>1. TypeOK'
      BY <1>0, <1>4, <2>2 DEF ReplaceSignal, TypeOK
    <3>2. /\ UNCHANGED <<client, del>>
          /\ \A r \in Sessions : main[r] = "health" => main'[r] = "health"
      BY <1>0, <1>4, <2>2 DEF ReplaceSignal, TypeOK
    <3>3. QED
      BY <1>c, <3>1, <3>2
  <2>3. QED
    BY <1>0, <1>4, <2>1, <2>2 DEF ReplaceSignal, HoldInv
<1>5. ASSUME NEW s \in Sessions, WatchSignal(s) PROVE EntryInv'
  <2>1. TypeOK'
    BY <1>0, <1>5 DEF WatchSignal, TypeOK
  <2>2. RetryInv'
    BY <1>0, <1>5, <1>a DEF WatchSignal, RetryInv, TypeOK
  <2>3. SignalIsWatched'
    BY <1>0, <1>5, <1>a DEF WatchSignal, SignalIsWatched, Registered, TypeOK
  <2>4. QED
    BY <2>1, <2>2, <2>3 DEF EntryInv
<1>6. ASSUME NEW s \in Sessions, RegisterChan(s) PROVE EntryInv'
  <2>1. CASE client = NoEntry
    <3>1. /\ client' = NewClient(s, NoSession) /\ chan' = [chan EXCEPT ![s] = "done"]
          /\ UNCHANGED <<main, del, signal, tunnel, life, newChan>>
      BY <1>6, <2>1 DEF RegisterChan
    <3>2. client' \in Entry /\ client'.retryTime = 0 /\ client'.signal = NoSession
      BY <3>1, NewClients
    <3>3. TypeOK'
      BY <1>0, <3>1, <3>2 DEF TypeOK
    <3>4. QED
      BY <3>2, <3>3, RetryAssumption, SessionAssumption
      DEF EntryInv, RetryInv, SignalIsWatched, Registered
  <2>2. CASE client # NoEntry
    <3>1. TypeOK' /\ UNCHANGED <<client, del, main>>
      BY <1>0, <1>6, <2>2 DEF RegisterChan, TypeOK
    <3>2. QED
      BY <1>c, <3>1
  <2>3. QED
    BY <2>1, <2>2
<1>7. ASSUME NEW s \in Sessions, ReplaceTunnel(s) PROVE EntryInv'
  <2>1. CASE chan[s] = "replace"
    <3>1. /\ client' = [client EXCEPT !.tunnel = s] /\ chan' = [chan EXCEPT ![s] = "done"]
          /\ UNCHANGED <<main, del, signal, tunnel, life, newChan>>
      BY <1>7, <2>1 DEF ReplaceTunnel
    <3>2. client # NoEntry /\ client \in Entry
      BY <1>0, <1>b, <2>1 DEF HoldInv
    <3>3. /\ client' \in Entry /\ client'.retryTime = client.retryTime
          /\ client'.signal = client.signal
      BY <3>1, <3>2, EntryChanges, RetriesKept
    <3>4. TypeOK'
      BY <1>0, <3>1, <3>3 DEF TypeOK
    <3>5. QED
      BY <1>0, <3>1, <3>2, <3>3, <3>4 DEF EntryInv, RetryInv, SignalIsWatched, Registered
  <2>2. CASE chan[s] = "detached"
    <3>1. TypeOK' /\ UNCHANGED <<client, del, main>>
      BY <1>0, <1>7, <2>2 DEF ReplaceTunnel, TypeOK
    <3>2. QED
      BY <1>c, <3>1
  <2>3. QED
    BY <1>7, <2>1, <2>2 DEF ReplaceTunnel
<1>8. ASSUME NEW s \in Sessions, HealthEnds(s) PROVE EntryInv'
  <2>1. TypeOK'
    BY <1>0, <1>8 DEF HealthEnds, TypeOK
  <2>2. RetryInv'
    BY <1>0, <1>8, <1>a DEF HealthEnds, RetryInv, TypeOK
  <2>3. SignalIsWatched'
    BY <1>0, <1>8, <1>a DEF HealthEnds, SignalIsWatched, Registered, TypeOK
  <2>4. QED
    BY <2>1, <2>2, <2>3 DEF EntryInv
<1>9. CASE PingTick
  <2>1. client # NoEntry /\ client \in Entry /\ del[Ping] = "idle"
    BY <1>b, <1>9 DEF PingTick
  <2>2. client.retryTime \in 0 .. MaxRetry - 1
    BY <1>0, <2>1, EntryFields, RetryAssumption DEF RetryInv
  <2>3. CASE Incomplete(client) /\ client' = [client EXCEPT !.retryTime = @ + 1]
    <3> DEFINE n == client.retryTime + 1
    <3>1. n \in 0 .. MaxRetry
      BY <2>2, RetryAssumption
    <3>2. client' = [client EXCEPT !.retryTime = n]
      BY <2>3
    <3>3. /\ client' \in Entry /\ client'.retryTime = n /\ client'.signal = client.signal
      BY <2>1, <3>1, <3>2, EntryChanges DEF Entry
    <3>4. /\ UNCHANGED <<main, chan, signal, tunnel, life, newChan>>
          /\ del' = [del EXCEPT ![Ping] = IF GivesUp(n) THEN "load" ELSE "idle"]
      BY <1>9, <2>3 DEF PingTick
    <3>5. TypeOK'
      BY <1>0, <3>3, <3>4 DEF TypeOK
    <3>6. RetryInv'
      BY <1>0, <1>a, <3>1, <3>3, <3>4, RetryAssumption DEF RetryInv, GivesUp, TypeOK
    <3>7. SignalIsWatched'
      BY <1>0, <1>a, <2>1, <3>3, <3>4 DEF SignalIsWatched, Registered, TypeOK
    <3>8. QED
      BY <3>5, <3>6, <3>7 DEF EntryInv
  <2>4. CASE UNCHANGED client /\ del' = [del EXCEPT ![Ping] = "load"]
    <3>1. TypeOK'
      BY <1>0, <1>9, <2>4 DEF PingTick, TypeOK
    <3>2. RetryInv'
      BY <1>0, <1>a, <2>4 DEF RetryInv, TypeOK
    <3>3. SignalIsWatched'
      BY <1>0, <1>9, <1>a, <2>4 DEF PingTick, SignalIsWatched, Registered, TypeOK
    <3>4. QED
      BY <3>1, <3>2, <3>3 DEF EntryInv
  <2>5. QED
    BY <1>9, <2>3, <2>4 DEF PingTick
<1>10. ASSUME NEW d \in Deleters, DelLoad(d) PROVE EntryInv'
  <2>1. TypeOK'
    BY <1>0, <1>10 DEF DelLoad, Return, TypeOK
  <2>2. RetryInv'
    BY <1>0, <1>10, <1>a DEF DelLoad, RetryInv, TypeOK
  <2>3. SignalIsWatched'
    BY <1>0, <1>10, <1>a DEF DelLoad, SignalIsWatched, Registered, TypeOK
  <2>4. QED
    BY <2>1, <2>2, <2>3 DEF EntryInv
<1>11. ASSUME NEW d \in Deleters, DelDelete(d) PROVE EntryInv'
  <2>1. TypeOK'
    BY <1>0, <1>11 DEF DelDelete, Detached, Return, TypeOK
  <2>2. RetryInv' /\ SignalIsWatched'
    BY <1>11 DEF DelDelete, RetryInv, SignalIsWatched, Registered
  <2>3. QED
    BY <2>1, <2>2 DEF EntryInv
<1>12. CASE UNCHANGED vars
  BY <1>0, <1>12 DEF vars, EntryInv, TypeOK, RetryInv, SignalIsWatched, Registered
<1>13. QED
  BY <1>1, <1>2, <1>3, <1>4, <1>5, <1>6, <1>7, <1>8, <1>9, <1>10, <1>11, <1>12
  DEF Next, TypeDeal, DelClient

LEMMA StepHold == IInv /\ [Next]_vars => HoldInv'
<1> SUFFICES ASSUME IInv, [Next]_vars PROVE HoldInv'
  OBVIOUS
<1> USE DEF servers, clients
<1>0. TypeOK /\ HoldInv
  BY DEF IInv, EntryInv
<1>b. client \in Entry \/ client = NoEntry
  BY <1>0 DEF TypeOK
\* The entry stays, or there is a new one, and nobody begins to hold it.
<1>c. ASSUME client # NoEntry => client' # NoEntry,
             \A s \in Sessions : /\ main'[s] = "replace" => main[s] = "replace"
                                 /\ chan'[s] = "replace" => chan[s] = "replace"
      PROVE  HoldInv'
  <2> SUFFICES ASSUME NEW s \in Sessions, main'[s] = "replace" \/ chan'[s] = "replace"
               PROVE  client' # NoEntry
    BY DEF HoldInv
  <2>1. main[s] = "replace" \/ chan[s] = "replace"
    BY <1>c
  <2>2. QED
    BY <1>0, <1>c, <2>1 DEF HoldInv
<1>1. ASSUME NEW s \in Sessions,
             Start(s) \/ ClientStep(s) \/ Break(s) \/ WatchSignal(s) \/ HealthEnds(s)
      PROVE  HoldInv'
  BY <1>0, <1>1, <1>c
  DEF Start, ClientStep, DialTunnel, AssignTunnel, HandleMain, TunnelLost, Close, Break,
      WatchSignal, HealthEnds, TypeOK
<1>2. ASSUME NEW s \in Sessions, RegisterMain(s) \/ RegisterChan(s) PROVE HoldInv'
  <2>1. CASE client = NoEntry
    <3>1. client' # NoEntry
      BY <1>2, <2>1, NewClients DEF RegisterMain, RegisterChan
    <3>2. QED
      BY <3>1 DEF HoldInv
  <2>2. CASE client # NoEntry
    BY <1>2, <2>2 DEF RegisterMain, RegisterChan, HoldInv
  <2>3. QED
    BY <2>1, <2>2
<1>3. ASSUME NEW s \in Sessions, ReplaceSignal(s) \/ ReplaceTunnel(s) PROVE HoldInv'
  <2>1. client # NoEntry => client' # NoEntry
    BY <1>b, <1>3, EntryChanges, EntryAssumption DEF ReplaceSignal, ReplaceTunnel
  <2>2. QED
    BY <1>0, <1>3, <1>c, <2>1 DEF ReplaceSignal, ReplaceTunnel, TypeOK
<1>4. CASE PingTick
  <2>1. client' # NoEntry
    <3>1. client \in Entry /\ client # NoEntry
      BY <1>b, <1>4 DEF PingTick
    <3>2. \A n : [client EXCEPT !.retryTime = n] # NoEntry \/ n \notin 0 .. MaxRetry
      BY <3>1, EntryChanges, EntryAssumption
    <3>3. client.retryTime + 1 \in 0 .. MaxRetry
      BY <1>4, <3>1, EntryFields, RetryAssumption DEF IInv, EntryInv, RetryInv, PingTick
    <3>4. QED
      BY <1>4, <3>1, <3>2, <3>3 DEF PingTick
  <2>2. QED
    BY <1>4, <1>c, <2>1 DEF PingTick
<1>5. ASSUME NEW d \in Deleters, DelClient(d) PROVE HoldInv'
  BY <1>0, <1>5 DEF DelClient, DelLoad, DelDelete, Detached, HoldInv, TypeOK
<1>6. CASE UNCHANGED vars
  BY <1>0, <1>6 DEF vars, HoldInv
<1>7. QED
  BY <1>1, <1>2, <1>3, <1>4, <1>5, <1>6 DEF Next, TypeDeal

LEMMA StepStart == IInv /\ [Next]_vars => StartInv'
<1> SUFFICES ASSUME IInv, [Next]_vars PROVE StartInv'
  OBVIOUS
<1> USE DEF servers, clients
<1>0. TypeOK /\ StartInv
  BY DEF IInv, EntryInv
<1>1. ASSUME NEW s \in Sessions, Start(s) \/ ClientStep(s) \/ Break(s) PROVE StartInv'
  BY <1>0, <1>1
  DEF Start, ClientStep, DialTunnel, AssignTunnel, HandleMain, TunnelLost, Close, Break,
      StartInv, TypeOK
<1>2. ASSUME NEW s \in Sessions, TypeDeal(s) \/ HealthEnds(s) PROVE StartInv'
  BY <1>0, <1>2
  DEF TypeDeal, RegisterMain, ReplaceSignal, WatchSignal, RegisterChan, ReplaceTunnel,
      HealthEnds, StartInv, TypeOK
<1>3. ASSUME NEW d \in Deleters, DelClient(d) PROVE StartInv'
  BY <1>0, <1>3 DEF DelClient, DelLoad, DelDelete, Detached, StartInv, TypeOK
<1>4. CASE PingTick \/ UNCHANGED vars
  BY <1>0, <1>4 DEF PingTick, vars, StartInv
<1>5. QED
  BY <1>1, <1>2, <1>3, <1>4 DEF Next

LEMMA StepInvariant == IInv /\ [Next]_vars => IInv'
BY StepEntry, StepHold, StepStart DEF IInv

-----------------------------------------------------------------------------
(* The theorems.                                                           *)

\* ping: the types, and retryTime never passes the limit.
THEOREM TypeCorrect == Spec => []TypeOK
<1>1. IInv => TypeOK
  BY DEF IInv, EntryInv
<1>2. QED
  BY InitInvariant, StepInvariant, <1>1, PTL DEF Spec

\* typeDeal and GetHealthFromClient: whichever sessions replace and remove each
\* other, the signal that is registered has its goroutine.
THEOREM SignalHasWatcher == Spec => []SignalIsWatched
<1>1. IInv => SignalIsWatched
  BY DEF IInv, EntryInv
<1>2. QED
  BY InitInvariant, StepInvariant, <1>1, PTL DEF Spec

=============================================================================
