------------------------------- MODULE Health -------------------------------
(***************************************************************************)
(* The health checks: npc dials the targets and tells nps which failed too *)
(* often in a row and which came back (client/health.go); nps takes them   *)
(* out of the lists of the client's tasks and hosts and puts them back     *)
(* (GetHealthFromClient in bridge.go), while the proxies pick targets from *)
(* these lists (GetRandomTarget in lib/file/obj.go).                       *)
(*                                                                         *)
(* A goroutine checks the targets one after the other; the next one may    *)
(* start before it is done.  Counting a result and sending what it means   *)
(* is one step, under the lock of the Health.  nps applies a message to    *)
(* one task or host at a time.  When the session ends, what the client     *)
(* configured is deleted, and made again when it is back, with a clean     *)
(* HealthMap.  The scheduler of the checks is a free choice.               *)
(*                                                                         *)
(* A definition named X_Y is a variant of X as a slip in the code would    *)
(* make it; the specification never uses it.                               *)
(***************************************************************************)
EXTENDS Integers, Sequences, FiniteSets, SequencesExt

CONSTANTS
    Targets,        \* HealthCheckTarget, in order
    Owners,         \* the tcp tasks and hosts of the client
    TargetStr,      \* owner -> its targets, in order
    Within,         \* owner -> targets whose text is in its TargetStr, its own and others
    Checkers,       \* goroutines of check at a time
    MaxFail,        \* HealthMaxFail
    MaxResults,     \* bound on the results
    MaxSessions     \* bound on the sessions

VARIABLES
    up,             \* a session is up and its tasks are there
    sessions,
    fails,          \* HealthMap
    check,          \* goroutine -> the position it is at (0: none), what dialling gave
    results,
    chan,           \* messages on the signal connection
    apply,          \* the message nps is applying, and the owners it has still to see
    arr,            \* owner -> TargetArr, Nil until it is first needed
    removeArr,      \* owner -> HealthRemoveArr
    pick,           \* owner -> GetRandomTarget: the index chosen, 0 for none under way
    nowIndex,       \* owner -> the index last chosen, 0 for none
    alive           \* nps has not panicked

client == <<fails, check, results>>
lists == <<arr, removeArr>>
picks == <<pick, nowIndex>>
vars == <<up, sessions, client, chan, apply, lists, picks, alive>>

Nil == <<"nil">>      \* unlike any list of targets
Checked == {Targets[i] : i \in 1 .. Len(Targets)}
NoMessage == [target |-> "none", healthy |-> FALSE, todo |-> {}]

Init ==
    /\ up = TRUE /\ sessions = 1 /\ alive = TRUE
    /\ fails = [v \in Checked |-> 0]
    /\ check = [g \in Checkers |-> [at |-> 0, result |-> "none"]] /\ results = 0
    /\ chan = <<>> /\ apply = NoMessage
    /\ arr = [o \in Owners |-> Nil] /\ removeArr = [o \in Owners |-> <<>>]
    /\ pick = [o \in Owners |-> 0] /\ nowIndex = [o \in Owners |-> 0]

-----------------------------------------------------------------------------
(* npc: check.                                                             *)

BeginCheck(g) ==
    /\ check[g].at = 0 /\ results < MaxResults
    /\ check' = [check EXCEPT ![g].at = 1]
    /\ UNCHANGED <<up, sessions, fails, results, chan, apply, lists, picks, alive>>

Dial(g, r) ==
    /\ check[g].at # 0 /\ check[g].result = "none" /\ results < MaxResults
    /\ results' = results + 1
    /\ check' = [check EXCEPT ![g].result = r]
    /\ UNCHANGED <<up, sessions, fails, chan, apply, lists, picks, alive>>

\* What is written to a signal that is gone is lost.
Send(msgs) == chan' = IF up THEN chan \o msgs ELSE chan
Say(v, healthy) == <<[target |-> v, healthy |-> healthy]>>

Report(g) ==
    LET i == check[g].at
        v == Targets[i]
        back == check[g].result = "ok" /\ fails[v] >= MaxFail
        n == IF check[g].result = "failed" THEN fails[v] + 1 ELSE IF back THEN 0 ELSE fails[v]
    IN  /\ i # 0 /\ check[g].result # "none"
        /\ fails' = [fails EXCEPT ![v] = n]
        /\ Send((IF back THEN Say(v, TRUE) ELSE <<>>)
                \o (IF n > 0 /\ n % MaxFail = 0 THEN Say(v, FALSE) ELSE <<>>))
        /\ check' = [check EXCEPT ![g] = [at |-> IF i < Len(Targets) THEN i + 1 ELSE 0,
                                          result |-> "none"]]
        /\ UNCHANGED <<up, sessions, results, apply, lists, picks, alive>>

-----------------------------------------------------------------------------
(* nps: GetHealthFromClient.                                               *)

GetHealthInfo ==
    /\ alive /\ up /\ apply = NoMessage /\ chan # <<>>
    /\ chan' = Tail(chan)
    /\ apply' = [target |-> Head(chan).target, healthy |-> Head(chan).healthy, todo |-> Owners]
    /\ UNCHANGED <<up, sessions, client, lists, picks, alive>>

Done(o) ==
    IF apply.todo = {o} THEN apply' = NoMessage
    ELSE apply' = [apply EXCEPT !.todo = @ \ {o}]

\* The list is made from TargetStr when nothing was taken out of it yet.
Listed_AsIs(o) == IF arr[o] = Nil THEN <<>> ELSE arr[o]
Listed(o) ==
    IF arr[o] = Nil \/ (arr[o] = <<>> /\ removeArr[o] = <<>>) THEN TargetStr[o] ELSE arr[o]

TakeOut(o) ==
    /\ alive /\ o \in apply.todo /\ ~apply.healthy
    /\ IF apply.target \in Within[o]
       THEN /\ arr' = [arr EXCEPT ![o] = RemoveFirst(Listed(o), apply.target)]
            /\ removeArr' = [removeArr EXCEPT ![o] = Append(@, apply.target)]
       ELSE UNCHANGED lists
    /\ Done(o)
    /\ UNCHANGED <<up, sessions, client, chan, picks, alive>>

PutBack(o) ==
    /\ alive /\ o \in apply.todo /\ apply.healthy
    /\ IF /\ Contains(removeArr[o], apply.target)
          /\ arr[o] = Nil \/ ~Contains(arr[o], apply.target)
       THEN /\ arr' = [arr EXCEPT ![o] = Append(@, apply.target)]
            /\ removeArr' = [removeArr EXCEPT ![o] = RemoveFirst(@, apply.target)]
       ELSE UNCHANGED lists
    /\ Done(o)
    /\ UNCHANGED <<up, sessions, client, chan, picks, alive>>

-----------------------------------------------------------------------------
(* nps: GetRandomTarget, under another lock than the lists are changed.    *)

\* With one target, or none, there is nothing to choose.
Choose(o) ==
    LET list == IF arr[o] = Nil THEN TargetStr[o] ELSE arr[o]
    IN  /\ alive /\ up /\ pick[o] = 0
        /\ arr' = [arr EXCEPT ![o] = list]
        /\ IF Len(list) <= 1 THEN UNCHANGED picks
           ELSE LET i == IF nowIndex[o] >= Len(list) THEN 1 ELSE nowIndex[o] + 1
                IN  pick' = [pick EXCEPT ![o] = i] /\ nowIndex' = [nowIndex EXCEPT ![o] = i]
        /\ UNCHANGED <<up, sessions, client, chan, apply, removeArr, alive>>

\* The list may have got too short since: nps panics.
Pick(o) ==
    /\ alive /\ pick[o] # 0
    /\ alive' = (arr[o] # Nil /\ pick[o] <= Len(arr[o]))
    /\ pick' = [pick EXCEPT ![o] = 0]
    /\ UNCHANGED <<up, sessions, client, chan, apply, lists, nowIndex>>

-----------------------------------------------------------------------------
(* The session.                                                            *)

SessionEnds ==
    /\ up /\ alive
    /\ up' = FALSE
    /\ chan' = <<>> /\ apply' = NoMessage
    /\ UNCHANGED <<sessions, client, lists, picks, alive>>

\* The tasks are made anew; heathCheck makes a new HealthMap.
SessionBegins ==
    /\ ~up /\ alive /\ sessions < MaxSessions
    /\ up' = TRUE /\ sessions' = sessions + 1
    /\ fails' = [v \in Checked |-> 0]
    /\ arr' = [o \in Owners |-> Nil] /\ removeArr' = [o \in Owners |-> <<>>]
    /\ pick' = [o \in Owners |-> 0] /\ nowIndex' = [o \in Owners |-> 0]
    /\ UNCHANGED <<check, results, chan, apply, alive>>

Next ==
    \/ \E g \in Checkers : BeginCheck(g) \/ Report(g) \/ \E r \in {"ok", "failed"} : Dial(g, r)
    \/ GetHealthInfo
    \/ \E o \in Owners : TakeOut(o) \/ PutBack(o) \/ Choose(o) \/ Pick(o)
    \/ SessionEnds \/ SessionBegins

Spec == Init /\ [][Next]_vars

-----------------------------------------------------------------------------
(* Properties.                                                             *)

TypeOK ==
    /\ up \in BOOLEAN /\ alive \in BOOLEAN
    /\ fails \in [Checked -> 0 .. MaxResults]
    /\ \A g \in Checkers : check[g].at \in 0 .. Len(Targets)
    /\ apply.todo \subseteq Owners
    /\ \A o \in Owners : /\ arr[o] # Nil => ToSet(arr[o]) \subseteq Checked \cup ToSet(TargetStr[o])
                         /\ ToSet(removeArr[o]) \subseteq Checked

\* Once nps has applied what it was sent, it uses a target of a task exactly when the
\* client does not count it as down, each target once, however the checks of the client
\* overlapped, whatever the proxies picked meanwhile, and after any number of sessions.
EndsAgreeOnHealth ==
    up /\ alive /\ chan = <<>> /\ apply = NoMessage =>
        \A o \in Owners, v \in Checked :
            v \in ToSet(TargetStr[o]) =>
                LET list == IF arr[o] = Nil THEN TargetStr[o] ELSE arr[o]
                IN  Cardinality({i \in 1 .. Len(list) : list[i] = v})
                        = (IF fails[v] >= MaxFail THEN 0 ELSE 1)

HealthSound == TypeOK /\ EndsAgreeOnHealth

=============================================================================
