------------------------------- MODULE Login --------------------------------
(***************************************************************************)
(* The login of the web console (web/controllers/login.go): doLogin counts *)
(* the failures of an address in ipRecord, refuses it after ten of them,   *)
(* and starts again when nothing failed for 60 s.  A visit of the login    *)
(* page tries to log in with no name, which makes a record but adds no     *)
(* failure to one; clearIprecord drops old records now and then.           *)
(*                                                                         *)
(* A handler per request works on the record without a lock, so that two   *)
(* may read the same count before either writes it.  A record is shared by *)
(* all that loaded it, also once it was deleted: a handler that counts on  *)
(* it puts it back.                                                        *)
(*                                                                         *)
(* The clock ticks when 60 s pass without a request, so that a record is   *)
(* old when no failure was counted on it since the last tick.              *)
(*                                                                         *)
(* A definition named X_Y is a variant of X as a slip in the code would    *)
(* make it; the specification never uses it.                               *)
(***************************************************************************)
EXTENDS Integers, FiniteSets

CONSTANTS
    Handlers,       \* requests served at a time, all from one address
    MaxFails,       \* failures until an address is refused: 10 in the code
    MaxRecords,     \* bound on the records made
    MaxCompared,    \* bound on the failures on one record
    MaxTicks        \* bound on the pauses of 60 s

VARIABLES
    now,            \* pauses of 60 s so far
    ipRecord,       \* number of the record of the address, 0 for none
    made,           \* records made
    fails, last,    \* record -> hasLoginFailTimes, lastLoginTime
    req,            \* handler -> its step, the record it loaded, whether the login has a
                    \* name and is right, the count it read to add one to
    \* history
    compared,       \* record -> explicit logins that failed on it since it was reset
    lost,           \* record -> failures that one handler wrote over those of another
    restored        \* records put back after a right login deleted them, or another
                    \* record took their place

records == <<ipRecord, made, fails, last>>
history == <<compared, lost, restored>>
vars == <<now, records, req, history>>

Records == 1 .. MaxRecords

Idle == [pc |-> "idle", rec |-> 0, explicit |-> FALSE, right |-> FALSE, read |-> 0]

Init ==
    /\ now = 0 /\ ipRecord = 0 /\ made = 0
    /\ fails = [r \in Records |-> 0] /\ last = [r \in Records |-> 0]
    /\ req = [h \in Handlers |-> Idle]
    /\ compared = [r \in Records |-> 0] /\ lost = [r \in Records |-> 0] /\ restored = {}

At(h, step) == req[h].pc = step
Answer(h) == req' = [req EXCEPT ![h] = Idle]
Goto(h, step) == req' = [req EXCEPT ![h].pc = step]
Old(r) == now > last[r]

\* A request is answered in less than 60 s.
Tick ==
    /\ \A h \in Handlers : At(h, "idle")
    /\ now < MaxTicks /\ now' = now + 1
    /\ UNCHANGED <<records, req, history>>

-----------------------------------------------------------------------------

\* Verify, whatever the captcha was, or Index.  clearIprecord may go first.
Request(h, e, ok) ==
    /\ At(h, "idle")
    /\ req' = [req EXCEPT ![h] = [Idle EXCEPT !.pc = "load", !.explicit = e, !.right = ok /\ e]]
    /\ ipRecord' \in {ipRecord} \cup (IF ipRecord # 0 /\ Old(ipRecord) THEN {0} ELSE {})
    /\ UNCHANGED <<now, made, fails, last, history>>

Load(h) ==
    /\ At(h, "load")
    /\ req' = [req EXCEPT ![h].pc = IF ipRecord = 0 THEN "compare" ELSE "reset",
                          ![h].rec = ipRecord]
    /\ UNCHANGED <<now, records, history>>

\* After a pause the count starts again.
Reset(h) ==
    LET r == req[h].rec
    IN  /\ At(h, "reset") /\ Goto(h, "test")
        /\ fails' = IF Old(r) THEN [fails EXCEPT ![r] = 0] ELSE fails
        /\ compared' = IF Old(r) THEN [compared EXCEPT ![r] = 0] ELSE compared
        /\ lost' = IF Old(r) THEN [lost EXCEPT ![r] = 0] ELSE lost
        /\ restored' = IF Old(r) THEN restored \ {r} ELSE restored
        /\ UNCHANGED <<now, ipRecord, made, last>>

Refused_More(r) == fails[r] > MaxFails
Refused(r) == fails[r] >= MaxFails

Test(h) ==
    /\ At(h, "test")
    /\ IF Refused(req[h].rec) THEN Answer(h) ELSE Goto(h, "compare")
    /\ UNCHANGED <<now, records, history>>

\* The administrator, or the first client whose name and password match.
LogIn(h) ==
    /\ At(h, "compare") /\ req[h].right
    /\ Answer(h)
    /\ ipRecord' = 0
    /\ UNCHANGED <<now, made, fails, last, history>>

\* LoadOrStore makes a record with one failure, whatever request it is.
FailFirst(h) ==
    /\ At(h, "compare") /\ ~req[h].right /\ ipRecord = 0 /\ made < MaxRecords
    /\ Answer(h)
    /\ made' = made + 1 /\ ipRecord' = made + 1
    /\ fails' = [fails EXCEPT ![made + 1] = 1]
    /\ last' = [last EXCEPT ![made + 1] = now]
    /\ compared' = IF req[h].explicit THEN [compared EXCEPT ![made + 1] = 1] ELSE compared
    /\ UNCHANGED <<now, lost, restored>>

Visit(h) ==
    /\ At(h, "compare") /\ ~req[h].explicit /\ ipRecord # 0
    /\ Answer(h)
    /\ UNCHANGED <<now, records, history>>

\* hasLoginFailTimes += 1 is a read and a write.
FailAgain(h) ==
    /\ At(h, "compare") /\ req[h].explicit /\ ~req[h].right /\ ipRecord # 0
    /\ compared[ipRecord] < MaxCompared
    /\ req' = [req EXCEPT ![h].pc = "write", ![h].rec = ipRecord, ![h].read = fails[ipRecord]]
    /\ last' = [last EXCEPT ![ipRecord] = now]
    /\ compared' = [compared EXCEPT ![ipRecord] = @ + 1]
    /\ UNCHANGED <<now, ipRecord, made, fails, lost, restored>>

\* The record is stored again, and replaces one that was made since.
Write(h) ==
    LET r == req[h].rec
    IN  /\ At(h, "write") /\ Answer(h)
        /\ fails' = [fails EXCEPT ![r] = req[h].read + 1]
        /\ ipRecord' = r
        /\ lost' = [lost EXCEPT ![r] = @ + (IF fails[r] > req[h].read
                                            THEN fails[r] - req[h].read ELSE 0)]
        /\ restored' = IF ipRecord = r THEN restored ELSE restored \cup {r}
        /\ UNCHANGED <<now, made, last, compared>>

Next ==
    \/ Tick
    \/ \E h \in Handlers :
        \/ \E e, ok \in BOOLEAN : Request(h, e, ok)
        \/ Load(h) \/ Reset(h) \/ Test(h) \/ LogIn(h) \/ FailFirst(h) \/ Visit(h)
        \/ FailAgain(h) \/ Write(h)

Spec == Init /\ [][Next]_vars

-----------------------------------------------------------------------------
(* Properties.                                                             *)

TypeOK ==
    /\ now \in 0 .. MaxTicks /\ ipRecord \in 0 .. made /\ made \in 0 .. MaxRecords
    /\ fails \in [Records -> Nat] /\ last \in [Records -> 0 .. MaxTicks]
    /\ \A h \in Handlers :
          /\ req[h].pc \in {"idle", "load", "reset", "test", "compare", "write"}
          /\ req[h].rec \in 0 .. made

\* Between two pauses an address has no more than ten passwords compared on a record,
\* but for those in the hands of other handlers when the tenth was counted and for
\* failures that one handler wrote over those of another.  It can have more on a record
\* that was put back: who found no record, or another one, then counts on this one.
LockedOut ==
    \A r \in Records \ restored :
        compared[r] <= MaxFails + lost[r] + Cardinality(Handlers) - 1

LoginSound == TypeOK /\ LockedOut

=============================================================================
