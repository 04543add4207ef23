----------------------------- MODULE RateBucket -----------------------------
(***************************************************************************)
(* The rate limit of a client (lib/rate): a bucket of tokens, which the    *)
(* connections of the client take from in Get and the goroutine session of *)
(* the bucket refills every second.  A connection keeps the bucket that    *)
(* the client had when it was opened (GetConn in lib/conn); Edit of the    *)
(* web console (controllers/client.go) stops the bucket of the client and  *)
(* gives it a new one.                                                     *)
(*                                                                         *)
(* bucketSurplusSize is tested and changed in separate steps.  Stop hands  *)
(* a value over an unbuffered channel: it returns when session takes it.   *)
(* The unit of size is what the instance makes it.                         *)
(*                                                                         *)
(* A definition named X_Y is a variant of X as a slip in the code would    *)
(* make it; the specification never uses it.                               *)
(***************************************************************************)
EXTENDS Integers, FiniteSets

CONSTANTS
    Conns,        \* connections of the client
    Editors,      \* handlers of the web console
    Sizes,        \* what a Read or a Write may bring
    Limits,       \* rates a client may be given: bucketAddSize
    MaxRates      \* bound on the buckets made

VARIABLES
    rate,         \* client.Rate: the number of its bucket
    rates,        \* number of buckets made
    limit,        \* bucket -> bucketAddSize
    surplus,      \* bucket -> bucketSurplusSize
    session,      \* bucket -> "new", "select", "add" or "ended"
    res,          \* bucket -> what add has decided to add
    pc, uses, size,   \* connection -> its step, its bucket, the bytes it waits for
    epc           \* handler -> its step in Edit

vars == <<rate, rates, limit, surplus, session, res, pc, uses, size, epc>>
buckets == <<rate, rates, limit, session, res>>
conns == <<pc, uses, size>>

Rates == 1 .. MaxRates
BucketSize(r) == limit[r] * 2

\* LoadClientFromJsonFile or NewClient has made and started the first bucket.
Init ==
    /\ rate = 1 /\ rates = 1
    /\ \E l \in Limits : limit = [r \in Rates |-> l]
    /\ surplus = [r \in Rates |-> 0]
    /\ session = [r \in Rates |-> IF r = 1 THEN "select" ELSE "new"]
    /\ res = [r \in Rates |-> 0]
    /\ pc = [c \in Conns |-> "closed"] /\ uses = [c \in Conns |-> 1]
    /\ size = [c \in Conns |-> 0]
    /\ epc = [e \in Editors |-> "idle"]

-----------------------------------------------------------------------------
(* rateConn and Get.                                                       *)

NewRateConn(c) ==
    /\ pc[c] = "closed"
    /\ pc' = [pc EXCEPT ![c] = "io"]
    /\ uses' = [uses EXCEPT ![c] = rate]
    /\ UNCHANGED <<buckets, surplus, size, epc>>

Close(c) ==
    /\ pc[c] = "io"
    /\ pc' = [pc EXCEPT ![c] = "closed"]
    /\ UNCHANGED <<buckets, surplus, uses, size, epc>>

\* Read and Write take what they have moved already.
ReadOrWrite(c, n) ==
    /\ pc[c] = "io"
    /\ pc' = [pc EXCEPT ![c] = "get"]
    /\ size' = [size EXCEPT ![c] = n]
    /\ UNCHANGED <<buckets, surplus, uses, epc>>

Enough_NotEmpty(r, n) == surplus[r] > 0
Enough(r, n) == surplus[r] >= n

\* Tested at once and then at every tick of 100 ms.
Test(c) ==
    /\ pc[c] = "get"
    /\ Enough(uses[c], size[c])
    /\ pc' = [pc EXCEPT ![c] = "take"]
    /\ UNCHANGED <<buckets, surplus, uses, size, epc>>

Take(c) ==
    /\ pc[c] = "take"
    /\ pc' = [pc EXCEPT ![c] = "io"]
    /\ surplus' = [surplus EXCEPT ![uses[c]] = @ - size[c]]
    /\ size' = [size EXCEPT ![c] = 0]
    /\ UNCHANGED <<buckets, uses, epc>>

-----------------------------------------------------------------------------
(* session and add.                                                        *)

Refill(r) ==
    LET room == BucketSize(r) - surplus[r]
    IN  IF room < limit[r] THEN room ELSE limit[r]

Tick(r) ==
    /\ session[r] = "select"
    /\ session' = [session EXCEPT ![r] = "add"]
    /\ res' = [res EXCEPT ![r] = Refill(r)]
    /\ UNCHANGED <<rate, rates, limit, surplus, conns, epc>>

Add(r) ==
    /\ session[r] = "add"
    /\ session' = [session EXCEPT ![r] = "select"]
    /\ surplus' = [surplus EXCEPT ![r] = @ + res[r]]
    /\ UNCHANGED <<rate, rates, limit, res, conns, epc>>

-----------------------------------------------------------------------------
(* Edit of the client; Stop is a step of the handler and of session.       *)

BeginEdit(e) ==
    /\ epc[e] = "idle"
    /\ epc' = [epc EXCEPT ![e] = "stop"]
    /\ UNCHANGED <<buckets, surplus, conns>>

CanStop(r) == session[r] = "select"

Stop(e) ==
    /\ epc[e] = "stop"
    /\ CanStop(rate)
    /\ session' = [session EXCEPT ![rate] = "ended"]
    /\ epc' = [epc EXCEPT ![e] = "make"]
    /\ UNCHANGED <<rate, rates, limit, surplus, res, conns>>

NewRate(e, l) ==
    /\ epc[e] = "make" /\ rates < MaxRates
    /\ rates' = rates + 1 /\ rate' = rates + 1
    /\ limit' = [limit EXCEPT ![rates + 1] = l]
    /\ epc' = [epc EXCEPT ![e] = "start"]
    /\ UNCHANGED <<surplus, session, res, conns>>

\* client.Rate is read again to start it.
Start(e) ==
    /\ epc[e] = "start"
    /\ session' = [session EXCEPT ![rate] = "select"]
    /\ epc' = [epc EXCEPT ![e] = "idle"]
    /\ UNCHANGED <<rate, rates, limit, surplus, res, conns>>

Next ==
    \/ \E c \in Conns : NewRateConn(c) \/ Close(c) \/ Test(c) \/ Take(c)
                        \/ \E n \in Sizes : ReadOrWrite(c, n)
    \/ \E r \in Rates : Tick(r) \/ Add(r)
    \/ \E e \in Editors : BeginEdit(e) \/ Stop(e) \/ Start(e) \/ \E l \in Limits : NewRate(e, l)

Spec == Init /\ [][Next]_vars

-----------------------------------------------------------------------------
(* Properties.                                                             *)

TypeOK ==
    /\ rates \in Rates /\ rate \in Rates /\ limit \in [Rates -> Limits]
    /\ surplus \in [Rates -> Int] /\ res \in [Rates -> Int]
    /\ session \in [Rates -> {"new", "select", "add", "ended"}]
    /\ pc \in [Conns -> {"closed", "io", "get", "take"}] /\ uses \in [Conns -> Rates]
    /\ size \in [Conns -> Sizes \cup {0}]
    /\ epc \in [Editors -> {"idle", "stop", "make", "start"}]

LargestSize == CHOOSE n \in Sizes : \A m \in Sizes : m <= n

\* A bucket never holds more than two seconds' worth, and connections that tested it
\* together overdraw it by no more than what all but one of them bring.
BucketBounded ==
    \A r \in Rates :
        /\ surplus[r] + (IF session[r] = "add" THEN res[r] ELSE 0) <= BucketSize(r)
        /\ surplus[r] >= -(LargestSize * (Cardinality(Conns) - 1))

\* Of the buckets of a client one at most is refilled; it is the bucket of the client,
\* unless a handler is between the Stop and the Start of an edit: a connection opened
\* since waits for a bucket that is filled, while one opened before waits for ever
\* once its bucket is empty.
OneSession ==
    LET running == {r \in Rates : session[r] \in {"select", "add"}}
    IN  running = (IF \E e \in Editors : epc[e] \in {"make", "start"} THEN {} ELSE {rate})

\* Buckets are bounded and refilled by one goroutine.
RateSound == TypeOK /\ BucketBounded /\ OneSession

=============================================================================
