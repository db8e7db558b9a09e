----------------------------- MODULE IngestGate -----------------------------
(***************************************************************************)
(* Uploads of snapshots and clips until they are queued for the workers:   *)
(* the rate limit, the checks of timestamp, device, class and signature,   *)
(* the nonce and the dispatch. Requests run side by side, and a device     *)
(* without an answer may send the same upload again. The counters and the  *)
(* nonces live in Redis, each with an end.                                 *)
(***************************************************************************)
EXTENDS Integers, FiniteSets, FiniteSetsExt

CONSTANTS
    Uploads,    \* [device, kind, nonce, stamp, flaw]; one may be sent often
    Requests,   \* slots of requests that run side by side
    Limits,     \* kind of upload -> max_requests
    Window,     \* window_seconds of the rate limit
    NonceLife,  \* ttl_seconds of a nonce
    Skew,       \* accepted difference of the clocks
    PublishRetries, \* task_publish_retry_policy: max_retries of one send_task
    MaxSends, LastTime \* bounds: requests in all; time

(* The first of the checks of the database and the signature that fails.   *)
Flaws == {"none", "device", "secret", "schedule", "room", "signature"}

ASSUME IngestAssumption ==
    /\ \A u \in Uploads : u.kind \in DOMAIN Limits /\ u.stamp \in Int /\ u.flaw \in Flaws
    /\ \A k \in DOMAIN Limits : Limits[k] \in Nat \ {0}
    /\ Window \in Nat \ {0} /\ NonceLife \in Nat \ {0} /\ Skew \in Nat
    /\ PublishRetries \in Nat /\ MaxSends \in Nat /\ LastTime \in Nat

VARIABLES
    time, sends,
    counter,    \* rate:<key> -> how many, until when
    nonces,     \* nonce:<device>:<nonce> -> until when
    request,    \* what each slot is doing
    queued,     \* history: dispatches the broker took, each with its nonce's time
    allowed     \* history: requests that passed the rate limit

ingestVars == <<time, sends, counter, nonces, request, queued, allowed>>

Free == [step |-> "free"]
Key(u) == <<u.kind, u.device>>
NonceKey(u) == <<u.device, u.nonce>>
Keys == {Key(u) : u \in Uploads}
NonceKeys == {NonceKey(u) : u \in Uploads}

IngestTypeOK ==
    /\ time \in 0 .. LastTime /\ sends \in 0 .. MaxSends
    /\ \A k \in Keys : counter[k].count \in 0 .. MaxSends /\ counter[k].until \in 0 .. LastTime + Window
    /\ nonces \in [NonceKeys -> 0 .. LastTime + NonceLife]
    /\ \A r \in Requests : request[r].step \in {"free", "limit", "count", "check", "nonce", "dispatch"}
-----------------------------------------------------------------------------
IngestInit ==
    /\ time = 0 /\ sends = 0
    /\ counter = [k \in Keys |-> [count |-> 0, until |-> 0]]
    /\ nonces = [n \in NonceKeys |-> 0]
    /\ request = [r \in Requests |-> Free] /\ queued = {} /\ allowed = {}

redis == <<counter, nonces>>
Live(until) == time < until
Count(k) == IF Live(counter[k].until) THEN counter[k].count ELSE 0
Counting(k) == {r \in Requests : request[r].step = "count" /\ Key(request[r].upload) = k}
Goes(r, step) == request' = [request EXCEPT ![r].step = step]
Ends(r) == request' = [request EXCEPT ![r] = Free]

ReceiveUpload(r, u) ==
    /\ request[r] = Free /\ sends < MaxSends
    /\ sends' = sends + 1
    /\ request' = [request EXCEPT ![r] = [step |-> "limit", upload |-> u, raced |-> FALSE, stored |-> 0]]
    /\ UNCHANGED <<time, redis, queued, allowed>>

(* check_rate_limit: the counter is read, and with another call counted    *)
(* and given a new end.                                                    *)
ReadCounter(r) ==
    /\ request[r].step = "limit"
    /\ LET k == Key(request[r].upload)
       IN IF Count(k) >= Limits[request[r].upload.kind]
          THEN Ends(r)
          ELSE /\ request' = [request EXCEPT ![r].step = "count", ![r].raced = Counting(k) # {}]
    /\ UNCHANGED <<time, sends, redis, queued, allowed>>

Counted(k) == counter' = [counter EXCEPT ![k] = [count |-> Count(k) + 1, until |-> time + Window]]

IncrementCounter(r) ==
    /\ request[r].step = "count"
    /\ Counted(Key(request[r].upload))
    /\ allowed' = IF request[r].raced THEN allowed
                  ELSE allowed \cup {[key |-> Key(request[r].upload), at |-> time, number |-> Cardinality(allowed)]}
    /\ Goes(r, "check")
    /\ UNCHANGED <<time, sends, nonces, queued>>

(* _validate_timestamp, and _verify_device_request up to the signature.    *)
Refused(u) == time - u.stamp > Skew \/ u.stamp - time > Skew \/ u.flaw # "none"

Check(r) ==
    /\ request[r].step = "check"
    /\ IF Refused(request[r].upload) THEN Ends(r) ELSE Goes(r, "nonce")
    /\ UNCHANGED <<time, sends, redis, queued, allowed>>

Stored(n) == nonces' = [nonces EXCEPT ![n] = time + NonceLife]

(* store_nonce: SET with NX and EX.                                        *)
StoreNonce(r) ==
    /\ request[r].step = "nonce"
    /\ LET n == NonceKey(request[r].upload)
       IN IF Live(nonces[n])
          THEN Ends(r) /\ UNCHANGED nonces
          ELSE /\ Stored(n)
               /\ request' = [request EXCEPT ![r].step = "dispatch", ![r].stored = time]
    /\ UNCHANGED <<time, sends, counter, queued, allowed>>

(* A call to Redis fails, or the process dies; the nonce or the count may  *)
(* be there all the same.                                                  *)
Fails(r) ==
    /\ request[r].step \in {"limit", "count", "nonce"}
    /\ LET n == NonceKey(request[r].upload)
       IN UNCHANGED nonces \/ (request[r].step = "nonce" /\ ~Live(nonces[n]) /\ Stored(n))
    /\ LET k == Key(request[r].upload)
       IN UNCHANGED counter \/ (request[r].step = "count" /\ Counted(k))
    /\ Ends(r)
    /\ UNCHANGED <<time, sends, queued, allowed>>

(* send_task publishes the message again after an error of the connection  *)
(* that hid that the broker took it: the queue may get several copies.     *)
Queued(r) ==
    \E copies \in 1 .. 1 + PublishRetries :
        queued' = queued \cup {[upload |-> request[r].upload, stored |-> request[r].stored,
                               number |-> Cardinality(queued), copies |-> copies]}

SendTask(r) ==
    /\ request[r].step = "dispatch"
    /\ Queued(r)
    /\ Ends(r)
    /\ UNCHANGED <<time, sends, redis, allowed>>

(* Mutant: after a failure the nonce is given back for the next attempt.   *)
SendTaskFailsGivingBack(r) ==
    /\ request[r].step = "dispatch"
    /\ Queued(r) \/ UNCHANGED queued
    /\ nonces' = [nonces EXCEPT ![NonceKey(request[r].upload)] = time]
    /\ Ends(r)
    /\ UNCHANGED <<time, sends, counter, allowed>>

(* send_task raises; the broker may have taken the message all the same.   *)
SendTaskFails(r) ==
    /\ request[r].step = "dispatch"
    /\ Queued(r) \/ UNCHANGED queued
    /\ Ends(r)
    /\ UNCHANGED <<time, sends, redis, allowed>>

Pass ==
    /\ time < LastTime /\ time' = time + 1
    /\ UNCHANGED <<sends, redis, request, queued, allowed>>

IngestNext ==
    \/ Pass
    \/ \E r \in Requests :
        \/ ReadCounter(r) \/ IncrementCounter(r) \/ Check(r) \/ StoreNonce(r) \/ Fails(r)
        \/ SendTask(r) \/ SendTaskFails(r)
        \/ \E u \in Uploads : ReceiveUpload(r, u)

IngestSpec == IngestInit /\ [][IngestNext]_ingestVars
-----------------------------------------------------------------------------
UploadsDispatchedOnce ==
    \A a, b \in queued :
        a # b /\ NonceKey(a.upload) = NonceKey(b.upload) =>
            a.stored - b.stored >= NonceLife \/ b.stored - a.stored >= NonceLife

LimitPerWindow ==
    \A a \in allowed :
        Cardinality({b \in allowed : b.key = a.key /\ b.at \in a.at .. a.at + Window - 1})
            <= Limits[a.key[1]]

(* However often and however close together a device sends its uploads,    *)
(* after whatever errors: no nonce is dispatched twice while Redis keeps   *)
(* it, and no window holds more requests above the limit than those that   *)
(* read the counter while another was about to raise it. The copies of one *)
(* dispatch, which Celery may publish, are not told apart.                 *)
GateHolds == UploadsDispatchedOnce /\ LimitPerWindow
=============================================================================
