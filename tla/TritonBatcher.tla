--------------------------- MODULE TritonBatcher ---------------------------
(***************************************************************************)
(* _ModelBatcher of the Triton client: caller threads queue one request    *)
(* each and wait on its event; one daemon thread gathers requests into     *)
(* batches, runs the batch on the server and answers the requests.         *)
(*                                                                         *)
(* The condition variable's lock makes each block of code between two      *)
(* waits one step. A wait with a timeout may return at any time, so no     *)
(* step depends on a notification having been sent.                        *)
(***************************************************************************)
EXTENDS Naturals, Sequences

CONSTANTS
    Callers,    \* threads that call submit, one request at a time
    MaxBatch,   \* settings.triton_max_batch_size, at least 1
    ShapeOf,    \* the shape of each request's payload
    NoRequest,  \* None
    MaxCalls    \* bound on the requests of each caller

Requests == Callers \X (1 .. MaxCalls)

ASSUME MaxBatchAssumption == MaxBatch \in Nat \ {0}
ASSUME MaxCallsAssumption == MaxCalls \in Nat
ASSUME NoRequestAssumption == NoRequest \notin Requests

VARIABLES
    queue,      \* requests that wait for the batcher, oldest first
    closed,     \* close() was called
    bpc,        \* where the batcher thread is
    batch,      \* the requests of the current batch that are not answered yet
    output,     \* the rows of the server's answer that are not handed out yet
    calls,      \* how many requests each caller has submitted
    waiting,    \* callers that wait on the event of their last request
    set,        \* requests whose event is set
    result,     \* req.result: the request whose payload the row was computed from
    error,      \* requests whose req.error is set
    returned,   \* what submit gave its caller
    submitted   \* history: all requests, in the order they were queued

caller_vars == <<calls, waiting, returned>>
batcher_vars == <<bpc, batch, output>>
request_vars == <<set, result, error>>
vars == <<queue, closed, caller_vars, batcher_vars, request_vars, submitted>>

Outcomes == [kind : {"none", "value", "error", "timeout", "empty"},
             of : Requests \cup {NoRequest}]
Outcome(kind, r) == [kind |-> kind, of |-> r]

TypeOK ==
    /\ queue \in Seq(Requests)
    /\ closed \in BOOLEAN
    /\ bpc \in {"idle", "window", "infer", "answer", "fail", "stopped"}
    /\ batch \in Seq(Requests) /\ Len(batch) <= MaxBatch
    /\ output \in Seq(Requests)
    /\ calls \in [Callers -> 0 .. MaxCalls]
    /\ waiting \subseteq Callers
    /\ set \subseteq Requests
    /\ result \in [Requests -> Requests \cup {NoRequest}]
    /\ error \subseteq Requests
    /\ returned \in [Requests -> Outcomes]
    /\ submitted \in Seq(Requests)

Init ==
    /\ queue = <<>>
    /\ closed = FALSE
    /\ bpc = "idle"
    /\ batch = <<>>
    /\ output = <<>>
    /\ calls = [c \in Callers |-> 0]
    /\ waiting = {}
    /\ set = {}
    /\ result = [r \in Requests |-> NoRequest]
    /\ error = {}
    /\ returned = [r \in Requests |-> Outcome("none", NoRequest)]
    /\ submitted = <<>>

-----------------------------------------------------------------------------
(* submit, in a caller's thread.                                           *)

Current(c) == <<c, calls[c]>>

Submit(c) ==
    /\ c \notin waiting
    /\ calls[c] < MaxCalls
    /\ calls' = [calls EXCEPT ![c] = @ + 1]
    /\ queue' = Append(queue, <<c, calls[c] + 1>>)
    /\ submitted' = Append(submitted, <<c, calls[c] + 1>>)
    /\ waiting' = waiting \cup {c}
    /\ UNCHANGED <<closed, returned, batcher_vars, request_vars>>

Leave(c, outcome) ==
    /\ returned' = [returned EXCEPT ![Current(c)] = outcome]
    /\ waiting' = waiting \ {c}
    /\ UNCHANGED <<queue, closed, calls, batcher_vars, request_vars, submitted>>

(* The event was not set in time. The request stays where it is.           *)
TimeOut(c) ==
    /\ c \in waiting
    /\ Current(c) \notin set
    /\ Leave(c, Outcome("timeout", NoRequest))

(* The event is set: raise the error, or complain about an empty result,   *)
(* or return the result.                                                   *)
Return(c) ==
    /\ c \in waiting
    /\ Current(c) \in set
    /\ LET r == Current(c) IN
       \/ r \in error /\ Leave(c, Outcome("error", NoRequest))
       \/ r \notin error /\ result[r] = NoRequest /\ Leave(c, Outcome("empty", NoRequest))
       \/ r \notin error /\ result[r] # NoRequest /\ Leave(c, Outcome("value", result[r]))

Close ==
    /\ ~closed
    /\ closed' = TRUE
    /\ UNCHANGED <<queue, caller_vars, batcher_vars, request_vars, submitted>>

-----------------------------------------------------------------------------
(* _run, in the batcher's thread.                                          *)

(* Mutant: requests are taken from the wrong end of the deque.             *)
MoveNewest(n) ==
    /\ batch' = batch \o SubSeq(queue, Len(queue) - n + 1, Len(queue))
    /\ queue' = SubSeq(queue, 1, Len(queue) - n)

(* popleft, n times.                                                       *)
Move(n) ==
    /\ batch' = batch \o SubSeq(queue, 1, n)
    /\ queue' = SubSeq(queue, n + 1, Len(queue))

(* Mutant: the loop's bound is off by one.                                 *)
RoomForOneMore(n) == Len(batch) + n <= MaxBatch + 1

Room(n) == Len(batch) + n <= MaxBatch

(* Requests move into the batch until it is full or the window is over;    *)
(* if the queue runs dry before, the thread waits out the window.          *)
Gather ==
    \E n \in 1 .. Len(queue) :
        /\ Room(n)
        /\ Move(n)
        /\ \/ bpc' = "infer"
           \/ n = Len(queue) /\ Len(batch) + n < MaxBatch /\ bpc' = "window"
        /\ UNCHANGED <<closed, output, caller_vars, request_vars, submitted>>

StartBatch == bpc = "idle" /\ ~closed /\ Gather
ExtendBatch == bpc = "window" /\ Gather

(* The window is over, and nothing more has come.                          *)
WindowOver ==
    /\ bpc = "window"
    /\ queue = <<>>
    /\ bpc' = "infer"
    /\ UNCHANGED <<queue, closed, batch, output, caller_vars, request_vars, submitted>>

(* A closed batcher stops before it takes another request.                 *)
Stop ==
    /\ bpc = "idle"
    /\ closed
    /\ bpc' = "stopped"
    /\ UNCHANGED <<queue, closed, batch, output, caller_vars, request_vars, submitted>>

SameShape == \A i, j \in 1 .. Len(batch) : ShapeOf[batch[i]] = ShapeOf[batch[j]]

(* The payloads stack and the server answers with a row for each of them.  *)
InferSucceeds ==
    /\ bpc = "infer"
    /\ SameShape
    /\ output' = batch
    /\ bpc' = "answer"
    /\ UNCHANGED <<queue, closed, batch, caller_vars, request_vars, submitted>>

(* The payloads do not stack, the server fails or is too slow, or its      *)
(* answer has another number of rows than the batch.                       *)
InferFails ==
    /\ bpc = "infer"
    /\ bpc' = "fail"
    /\ UNCHANGED <<queue, closed, batch, output, caller_vars, request_vars, submitted>>

(* Mutant: the loop over the batch ends with its first request.            *)
AnsweredFirst == batch' = <<>> /\ bpc' = "idle"

(* One request of the batch is done; after the last the thread waits for   *)
(* more.                                                                   *)
Answered ==
    /\ batch' = Tail(batch)
    /\ bpc' = IF Len(batch) = 1 THEN "idle" ELSE bpc

(* Mutant: every request of the batch is given its last row.               *)
LastRow == output[Len(output)]

(* The row that belongs to the next request of the batch.                  *)
NextRow == Head(output)

AnswerNext ==
    /\ bpc = "answer"
    /\ result' = [result EXCEPT ![Head(batch)] = NextRow]
    /\ set' = set \cup {Head(batch)}
    /\ output' = Tail(output)
    /\ Answered
    /\ UNCHANGED <<queue, closed, error, caller_vars, submitted>>

(* Mutant: the event is set and the error is not.                          *)
FailNextSilently ==
    /\ bpc = "fail"
    /\ set' = set \cup {Head(batch)}
    /\ Answered
    /\ UNCHANGED <<queue, closed, output, result, error, caller_vars, submitted>>

FailNext ==
    /\ bpc = "fail"
    /\ error' = error \cup {Head(batch)}
    /\ set' = set \cup {Head(batch)}
    /\ Answered
    /\ UNCHANGED <<queue, closed, output, result, caller_vars, submitted>>

-----------------------------------------------------------------------------
Batcher ==
    \/ StartBatch \/ ExtendBatch \/ WindowOver \/ Stop
    \/ InferSucceeds \/ InferFails \/ AnswerNext \/ FailNext

Next ==
    \/ \E c \in Callers : Submit(c) \/ TimeOut(c) \/ Return(c)
    \/ Batcher
    \/ Close

Spec == Init /\ [][Next]_vars

(* Waits in the batcher have timeouts and the server is called with one,   *)
(* so the daemon thread always goes on.                                    *)
FairSpec == Spec /\ WF_vars(Batcher)

-----------------------------------------------------------------------------
(* A caller that gets a result gets the one computed from its own payload, *)
(* whatever was batched with it, and however late earlier answers came.    *)
OwnResult ==
    \A r \in Requests : returned[r].kind = "value" => returned[r].of = r

(* Requests are answered in the order they were queued, none twice and     *)
(* none skipped, also when callers give up on them, a batch fails or the   *)
(* batcher is closed: what is neither answered nor in the batch is queued. *)
AnsweredInOrder ==
    LET unanswered == batch \o queue
        n == Len(submitted) - Len(unanswered)
    IN  /\ n >= 0
        /\ unanswered = SubSeq(submitted, n + 1, Len(submitted))
        /\ set = {submitted[i] : i \in 1 .. n}

(* submit never reports an empty result: by the time an event is set, the  *)
(* request has its result or its error.                                    *)
NeverEmpty == \A r \in Requests : returned[r].kind # "empty"

(* A queued request is answered, unless the batcher is closed before it is *)
(* taken: a failed batch, or one nobody waits for any more, does not stop  *)
(* the batcher.                                                            *)
EveryRequestIsAnswered ==
    \A r \in Requests :
        (\E i \in 1 .. Len(queue) : queue[i] = r) ~> (r \in set \/ closed)
=============================================================================
