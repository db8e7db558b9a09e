------------------------ MODULE TritonBatcherProofs ------------------------
(***************************************************************************)
(* Theorems about TritonBatcher, for any number of callers and requests,   *)
(* any batch size and any shapes.                                          *)
(***************************************************************************)
EXTENDS TritonBatcher, TLAPS

-----------------------------------------------------------------------------
(* The inductive invariant, by parts.                                      *)

(* The thread holds a batch exactly while it works on one, and the rows it *)
(* hands out are those of the requests that are left in it.                *)
BatchOK ==
    /\ (batch = <<>>) <=> bpc \in {"idle", "stopped"}
    /\ bpc = "answer" => output = batch

(* AnsweredInOrder, place by place.                                        *)
Answers == Len(submitted) - (Len(batch) + Len(queue))
InOrder ==
    /\ Len(batch) + Len(queue) <= Len(submitted)
    /\ \A i \in 1 .. Len(batch) : batch[i] = submitted[Answers + i]
    /\ \A i \in 1 .. Len(queue) : queue[i] = submitted[Answers + Len(batch) + i]
    /\ set = {submitted[i] : i \in 1 .. Answers}

(* A row goes to the request it was computed from, and an event is set     *)
(* only after the row or the error is there.                               *)
RowsOK ==
    /\ \A r \in Requests : result[r] \in {r, NoRequest}
    /\ \A r \in set : r \in error \/ result[r] # NoRequest

IInv == TypeOK /\ BatchOK /\ InOrder /\ RowsOK /\ OwnResult /\ NeverEmpty

-----------------------------------------------------------------------------
LEMMA InitIInv == Init => IInv
  <1> SUFFICES ASSUME Init PROVE IInv
    OBVIOUS
  <1> USE MaxBatchAssumption, MaxCallsAssumption DEF Init
  <1>1. TypeOK
    <2>1. Outcome("none", NoRequest) \in Outcomes
      BY DEF Outcome, Outcomes
    <2>2. /\ queue \in Seq(Requests) /\ submitted \in Seq(Requests)
          /\ batch \in Seq(Requests) /\ output \in Seq(Requests)
          /\ Len(batch) <= MaxBatch
      OBVIOUS
    <2>3. returned \in [Requests -> Outcomes] /\ result \in [Requests -> Requests \cup {NoRequest}]
      BY <2>1
    <2>4. calls \in [Callers -> 0 .. MaxCalls]
      OBVIOUS
    <2>5. QED
      BY <2>2, <2>3, <2>4 DEF TypeOK
  <1>2. BatchOK /\ RowsOK /\ OwnResult /\ NeverEmpty
    BY DEF BatchOK, RowsOK, OwnResult, NeverEmpty, Outcome
  <1>3. InOrder
    BY DEF InOrder, Answers
  <1>4. QED
    BY <1>1, <1>2, <1>3 DEF IInv

LEMMA StepSubmit ==
    ASSUME IInv, NEW c \in Callers, Submit(c)
    PROVE  IInv'
  <1> DEFINE r == <<c, calls[c] + 1>>
  <1> USE MaxCallsAssumption DEF IInv
  <1>1. r \in Requests /\ calls[c] + 1 \in 0 .. MaxCalls
    BY DEF TypeOK, Submit, Requests
  <1>2. /\ Len(queue') = Len(queue) + 1 /\ Len(submitted') = Len(submitted) + 1
        /\ queue' \in Seq(Requests) /\ submitted' \in Seq(Requests)
        /\ \A i \in 1 .. Len(queue) : queue'[i] = queue[i]
        /\ \A i \in 1 .. Len(submitted) : submitted'[i] = submitted[i]
        /\ queue'[Len(queue) + 1] = r /\ submitted'[Len(submitted) + 1] = r
    BY <1>1 DEF TypeOK, Submit
  <1>3. TypeOK'
    BY <1>1, <1>2 DEF TypeOK, Submit, batcher_vars, request_vars
  <1>4. /\ Answers' = Answers /\ Answers \in Nat
        /\ Answers + Len(batch) + Len(queue) = Len(submitted)
        /\ Len(batch) \in Nat /\ Len(queue) \in Nat /\ Len(submitted) \in Nat
    BY <1>2 DEF TypeOK, InOrder, Answers, Submit, batcher_vars
  <1>5. InOrder'
    <2>1. Len(batch') + Len(queue') <= Len(submitted')
      BY <1>2 DEF TypeOK, InOrder, Submit, batcher_vars
    <2>2. \A i \in 1 .. Len(batch') : batch'[i] = submitted'[Answers' + i]
      <3>1. batch' = batch
        BY DEF Submit, batcher_vars
      <3>2. \A i \in 1 .. Len(batch) : Answers + i \in 1 .. Len(submitted)
        BY <1>4
      <3>3. QED
        BY <1>2, <1>4, <3>1, <3>2 DEF InOrder
    <2>3. ASSUME NEW i \in 1 .. Len(queue')
          PROVE  queue'[i] = submitted'[Answers' + Len(batch') + i]
      <3>1. batch' = batch
        BY DEF Submit, batcher_vars
      <3>2. CASE i <= Len(queue)
        <4>1. i \in 1 .. Len(queue) /\ Answers + Len(batch) + i \in 1 .. Len(submitted)
          BY <1>4, <3>2
        <4>2. QED
          BY <1>2, <1>4, <3>1, <4>1 DEF InOrder
      <3>3. CASE i = Len(queue) + 1
        <4>1. Answers + Len(batch) + i = Len(submitted) + 1
          BY <3>3 DEF Answers, TypeOK
        <4>2. QED
          BY <1>2, <1>4, <3>1, <3>3, <4>1
      <3>4. QED
        BY <1>2, <3>2, <3>3 DEF TypeOK
    <2>4. set' = {submitted'[i] : i \in 1 .. Answers'}
      BY <1>2, <1>4 DEF InOrder, Submit, request_vars, TypeOK
    <2>5. QED
      BY <2>1, <2>2, <2>3, <2>4 DEF InOrder
  <1>6. BatchOK' /\ RowsOK' /\ OwnResult' /\ NeverEmpty'
    BY DEF BatchOK, RowsOK, OwnResult, NeverEmpty, Submit, batcher_vars, request_vars
  <1>7. QED
    BY <1>3, <1>5, <1>6

LEMMA StepLeave ==
    ASSUME IInv, NEW c \in Callers, NEW o \in Outcomes, Leave(c, o),
           o.kind = "value" => o.of = Current(c),
           o.kind # "empty"
    PROVE  IInv'
  <1> USE DEF IInv
  <1>1. TypeOK'
    BY DEF TypeOK, Leave, batcher_vars, request_vars
  <1>2. BatchOK' /\ InOrder' /\ RowsOK'
    BY DEF BatchOK, InOrder, Answers, RowsOK, Leave, batcher_vars, request_vars
  <1>3. OwnResult' /\ NeverEmpty'
    BY DEF OwnResult, NeverEmpty, Leave, TypeOK
  <1>4. QED
    BY <1>1, <1>2, <1>3

LEMMA StepReturn ==
    ASSUME IInv, NEW c \in Callers, TimeOut(c) \/ Return(c)
    PROVE  IInv'
  <1>1. CASE TimeOut(c)
    BY <1>1, StepLeave DEF TimeOut, Outcome, Outcomes
  <1>2. CASE Return(c)
    <2> DEFINE r == Current(c)
    <2>1. r \in set /\ r \in Requests
      BY <1>2 DEF Return, IInv, TypeOK
    <2>2. result[r] \in {r, NoRequest} /\ (r \in error \/ result[r] # NoRequest)
      BY <2>1 DEF IInv, RowsOK
    <2>3. CASE r \in error
      BY <1>2, <2>3, StepLeave DEF Return, Outcome, Outcomes
    <2>4. CASE r \notin error
      <3>1. Leave(c, Outcome("value", r))
        BY <1>2, <2>2, <2>4 DEF Return
      <3>2. QED
        BY <2>1, <3>1, StepLeave DEF Outcome, Outcomes
    <2>5. QED
      BY <2>3, <2>4
  <1>3. QED
    BY <1>1, <1>2

-----------------------------------------------------------------------------
(* What n calls of popleft do to the two sequences.                        *)
LEMMA Moved ==
    ASSUME TypeOK, NEW n \in 1 .. Len(queue), Move(n)
    PROVE  /\ batch' \in Seq(Requests) /\ queue' \in Seq(Requests)
           /\ Len(batch') = Len(batch) + n
           /\ Len(queue') = Len(queue) - n
           /\ \A i \in 1 .. Len(batch) : batch'[i] = batch[i]
           /\ \A i \in 1 .. n : batch'[Len(batch) + i] = queue[i]
           /\ \A i \in 1 .. Len(queue') : queue'[i] = queue[n + i]
  <1> DEFINE head == SubSeq(queue, 1, n)
             rest == SubSeq(queue, n + 1, Len(queue))
  <1>1. queue \in Seq(Requests) /\ batch \in Seq(Requests)
    BY DEF TypeOK
  <1>2. head \in Seq(Requests) /\ Len(head) = n /\ \A i \in 1 .. n : head[i] = queue[i]
    BY <1>1
  <1>3. /\ rest \in Seq(Requests) /\ Len(rest) = Len(queue) - n
        /\ \A i \in 1 .. Len(rest) : rest[i] = queue[n + i]
    BY <1>1
  <1>4. batch' = batch \o head /\ queue' = rest
    BY DEF Move
  <1> HIDE DEF head, rest
  <1>5. batch \o head \in Seq(Requests) /\ Len(batch \o head) = Len(batch) + n
    BY <1>1, <1>2
  <1>6. \A i \in 1 .. Len(batch) : (batch \o head)[i] = batch[i]
    BY <1>1, <1>2
  <1>7. \A i \in 1 .. n : (batch \o head)[Len(batch) + i] = queue[i]
    BY <1>1, <1>2
  <1>8. QED
    BY <1>3, <1>4, <1>5, <1>6, <1>7

LEMMA StepGather ==
    ASSUME IInv, Gather, bpc \in {"idle", "window"}
    PROVE  IInv'
  <1> USE MaxBatchAssumption DEF IInv
  <1>1. PICK n \in 1 .. Len(queue) :
          /\ Room(n)
          /\ Move(n)
          /\ bpc' \in {"infer", "window"}
          /\ UNCHANGED <<closed, output, caller_vars, request_vars, submitted>>
    BY DEF Gather
  <1>2. /\ batch' \in Seq(Requests) /\ queue' \in Seq(Requests)
        /\ Len(batch') = Len(batch) + n
        /\ Len(queue') = Len(queue) - n
        /\ \A i \in 1 .. Len(batch) : batch'[i] = batch[i]
        /\ \A i \in 1 .. n : batch'[Len(batch) + i] = queue[i]
        /\ \A i \in 1 .. Len(queue') : queue'[i] = queue[n + i]
    BY <1>1, Moved
  <1>3. TypeOK'
    BY <1>1, <1>2 DEF TypeOK, Room, caller_vars, request_vars
  <1>4. BatchOK'
    BY <1>1, <1>2 DEF BatchOK, TypeOK
  <1>5. Answers' = Answers /\ Answers \in Nat
    BY <1>1, <1>2 DEF Answers, InOrder, TypeOK
  <1>6. InOrder'
    <2>1. Len(batch') + Len(queue') <= Len(submitted')
      BY <1>1, <1>2 DEF InOrder, TypeOK
    <2>2. ASSUME NEW i \in 1 .. Len(batch')
          PROVE  batch'[i] = submitted'[Answers' + i]
      <3>1. CASE i <= Len(batch)
        BY <1>1, <1>2, <1>5, <3>1 DEF InOrder, TypeOK
      <3>2. CASE i > Len(batch)
        <4>1. PICK k \in 1 .. n : i = Len(batch) + k
          <5>1. i - Len(batch) \in 1 .. n /\ i = Len(batch) + (i - Len(batch))
            BY <1>2, <3>2 DEF TypeOK
          <5>2. QED
            BY <5>1
        <4>2. batch'[i] = queue[k] /\ k \in 1 .. Len(queue)
          BY <1>2, <4>1 DEF TypeOK
        <4>3. Answers + Len(batch) + k = Answers + i
          BY <1>5, <4>1 DEF TypeOK
        <4>4. queue[k] = submitted[Answers + i]
          BY <4>2, <4>3 DEF InOrder
        <4>5. QED
          BY <1>1, <1>5, <4>2, <4>4
      <3>3. QED
        BY <3>1, <3>2 DEF TypeOK
    <2>3. ASSUME NEW i \in 1 .. Len(queue')
          PROVE  queue'[i] = submitted'[Answers' + Len(batch') + i]
      <3>1. n + i \in 1 .. Len(queue) /\ queue'[i] = queue[n + i]
        BY <1>2 DEF TypeOK
      <3>2. queue[n + i] = submitted[Answers + Len(batch) + (n + i)]
        BY <3>1 DEF InOrder
      <3>3. Answers + Len(batch) + (n + i) = Answers + Len(batch') + i
        BY <1>2, <1>5 DEF TypeOK
      <3>4. QED
        BY <1>1, <1>5, <3>1, <3>2, <3>3
    <2>4. set' = {submitted'[i] : i \in 1 .. Answers'}
      BY <1>1, <1>5 DEF InOrder, request_vars
    <2>5. QED
      BY <2>1, <2>2, <2>3, <2>4 DEF InOrder
  <1>7. RowsOK' /\ OwnResult' /\ NeverEmpty'
    BY <1>1 DEF RowsOK, OwnResult, NeverEmpty, caller_vars, request_vars
  <1>8. QED
    BY <1>3, <1>4, <1>6, <1>7

(* Steps that move no request.                                             *)
LEMMA StepThread ==
    ASSUME IInv, WindowOver \/ Stop \/ InferSucceeds \/ InferFails \/ Close
    PROVE  IInv'
  <1> USE DEF IInv, WindowOver, Stop, InferSucceeds, InferFails, Close, batcher_vars
  <1>1. TypeOK'
    BY DEF TypeOK, caller_vars, request_vars
  <1>2. BatchOK'
    BY DEF BatchOK
  <1>3. InOrder'
    <2>1. UNCHANGED <<queue, batch, submitted, set>>
      BY DEF request_vars
    <2>2. Answers' = Answers
      BY <2>1 DEF Answers
    <2>3. QED
      BY <2>1, <2>2 DEF InOrder
  <1>4. RowsOK' /\ OwnResult' /\ NeverEmpty'
    BY DEF RowsOK, OwnResult, NeverEmpty, caller_vars, request_vars
  <1>5. QED
    BY <1>1, <1>2, <1>3, <1>4

(* What answering the next request of the batch does to the order.         *)
LEMMA StepAnswered ==
    ASSUME TypeOK, BatchOK, InOrder, bpc \in {"answer", "fail"}, Answered,
           set' = set \cup {Head(batch)}, UNCHANGED <<queue, submitted>>
    PROVE  /\ InOrder'
           /\ Head(batch) \in Requests
           /\ batch' \in Seq(Requests) /\ Len(batch') <= MaxBatch
           /\ (batch' = <<>>) <=> (bpc' = "idle")
           /\ bpc' \in {bpc, "idle"}
  <1> USE MaxBatchAssumption DEF TypeOK
  <1>1. batch # <<>> /\ Len(batch) >= 1
    BY DEF BatchOK
  <1>2. /\ Head(batch) = batch[1] /\ Head(batch) \in Requests
        /\ batch' \in Seq(Requests) /\ Len(batch') = Len(batch) - 1
        /\ \A i \in 1 .. Len(batch') : batch'[i] = batch[i + 1]
    BY <1>1 DEF Answered
  <1>3. Answers' = Answers + 1 /\ Answers \in Nat
    BY <1>2 DEF Answers, InOrder
  <1>4. InOrder'
    <2>1. Len(batch') + Len(queue') <= Len(submitted')
      BY <1>2 DEF InOrder
    <2>2. ASSUME NEW i \in 1 .. Len(batch')
          PROVE  batch'[i] = submitted'[Answers' + i]
      <3>1. i + 1 \in 1 .. Len(batch) /\ Answers + (i + 1) = Answers' + i
        BY <1>2, <1>3
      <3>2. QED
        BY <1>2, <3>1 DEF InOrder
    <2>3. ASSUME NEW i \in 1 .. Len(queue')
          PROVE  queue'[i] = submitted'[Answers' + Len(batch') + i]
      <3>1. Answers' + Len(batch') + i = Answers + Len(batch) + i
        BY <1>2, <1>3
      <3>2. QED
        BY <3>1 DEF InOrder
    <2>4. set' = {submitted'[i] : i \in 1 .. Answers'}
      <3>1. batch[1] = submitted[Answers + 1]
        BY <1>1 DEF InOrder
      <3>2. 1 .. Answers' = (1 .. Answers) \cup {Answers + 1}
        BY <1>3
      <3>3. {submitted[i] : i \in 1 .. Answers'}
              = {submitted[i] : i \in 1 .. Answers} \cup {submitted[Answers + 1]}
        BY <3>2
      <3>4. set = {submitted[i] : i \in 1 .. Answers}
        BY DEF InOrder
      <3>5. set' = {submitted[i] : i \in 1 .. Answers'}
        <4>1. set' = set \cup {submitted[Answers + 1]}
          BY <1>2, <3>1
        <4>2. QED
          BY <3>3, <3>4, <4>1
      <3>6. QED
        BY <3>5
    <2>5. QED
      BY <2>1, <2>2, <2>3, <2>4 DEF InOrder
  <1>5. (batch' = <<>>) <=> (bpc' = "idle")
    <2>1. (batch' = <<>>) <=> (Len(batch) = 1)
      <3>1. \A s \in Seq(Requests) : (s = <<>>) <=> (Len(s) = 0)
        OBVIOUS
      <3>2. (batch' = <<>>) <=> (Len(batch') = 0)
        BY <1>2, <3>1, Zenon
      <3>3. Len(batch) \in Nat
        BY DEF TypeOK
      <3>4. (Len(batch') = 0) <=> (Len(batch) = 1)
        BY <1>2, <3>3
      <3>5. QED
        BY <3>2, <3>4, Zenon
    <2>2. (bpc' = "idle") <=> (Len(batch) = 1)
      BY DEF Answered
    <2>3. QED
      BY <2>1, <2>2
  <1>6. QED
    BY <1>2, <1>4, <1>5 DEF Answered

LEMMA StepAnswerNext ==
    ASSUME IInv, AnswerNext
    PROVE  IInv'
  <1> USE DEF IInv
  <1>1. /\ InOrder'
        /\ Head(batch) \in Requests
        /\ batch' \in Seq(Requests) /\ Len(batch') <= MaxBatch
        /\ (batch' = <<>>) <=> (bpc' = "idle")
        /\ bpc' \in {bpc, "idle"}
    BY StepAnswered DEF AnswerNext
  <1>2. output = batch /\ NextRow = Head(batch)
    BY DEF AnswerNext, BatchOK, NextRow
  <1>3. output' = batch'
    BY <1>2 DEF AnswerNext, Answered
  <1>4. TypeOK'
    BY <1>1, <1>2, <1>3 DEF TypeOK, AnswerNext, caller_vars
  <1>5. BatchOK'
    BY <1>1, <1>3 DEF BatchOK, AnswerNext
  <1>6. RowsOK'
    BY <1>1, <1>2, NoRequestAssumption DEF RowsOK, AnswerNext, TypeOK
  <1>7. OwnResult' /\ NeverEmpty'
    BY DEF OwnResult, NeverEmpty, AnswerNext, caller_vars
  <1>8. QED
    BY <1>1, <1>4, <1>5, <1>6, <1>7

LEMMA StepFailNext ==
    ASSUME IInv, FailNext
    PROVE  IInv'
  <1> USE DEF IInv
  <1>1. /\ InOrder'
        /\ Head(batch) \in Requests
        /\ batch' \in Seq(Requests) /\ Len(batch') <= MaxBatch
        /\ (batch' = <<>>) <=> (bpc' = "idle")
        /\ bpc' \in {bpc, "idle"}
    BY StepAnswered DEF FailNext
  <1>2. TypeOK'
    BY <1>1 DEF TypeOK, FailNext, caller_vars
  <1>3. BatchOK'
    BY <1>1 DEF BatchOK, FailNext
  <1>4. RowsOK' /\ OwnResult' /\ NeverEmpty'
    BY DEF RowsOK, OwnResult, NeverEmpty, FailNext, caller_vars
  <1>5. QED
    BY <1>1, <1>2, <1>3, <1>4

LEMMA StepIInv == IInv /\ [Next]_vars => IInv'
  <1> SUFFICES ASSUME IInv, [Next]_vars PROVE IInv'
    OBVIOUS
  <1>1. ASSUME NEW c \in Callers, Submit(c) \/ TimeOut(c) \/ Return(c) PROVE IInv'
    BY <1>1, StepSubmit, StepReturn
  <1>2. CASE StartBatch \/ ExtendBatch
    BY <1>2, StepGather DEF StartBatch, ExtendBatch
  <1>3. CASE WindowOver \/ Stop \/ InferSucceeds \/ InferFails \/ Close
    BY <1>3, StepThread
  <1>4. CASE AnswerNext \/ FailNext
    BY <1>4, StepAnswerNext, StepFailNext
  <1>5. CASE UNCHANGED vars
    BY <1>5 DEF IInv, TypeOK, BatchOK, InOrder, Answers, RowsOK, OwnResult, NeverEmpty, vars,
       caller_vars, batcher_vars, request_vars
  <1>6. QED
    BY <1>1, <1>2, <1>3, <1>4, <1>5 DEF Next, Batcher

(* The parts of the invariant hold of every state of _ModelBatcher.        *)
THEOREM BatcherInvariant == Spec => []IInv
  BY InitIInv, StepIInv, PTL DEF Spec

-----------------------------------------------------------------------------
(* Every variable keeps its type, and a batch its limit.                   *)
THEOREM TypeCorrect == Spec => []TypeOK
  BY BatcherInvariant, PTL DEF IInv

(* What submit returns was computed from the caller's own payload.         *)
THEOREM ResultsReachTheirRequests == Spec => []OwnResult
  BY BatcherInvariant, PTL DEF IInv

(* An event is never set before its result or its error is there.          *)
THEOREM NoEmptyResult == Spec => []NeverEmpty
  BY BatcherInvariant, PTL DEF IInv

(* Requests are answered in the order they were queued, and each leaves    *)
(* the queue and the batch exactly when it is answered.                    *)
THEOREM OrderIsKept == Spec => []AnsweredInOrder
  <1>1. TypeOK /\ InOrder => AnsweredInOrder
    <2> SUFFICES ASSUME TypeOK, InOrder PROVE AnsweredInOrder
      OBVIOUS
    <2> DEFINE left == batch \o queue
               tail == SubSeq(submitted, Answers + 1, Len(submitted))
    <2>1. /\ left \in Seq(Requests) /\ Len(left) = Len(batch) + Len(queue)
          /\ Len(batch) \in Nat /\ Len(queue) \in Nat
          /\ \A i \in 1 .. Len(batch) : left[i] = batch[i]
          /\ \A i \in 1 .. Len(queue) : left[Len(batch) + i] = queue[i]
      BY DEF TypeOK
    <2>2. Answers \in Nat /\ Answers = Len(submitted) - Len(left)
      BY <2>1 DEF TypeOK, InOrder, Answers
    <2>3. tail \in Seq(Requests) /\ Len(tail) = Len(left)
      BY <2>1, <2>2 DEF TypeOK
    <2>4. ASSUME NEW i \in 1 .. Len(left) PROVE left[i] = tail[i]
      <3>1. tail[i] = submitted[Answers + i]
        BY <2>1, <2>2, <2>3, SMTT(40) DEF TypeOK
      <3>2. CASE i <= Len(batch)
        <4>1. i \in 1 .. Len(batch)
          BY <2>1, <3>2
        <4>2. QED
          BY <2>1, <3>1, <4>1 DEF InOrder
      <3>3. CASE i > Len(batch)
        <4>1. PICK k \in 1 .. Len(queue) : i = Len(batch) + k
          <5>1. i - Len(batch) \in 1 .. Len(queue) /\ i = Len(batch) + (i - Len(batch))
            BY <2>1, <3>3
          <5>2. QED
            BY <5>1
        <4>2. left[i] = queue[k] /\ Answers + Len(batch) + k = Answers + i
          BY <2>1, <2>2, <4>1, SMTT(40)
        <4>3. QED
          BY <3>1, <4>1, <4>2 DEF InOrder
      <3>4. QED
        <4>1. i <= Len(batch) \/ i > Len(batch)
          BY <2>1
        <4>2. QED
          BY <3>2, <3>3, <4>1
    <2>5. left = tail
      <3> HIDE DEF left, tail
      <3>1. QED
        BY <2>1, <2>3, <2>4
    <2>6. set = {submitted[i] : i \in 1 .. Answers}
      BY DEF InOrder
    <2>7. QED
      <3>1. Len(submitted) - Len(left) = Answers /\ Answers >= 0
        BY <2>2
      <3>2. left = SubSeq(submitted, (Len(submitted) - Len(left)) + 1, Len(submitted))
        BY <2>5, <3>1
      <3>3. set = {submitted[i] : i \in 1 .. Len(submitted) - Len(left)}
        BY <2>6, <3>1
      <3>4. QED
        BY <3>1, <3>2, <3>3, Zenon DEF AnsweredInOrder
  <1>2. QED
    BY <1>1, BatcherInvariant, PTL DEF IInv
=============================================================================
