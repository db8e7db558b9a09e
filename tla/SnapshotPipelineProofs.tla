----------------------- MODULE SnapshotPipelineProofs -----------------------
(***************************************************************************)
(* Theorems about SnapshotPipeline, for any number of workers, students,   *)
(* uploads and crashes, any clock and any window.                          *)
(***************************************************************************)
EXTENDS SnapshotPipeline, FiniteSetTheorems, TLAPS

-----------------------------------------------------------------------------
(* The inductive invariant, by parts.                                      *)

(* A worker that is not idle holds an upload that the broker knows to be   *)
(* held, and two workers never hold the same one; a clip never gets to the *)
(* steps of process_snapshot.                                              *)
HolderOK ==
    /\ \A w \in Workers : pc[w] # "idle" =>
          /\ job[w] \in Tasks
          /\ broker[job[w]] = "held"
          /\ attempt[job[w]] \in Deliveries
          /\ pc[w] \in {"recognise", "dedup"} => job[w] \notin ClipTasks
    /\ \A v, w \in Workers :
          pc[v] # "idle" /\ pc[w] # "idle" /\ job[v] = job[w] => v = w

(* An upload is delivered again only after a crash.                        *)
DeliveryOK ==
    \A t \in Tasks :
        attempt[t] + (IF broker[t] = "queued" THEN 1 ELSE 0) <= crashes + 1

Control == TypeOK /\ HolderOK /\ DeliveryOK

-----------------------------------------------------------------------------
LEMMA SnapIsId ==
    ASSUME Control, NEW w \in Workers, pc[w] # "idle"
    PROVE  Snap(w) \in SnapIds /\ Snap(w)[1] = job[w] /\ Snap(w)[2] = attempt[job[w]]
  BY DEF Control, HolderOK, Snap, SnapIds

LEMMA InitControl == Init => Control
  <1> SUFFICES ASSUME Init PROVE Control
    OBVIOUS
  <1> USE BoundsAssumption DEF Init
  <1>1. TypeOK
    BY DEF TypeOK, SnapIds, Times, Deliveries, Settled
  <1>2. HolderOK
    BY DEF HolderOK
  <1>3. DeliveryOK
    BY DEF DeliveryOK
  <1>4. QED
    BY <1>1, <1>2, <1>3 DEF Control

LEMMA StepTake ==
    ASSUME Control, NEW w \in Workers, NEW t \in Tasks, Take(w, t)
    PROVE  Control'
  <1> USE BoundsAssumption DEF Control
  <1>1. attempt[t] + 1 \in 1 .. MaxCrashes + 1 /\ attempt[t] + 1 <= crashes + 1
    BY DEF TypeOK, DeliveryOK, Take
  <1>2. TypeOK'
    BY <1>1 DEF TypeOK, Take, admin_vars, table_vars, event_vars, history_vars
  <1>3. HolderOK'
    BY <1>1 DEF TypeOK, HolderOK, Take, Deliveries
  <1>4. DeliveryOK'
    BY <1>1 DEF TypeOK, DeliveryOK, Take
  <1>5. QED
    BY <1>2, <1>3, <1>4

LEMMA StepCrash ==
    ASSUME Control, NEW w \in Workers, Crash(w)
    PROVE  Control'
  <1> USE BoundsAssumption DEF Control, Requeued
  <1>1. job[w] \in Tasks
    BY DEF HolderOK, Crash
  <1>2. TypeOK'
    BY <1>1 DEF TypeOK, Crash, admin_vars, table_vars, event_vars, history_vars, Settled
  <1>3. HolderOK'
    BY <1>1 DEF TypeOK, HolderOK, Crash, Deliveries
  <1>4. DeliveryOK'
    BY <1>1 DEF TypeOK, DeliveryOK, Crash
  <1>5. QED
    BY <1>2, <1>3, <1>4

LEMMA StepSettle ==
    ASSUME Control, NEW w \in Workers, NEW outcome \in Settled, pc[w] # "idle", Settle(w, outcome),
           UNCHANGED <<now, admin_vars, table_vars, event_vars, history_vars>>
    PROVE  Control'
  <1>1. TypeOK'
    BY BoundsAssumption, SnapIsId DEF Control, TypeOK, Settle, Acked, Settled,
       broker_vars, worker_vars, admin_vars, table_vars, event_vars,
       history_vars
  <1>2. HolderOK'
    BY DEF Control, TypeOK, HolderOK, Settle, Acked, Settled, broker_vars,
       worker_vars, admin_vars, table_vars, event_vars, history_vars
  <1>3. DeliveryOK'
    BY DEF Control, TypeOK, DeliveryOK, HolderOK, Settle, Acked, Settled,
       broker_vars, worker_vars, admin_vars, table_vars, event_vars,
       history_vars
  <1>4. QED
    BY <1>1, <1>2, <1>3 DEF Control

LEMMA StepBegin ==
    ASSUME Control, NEW w \in Workers, Begin(w)
    PROVE  Control'
  <1>1. TypeOK'
    BY BoundsAssumption, SnapIsId DEF Control, TypeOK, Begin, ReadClock,
       Times, broker_vars, worker_vars, admin_vars, table_vars, event_vars,
       history_vars
  <1>2. HolderOK'
    BY DEF Control, TypeOK, HolderOK, Begin, ReadClock, Times, broker_vars,
       worker_vars, admin_vars, table_vars, event_vars, history_vars
  <1>3. DeliveryOK'
    BY DEF Control, TypeOK, DeliveryOK, HolderOK, Begin, ReadClock, Times,
       broker_vars, worker_vars, admin_vars, table_vars, event_vars,
       history_vars
  <1>4. QED
    BY <1>1, <1>2, <1>3 DEF Control

LEMMA StepRecogniseClip ==
    ASSUME Control, NEW w \in Workers, RecogniseClip(w)
    PROVE  Control'
  <1>1. TypeOK'
    BY BoundsAssumption, SnapIsId DEF Control, TypeOK, RecogniseClip,
       ReadClock, Times, Confirmed, broker_vars, worker_vars, admin_vars,
       table_vars, event_vars, history_vars
  <1>2. HolderOK'
    BY DEF Control, TypeOK, HolderOK, RecogniseClip, ReadClock, Times,
       Confirmed, broker_vars, worker_vars, admin_vars, table_vars,
       event_vars, history_vars
  <1>3. DeliveryOK'
    BY DEF Control, TypeOK, DeliveryOK, HolderOK, RecogniseClip, ReadClock,
       Times, Confirmed, broker_vars, worker_vars, admin_vars, table_vars,
       event_vars, history_vars
  <1>4. QED
    BY <1>1, <1>2, <1>3 DEF Control

LEMMA StepOpenSnapshot ==
    ASSUME Control, NEW w \in Workers, OpenSnapshot(w)
    PROVE  Control'
  <1>1. TypeOK'
    BY BoundsAssumption, SnapIsId DEF Control, TypeOK, OpenSnapshot,
       broker_vars, worker_vars, admin_vars, table_vars, event_vars,
       history_vars
  <1>2. HolderOK'
    BY DEF Control, TypeOK, HolderOK, OpenSnapshot, broker_vars, worker_vars,
       admin_vars, table_vars, event_vars, history_vars
  <1>3. DeliveryOK'
    BY DEF Control, TypeOK, DeliveryOK, HolderOK, OpenSnapshot, broker_vars,
       worker_vars, admin_vars, table_vars, event_vars, history_vars
  <1>4. QED
    BY <1>1, <1>2, <1>3 DEF Control

LEMMA StepRecognise ==
    ASSUME Control, NEW w \in Workers, Recognise(w)
    PROVE  Control'
  <1>1. TypeOK'
    BY BoundsAssumption, SnapIsId DEF Control, TypeOK, Recognise, broker_vars,
       worker_vars, admin_vars, table_vars, event_vars, history_vars
  <1>2. HolderOK'
    BY DEF Control, TypeOK, HolderOK, Recognise, broker_vars, worker_vars,
       admin_vars, table_vars, event_vars, history_vars
  <1>3. DeliveryOK'
    BY DEF Control, TypeOK, DeliveryOK, HolderOK, Recognise, broker_vars,
       worker_vars, admin_vars, table_vars, event_vars, history_vars
  <1>4. QED
    BY <1>1, <1>2, <1>3 DEF Control

LEMMA StepReadSightings ==
    ASSUME Control, NEW w \in Workers, ReadSightings(w)
    PROVE  Control'
  <1>1. TypeOK'
    BY BoundsAssumption, SnapIsId DEF Control, TypeOK, ReadSightings,
       broker_vars, worker_vars, admin_vars, table_vars, event_vars,
       history_vars
  <1>2. HolderOK'
    BY DEF Control, TypeOK, HolderOK, ReadSightings, broker_vars, worker_vars,
       admin_vars, table_vars, event_vars, history_vars
  <1>3. DeliveryOK'
    BY DEF Control, TypeOK, DeliveryOK, HolderOK, ReadSightings, broker_vars,
       worker_vars, admin_vars, table_vars, event_vars, history_vars
  <1>4. QED
    BY <1>1, <1>2, <1>3 DEF Control

LEMMA StepCommitDetections ==
    ASSUME Control, NEW w \in Workers, CommitDetections(w)
    PROVE  Control'
  <1>1. TypeOK'
    BY BoundsAssumption, SnapIsId DEF Control, TypeOK, CommitDetections,
       broker_vars, worker_vars, admin_vars, table_vars, event_vars,
       history_vars
  <1>2. HolderOK'
    BY DEF Control, TypeOK, HolderOK, CommitDetections, broker_vars,
       worker_vars, admin_vars, table_vars, event_vars, history_vars
  <1>3. DeliveryOK'
    BY DEF Control, TypeOK, DeliveryOK, HolderOK, CommitDetections,
       broker_vars, worker_vars, admin_vars, table_vars, event_vars,
       history_vars
  <1>4. QED
    BY <1>1, <1>2, <1>3 DEF Control

LEMMA StepPublishDetection ==
    ASSUME Control, NEW w \in Workers, PublishDetection(w)
    PROVE  Control'
  <1>1. TypeOK'
    BY BoundsAssumption, SnapIsId DEF Control, TypeOK, PublishDetection,
       broker_vars, worker_vars, admin_vars, table_vars, event_vars,
       history_vars
  <1>2. HolderOK'
    BY DEF Control, TypeOK, HolderOK, PublishDetection, broker_vars,
       worker_vars, admin_vars, table_vars, event_vars, history_vars
  <1>3. DeliveryOK'
    BY DEF Control, TypeOK, DeliveryOK, HolderOK, PublishDetection,
       broker_vars, worker_vars, admin_vars, table_vars, event_vars,
       history_vars
  <1>4. QED
    BY <1>1, <1>2, <1>3 DEF Control

LEMMA StepPublishComplete ==
    ASSUME Control, NEW w \in Workers, PublishComplete(w)
    PROVE  Control'
  <1>1. TypeOK'
    BY BoundsAssumption, SnapIsId DEF Control, TypeOK, PublishComplete,
       broker_vars, worker_vars, admin_vars, table_vars, event_vars,
       history_vars
  <1>2. HolderOK'
    BY DEF Control, TypeOK, HolderOK, PublishComplete, broker_vars,
       worker_vars, admin_vars, table_vars, event_vars, history_vars
  <1>3. DeliveryOK'
    BY DEF Control, TypeOK, DeliveryOK, HolderOK, PublishComplete,
       broker_vars, worker_vars, admin_vars, table_vars, event_vars,
       history_vars
  <1>4. QED
    BY <1>1, <1>2, <1>3 DEF Control

LEMMA StepPublishFails ==
    ASSUME Control, NEW w \in Workers, PublishFails(w)
    PROVE  Control'
  <1>1. TypeOK'
    BY BoundsAssumption, SnapIsId DEF Control, TypeOK, PublishFails,
       broker_vars, worker_vars, admin_vars, table_vars, event_vars,
       history_vars
  <1>2. HolderOK'
    BY DEF Control, TypeOK, HolderOK, PublishFails, broker_vars, worker_vars,
       admin_vars, table_vars, event_vars, history_vars
  <1>3. DeliveryOK'
    BY DEF Control, TypeOK, DeliveryOK, HolderOK, PublishFails, broker_vars,
       worker_vars, admin_vars, table_vars, event_vars, history_vars
  <1>4. QED
    BY <1>1, <1>2, <1>3 DEF Control

LEMMA StepAnnotate ==
    ASSUME Control, NEW w \in Workers, Annotate(w)
    PROVE  Control'
  <1>1. TypeOK'
    BY BoundsAssumption, SnapIsId DEF Control, TypeOK, Annotate,
       broker_vars, worker_vars, admin_vars, table_vars, event_vars,
       history_vars
  <1>2. HolderOK'
    BY DEF Control, TypeOK, HolderOK, Annotate, broker_vars, worker_vars,
       admin_vars, table_vars, event_vars, history_vars
  <1>3. DeliveryOK'
    BY DEF Control, TypeOK, DeliveryOK, HolderOK, Annotate, broker_vars,
       worker_vars, admin_vars, table_vars, event_vars, history_vars
  <1>4. QED
    BY <1>1, <1>2, <1>3 DEF Control

LEMMA StepEraseBegin ==
    ASSUME Control, NEW x \in Students, EraseBegin(x)
    PROVE  Control'
  <1>1. TypeOK'
    BY BoundsAssumption, SnapIsId DEF Control, TypeOK, EraseBegin,
       broker_vars, worker_vars, admin_vars, table_vars, event_vars,
       history_vars
  <1>2. HolderOK'
    BY DEF Control, TypeOK, HolderOK, EraseBegin, broker_vars, worker_vars,
       admin_vars, table_vars, event_vars, history_vars
  <1>3. DeliveryOK'
    BY DEF Control, TypeOK, DeliveryOK, HolderOK, EraseBegin, broker_vars,
       worker_vars, admin_vars, table_vars, event_vars, history_vars
  <1>4. QED
    BY <1>1, <1>2, <1>3 DEF Control

LEMMA StepEraseCommit ==
    ASSUME Control, NEW x \in Students, EraseCommit(x)
    PROVE  Control'
  <1>1. TypeOK'
    BY BoundsAssumption, SnapIsId DEF Control, TypeOK, EraseCommit, Unlink,
       broker_vars, worker_vars, admin_vars, table_vars, event_vars,
       history_vars
  <1>2. HolderOK'
    BY DEF Control, TypeOK, HolderOK, EraseCommit, Unlink, broker_vars,
       worker_vars, admin_vars, table_vars, event_vars, history_vars
  <1>3. DeliveryOK'
    BY DEF Control, TypeOK, DeliveryOK, HolderOK, EraseCommit, Unlink,
       broker_vars, worker_vars, admin_vars, table_vars, event_vars,
       history_vars
  <1>4. QED
    BY <1>1, <1>2, <1>3 DEF Control

LEMMA StepEnroll ==
    ASSUME Control, NEW x \in Students, Enroll(x)
    PROVE  Control'
  <1>1. TypeOK'
    BY BoundsAssumption, SnapIsId DEF Control, TypeOK, Enroll, broker_vars,
       worker_vars, admin_vars, table_vars, event_vars, history_vars
  <1>2. HolderOK'
    BY DEF Control, TypeOK, HolderOK, Enroll, broker_vars, worker_vars,
       admin_vars, table_vars, event_vars, history_vars
  <1>3. DeliveryOK'
    BY DEF Control, TypeOK, DeliveryOK, HolderOK, Enroll, broker_vars,
       worker_vars, admin_vars, table_vars, event_vars, history_vars
  <1>4. QED
    BY <1>1, <1>2, <1>3 DEF Control

LEMMA StepDeleteStudent ==
    ASSUME Control, NEW x \in Students, DeleteStudent(x)
    PROVE  Control'
  <1>1. TypeOK'
    BY BoundsAssumption, SnapIsId DEF Control, TypeOK, DeleteStudent, Unlink,
       broker_vars, worker_vars, admin_vars, table_vars, event_vars,
       history_vars
  <1>2. HolderOK'
    BY DEF Control, TypeOK, HolderOK, DeleteStudent, Unlink, broker_vars,
       worker_vars, admin_vars, table_vars, event_vars, history_vars
  <1>3. DeliveryOK'
    BY DEF Control, TypeOK, DeliveryOK, HolderOK, DeleteStudent, Unlink,
       broker_vars, worker_vars, admin_vars, table_vars, event_vars,
       history_vars
  <1>4. QED
    BY <1>1, <1>2, <1>3 DEF Control

LEMMA StepDeleteSchedule ==
    ASSUME Control, NEW c \in Schedules, DeleteSchedule(c)
    PROVE  Control'
  <1>1. TypeOK'
    BY BoundsAssumption, SnapIsId DEF Control, TypeOK, DeleteSchedule,
       broker_vars, worker_vars, admin_vars, table_vars, event_vars,
       history_vars
  <1>2. HolderOK'
    BY DEF Control, TypeOK, HolderOK, DeleteSchedule, broker_vars,
       worker_vars, admin_vars, table_vars, event_vars, history_vars
  <1>3. DeliveryOK'
    BY DEF Control, TypeOK, DeliveryOK, HolderOK, DeleteSchedule, broker_vars,
       worker_vars, admin_vars, table_vars, event_vars, history_vars
  <1>4. QED
    BY <1>1, <1>2, <1>3 DEF Control

-----------------------------------------------------------------------------
LEMMA StepControl ==
    ASSUME Control, [Next]_vars
    PROVE  Control'
  <1>1. ASSUME NEW w \in Workers, Work(w) \/ Crash(w) PROVE Control'
    <2>1. CASE \E t \in Tasks : Take(w, t)
      BY <2>1, StepTake
    <2>2. CASE Begin(w) \/ RecogniseClip(w) \/ OpenSnapshot(w) \/ Recognise(w)
      BY <2>2, StepBegin, StepRecogniseClip, StepOpenSnapshot, StepRecognise
    <2>3. CASE ReadSightings(w) \/ CommitDetections(w)
      BY <2>3, StepReadSightings, StepCommitDetections
    <2>4. CASE Reject(w) \/ Raise(w) \/ Return(w)
      BY <2>4, StepSettle DEF Reject, Raise, Return, Settled
    <2>5. CASE Annotate(w) \/ PublishDetection(w) \/ PublishComplete(w) \/ PublishFails(w)
      BY <2>5, StepAnnotate, StepPublishDetection, StepPublishComplete, StepPublishFails
    <2>6. CASE Crash(w)
      BY <2>6, StepCrash
    <2>7. QED
      BY <1>1, <2>1, <2>2, <2>3, <2>4, <2>5, <2>6 DEF Work
  <1>2. CASE Admin
    BY <1>2, StepEraseBegin, StepEraseCommit, StepEnroll, StepDeleteStudent,
       StepDeleteSchedule DEF Admin
  <1>3. CASE UNCHANGED vars
    BY <1>3 DEF Control, TypeOK, HolderOK, DeliveryOK, vars, broker_vars, worker_vars,
       admin_vars, table_vars, event_vars, history_vars
  <1>4. QED
    BY <1>1, <1>2, <1>3 DEF Next

(* The control state is as declared: in particular Snap(w) is always the   *)
(* id of a delivery, so no worker ever writes under another worker's id.   *)
THEOREM ControlInvariant == Spec => []Control
  BY InitControl, StepControl, PTL DEF Spec

(* Every variable keeps its type, and only existing students are enrolled. *)
THEOREM TypeCorrect == Spec => []TypeOK
  BY ControlInvariant, PTL DEF Control
-----------------------------------------------------------------------------
(* The invariant about sightings, by parts.                                *)

(* Ids are fresh: what is sealed or opened was delivered, and a worker has *)
(* not yet sealed, or opened, the snapshot it is about to.                 *)
Fresh ==
    /\ \A s \in sealed \cup snaps : s[2] <= attempt[s[1]]
    /\ \A w \in Workers :
          /\ pc[w] \in {"start", "open", "recognise", "dedup", "commit"}
                => Snap(w) \notin sealed
          /\ pc[w] \in {"start", "open"} => Snap(w) \notin snaps

(* A Detection belongs to a sealed snapshot and names a student who was    *)
(* recorded for it; a task's existing sightings come from sealed ones.     *)
Recorded ==
    /\ \A r \in rows : r[1] \in sealed /\ (r[2] # Nobody => r[2] \in written[r[1]])
    /\ \A s \in SnapIds : basis[s] \subseteq sealed

(* What a worker is about to commit agrees with the sightings it has read. *)
Clear(s, X) ==
    \A r \in rows : r[2] \in X /\ r[1] \in basis[s] /\ SameSchedule(r[1], s)
                     => ~Near(r[1], s)
Covered(s, X) ==
    \A x \in X : \E r \in basis[s] :
        x \in written[r] /\ SameSchedule(r, s) /\ Near(r, s)
Pending ==
    \A w \in Workers : pc[w] = "commit" =>
        \/ job[w] \in ClipTasks /\ insert[w] = match[w]
        \/ Clear(Snap(w), insert[w]) /\ Covered(Snap(w), match[w] \ insert[w])

Sightings ==
    /\ Control /\ Fresh /\ Recorded /\ Pending
    /\ NoDuplicateOfASeenSighting /\ SuppressedSightingIsRecorded

LEMMA KeepFresh ==
    ASSUME Sightings, [Next]_vars
    PROVE  Fresh'
  <1> USE DEF Sightings, Control
  <1>1. ASSUME NEW w \in Workers, NEW t \in Tasks, Take(w, t)
        PROVE  Fresh'
    BY <1>1 DEF Take, TypeOK, HolderOK, Fresh, Snap, SnapIds, Deliveries,
       broker_vars, worker_vars, admin_vars, table_vars, event_vars,
       history_vars
  <1>2. ASSUME NEW w \in Workers, Crash(w)
        PROVE  Fresh'
    BY <1>2 DEF Crash, Requeued, TypeOK, HolderOK, Fresh, Snap, SnapIds,
       Deliveries, broker_vars, worker_vars, admin_vars, table_vars,
       event_vars, history_vars
  <1>3. ASSUME NEW w \in Workers, Begin(w) \/ RecogniseClip(w)
        PROVE  Fresh'
    BY <1>3 DEF Begin, ReadClock, RecogniseClip, TypeOK, HolderOK, Fresh,
       Snap, SnapIds, Deliveries, broker_vars, worker_vars, admin_vars,
       table_vars, event_vars, history_vars
  <1>4. ASSUME NEW w \in Workers, OpenSnapshot(w)
        PROVE  Fresh'
    BY <1>4 DEF OpenSnapshot, TypeOK, HolderOK, Fresh, Snap, SnapIds,
       Deliveries, broker_vars, worker_vars, admin_vars, table_vars,
       event_vars, history_vars
  <1>5. ASSUME NEW w \in Workers, Recognise(w) \/ ReadSightings(w)
        PROVE  Fresh'
    BY <1>5 DEF Recognise, ReadSightings, TypeOK, HolderOK, Fresh, Snap,
       SnapIds, Deliveries, broker_vars, worker_vars, admin_vars, table_vars,
       event_vars, history_vars
  <1>6. ASSUME NEW w \in Workers, CommitDetections(w)
        PROVE  Fresh'
    BY <1>6 DEF CommitDetections, TypeOK, HolderOK, Fresh, Snap, SnapIds,
       Deliveries, broker_vars, worker_vars, admin_vars, table_vars,
       event_vars, history_vars
  <1>7. ASSUME NEW w \in Workers, Reject(w)
        PROVE  Fresh'
    BY <1>7 DEF Reject, Settle, Acked, Settled, TypeOK, HolderOK, Fresh, Snap,
       SnapIds, Deliveries, broker_vars, worker_vars, admin_vars, table_vars,
       event_vars, history_vars
  <1>8. ASSUME NEW w \in Workers, Raise(w)
        PROVE  Fresh'
    BY <1>8 DEF Raise, Settle, Acked, Settled, TypeOK, HolderOK, Fresh, Snap,
       SnapIds, Deliveries, broker_vars, worker_vars, admin_vars, table_vars,
       event_vars, history_vars
  <1>9. ASSUME NEW w \in Workers, Return(w)
        PROVE  Fresh'
    BY <1>9 DEF Return, Settle, Acked, Settled, TypeOK, HolderOK, Fresh, Snap,
       SnapIds, Deliveries, broker_vars, worker_vars, admin_vars, table_vars,
       event_vars, history_vars
  <1>10. ASSUME NEW w \in Workers, PublishDetection(w)
        PROVE  Fresh'
    BY <1>10 DEF PublishDetection, TypeOK, HolderOK, Fresh, Snap, SnapIds,
       Deliveries, broker_vars, worker_vars, admin_vars, table_vars,
       event_vars, history_vars
  <1>11. ASSUME NEW w \in Workers, Annotate(w) \/ PublishComplete(w) \/ PublishFails(w)
        PROVE  Fresh'
    BY <1>11 DEF Annotate, PublishComplete, PublishFails, TypeOK, HolderOK, Fresh, Snap,
       SnapIds, Deliveries, broker_vars, worker_vars, admin_vars, table_vars,
       event_vars, history_vars
  <1>12. ASSUME NEW x \in Students, EraseBegin(x) \/ EraseCommit(x) \/ Enroll(x) \/ DeleteStudent(x)
        PROVE  Fresh'
    BY <1>12 DEF EraseBegin, EraseCommit, Unlink, Enroll, DeleteStudent,
       TypeOK, HolderOK, Fresh, Snap, SnapIds, Deliveries, broker_vars,
       worker_vars, admin_vars, table_vars, event_vars, history_vars
  <1>13. ASSUME NEW c \in Schedules, DeleteSchedule(c)
        PROVE  Fresh'
    BY <1>13 DEF DeleteSchedule, TypeOK, HolderOK, Fresh, Snap, SnapIds,
       Deliveries, broker_vars, worker_vars, admin_vars, table_vars,
       event_vars, history_vars
  <1>14. CASE UNCHANGED vars
    BY <1>14 DEF vars, TypeOK, HolderOK, Fresh, Snap, SnapIds, Deliveries,
       broker_vars, worker_vars, admin_vars, table_vars, event_vars,
       history_vars
  <1>15. QED
    BY <1>1, <1>2, <1>3, <1>4, <1>5, <1>6, <1>7, <1>8, <1>9, <1>10, <1>11,
       <1>12, <1>13, <1>14 DEF Next, Work, Admin

LEMMA KeepRecorded ==
    ASSUME Sightings, [Next]_vars
    PROVE  Recorded'
  <1> USE DEF Sightings, Control
  <1>1. ASSUME NEW w \in Workers, NEW t \in Tasks, Take(w, t)
        PROVE  Recorded'
    BY <1>1 DEF Take, TypeOK, HolderOK, Fresh, Recorded, Snap, SnapIds,
       Deliveries, broker_vars, worker_vars, admin_vars, table_vars,
       event_vars, history_vars
  <1>2. ASSUME NEW w \in Workers, Crash(w)
        PROVE  Recorded'
    BY <1>2 DEF Crash, Requeued, TypeOK, HolderOK, Fresh, Recorded, Snap,
       SnapIds, Deliveries, broker_vars, worker_vars, admin_vars, table_vars,
       event_vars, history_vars
  <1>3. ASSUME NEW w \in Workers, Begin(w) \/ RecogniseClip(w)
        PROVE  Recorded'
    BY <1>3 DEF Begin, ReadClock, RecogniseClip, TypeOK, HolderOK, Fresh,
       Recorded, Snap, SnapIds, Deliveries, broker_vars, worker_vars,
       admin_vars, table_vars, event_vars, history_vars
  <1>4. ASSUME NEW w \in Workers, OpenSnapshot(w)
        PROVE  Recorded'
    BY <1>4 DEF OpenSnapshot, TypeOK, HolderOK, Fresh, Recorded, Snap,
       SnapIds, Deliveries, broker_vars, worker_vars, admin_vars, table_vars,
       event_vars, history_vars
  <1>5. ASSUME NEW w \in Workers, Recognise(w) \/ ReadSightings(w)
        PROVE  Recorded'
    BY <1>5 DEF Recognise, ReadSightings, TypeOK, HolderOK, Fresh, Recorded,
       Snap, SnapIds, Deliveries, broker_vars, worker_vars, admin_vars,
       table_vars, event_vars, history_vars
  <1>6. ASSUME NEW w \in Workers, CommitDetections(w)
        PROVE  Recorded'
    BY <1>6 DEF CommitDetections, TypeOK, HolderOK, Fresh, Recorded, Snap,
       SnapIds, Deliveries, broker_vars, worker_vars, admin_vars, table_vars,
       event_vars, history_vars
  <1>7. ASSUME NEW w \in Workers, Reject(w) \/ Raise(w) \/ Return(w)
        PROVE  Recorded'
    BY <1>7 DEF Reject, Settle, Acked, Settled, Raise, Return, TypeOK, HolderOK,
       Fresh, Recorded, Snap, SnapIds, Deliveries, broker_vars, worker_vars,
       admin_vars, table_vars, event_vars, history_vars
  <1>8. ASSUME NEW w \in Workers, PublishDetection(w)
        PROVE  Recorded'
    BY <1>8 DEF PublishDetection, TypeOK, HolderOK, Fresh, Recorded, Snap,
       SnapIds, Deliveries, broker_vars, worker_vars, admin_vars, table_vars,
       event_vars, history_vars
  <1>9. ASSUME NEW w \in Workers, Annotate(w) \/ PublishComplete(w) \/ PublishFails(w)
        PROVE  Recorded'
    BY <1>9 DEF Annotate, PublishComplete, PublishFails, TypeOK, HolderOK, Fresh,
       Recorded, Snap, SnapIds, Deliveries, broker_vars, worker_vars,
       admin_vars, table_vars, event_vars, history_vars
  <1>10. ASSUME NEW x \in Students, EraseBegin(x) \/ EraseCommit(x) \/ Enroll(x) \/ DeleteStudent(x)
        PROVE  Recorded'
    BY <1>10 DEF EraseBegin, EraseCommit, Unlink, Enroll, DeleteStudent,
       TypeOK, HolderOK, Fresh, Recorded, Snap, SnapIds, Deliveries,
       broker_vars, worker_vars, admin_vars, table_vars, event_vars,
       history_vars
  <1>11. ASSUME NEW c \in Schedules, DeleteSchedule(c)
        PROVE  Recorded'
    BY <1>11 DEF DeleteSchedule, TypeOK, HolderOK, Fresh, Recorded, Snap,
       SnapIds, Deliveries, broker_vars, worker_vars, admin_vars, table_vars,
       event_vars, history_vars
  <1>12. CASE UNCHANGED vars
    BY <1>12 DEF vars, TypeOK, HolderOK, Fresh, Recorded, Snap, SnapIds,
       Deliveries, broker_vars, worker_vars, admin_vars, table_vars,
       event_vars, history_vars
  <1>13. QED
    BY <1>1, <1>2, <1>3, <1>4, <1>5, <1>6, <1>7, <1>8, <1>9, <1>10, <1>11,
       <1>12 DEF Next, Work, Admin

-----------------------------------------------------------------------------
(* What every step leaves alone.                                           *)

SealedStays ==
    \A s \in sealed :
        /\ s \in sealed'
        /\ stamp'[s] = stamp[s]
        /\ basis'[s] = basis[s]
        /\ written'[s] = written[s]
        /\ seen'[s] = seen[s]

OnlyCommitsWrite ==
    /\ \A s \in sealed' : s \in sealed
          \/ \E w \in Workers : CommitDetections(w) /\ s = Snap(w)
    /\ \A r \in rows' : r[2] = Nobody \/ r \in rows
          \/ \E w \in Workers : CommitDetections(w) /\ r[1] = Snap(w) /\ r[2] \in insert[w]

CommitWaits ==
    \A v \in Workers : pc'[v] = "commit" =>
        \/ OpenSnapshot(v) /\ job[v] \in ClipTasks
        \/ ReadSightings(v) /\ job[v] \notin ClipTasks
        \/ /\ pc[v] = "commit" /\ job'[v] = job[v] /\ Snap(v)' = Snap(v)
           /\ insert'[v] = insert[v] /\ match'[v] = match[v]
           /\ stamp'[Snap(v)] = stamp[Snap(v)]
           /\ basis'[Snap(v)] = basis[Snap(v)]

LEMMA StepSealedStays ==
    ASSUME Sightings, [Next]_vars
    PROVE  SealedStays
  <1> USE DEF Sightings, Control
  <1>1. ASSUME NEW w \in Workers, NEW t \in Tasks, Take(w, t)
        PROVE  SealedStays
    BY <1>1 DEF Take, SealedStays, TypeOK, HolderOK, Fresh, Snap, SnapIds,
       Deliveries, broker_vars, worker_vars, admin_vars, table_vars,
       event_vars, history_vars
  <1>2. ASSUME NEW w \in Workers, Crash(w)
        PROVE  SealedStays
    BY <1>2 DEF Crash, Requeued, SealedStays, TypeOK, HolderOK, Fresh, Snap,
       SnapIds, Deliveries, broker_vars, worker_vars, admin_vars, table_vars,
       event_vars, history_vars
  <1>3. ASSUME NEW w \in Workers, Begin(w) \/ RecogniseClip(w)
        PROVE  SealedStays
    BY <1>3 DEF Begin, ReadClock, RecogniseClip, SealedStays, TypeOK,
       HolderOK, Fresh, Snap, SnapIds, Deliveries, broker_vars, worker_vars,
       admin_vars, table_vars, event_vars, history_vars
  <1>4. ASSUME NEW w \in Workers, OpenSnapshot(w)
        PROVE  SealedStays
    BY <1>4 DEF OpenSnapshot, SealedStays, TypeOK, HolderOK, Fresh, Snap,
       SnapIds, Deliveries, broker_vars, worker_vars, admin_vars, table_vars,
       event_vars, history_vars
  <1>5. ASSUME NEW w \in Workers, Recognise(w) \/ ReadSightings(w)
        PROVE  SealedStays
    BY <1>5 DEF Recognise, ReadSightings, SealedStays, TypeOK, HolderOK,
       Fresh, Snap, SnapIds, Deliveries, broker_vars, worker_vars, admin_vars,
       table_vars, event_vars, history_vars
  <1>6. ASSUME NEW w \in Workers, CommitDetections(w)
        PROVE  SealedStays
    BY <1>6 DEF CommitDetections, SealedStays, TypeOK, HolderOK, Fresh, Snap,
       SnapIds, Deliveries, broker_vars, worker_vars, admin_vars, table_vars,
       event_vars, history_vars
  <1>7. ASSUME NEW w \in Workers, Reject(w) \/ Raise(w) \/ Return(w)
        PROVE  SealedStays
    BY <1>7 DEF Reject, Settle, Acked, Settled, Raise, Return, SealedStays, TypeOK,
       HolderOK, Fresh, Snap, SnapIds, Deliveries, broker_vars, worker_vars,
       admin_vars, table_vars, event_vars, history_vars
  <1>8. ASSUME NEW w \in Workers, PublishDetection(w)
        PROVE  SealedStays
    BY <1>8 DEF PublishDetection, SealedStays, TypeOK, HolderOK, Fresh, Snap,
       SnapIds, Deliveries, broker_vars, worker_vars, admin_vars, table_vars,
       event_vars, history_vars
  <1>9. ASSUME NEW w \in Workers, Annotate(w) \/ PublishComplete(w) \/ PublishFails(w)
        PROVE  SealedStays
    BY <1>9 DEF Annotate, PublishComplete, PublishFails, SealedStays, TypeOK, HolderOK,
       Fresh, Snap, SnapIds, Deliveries, broker_vars, worker_vars, admin_vars,
       table_vars, event_vars, history_vars
  <1>10. ASSUME NEW x \in Students, EraseBegin(x) \/ EraseCommit(x) \/ Enroll(x) \/ DeleteStudent(x)
        PROVE  SealedStays
    BY <1>10 DEF EraseBegin, EraseCommit, Unlink, Enroll, DeleteStudent,
       SealedStays, TypeOK, HolderOK, Fresh, Snap, SnapIds, Deliveries,
       broker_vars, worker_vars, admin_vars, table_vars, event_vars,
       history_vars
  <1>11. ASSUME NEW c \in Schedules, DeleteSchedule(c)
        PROVE  SealedStays
    BY <1>11 DEF DeleteSchedule, SealedStays, TypeOK, HolderOK, Fresh, Snap,
       SnapIds, Deliveries, broker_vars, worker_vars, admin_vars, table_vars,
       event_vars, history_vars
  <1>12. CASE UNCHANGED vars
    BY <1>12 DEF vars, SealedStays, TypeOK, HolderOK, Fresh, Snap, SnapIds,
       Deliveries, broker_vars, worker_vars, admin_vars, table_vars,
       event_vars, history_vars
  <1>13. QED
    BY <1>1, <1>2, <1>3, <1>4, <1>5, <1>6, <1>7, <1>8, <1>9, <1>10, <1>11,
       <1>12 DEF Next, Work, Admin

LEMMA StepOnlyCommitsWrite ==
    ASSUME Sightings, [Next]_vars
    PROVE  OnlyCommitsWrite
  <1> USE DEF Sightings, Control
  <1>1. ASSUME NEW w \in Workers, NEW t \in Tasks, Take(w, t)
        PROVE  OnlyCommitsWrite
    BY <1>1 DEF Take, OnlyCommitsWrite, TypeOK, broker_vars, worker_vars,
       admin_vars, table_vars, event_vars, history_vars
  <1>2. ASSUME NEW w \in Workers, Crash(w)
        PROVE  OnlyCommitsWrite
    BY <1>2 DEF Crash, Requeued, OnlyCommitsWrite, TypeOK, broker_vars,
       worker_vars, admin_vars, table_vars, event_vars, history_vars
  <1>3. ASSUME NEW w \in Workers, Begin(w) \/ RecogniseClip(w)
        PROVE  OnlyCommitsWrite
    BY <1>3 DEF Begin, ReadClock, RecogniseClip, OnlyCommitsWrite, TypeOK,
       broker_vars, worker_vars, admin_vars, table_vars, event_vars,
       history_vars
  <1>4. ASSUME NEW w \in Workers, OpenSnapshot(w)
        PROVE  OnlyCommitsWrite
    BY <1>4 DEF OpenSnapshot, OnlyCommitsWrite, TypeOK, broker_vars,
       worker_vars, admin_vars, table_vars, event_vars, history_vars
  <1>5. ASSUME NEW w \in Workers, Recognise(w) \/ ReadSightings(w)
        PROVE  OnlyCommitsWrite
    BY <1>5 DEF Recognise, ReadSightings, OnlyCommitsWrite, TypeOK,
       broker_vars, worker_vars, admin_vars, table_vars, event_vars,
       history_vars
  <1>6. ASSUME NEW w \in Workers, CommitDetections(w)
        PROVE  OnlyCommitsWrite
    BY <1>6 DEF CommitDetections, OnlyCommitsWrite, TypeOK, broker_vars,
       worker_vars, admin_vars, table_vars, event_vars, history_vars
  <1>7. ASSUME NEW w \in Workers, Reject(w) \/ Raise(w) \/ Return(w)
        PROVE  OnlyCommitsWrite
    BY <1>7 DEF Reject, Settle, Acked, Settled, Raise, Return, OnlyCommitsWrite,
       TypeOK, broker_vars, worker_vars, admin_vars, table_vars, event_vars,
       history_vars
  <1>8. ASSUME NEW w \in Workers, PublishDetection(w)
        PROVE  OnlyCommitsWrite
    BY <1>8 DEF PublishDetection, OnlyCommitsWrite, TypeOK, broker_vars,
       worker_vars, admin_vars, table_vars, event_vars, history_vars
  <1>9. ASSUME NEW w \in Workers, Annotate(w) \/ PublishComplete(w) \/ PublishFails(w)
        PROVE  OnlyCommitsWrite
    BY <1>9 DEF Annotate, PublishComplete, PublishFails, OnlyCommitsWrite, TypeOK,
       broker_vars, worker_vars, admin_vars, table_vars, event_vars,
       history_vars
  <1>10. ASSUME NEW x \in Students, EraseBegin(x) \/ EraseCommit(x) \/ Enroll(x) \/ DeleteStudent(x)
        PROVE  OnlyCommitsWrite
    BY <1>10 DEF EraseBegin, EraseCommit, Unlink, Enroll, DeleteStudent,
       OnlyCommitsWrite, TypeOK, broker_vars, worker_vars, admin_vars,
       table_vars, event_vars, history_vars
  <1>11. ASSUME NEW c \in Schedules, DeleteSchedule(c)
        PROVE  OnlyCommitsWrite
    BY <1>11 DEF DeleteSchedule, OnlyCommitsWrite, TypeOK, broker_vars,
       worker_vars, admin_vars, table_vars, event_vars, history_vars
  <1>12. CASE UNCHANGED vars
    BY <1>12 DEF vars, OnlyCommitsWrite, TypeOK, broker_vars, worker_vars,
       admin_vars, table_vars, event_vars, history_vars
  <1>13. QED
    BY <1>1, <1>2, <1>3, <1>4, <1>5, <1>6, <1>7, <1>8, <1>9, <1>10, <1>11,
       <1>12 DEF Next, Work, Admin

LEMMA StepCommitWaits ==
    ASSUME Sightings, [Next]_vars
    PROVE  CommitWaits
  <1> USE DEF Sightings, Control
  <1>1. ASSUME NEW w \in Workers, NEW t \in Tasks, Take(w, t)
        PROVE  CommitWaits
    BY <1>1, TasksAssumption DEF Take, CommitWaits, TypeOK, HolderOK, Fresh,
       Snap, SnapIds, Deliveries, broker_vars, worker_vars, admin_vars,
       table_vars, event_vars, history_vars
  <1>2. ASSUME NEW w \in Workers, Crash(w)
        PROVE  CommitWaits
    BY <1>2, TasksAssumption DEF Crash, Requeued, CommitWaits, TypeOK,
       HolderOK, Fresh, Snap, SnapIds, Deliveries, broker_vars, worker_vars,
       admin_vars, table_vars, event_vars, history_vars
  <1>3. ASSUME NEW w \in Workers, Begin(w)
        PROVE  CommitWaits
    BY <1>3, TasksAssumption, SMTT(40) DEF Begin, ReadClock, CommitWaits, TypeOK,
       HolderOK, Fresh, Snap, SnapIds, Deliveries, broker_vars, worker_vars,
       admin_vars, table_vars, event_vars, history_vars
  <1>4. ASSUME NEW w \in Workers, RecogniseClip(w)
        PROVE  CommitWaits
    BY <1>4, TasksAssumption DEF RecogniseClip, ReadClock, CommitWaits,
       TypeOK, HolderOK, Fresh, Snap, SnapIds, Deliveries, broker_vars,
       worker_vars, admin_vars, table_vars, event_vars, history_vars
  <1>5. ASSUME NEW w \in Workers, OpenSnapshot(w)
        PROVE  CommitWaits
    BY <1>5, TasksAssumption, ZenonT(60) DEF OpenSnapshot, CommitWaits, TypeOK, HolderOK,
       Fresh, Snap, SnapIds, Deliveries, broker_vars, worker_vars, admin_vars,
       table_vars, event_vars, history_vars
  <1>6. ASSUME NEW w \in Workers, Recognise(w)
        PROVE  CommitWaits
    BY <1>6, TasksAssumption DEF Recognise, CommitWaits, TypeOK, HolderOK,
       Fresh, Snap, SnapIds, Deliveries, broker_vars, worker_vars, admin_vars,
       table_vars, event_vars, history_vars
  <1>7. ASSUME NEW w \in Workers, ReadSightings(w)
        PROVE  CommitWaits
    <2>1. job[w] \notin ClipTasks
      BY <1>7, TasksAssumption DEF ReadSightings, TypeOK, HolderOK
    <2>2. ASSUME NEW v \in Workers, v # w, pc'[v] = "commit"
          PROVE  /\ pc[v] = "commit" /\ job'[v] = job[v] /\ Snap(v)' = Snap(v)
                 /\ insert'[v] = insert[v] /\ match'[v] = match[v]
                 /\ stamp'[Snap(v)] = stamp[Snap(v)]
                 /\ basis'[Snap(v)] = basis[Snap(v)]
      <3>1. pc[v] = "commit" /\ pc[w] = "dedup"
        BY <1>7, <2>2 DEF ReadSightings, TypeOK
      <3>2. job[v] # job[w]
        BY <3>1, <2>2 DEF HolderOK
      <3>3. Snap(v) # Snap(w) /\ Snap(v)' = Snap(v)
        BY <1>7, <3>2 DEF ReadSightings, Snap, broker_vars
      <3>4. basis'[Snap(v)] = basis[Snap(v)]
        BY <1>7, <3>3 DEF ReadSightings, TypeOK
      <3>5. QED
        BY <1>7, <2>2, <3>1, <3>3, <3>4 DEF ReadSightings, TypeOK, table_vars
    <2>3. QED
      BY <1>7, <2>1, <2>2 DEF CommitWaits
  <1>8. ASSUME NEW w \in Workers, CommitDetections(w)
        PROVE  CommitWaits
    BY <1>8, TasksAssumption DEF CommitDetections, CommitWaits, TypeOK,
       HolderOK, Fresh, Snap, SnapIds, Deliveries, broker_vars, worker_vars,
       admin_vars, table_vars, event_vars, history_vars
  <1>9. ASSUME NEW w \in Workers, Reject(w) \/ Raise(w) \/ Return(w)
        PROVE  CommitWaits
    BY <1>9, TasksAssumption DEF Reject, Settle, Acked, Settled, Raise, Return,
       CommitWaits, TypeOK, HolderOK, Fresh, Snap, SnapIds, Deliveries,
       broker_vars, worker_vars, admin_vars, table_vars, event_vars,
       history_vars
  <1>10. ASSUME NEW w \in Workers, PublishDetection(w)
        PROVE  CommitWaits
    BY <1>10, TasksAssumption DEF PublishDetection, CommitWaits, TypeOK,
       HolderOK, Fresh, Snap, SnapIds, Deliveries, broker_vars, worker_vars,
       admin_vars, table_vars, event_vars, history_vars
  <1>11. ASSUME NEW w \in Workers, Annotate(w) \/ PublishComplete(w) \/ PublishFails(w)
        PROVE  CommitWaits
    BY <1>11, TasksAssumption DEF Annotate, PublishComplete, PublishFails, CommitWaits,
       TypeOK, HolderOK, Fresh, Snap, SnapIds, Deliveries, broker_vars,
       worker_vars, admin_vars, table_vars, event_vars, history_vars
  <1>12. ASSUME NEW x \in Students, EraseBegin(x) \/ EraseCommit(x) \/ Enroll(x) \/ DeleteStudent(x)
        PROVE  CommitWaits
    BY <1>12, TasksAssumption DEF EraseBegin, EraseCommit, Unlink, Enroll,
       DeleteStudent, CommitWaits, TypeOK, HolderOK, Fresh, Snap, SnapIds,
       Deliveries, broker_vars, worker_vars, admin_vars, table_vars,
       event_vars, history_vars
  <1>13. ASSUME NEW c \in Schedules, DeleteSchedule(c)
        PROVE  CommitWaits
    BY <1>13, TasksAssumption DEF DeleteSchedule, CommitWaits, TypeOK,
       HolderOK, Fresh, Snap, SnapIds, Deliveries, broker_vars, worker_vars,
       admin_vars, table_vars, event_vars, history_vars
  <1>14. CASE UNCHANGED vars
    BY <1>14 DEF vars, CommitWaits, TypeOK, HolderOK, Fresh, Snap, SnapIds,
       Deliveries, broker_vars, worker_vars, admin_vars, table_vars,
       event_vars, history_vars
  <1>15. QED
    BY <1>1, <1>2, <1>3, <1>4, <1>5, <1>6, <1>7, <1>8, <1>9, <1>10, <1>11,
       <1>12, <1>13, <1>14 DEF Next, Work, Admin

-----------------------------------------------------------------------------
(* The invariant is kept.                                                  *)

LEMMA StepFacts ==
    ASSUME Sightings, [Next]_vars
    PROVE  SealedStays /\ OnlyCommitsWrite /\ CommitWaits /\ Control'
  BY StepSealedStays, StepOnlyCommitsWrite, StepCommitWaits, StepControl DEF Sightings

(* Nothing that is committed later makes an earlier reading wrong.         *)
LEMMA ClearStays ==
    ASSUME Sightings, [Next]_vars, NEW s \in SnapIds, NEW X \in SUBSET Students,
           stamp'[s] = stamp[s], basis'[s] = basis[s], Clear(s, X)
    PROVE  Clear(s, X)'
  <1> SUFFICES ASSUME NEW r \in rows', r[2] \in X, r[1] \in basis'[s],
                      SameSchedule(r[1], s)
               PROVE  ~Near(r[1], s)'
    BY DEF Clear, SameSchedule
  <1>1. r[1] \in sealed
    BY DEF Sightings, Recorded
  <1>2. r \in rows
    <2>1. r[2] # Nobody
      BY NobodyAssumption
    <2>2. ASSUME NEW w \in Workers, CommitDetections(w), r[1] = Snap(w) PROVE FALSE
      BY <2>2, <1>1 DEF CommitDetections, Sightings, Fresh
    <2>3. QED
      BY <2>1, <2>2, StepFacts DEF OnlyCommitsWrite
  <1>3. stamp'[r[1]] = stamp[r[1]]
    BY <1>1, StepFacts DEF SealedStays
  <1>4. QED
    BY <1>2, <1>3 DEF Clear, Near

LEMMA CoveredStays ==
    ASSUME Sightings, [Next]_vars, NEW s \in SnapIds, NEW X \in SUBSET Students,
           stamp'[s] = stamp[s], basis'[s] = basis[s], Covered(s, X)
    PROVE  Covered(s, X)'
  <1> SUFFICES ASSUME NEW x \in X
               PROVE  \E r \in basis'[s] :
                         x \in written'[r] /\ SameSchedule(r, s) /\ Near(r, s)'
    BY DEF Covered, SameSchedule
  <1>1. PICK r \in basis[s] : x \in written[r] /\ SameSchedule(r, s) /\ Near(r, s)
    BY DEF Covered
  <1>2. r \in sealed
    BY <1>1 DEF Sightings, Recorded
  <1>3. stamp'[r] = stamp[r] /\ written'[r] = written[r]
    BY <1>2, StepFacts DEF SealedStays
  <1>4. QED
    BY <1>1, <1>3 DEF Near

LEMMA KeepPending ==
    ASSUME Sightings, [Next]_vars
    PROVE  Pending'
  <1> SUFFICES ASSUME NEW v \in Workers, pc'[v] = "commit"
               PROVE  \/ job'[v] \in ClipTasks /\ insert'[v] = match'[v]
                      \/ /\ Clear(Snap(v), insert[v])'
                         /\ Covered(Snap(v), match[v] \ insert[v])'
    BY DEF Pending
  <1>1. CASE OpenSnapshot(v) /\ job[v] \in ClipTasks
    BY <1>1 DEF OpenSnapshot, Sightings, Control, TypeOK
  <1>2. CASE ReadSightings(v) /\ job[v] \notin ClipTasks
    <2>1. /\ Snap(v)' = Snap(v) /\ match'[v] = match[v]
          /\ insert'[v] = match[v] \ ExistingSightings(Snap(v))
          /\ basis'[Snap(v)] = sealed /\ Snap(v) \in SnapIds
          /\ UNCHANGED <<rows, stamp, written>>
      BY <1>2, SnapIsId DEF ReadSightings, Snap, broker_vars, table_vars, Sightings,
         Control, TypeOK
    <2>2. Clear(Snap(v), insert[v])'
      BY <2>1 DEF Clear, ExistingSightings, SameSchedule, Near
    <2>3. Covered(Snap(v), match[v] \ insert[v])'
      <3> SUFFICES ASSUME NEW x \in match'[v] \ insert'[v]
                   PROVE  \E r \in sealed : /\ x \in written[r]
                                            /\ SameSchedule(r, Snap(v))
                                            /\ Near(r, Snap(v))
        BY <2>1 DEF Covered, SameSchedule, Near
      <3>1. PICK q \in rows : q[2] = x /\ SameSchedule(q[1], Snap(v)) /\ Near(q[1], Snap(v))
        BY <2>1 DEF ExistingSightings
      <3>2. x # Nobody
        BY <2>1, NobodyAssumption DEF Sightings, Control, TypeOK
      <3>3. q[1] \in sealed /\ x \in written[q[1]]
        BY <3>1, <3>2 DEF Sightings, Recorded
      <3>4. QED
        BY <3>1, <3>3
    <2>4. QED
      BY <2>2, <2>3
  <1>3. CASE /\ pc[v] = "commit" /\ job'[v] = job[v] /\ Snap(v)' = Snap(v)
             /\ insert'[v] = insert[v] /\ match'[v] = match[v]
             /\ stamp'[Snap(v)] = stamp[Snap(v)]
             /\ basis'[Snap(v)] = basis[Snap(v)]
    <2>1. CASE job[v] \in ClipTasks /\ insert[v] = match[v]
      BY <1>3, <2>1
    <2>2. CASE /\ Clear(Snap(v), insert[v])
               /\ Covered(Snap(v), match[v] \ insert[v])
      <3>1. Snap(v) \in SnapIds /\ insert[v] \in SUBSET Students
            /\ match[v] \ insert[v] \in SUBSET Students
        BY <1>3, SnapIsId DEF Sightings, Control, TypeOK
      <3>2. PICK s \in SnapIds, X \in SUBSET Students, Y \in SUBSET Students :
               s = Snap(v) /\ X = insert[v] /\ Y = match[v] \ insert[v]
        BY <3>1
      <3>3. Clear(s, X)' /\ Covered(s, Y)'
        BY <1>3, <2>2, <3>2, ClearStays, CoveredStays
      <3>4. s = Snap(v)' /\ X = insert'[v] /\ Y = match'[v] \ insert'[v]
        BY <1>3, <3>2
      <3>5. QED
        BY <3>3, <3>4 DEF Clear, Covered, Near, SameSchedule
    <2>3. QED
      BY <1>3, <2>1, <2>2 DEF Sightings, Pending
  <1>4. QED
    BY <1>1, <1>2, <1>3, StepFacts DEF CommitWaits

LEMMA KeepNoDuplicate ==
    ASSUME Sightings, [Next]_vars
    PROVE  NoDuplicateOfASeenSighting'
  <1> SUFFICES ASSUME NEW r \in rows', NEW q \in rows',
                      r[2] = q[2], r[2] # Nobody, q[1][1] \in SnapTasks,
                      r[1] \in basis'[q[1]], SameSchedule(r[1], q[1])
               PROVE  ~Near(r[1], q[1])'
    BY DEF NoDuplicateOfASeenSighting, SameSchedule
  <1>1. Control' /\ q[1] \in SnapIds /\ q[2] \in Students /\ r[1] \in SnapIds
    BY StepFacts DEF Control, TypeOK
  <1>2. CASE q \in rows
    <2>1. q[1] \in sealed
      BY <1>2 DEF Sightings, Recorded
    <2>2. stamp'[q[1]] = stamp[q[1]] /\ basis'[q[1]] = basis[q[1]]
      BY <2>1, StepFacts DEF SealedStays
    <2>3. Clear(q[1], {q[2]})
      <3> SUFFICES ASSUME NEW p \in rows, p[2] = q[2], p[1] \in basis[q[1]],
                          SameSchedule(p[1], q[1])
                   PROVE  ~Near(p[1], q[1])
        BY DEF Clear
      <3>1. QED
        BY <1>2 DEF Sightings, NoDuplicateOfASeenSighting
    <2>4. Clear(q[1], {q[2]})'
      BY <1>1, <2>2, <2>3, ClearStays
    <2>5. QED
      BY <2>4 DEF Clear, SameSchedule
  <1>3. CASE q \notin rows
    <2>1. PICK w \in Workers :
             CommitDetections(w) /\ q[1] = Snap(w) /\ q[2] \in insert[w]
      BY <1>3, StepFacts DEF OnlyCommitsWrite
    <2>2. job[w] \notin ClipTasks /\ q[1] \notin sealed
      BY <2>1, SnapIsId, TasksAssumption DEF CommitDetections, Sightings, Fresh
    <2>3. Clear(q[1], insert[w])
      BY <2>1, <2>2 DEF CommitDetections, Sightings, Pending
    <2>4. basis' = basis /\ stamp' = stamp /\ rows' = rows \cup ({q[1]} \X insert[w])
      BY <2>1 DEF CommitDetections
    <2>5. r[1] \in sealed
      BY <1>1, <2>4 DEF Sightings, Recorded
    <2>6. r \in rows
      BY <2>2, <2>4, <2>5
    <2>7. QED
      BY <2>1, <2>3, <2>4, <2>6 DEF Clear, Near
  <1>4. QED
    BY <1>2, <1>3

LEMMA KeepSuppressed ==
    ASSUME Sightings, [Next]_vars
    PROVE  SuppressedSightingIsRecorded'
  <1>1. \A s \in sealed : Covered(s, seen[s] \ written[s])
    BY DEF Sightings, SuppressedSightingIsRecorded, Covered
  <1> SUFFICES ASSUME NEW s \in sealed'
               PROVE  Covered(s, seen[s] \ written[s])'
    BY DEF SuppressedSightingIsRecorded, Covered
  <1>2. CASE s \in sealed
    <2>1. stamp'[s] = stamp[s] /\ basis'[s] = basis[s]
          /\ seen'[s] = seen[s] /\ written'[s] = written[s]
      BY <1>2, StepFacts DEF SealedStays
    <2>2. s \in SnapIds /\ seen[s] \ written[s] \in SUBSET Students
      BY <1>2 DEF Sightings, Control, TypeOK
    <2>3. PICK X \in SUBSET Students : X = seen[s] \ written[s]
      BY <2>2
    <2>4. Covered(s, X)'
      BY <1>1, <1>2, <2>1, <2>2, <2>3, CoveredStays
    <2>5. QED
      BY <2>1, <2>3, <2>4 DEF Covered
  <1>3. CASE s \notin sealed
    <2>1. PICK w \in Workers : CommitDetections(w) /\ s = Snap(w)
      BY <1>3, StepFacts DEF OnlyCommitsWrite
    <2>2. s \in SnapIds /\ pc[w] = "commit"
      BY <2>1, SnapIsId DEF CommitDetections, Sightings
    <2>3. /\ basis' = basis /\ stamp' = stamp
          /\ seen'[s] = match[w] /\ written' = [written EXCEPT ![s] = insert[w]]
      BY <2>1, <2>2 DEF CommitDetections, Sightings, Control, TypeOK
    <2>4. CASE insert[w] = match[w]
      BY <2>2, <2>3, <2>4 DEF Covered, Sightings, Control, TypeOK
    <2>5. CASE Covered(s, match[w] \ insert[w])
      <3>1. s \notin basis[s]
        BY <1>3, <2>2 DEF Sightings, Recorded
      <3>2. QED
        BY <2>2, <2>3, <2>5, <3>1 DEF Covered, Near, Sightings, Control, TypeOK
    <2>6. QED
      BY <2>1, <2>2, <2>4, <2>5 DEF Sightings, Pending
  <1>4. QED
    BY <1>2, <1>3

LEMMA InitSightings == Init => Sightings
  BY InitControl DEF Init, Sightings, Fresh, Recorded, Pending,
     NoDuplicateOfASeenSighting, SuppressedSightingIsRecorded, Snap

(* Rows, bases and what workers are about to commit fit together in every  *)
(* reachable state: the invariant behind both theorems that follow.        *)
THEOREM SightingsInvariant == Spec => []Sightings
  <1>1. Sightings /\ [Next]_vars => Sightings'
    BY StepControl, KeepFresh, KeepRecorded, KeepPending, KeepNoDuplicate,
       KeepSuppressed DEF Sightings
  <1>2. QED
    BY InitSightings, <1>1, PTL DEF Spec

(* For any number of workers and any crashes, deduplication holds against  *)
(* every sighting that was committed when the existing ones were read.     *)
THEOREM DeduplicationIsSound == Spec => []NoDuplicateOfASeenSighting
  BY SightingsInvariant, PTL DEF Sightings

(* Deduplication never loses a sighting: whatever it leaves out is         *)
(* recorded for a snapshot of the same schedule inside the window.         *)
THEOREM DeduplicationLosesNothing == Spec => []SuppressedSightingIsRecorded
  BY SightingsInvariant, PTL DEF Sightings

-----------------------------------------------------------------------------
(* One worker: the next task starts only when the last one is over, so its *)
(* existing sightings miss nothing.                                        *)

Serial ==
    /\ \A s, t \in sealed :
          s # t /\ s[1] \in SnapTasks /\ t[1] \in SnapTasks
              => s \in basis[t] \/ t \in basis[s]
    /\ \A w \in Workers :
          pc[w] = "commit" /\ job[w] \in SnapTasks => basis[Snap(w)] = sealed

LEMMA SerialImplies ==
    ASSUME Sightings, Serial
    PROVE  OneSightingPerWindow
  BY DEF Sightings, Serial, Recorded, NoDuplicateOfASeenSighting, OneSightingPerWindow,
     SameSchedule, Near

LEMMA KeepSerial ==
    ASSUME \A v, w \in Workers : v = w, Sightings, Serial, [Next]_vars
    PROVE  Serial'
  <1>1. ASSUME NEW s \in sealed', NEW t \in sealed', s # t,
               s[1] \in SnapTasks, t[1] \in SnapTasks
        PROVE  s \in basis'[t] \/ t \in basis'[s]
    <2>1. CASE s \in sealed /\ t \in sealed
      BY <1>1, <2>1, StepFacts DEF SealedStays, Serial
    <2>2. ASSUME NEW w \in Workers, CommitDetections(w), NEW x, x = Snap(w), x[1] \in SnapTasks
          PROVE  basis'[x] = sealed /\ sealed' = sealed \cup {x}
      <3>1. job[w] \in SnapTasks /\ pc[w] = "commit"
        BY <2>2, SnapIsId DEF CommitDetections, Sightings
      <3>2. QED
        BY <2>2, <3>1 DEF Serial, CommitDetections
    <2>3. QED
      BY <1>1, <2>1, <2>2, StepFacts DEF OnlyCommitsWrite
  <1>2. ASSUME NEW v \in Workers, pc'[v] = "commit", job'[v] \in SnapTasks
        PROVE  basis'[Snap(v)'] = sealed'
    <2>1. CASE OpenSnapshot(v) /\ job[v] \in ClipTasks
      BY <1>2, <2>1, TasksAssumption DEF OpenSnapshot
    <2>2. CASE ReadSightings(v)
      BY <1>2, <2>2, SnapIsId DEF ReadSightings, Snap, broker_vars, Sightings, Control, TypeOK
    <2>3. CASE /\ pc[v] = "commit" /\ job'[v] = job[v] /\ Snap(v)' = Snap(v)
               /\ basis'[Snap(v)] = basis[Snap(v)]
      <3>1. basis[Snap(v)] = sealed
        BY <1>2, <2>3 DEF Serial
      <3>2. ~CommitDetections(v)
        BY <1>2 DEF CommitDetections, Sightings, Control, TypeOK
      <3>3. \A s \in sealed' : s \in sealed
        BY <3>2, StepFacts DEF OnlyCommitsWrite
      <3>4. QED
        BY <2>3, <3>1, <3>3, StepFacts DEF SealedStays
    <2>4. QED
      BY <1>2, <2>1, <2>2, <2>3, StepFacts DEF CommitWaits
  <1>3. QED
    BY <1>1, <1>2 DEF Serial

(* FR-5.7 holds of process_snapshot when there is one worker: no two       *)
(* sightings of a student within the window, whatever crashes and whoever  *)
(* is erased meanwhile.                                                    *)
THEOREM OneWorkerDeduplicates ==
    ASSUME \A v, w \in Workers : v = w
    PROVE  Spec => []OneSightingPerWindow
  <1>1. Init => Serial
    BY DEF Init, Serial
  <1>2. Sightings /\ Serial /\ [Next]_vars => Serial'
    BY KeepSerial
  <1>3. QED
    BY <1>1, <1>2, SightingsInvariant, SerialImplies, PTL DEF Spec

-----------------------------------------------------------------------------
(* The pipeline implements the ledger.                                     *)

(* While a worker publishes, what is announced and what it still has to    *)
(* announce make up what it recorded.                                      *)
Published ==
    /\ \A a \in announced : a[1] \in sealed
    /\ completed \subseteq sealed
    /\ \A w \in Workers : pc[w] \in {"annotate", "publish"} =>
          /\ Snap(w) \in sealed \ completed
          /\ insert[w] \subseteq written[Snap(w)]
          /\ \A x \in Students :
                <<Snap(w), x>> \in announced <=> x \in written[Snap(w)] \ insert[w]

LEMMA KeepPublished ==
    ASSUME Sightings, Published, [Next]_vars
    PROVE  Published'
  <1> USE DEF Sightings, Control
  <1>1. ASSUME NEW w \in Workers, NEW t \in Tasks, Take(w, t)
        PROVE  Published'
    BY <1>1, SMTT(40) DEF Take, TypeOK, HolderOK, Fresh, Published, Snap, SnapIds,
       Deliveries, broker_vars, worker_vars, admin_vars, table_vars,
       event_vars, history_vars
  <1>2. ASSUME NEW w \in Workers, Crash(w)
        PROVE  Published'
    BY <1>2, SMTT(40) DEF Crash, Requeued, TypeOK, HolderOK, Fresh, Published, Snap,
       SnapIds, Deliveries, broker_vars, worker_vars, admin_vars, table_vars,
       event_vars, history_vars
  <1>3. ASSUME NEW w \in Workers, Begin(w) \/ RecogniseClip(w)
        PROVE  Published'
    BY <1>3 DEF Begin, ReadClock, RecogniseClip, TypeOK, HolderOK, Fresh,
       Published, Snap, SnapIds, Deliveries, broker_vars, worker_vars,
       admin_vars, table_vars, event_vars, history_vars
  <1>4. ASSUME NEW w \in Workers, OpenSnapshot(w)
        PROVE  Published'
    BY <1>4 DEF OpenSnapshot, TypeOK, HolderOK, Fresh, Published, Snap,
       SnapIds, Deliveries, broker_vars, worker_vars, admin_vars, table_vars,
       event_vars, history_vars
  <1>5. ASSUME NEW w \in Workers, Recognise(w) \/ ReadSightings(w)
        PROVE  Published'
    BY <1>5, SMTT(40) DEF Recognise, ReadSightings, TypeOK, HolderOK, Fresh, Published,
       Snap, SnapIds, Deliveries, broker_vars, worker_vars, admin_vars,
       table_vars, event_vars, history_vars
  <1>6. ASSUME NEW w \in Workers, CommitDetections(w)
        PROVE  Published'
    BY <1>6 DEF CommitDetections, TypeOK, HolderOK, Fresh, Published, Snap,
       SnapIds, Deliveries, broker_vars, worker_vars, admin_vars, table_vars,
       event_vars, history_vars
  <1>7. ASSUME NEW w \in Workers, Reject(w)
        PROVE  Published'
    BY <1>7 DEF Reject, Settle, Acked, Settled, TypeOK, HolderOK, Fresh, Published,
       Snap, SnapIds, Deliveries, broker_vars, worker_vars, admin_vars,
       table_vars, event_vars, history_vars
  <1>8. ASSUME NEW w \in Workers, Raise(w)
        PROVE  Published'
    BY <1>8, SMTT(40) DEF Raise, Settle, Acked, Settled, TypeOK, HolderOK, Fresh, Published,
       Snap, SnapIds, Deliveries, broker_vars, worker_vars, admin_vars,
       table_vars, event_vars, history_vars
  <1>9. ASSUME NEW w \in Workers, Return(w)
        PROVE  Published'
    BY <1>9, SMTT(40) DEF Return, Settle, Acked, Settled, TypeOK, HolderOK, Fresh, Published,
       Snap, SnapIds, Deliveries, broker_vars, worker_vars, admin_vars,
       table_vars, event_vars, history_vars
  <1>10. ASSUME NEW w \in Workers, PublishDetection(w)
        PROVE  Published'
    <2>1. PICK x \in insert[w] :
             /\ announced' = announced \cup {<<Snap(w), x>>}
             /\ insert' = [insert EXCEPT ![w] = @ \ {x}]
      BY <1>10 DEF PublishDetection
    <2>2. /\ pc[w] = "publish"
          /\ UNCHANGED <<pc, sealed, completed, written>>
          /\ \A v \in Workers : Snap(v)' = Snap(v)
      BY <1>10 DEF PublishDetection, broker_vars, table_vars, history_vars, Snap
    <2>3. \A v \in Workers : pc[v] \in {"annotate", "publish"} /\ v # w => Snap(v) # Snap(w)
      BY <2>2 DEF HolderOK, Snap
    <2>4. x \in Students /\ Snap(w) \in sealed
      BY <2>1, <2>2 DEF TypeOK, Published
    <2>5. \A v \in Workers : pc[v] \in {"annotate", "publish"} /\ v # w =>
             /\ insert'[v] = insert[v]
             /\ \A y : <<Snap(v), y>> \in announced' <=> <<Snap(v), y>> \in announced
      BY <2>1, <2>3 DEF TypeOK
    <2>6. /\ insert'[w] = insert[w] \ {x}
          /\ \A y : <<Snap(w), y>> \in announced' <=> <<Snap(w), y>> \in announced \/ y = x
      BY <2>1 DEF TypeOK
    <2>7. \A a \in announced' : a[1] \in sealed
      BY <2>1, <2>4 DEF Published
    <2>8. ASSUME NEW v \in Workers, pc[v] \in {"annotate", "publish"}
          PROVE  /\ Snap(v) \in sealed \ completed
                 /\ insert'[v] \subseteq written[Snap(v)]
                 /\ \A y \in Students :
                       <<Snap(v), y>> \in announced' <=> y \in written[Snap(v)] \ insert'[v]
      <3>1. /\ Snap(v) \in sealed \ completed
            /\ insert[v] \subseteq written[Snap(v)]
            /\ \A y \in Students :
                  <<Snap(v), y>> \in announced <=> y \in written[Snap(v)] \ insert[v]
        BY <2>8 DEF Published
      <3>2. CASE v = w
        BY <2>1, <2>6, <3>1, <3>2
      <3>3. CASE v # w
        BY <2>5, <2>8, <3>1, <3>3
      <3>4. QED
        BY <3>2, <3>3
    <2>9. completed \subseteq sealed
      BY DEF Published
    <2>10. QED
      BY <2>2, <2>7, <2>8, <2>9 DEF Published
  <1>11. ASSUME NEW w \in Workers, Annotate(w) \/ PublishComplete(w) \/ PublishFails(w)
        PROVE  Published'
    BY <1>11 DEF Annotate, PublishComplete, PublishFails, TypeOK, HolderOK, Fresh,
       Published, Snap, SnapIds, Deliveries, broker_vars, worker_vars,
       admin_vars, table_vars, event_vars, history_vars
  <1>12. ASSUME NEW x \in Students, EraseBegin(x) \/ EraseCommit(x) \/ Enroll(x) \/ DeleteStudent(x)
        PROVE  Published'
    BY <1>12 DEF EraseBegin, EraseCommit, Unlink, Enroll, DeleteStudent,
       TypeOK, HolderOK, Fresh, Published, Snap, SnapIds, Deliveries,
       broker_vars, worker_vars, admin_vars, table_vars, event_vars,
       history_vars
  <1>13. ASSUME NEW c \in Schedules, DeleteSchedule(c)
        PROVE  Published'
    BY <1>13 DEF DeleteSchedule, TypeOK, HolderOK, Fresh, Published, Snap,
       SnapIds, Deliveries, broker_vars, worker_vars, admin_vars, table_vars,
       event_vars, history_vars
  <1>14. CASE UNCHANGED vars
    BY <1>14 DEF vars, TypeOK, HolderOK, Fresh, Published, Snap, SnapIds,
       Deliveries, broker_vars, worker_vars, admin_vars, table_vars,
       event_vars, history_vars
  <1>15. QED
    BY <1>1, <1>2, <1>3, <1>4, <1>5, <1>6, <1>7, <1>8, <1>9, <1>10, <1>11,
       <1>12, <1>13, <1>14 DEF Next, Work, Admin

LEMMA InitLedger == Init => Ledger!Init
  BY DEF Init, Ledger!Init

LEMMA Unlinked ==
    ASSUME NEW gone \in SUBSET rows
    PROVE  Unlink(gone) = (rows \ gone) \cup {<<e[1], Nobody>> : e \in gone}
  BY DEF Unlink

LEMMA StepLedger ==
    ASSUME Sightings, Published, [Next]_vars
    PROVE  [Ledger!Next]_(Ledger!ledger)
  <1> USE DEF Ledger!ledger
  <1>1. ASSUME NEW w \in Workers, Work(w) \/ Crash(w)
        PROVE  Ledger!Next \/ UNCHANGED Ledger!ledger
    <2>0. pc[w] # "idle" => Snap(w) \in SnapIds
      BY SnapIsId DEF Sightings
    <2>1. CASE OpenSnapshot(w)
      <3>1. Ledger!Open(Snap(w))
        BY <2>1 DEF OpenSnapshot, Ledger!Open, Sightings, Fresh, event_vars, history_vars
      <3>2. QED
        BY <2>0, <2>1, <3>1 DEF OpenSnapshot, Ledger!Next
    <2>2. CASE CommitDetections(w)
      <3>1. Ledger!Enter(Snap(w), insert[w])
        BY <2>2 DEF CommitDetections, Ledger!Enter, Sightings, Fresh, event_vars
      <3>2. insert[w] \in SUBSET Students
        BY DEF Sightings, Control, TypeOK
      <3>3. QED
        BY <2>0, <2>2, <3>1, <3>2 DEF CommitDetections, Ledger!Next
    <2>3. CASE PublishDetection(w)
      <3>1. PICK x \in insert[w] : announced' = announced \cup {<<Snap(w), x>>}
        BY <2>3 DEF PublishDetection
      <3>2. x \in Students
        BY <3>1 DEF Sightings, Control, TypeOK
      <3>3. Ledger!Announce(Snap(w), x)
        BY <2>3, <3>1, <3>2 DEF PublishDetection, Ledger!Announce, Published, table_vars,
           history_vars
      <3>4. QED
        BY <2>0, <2>3, <3>2, <3>3 DEF PublishDetection, Ledger!Next
    <2>4. CASE PublishComplete(w)
      <3>1. \A x \in written[Snap(w)] : <<Snap(w), x>> \in announced
        BY <2>0, <2>4 DEF PublishComplete, Published, Sightings, Control, TypeOK
      <3>2. Ledger!Complete(Snap(w))
        BY <2>4, <3>1 DEF PublishComplete, Ledger!Complete, Published, table_vars, history_vars
      <3>3. QED
        BY <2>0, <2>4, <3>2 DEF PublishComplete, Ledger!Next
    <2>5. CASE (\E t \in Tasks : Take(w, t)) \/ Crash(w)
      BY <2>5 DEF Take, Crash, table_vars, event_vars, history_vars
    <2>6. CASE Begin(w) \/ RecogniseClip(w)
      BY <2>6 DEF Begin, RecogniseClip, event_vars, history_vars
    <2>7. CASE Reject(w) \/ Raise(w) \/ Return(w) \/ Annotate(w) \/ PublishFails(w)
      BY <2>7 DEF Reject, Raise, Return, Annotate, PublishFails, table_vars, event_vars, history_vars
    <2>8. CASE Recognise(w) \/ ReadSightings(w)
      BY <2>8 DEF Recognise, ReadSightings, table_vars, event_vars, history_vars
    <2>9. QED
      BY <1>1, <2>1, <2>2, <2>3, <2>4, <2>5, <2>6, <2>7, <2>8 DEF Work
  <1>2. ASSUME NEW x \in Students, EraseCommit(x) \/ DeleteStudent(x)
        PROVE  Ledger!Next
    <2>1. PICK gone \in SUBSET rows :
             rows' = Unlink(gone) /\ \A r \in gone : r[2] = x
      <3>1. CASE EraseCommit(x)
        BY <3>1 DEF EraseCommit
      <3>2. CASE DeleteStudent(x)
        BY <3>2 DEF DeleteStudent
      <3>3. QED
        BY <1>2, <3>1, <3>2
    <2>2. UNCHANGED <<snaps, sealed, written, announced, completed>>
      BY <1>2 DEF EraseCommit, DeleteStudent, event_vars, history_vars
    <2>3. Ledger!Forget(x, gone)
      BY <2>1, <2>2, Unlinked DEF Ledger!Forget
    <2>4. QED
      BY <2>1, <2>3 DEF Ledger!Next
  <1>3. ASSUME NEW c \in Schedules, DeleteSchedule(c)
        PROVE  Ledger!Next
    <2>1. \A s \in snaps : s \in SnapIds
      BY DEF Sightings, Control, TypeOK
    <2>2. \A r \in rows : r[1] \in SnapIds
      BY DEF Sightings, Control, TypeOK
    <2>3. Ledger!Drop(c)
      BY <1>3, <2>1, <2>2 DEF DeleteSchedule, Ledger!Drop, event_vars, history_vars
    <2>4. QED
      BY <2>3 DEF Ledger!Next
  <1>4. ASSUME NEW x \in Students, EraseBegin(x) \/ Enroll(x)
        PROVE  UNCHANGED Ledger!ledger
    BY <1>4 DEF EraseBegin, Enroll, table_vars, event_vars, history_vars
  <1>5. CASE UNCHANGED vars
    BY <1>5 DEF vars, table_vars, event_vars, history_vars
  <1>6. QED
    BY <1>1, <1>2, <1>3, <1>4, <1>5 DEF Next, Admin

(* The tables and the event channel, written by any number of workers that *)
(* crash and are retried while rows are erased and dropped, are a ledger.  *)
THEOREM PipelineImplementsLedger == Spec => ImplementsLedger
  <1>1. Init => Published
    BY DEF Init, Published
  <1>2. Sightings /\ Published /\ [Next]_vars => Published'
    BY KeepPublished
  <1>3. Spec => []Published
    BY <1>1, <1>2, SightingsInvariant, PTL DEF Spec
  <1>4. QED
    BY <1>3, SightingsInvariant, InitLedger, StepLedger, PTL
       DEF Spec, ImplementsLedger, Ledger!Spec

-----------------------------------------------------------------------------
(* Second entries cost worker deaths.                                      *)

(* The deliveries that were cut short: an upload was delivered again after *)
(* them, or is about to be. Each of them is one of the deaths.             *)
CutShort ==
    {d \in SnapIds : \/ d[2] < attempt[d[1]]
                     \/ d[2] = attempt[d[1]] /\ broker[d[1]] = "queued"}
DeathsCounted == IsFiniteSet(CutShort) /\ Cardinality(CutShort) = crashes

LEMMA InitDeaths == Init => DeathsCounted
  <1> SUFFICES ASSUME Init PROVE DeathsCounted
    OBVIOUS
  <1>1. CutShort = {}
    BY BoundsAssumption DEF Init, CutShort, SnapIds, Deliveries
  <1>2. QED
    BY <1>1, FS_EmptySet DEF Init, DeathsCounted

LEMMA KeepDeaths ==
    ASSUME Control, DeathsCounted, [Next]_vars
    PROVE  DeathsCounted'
  <1>1. ASSUME CutShort' = CutShort, crashes' = crashes
        PROVE  DeathsCounted'
    BY <1>1 DEF DeathsCounted
  <1>2. ASSUME NEW w \in Workers, NEW t \in Tasks, Take(w, t)
        PROVE  DeathsCounted'
    <2>1. /\ broker[t] = "queued" /\ broker' = [broker EXCEPT ![t] = "held"]
          /\ attempt' = [attempt EXCEPT ![t] = @ + 1]
      BY <1>2 DEF Take
    <2>2. ASSUME NEW d \in SnapIds
          PROVE  d \in CutShort' <=> d \in CutShort
      <3>1. d[1] \in Tasks /\ d[2] \in Nat /\ attempt[d[1]] \in Nat
        BY BoundsAssumption DEF SnapIds, Deliveries, Control, TypeOK
      <3>2. CASE d[1] = t
        <4>1. attempt'[d[1]] = attempt[d[1]] + 1 /\ broker'[d[1]] = "held"
          BY <2>1, <3>2 DEF Control, TypeOK
        <4>2. d[2] < attempt'[d[1]] <=> d[2] < attempt[d[1]] \/ d[2] = attempt[d[1]]
          BY <3>1, <4>1
        <4>3. broker[d[1]] = "queued" /\ broker'[d[1]] # "queued"
          BY <2>1, <3>2, <4>1
        <4>4. QED
          BY <4>2, <4>3 DEF CutShort
      <3>3. CASE d[1] # t
        <4>1. attempt'[d[1]] = attempt[d[1]] /\ broker'[d[1]] = broker[d[1]]
          BY <2>1, <3>3 DEF Control, TypeOK
        <4>2. QED
          BY <4>1 DEF CutShort
      <3>4. QED
        BY <3>2, <3>3
    <2>3. CutShort' = CutShort
      BY <2>2 DEF CutShort
    <2>4. QED
      BY <1>1, <1>2, <2>3 DEF Take
  <1>3. ASSUME NEW w \in Workers, Crash(w)
        PROVE  DeathsCounted'
    <2>1. Snap(w) \in SnapIds \ CutShort
      BY <1>3, SnapIsId DEF Crash, CutShort, Control, TypeOK, HolderOK
    <2>2. CutShort' = CutShort \cup {Snap(w)}
      <3>1. job[w] \in Tasks /\ broker[job[w]] = "held" /\ Snap(w) = <<job[w], attempt[job[w]]>>
        BY <1>3 DEF Crash, Control, HolderOK, Snap
      <3>2. attempt' = attempt /\ broker' = [broker EXCEPT ![job[w]] = "queued"]
        BY <1>3 DEF Crash, Requeued
      <3>3. ASSUME NEW d \in SnapIds
            PROVE  d \in CutShort' <=> d \in CutShort \/ d = Snap(w)
        <4>1. d = <<d[1], d[2]>> /\ d[1] \in Tasks
          BY DEF SnapIds
        <4>2. CASE d[1] = job[w]
          <5>1. /\ broker'[d[1]] = "queued" /\ attempt'[d[1]] = attempt[d[1]]
                /\ broker[d[1]] = "held" /\ d[2] \in Nat /\ attempt[d[1]] \in Nat
            BY BoundsAssumption, <3>1, <3>2, <4>1, <4>2
               DEF Control, TypeOK, SnapIds, Deliveries
          <5>2. d = Snap(w) <=> d[2] = attempt[d[1]]
            BY <3>1, <4>1, <4>2
          <5>3. d \in CutShort' <=> d[2] < attempt[d[1]] \/ d[2] = attempt[d[1]]
            BY <5>1 DEF CutShort
          <5>4. d \in CutShort <=> d[2] < attempt[d[1]]
            BY <5>1 DEF CutShort
          <5>5. QED
            BY <5>2, <5>3, <5>4
        <4>3. CASE d[1] # job[w]
          BY <3>1, <3>2, <4>1, <4>3 DEF CutShort, Control, TypeOK
        <4>4. QED
          BY <4>2, <4>3
      <3>4. QED
        BY <2>1, <3>3 DEF CutShort
    <2>3. QED
      BY <1>3, <2>1, <2>2, FS_AddElement DEF DeathsCounted, Crash
  <1>4. ASSUME NEW w \in Workers, Reject(w) \/ Raise(w) \/ Return(w)
        PROVE  DeathsCounted'
    <2>1. PICK outcome \in Settled : Settle(w, outcome) /\ pc[w] # "idle"
      BY <1>4 DEF Reject, Raise, Return, Settled
    <2>2. job[w] \in Tasks /\ broker[job[w]] = "held"
      BY <2>1 DEF Control, HolderOK
    <2>3. CutShort' = CutShort
      BY <2>1, <2>2 DEF Settle, Acked, Settled, CutShort, SnapIds, Control, TypeOK
    <2>4. QED
      BY <1>1, <2>1, <2>3 DEF Settle
  <1>5. ASSUME UNCHANGED broker_vars
        PROVE  DeathsCounted'
    BY <1>1, <1>5 DEF broker_vars, CutShort
  <1>6. ASSUME NEW w \in Workers,
               \/ Begin(w) \/ RecogniseClip(w) \/ OpenSnapshot(w) \/ Recognise(w)
               \/ ReadSightings(w) \/ CommitDetections(w) \/ Annotate(w)
               \/ PublishDetection(w) \/ PublishComplete(w) \/ PublishFails(w)
        PROVE  UNCHANGED broker_vars
    BY <1>6 DEF Begin, RecogniseClip, OpenSnapshot, Recognise, ReadSightings,
       CommitDetections, Annotate, PublishDetection, PublishComplete, PublishFails
  <1>7. CASE Admin \/ UNCHANGED vars
    BY <1>5, <1>7 DEF Admin, EraseBegin, EraseCommit, Enroll, DeleteStudent,
       DeleteSchedule, vars
  <1>8. QED
    BY <1>2, <1>3, <1>4, <1>5, <1>6, <1>7 DEF Next, Work

(* For any number of workers, uploads and deaths, and whether or not Redis *)
(* and the session serve the publishing: at most one upload has its        *)
(* sightings entered a second time for each worker that died.              *)
THEOREM SecondEntriesCostDeaths == Spec => []EnteredAgainOnlyAfterDeaths
  <1>1. Sightings /\ DeathsCounted => EnteredAgainOnlyAfterDeaths
    <2> SUFFICES ASSUME Sightings, DeathsCounted
                 PROVE  EnteredAgainOnlyAfterDeaths
      OBVIOUS
    <2>1. EnteredAgain \subseteq CutShort
      <3>1. ASSUME NEW s \in EnteredAgain
            PROVE  s \in CutShort
        <4>1. PICK r \in sealed : r[1] = s[1] /\ s[2] < r[2]
          BY <3>1 DEF EnteredAgain
        <4>2. s \in SnapIds /\ r \in SnapIds
          BY <3>1, <4>1 DEF EnteredAgain, Sightings, Control, TypeOK
        <4>3. s[2] \in Nat /\ r[2] \in Nat /\ attempt[s[1]] \in Nat
          BY <4>2, BoundsAssumption DEF SnapIds, Deliveries, Sightings, Control, TypeOK
        <4>4. r[2] <= attempt[s[1]]
          BY <4>1 DEF Sightings, Fresh
        <4>5. s[2] < attempt[s[1]]
          BY <4>1, <4>3, <4>4
        <4>6. QED
          BY <4>2, <4>5 DEF CutShort
      <3>2. QED
        BY <3>1
    <2>2. Cardinality(EnteredAgain) <= Cardinality(CutShort)
      BY <2>1, FS_Subset DEF DeathsCounted
    <2>3. QED
      BY <2>2 DEF EnteredAgainOnlyAfterDeaths, DeathsCounted
  <1>2. Sightings => Control
    BY DEF Sightings
  <1>3. QED
    BY <1>1, <1>2, InitDeaths, KeepDeaths, SightingsInvariant, PTL DEF Spec
=============================================================================
