------------------------- MODULE SnapshotPipeline -------------------------
(***************************************************************************)
(* Uploads on their way to the attendance tables: the broker queue, the    *)
(* Celery cv-workers that run process_snapshot and process_clip, the       *)
(* Snapshot and Detection tables they write, the events they publish, and  *)
(* the administrative requests that change the same tables meanwhile.      *)
(*                                                                         *)
(* Every database transaction is one step: PostgreSQL at READ COMMITTED    *)
(* shows a statement what has been committed when the statement starts.    *)
(* A worker's uncommitted inserts live in its own session (`insert`).      *)
(***************************************************************************)
EXTENDS Naturals, FiniteSets

CONSTANTS
    Workers,        \* cv-worker processes (compose: --scale cv-worker=N)
    Students,       \* ids of the students table
    Schedules,      \* ids of the schedules table
    SnapTasks,      \* uploads accepted by POST /ingest
    ClipTasks,      \* uploads accepted by POST /ingest/clip
    ScheduleOf,     \* the schedule_id each upload names
    Nobody,         \* NULL in detections.student_id
    Window,         \* the deduplication window, in ticks of the clock
    Tracking,       \* settings.enable_tracking
    ExpireOnCommit, \* expire_on_commit of SyncSession; sessionmaker's default is TRUE
    RedisMayFail,   \* the event channel can be down
    AdminOps,       \* the administrative requests that are issued
    MaxTime,        \* bound on the clock
    MaxCrashes      \* bound on how many workers die

Tasks == SnapTasks \cup ClipTasks

ASSUME TasksAssumption == SnapTasks \cap ClipTasks = {}
ASSUME ScheduleOfAssumption == ScheduleOf \in [Tasks -> Schedules]
ASSUME NobodyAssumption == Nobody \notin Students
ASSUME WindowAssumption == Window \in Nat
ASSUME BoundsAssumption == MaxTime \in Nat /\ MaxCrashes \in Nat
ASSUME FlagsAssumption == {Tracking, ExpireOnCommit, RedisMayFail} \subseteq BOOLEAN

VARIABLES
    now,        \* the database clock
    broker,     \* where each upload is: Celery's queue and result backend
    attempt,    \* how many times each upload has been delivered
    crashes,    \* how many workers have died
    pc, job,    \* each worker's position in its task, and the task
    match,      \* the students recognised in the frame the worker holds
    insert,     \* Detections added to the session; after the commit, to publish
    tracked,    \* identities in the live tracks and link candidates of the process
    students, enrolled, schedules,  \* the tables (enrolled: is_enrolled with templates)
    erasing,    \* Detections an open right-to-deletion transaction has updated
    snaps,      \* the snapshots table
    stamp,      \* Snapshot.timestamp: the start of the transaction that inserts it
    rows,       \* the detections table: pairs of a snapshot and a student
    announced,  \* published on attendance:detections
    completed,  \* published on attendance:snapshots
    sealed,     \* history: snapshots whose Detections were committed
    seen,       \* history: what was recognised in a sealed snapshot
    written,    \* history: what was recorded for it
    basis       \* history: the snapshots sealed when its existing sightings were read

broker_vars == <<broker, attempt, crashes>>
worker_vars == <<pc, job, match, insert, tracked>>
admin_vars == <<students, enrolled, schedules, erasing>>
table_vars == <<snaps, stamp, rows>>
event_vars == <<announced, completed>>
history_vars == <<sealed, seen, written, basis>>
vars == <<now, broker_vars, worker_vars, admin_vars, table_vars, event_vars, history_vars>>

(* A delivery of an upload creates at most one Snapshot row, so the pair   *)
(* of the upload and the number of the delivery stands for the row's id.   *)
Deliveries == 1 .. MaxCrashes + 1
SnapIds == Tasks \X Deliveries
Times == 0 .. MaxTime
Settled == {"done", "error", "failed"}
NotErasing == {Nobody}

TypeOK ==
    /\ now \in Times
    /\ broker \in [Tasks -> {"queued", "held"} \cup Settled]
    /\ attempt \in [Tasks -> 0 .. MaxCrashes + 1]
    /\ crashes \in 0 .. MaxCrashes
    /\ pc \in [Workers -> {"idle", "start", "open", "recognise", "dedup",
                           "commit", "annotate", "publish", "return"}]
    /\ job \in [Workers -> Tasks \cup {Nobody}]
    /\ match \in [Workers -> SUBSET Students]
    /\ insert \in [Workers -> SUBSET Students]
    /\ tracked \in [Workers -> SUBSET Students]
    /\ students \subseteq Students
    /\ enrolled \subseteq students
    /\ schedules \subseteq Schedules
    /\ erasing \in [Students -> (SUBSET SnapIds) \cup {NotErasing}]
    /\ snaps \subseteq SnapIds
    /\ stamp \in [SnapIds -> Times]
    /\ rows \subseteq SnapIds \X (Students \cup {Nobody})
    /\ announced \subseteq SnapIds \X Students
    /\ completed \subseteq SnapIds
    /\ sealed \subseteq SnapIds
    /\ seen \in [SnapIds -> SUBSET Students]
    /\ written \in [SnapIds -> SUBSET Students]
    /\ basis \in [SnapIds -> SUBSET SnapIds]

-----------------------------------------------------------------------------
(* The snapshot row of the delivery that worker w is processing.           *)
Snap(w) == <<job[w], attempt[job[w]]>>

(* abs(s.timestamp - t.timestamp) is inside the window; the query's bounds *)
(* are both inclusive.                                                     *)
Near(s, t) == stamp[s] <= stamp[t] + Window /\ stamp[t] <= stamp[s] + Window
SameSchedule(s, t) == ScheduleOf[s[1]] = ScheduleOf[t[1]]

(* Mutant: the query's bounds are exclusive.                               *)
SightingsInOpenWindow(s) ==
    {r[2] : r \in {q \in rows : /\ SameSchedule(q[1], s)
                               /\ stamp[q[1]] < stamp[s] + Window
                               /\ stamp[s] < stamp[q[1]] + Window}}

(* Mutant: the query forgets its filters.                                  *)
UnfilteredSightings(s) == {r[2] : r \in rows}

(* The student ids of the Detections already committed for the schedule,   *)
(* in the window around snapshot s.                                        *)
ExistingSightings(s) ==
    {r[2] : r \in {q \in rows : SameSchedule(q[1], s) /\ Near(q[1], s)}}

(* A clip's student is confirmed when at least two of the frames that were *)
(* processed matched that student.                                         *)
VotingFrames == 1 .. 3
Confirmed(votes) ==
    {x \in Students : Cardinality({f \in VotingFrames : x \in votes[f]}) >= 2}

(* The clock is only ever read, so it may advance whenever it is read.     *)
ReadClock(s) ==
    \E time \in now .. MaxTime :
        /\ now' = time
        /\ stamp' = [stamp EXCEPT ![s] = time]

(* Mutant: the declared max_retries is used, a task that raises runs again. *)
RetriedWhenFailed(t, outcome) ==
    [broker EXCEPT ![t] = IF outcome = "failed" THEN "queued" ELSE outcome]

(* The broker drops the message: acks_late acks when the task returns and, *)
(* by Celery's default, also when it raises. Nothing calls retry().        *)
Acked(t, outcome) == [broker EXCEPT ![t] = outcome]

(* The task leaves the worker.                                             *)
Settle(w, outcome) ==
    /\ broker' = Acked(job[w], outcome)
    /\ pc' = [pc EXCEPT ![w] = "idle"]
    /\ job' = [job EXCEPT ![w] = Nobody]
    /\ match' = [match EXCEPT ![w] = {}]
    /\ insert' = [insert EXCEPT ![w] = {}]
    /\ UNCHANGED <<attempt, crashes, tracked>>

-----------------------------------------------------------------------------
Init ==
    /\ now = 0
    /\ broker = [t \in Tasks |-> "queued"]
    /\ attempt = [t \in Tasks |-> 0]
    /\ pc = [w \in Workers |-> "idle"]
    /\ job = [w \in Workers |-> Nobody]
    /\ crashes = 0
    /\ match = [w \in Workers |-> {}]
    /\ insert = [w \in Workers |-> {}]
    /\ tracked = [w \in Workers |-> {}]
    /\ students = Students
    /\ enrolled = Students
    /\ schedules = Schedules
    /\ erasing = [x \in Students |-> NotErasing]
    /\ snaps = {}
    /\ stamp = [s \in SnapIds |-> 0]
    /\ rows = {}
    /\ announced = {}
    /\ completed = {}
    /\ sealed = {}
    /\ seen = [s \in SnapIds |-> {}]
    /\ written = [s \in SnapIds |-> {}]
    /\ basis = [s \in SnapIds |-> {}]

-----------------------------------------------------------------------------
(* The broker and the worker processes.                                    *)

(* An idle worker fetches an upload; with prefetch 1 and acks_late the     *)
(* message stays unacknowledged until the task is over.                    *)
Take(w, t) ==
    /\ pc[w] = "idle"
    /\ broker[t] = "queued"
    /\ broker' = [broker EXCEPT ![t] = "held"]
    /\ attempt' = [attempt EXCEPT ![t] = @ + 1]
    /\ pc' = [pc EXCEPT ![w] = "start"]
    /\ job' = [job EXCEPT ![w] = t]
    /\ UNCHANGED <<now, crashes, match, insert, tracked, admin_vars, table_vars,
                   event_vars, history_vars>>

(* Mutant: the message was acknowledged when the worker received it.       *)
Forgotten(t) == broker

(* The broker restores a message that was never acknowledged.              *)
Requeued(t) == [broker EXCEPT ![t] = "queued"]

(* The worker process dies: its transaction rolls back, its tracks are     *)
(* gone, and the broker delivers the unacknowledged message again.         *)
Crash(w) ==
    /\ pc[w] # "idle"
    /\ crashes < MaxCrashes
    /\ crashes' = crashes + 1
    /\ broker' = Requeued(job[w])
    /\ pc' = [pc EXCEPT ![w] = "idle"]
    /\ job' = [job EXCEPT ![w] = Nobody]
    /\ match' = [match EXCEPT ![w] = {}]
    /\ insert' = [insert EXCEPT ![w] = {}]
    /\ tracked' = [tracked EXCEPT ![w] = {}]
    /\ UNCHANGED <<now, attempt, admin_vars, table_vars, event_vars, history_vars>>

-----------------------------------------------------------------------------
(* process_snapshot and process_clip, in the order of their statements.    *)

(* The frame decodes and the schedule exists; the schedule query opens the *)
(* transaction whose start is the Snapshot's timestamp.                    *)
Begin(w) ==
    /\ pc[w] = "start"
    /\ job[w] \in SnapTasks
    /\ ScheduleOf[job[w]] \in schedules
    /\ ReadClock(Snap(w))
    /\ pc' = [pc EXCEPT ![w] = "open"]
    /\ UNCHANGED <<broker_vars, job, match, insert, tracked, admin_vars,
                   snaps, rows, event_vars, history_vars>>

(* An early return: the frame does not decode, the schedule is unknown,    *)
(* the clip has fewer than three frames, or its liveness check failed.     *)
Reject(w) ==
    /\ pc[w] = "start"
    /\ Settle(w, "error")
    /\ UNCHANGED <<now, admin_vars, table_vars, event_vars, history_vars>>

(* A live clip is recognised, frame by frame, before its Snapshot exists:  *)
(* the first template query opens the transaction.                         *)
RecogniseClip(w) ==
    /\ pc[w] = "start"
    /\ job[w] \in ClipTasks
    /\ \E votes \in [VotingFrames -> SUBSET enrolled] :
          match' = [match EXCEPT ![w] = Confirmed(votes)]
    /\ ReadClock(Snap(w))
    /\ pc' = [pc EXCEPT ![w] = "open"]
    /\ UNCHANGED <<broker_vars, job, insert, tracked, admin_vars, snaps, rows,
                   event_vars, history_vars>>

(* The Snapshot is committed on its own. A clip has its matches by now and *)
(* goes straight to its Detections, with no look at existing sightings.    *)
OpenSnapshot(w) ==
    /\ pc[w] = "open"
    /\ ScheduleOf[job[w]] \in schedules
    /\ snaps' = snaps \cup {Snap(w)}
    /\ pc' = [pc EXCEPT ![w] = IF job[w] \in ClipTasks THEN "commit" ELSE "recognise"]
    /\ insert' = [insert EXCEPT ![w] = match[w]]
    /\ UNCHANGED <<now, broker_vars, job, match, tracked, admin_vars, stamp, rows,
                   event_vars, history_vars>>

(* The pipeline reads the templates of the enrolled students and matches   *)
(* the faces; with tracking, an identity that a live track already carries *)
(* is reported without any template being read again.                      *)
Recognise(w) ==
    /\ pc[w] = "recognise"
    /\ Snap(w) \in snaps
    /\ \E m \in SUBSET (enrolled \cup tracked[w]) :
          /\ match' = [match EXCEPT ![w] = m]
          /\ \E kept \in IF Tracking THEN SUBSET (tracked[w] \cup m) ELSE {{}} :
                tracked' = [tracked EXCEPT ![w] = kept]
    /\ pc' = [pc EXCEPT ![w] = "dedup"]
    /\ UNCHANGED <<now, broker_vars, job, insert, admin_vars, table_vars,
                   event_vars, history_vars>>

(* The existing sightings are read, and a Detection is added to the        *)
(* session for every match that is not among them.                         *)
ReadSightings(w) ==
    /\ pc[w] = "dedup"
    /\ insert' = [insert EXCEPT ![w] = match[w] \ ExistingSightings(Snap(w))]
    /\ basis' = [basis EXCEPT ![Snap(w)] = sealed]
    /\ pc' = [pc EXCEPT ![w] = "commit"]
    /\ UNCHANGED <<now, broker_vars, job, match, tracked, admin_vars,
                   table_vars, event_vars, sealed, seen, written>>

(* One commit writes all Detections of the snapshot; the foreign keys need *)
(* the snapshot and every student to exist still.                          *)
CommitDetections(w) ==
    /\ pc[w] = "commit"
    /\ insert[w] # {} => Snap(w) \in snaps
    /\ insert[w] \subseteq students
    /\ rows' = rows \cup ({Snap(w)} \X insert[w])
    /\ sealed' = sealed \cup {Snap(w)}
    /\ seen' = [seen EXCEPT ![Snap(w)] = match[w]]
    /\ written' = [written EXCEPT ![Snap(w)] = insert[w]]
    /\ pc' = [pc EXCEPT ![w] = IF job[w] \in ClipTasks THEN "publish" ELSE "annotate"]
    /\ UNCHANGED <<now, broker_vars, job, match, insert, tracked, admin_vars,
                   snaps, stamp, event_vars, basis>>

(* The boxes of a frame are drawn after the commit, outside any try block. *)
Annotate(w) ==
    /\ pc[w] = "annotate"
    /\ pc' = [pc EXCEPT ![w] = "publish"]
    /\ UNCHANGED <<now, broker_vars, job, match, insert, tracked, admin_vars,
                   table_vars, event_vars, history_vars>>

(* A statement raises: a foreign key is gone, a template row went stale    *)
(* under a refresh whose own error was swallowed, the database or a model  *)
(* fails. The transaction rolls back; what is committed stays: the         *)
(* Snapshot, and the Detections too when it is the drawing that raises.    *)
Raise(w) ==
    /\ pc[w] \in {"start", "open", "recognise", "dedup", "commit", "annotate"}
    /\ Settle(w, "failed")
    /\ UNCHANGED <<now, admin_vars, table_vars, event_vars, history_vars>>

-----------------------------------------------------------------------------
(* Publishing, after the session is closed. With expire_on_commit the      *)
(* commit expired the Snapshot and closing the session detached it, so the *)
(* first use of snapshot.id raises: inside the try block nothing has been  *)
(* published by then, and the task's return statement raises again.        *)
PublishDetection(w) ==
    /\ pc[w] = "publish"
    /\ ~ExpireOnCommit
    /\ \E x \in insert[w] :
          /\ announced' = announced \cup {<<Snap(w), x>>}
          /\ insert' = [insert EXCEPT ![w] = @ \ {x}]
    /\ UNCHANGED <<now, broker_vars, pc, job, match, tracked, admin_vars,
                   table_vars, completed, history_vars>>

(* Mutant: completion does not wait for the detection events.              *)
PublishCompleteEarly(w) ==
    /\ pc[w] = "publish"
    /\ ~ExpireOnCommit
    /\ completed' = completed \cup {Snap(w)}
    /\ pc' = [pc EXCEPT ![w] = "return"]
    /\ UNCHANGED <<now, broker_vars, job, match, insert, tracked, admin_vars,
                   table_vars, announced, history_vars>>

PublishComplete(w) ==
    /\ pc[w] = "publish"
    /\ ~ExpireOnCommit
    /\ insert[w] = {}
    /\ completed' = completed \cup {Snap(w)}
    /\ pc' = [pc EXCEPT ![w] = "return"]
    /\ UNCHANGED <<now, broker_vars, job, match, insert, tracked, admin_vars,
                   table_vars, announced, history_vars>>

(* Whatever raises while publishing is logged and forgotten.               *)
PublishFails(w) ==
    /\ pc[w] = "publish"
    /\ ExpireOnCommit \/ RedisMayFail
    /\ pc' = [pc EXCEPT ![w] = "return"]
    /\ UNCHANGED <<now, broker_vars, job, match, insert, tracked, admin_vars,
                   table_vars, event_vars, history_vars>>

Return(w) ==
    /\ pc[w] = "return"
    /\ Settle(w, IF ExpireOnCommit THEN "failed" ELSE "done")
    /\ UNCHANGED <<now, admin_vars, table_vars, event_vars, history_vars>>

-----------------------------------------------------------------------------
(* Requests of administrators, each its own transaction.                   *)

Unlink(gone) == {IF r \in gone THEN <<r[1], Nobody>> ELSE r : r \in rows}

(* The right-to-deletion handler has updated the Detections it can see.    *)
EraseBegin(x) ==
    /\ "erase" \in AdminOps
    /\ x \in students
    /\ erasing[x] = NotErasing
    /\ erasing' = [erasing EXCEPT ![x] = {s \in SnapIds : <<s, x>> \in rows}]
    /\ UNCHANGED <<now, broker_vars, worker_vars, students, enrolled, schedules,
                   table_vars, event_vars, history_vars>>

(* Its transaction commits: the templates are gone, the student is no      *)
(* longer enrolled, and those Detections name nobody.                      *)
EraseCommit(x) ==
    /\ erasing[x] # NotErasing
    /\ enrolled' = enrolled \ {x}
    /\ rows' = Unlink({r \in rows : r[1] \in erasing[x] /\ r[2] = x})
    /\ erasing' = [erasing EXCEPT ![x] = NotErasing]
    /\ UNCHANGED <<now, broker_vars, worker_vars, students, schedules, snaps, stamp,
                   event_vars, history_vars>>

(* Mutant: enrolment does not check that the student exists.               *)
EnrollUnchecked(x) ==
    /\ "enroll" \in AdminOps
    /\ x \notin enrolled
    /\ enrolled' = enrolled \cup {x}
    /\ UNCHANGED <<now, broker_vars, worker_vars, students, schedules, erasing,
                   table_vars, event_vars, history_vars>>

(* Enrolment makes the student recognisable (again).                       *)
Enroll(x) ==
    /\ "enroll" \in AdminOps
    /\ x \in students \ enrolled
    /\ enrolled' = enrolled \cup {x}
    /\ UNCHANGED <<now, broker_vars, worker_vars, students, schedules, erasing,
                   table_vars, event_vars, history_vars>>

(* The student's row goes: templates cascade, Detections name nobody.      *)
DeleteStudent(x) ==
    /\ "delete" \in AdminOps
    /\ x \in students
    /\ erasing[x] = NotErasing
    /\ students' = students \ {x}
    /\ enrolled' = enrolled \ {x}
    /\ rows' = Unlink({r \in rows : r[2] = x})
    /\ UNCHANGED <<now, broker_vars, worker_vars, schedules, erasing, snaps, stamp,
                   event_vars, history_vars>>

(* The schedule goes, and with it its Snapshots and their Detections.      *)
DeleteSchedule(c) ==
    /\ "drop" \in AdminOps
    /\ c \in schedules
    /\ schedules' = schedules \ {c}
    /\ snaps' = {s \in snaps : ScheduleOf[s[1]] # c}
    /\ rows' = {r \in rows : ScheduleOf[r[1][1]] # c}
    /\ UNCHANGED <<now, broker_vars, worker_vars, students, enrolled, erasing, stamp,
                   event_vars, history_vars>>

-----------------------------------------------------------------------------
(* What a worker that is alive does.                                       *)
Work(w) ==
    \/ \E t \in Tasks : Take(w, t)
    \/ Begin(w) \/ Reject(w) \/ RecogniseClip(w) \/ OpenSnapshot(w)
    \/ Recognise(w) \/ ReadSightings(w) \/ CommitDetections(w) \/ Annotate(w)
    \/ Raise(w)
    \/ PublishDetection(w) \/ PublishComplete(w) \/ PublishFails(w) \/ Return(w)

Admin ==
    \/ \E x \in Students :
          EraseBegin(x) \/ EraseCommit(x) \/ Enroll(x) \/ DeleteStudent(x)
    \/ \E c \in Schedules : DeleteSchedule(c)

Next ==
    \/ \E w \in Workers : Work(w) \/ Crash(w)
    \/ Admin

Spec == Init /\ [][Next]_vars

(* Celery keeps a live worker going: it fetches while the queue is not     *)
(* empty and runs the task it has fetched to its end.                      *)
FairSpec == Spec /\ \A w \in Workers : WF_vars(Work(w))

-----------------------------------------------------------------------------
(* The report of GET /attendance/{schedule_id}: distinct snapshots with a  *)
(* Detection of the student, over all snapshots of the schedule.           *)
TotalSnapshots(c) == Cardinality({s \in snaps : ScheduleOf[s[1]] = c})
Observed(x, c) ==
    Cardinality({s \in snaps : ScheduleOf[s[1]] = c /\ <<s, x>> \in rows})
Present(x, c) == 100 * Observed(x, c) >= 85 * TotalSnapshots(c)

-----------------------------------------------------------------------------
(* The tables and events, seen through the ledger's eyes.                  *)
Ledger == INSTANCE AttendanceLedger WITH
    Snapshots <- SnapIds,
    Courses <- Schedules,
    CourseOf <- [s \in SnapIds |-> ScheduleOf[s[1]]],
    opened <- snaps,
    entries <- rows,
    entered <- sealed,
    sightings <- written

(* However tasks interleave, crash and are delivered again, the tables and *)
(* the event channel behave as a ledger: one commit enters a snapshot's    *)
(* sightings, none is announced before it is entered, and completion comes *)
(* after the announcements (process_snapshot, process_clip).               *)
ImplementsLedger == Ledger!Spec

(* Deduplication works against every sighting it could know of: a student  *)
(* is not recorded by process_snapshot when a snapshot of the same         *)
(* schedule, inside the window and committed before the existing sightings *)
(* were read, still records that student.                                  *)
NoDuplicateOfASeenSighting ==
    \A r, q \in rows :
        /\ r[2] = q[2] /\ r[2] # Nobody
        /\ q[1][1] \in SnapTasks /\ r[1] \in basis[q[1]]
        /\ SameSchedule(r[1], q[1])
        => ~Near(r[1], q[1])

(* Deduplication never loses a sighting: a student who was recognised in a *)
(* snapshot but not recorded for it was recorded for another snapshot of   *)
(* the same schedule inside the window, one whose Detections are committed *)
(* (the existing_sightings query of process_snapshot).                     *)
SuppressedSightingIsRecorded ==
    \A s \in sealed : \A x \in seen[s] \ written[s] :
        \E r \in basis[s] :
            /\ x \in written[r]
            /\ SameSchedule(r, s)
            /\ Near(r, s)

(* FR-5.7: one sighting per student per snapshot window. Two snapshots of  *)
(* a schedule that process_snapshot wrote within the window of each other  *)
(* never both record the same student.                                     *)
OneSightingPerWindow ==
    \A r, q \in rows :
        /\ r[2] = q[2] /\ r[2] # Nobody /\ r[1] # q[1]
        /\ r[1][1] \in SnapTasks /\ q[1][1] \in SnapTasks
        /\ SameSchedule(r[1], q[1])
        => ~Near(r[1], q[1])


(* Attendance is entered again for an upload only when a worker died: the  *)
(* tasks declare max_retries = 2, but one that fails after its commit is   *)
(* not run a second time, and every second entry costs a death of its own  *)
(* (process_clip does not even look for the sightings of the first).       *)
EnteredAgain == {s \in sealed : \E r \in sealed : r[1] = s[1] /\ s[2] < r[2]}
EnteredAgainOnlyAfterDeaths == Cardinality(EnteredAgain) <= crashes

(* FR-7.1, ratio = observed / total snapshots: a student whom the pipeline *)
(* recognised in every snapshot of a schedule is reported present.         *)
SeenThroughoutIsPresent ==
    \A c \in Schedules, x \in Students :
        LET ofCourse == {s \in snaps : ScheduleOf[s[1]] = c} IN
        (ofCourse \subseteq sealed /\ \A s \in ofCourse : x \in seen[s])
            => Present(x, c)

(* Every upload that was dispatched is settled in the end: crashes give it *)
(* back to the queue, and no path through a task leaves it unacknowledged. *)
EveryUploadIsSettled ==
    \A t \in Tasks : broker[t] = "queued" ~> broker[t] \in Settled
=============================================================================
