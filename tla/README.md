# Attendance System V2: a TLA+ verification development

The repository is a classroom attendance system: devices upload camera frames
and clips to a FastAPI service, Celery `cv-worker` processes recognise the
faces, PostgreSQL keeps snapshots and detections, Redis carries events to the
dashboards. This directory specifies the parts of it where the order of steps
matters. Paths below are relative to `src/project/`.

Contents: 1 inventory, 2 modules and their correspondence to the code,
3 runs, 4 proofs, 5 what the code does not promise, 6 abstractions,
7 what is not modelled.

## 1. Inventory

| Component | State it keeps | Operations | Interacts through | What makes it correct |
|---|---|---|---|---|
| Snapshot and clip workers, `backend/workers/cv_tasks.py` | a session, the matches of the frame in hand, in-process tracks | `process_snapshot`, `process_clip` | broker, database, Redis | at most one sighting per student and window; no sighting lost; attendance entered again only for a worker's death; every upload settled |
| Celery configuration, `workers/celery_app.py` | broker queue (external) | late acknowledgement, prefetch 1 | workers | a worker's death loses no upload |
| Attendance tables and report, `models/attendance.py`, `api/v1/attendance.py` | snapshots, detections | report, CSV | workers write, requests read | the ratio means what FR-7.1 says |
| Face tracks, `services/tracker.py` | per camera: tracks with status, identity, best frames | `update`, `add_observation`, `record_identity`, `needs_identification`, `cleanup_stale` | called by `process_snapshot` | no identity is reported without enough, and uninterrupted, evidence |
| Cross-camera linker, `services/cross_camera.py` | candidate list | `register_confirmed_track`, `try_link_track` | called by `process_snapshot` | only confirmed identities travel |
| Recognition, `services/ai_pipeline.py` (`recognize`), `db/vector.py` | runtime gates, template banks of a frame | index search, banks, fusion, decision | database, workers | a match rests on a usable template above its own threshold; the runner-up is not overlooked; an aborted frame reports nothing |
| Models, `services/ai_pipeline.py` (loading, detection, preprocessing, extraction) | model sessions, Triton client, restoration budget | `_ensure_loaded`, `detect_faces`, `_preprocess_face`, `extract_embedding` | inference server, workers, enrolment | a frame keeps its restoration budget, whatever the server and the models do |
| Triton client, `services/triton_client.py` | a queue, a daemon thread and a lock per model | `submit`, `_run`, `close` | threads, a condition variable, gRPC | an answer reaches the request it belongs to; nobody waits for ever |
| Liveness, `services/liveness.py`, `services/anti_spoof.py` | none | `check_liveness` with its tiers | called by `process_clip` | missing equipment never fails a clip |
| Enrolment and rebalancing, `api/v1/students.py`, `models/student.py` | templates with status | upload, direct enrolment, rebalancing, status, delete, verification test | database | `is_enrolled` is what was counted; templates of students stay apart; the reply accounts for every photo; one person per photo |
| Template refresh, `services/template_refresh.py` | templates, audit log | refresh, rollback | workers, requests | a student keeps an active template; a refresh or rollback exchanges two |
| Retention and erasure, `services/data_retention.py` | none of its own | nightly purge, right to deletion | database | an erased student stays erased |
| Ingest API, `api/v1/ingest.py`, `services/redis_service.py`, `services/hmac_auth.py` | nonces, rate counters (Redis) | `ingest_snapshot`, `ingest_clip` | devices, Redis, broker | no nonce is dispatched twice within its life; the limit is exceeded by racing readers only |
| Heartbeat, `services/scheduler.py`, `services/orchestrator.py` | scheduler jobs | `trigger_active_schedule_snapshots` | database, Redis, device sockets | each boundary of a running class triggers captures |
| Device sockets, `services/websocket_manager.py`, `api/v1/websocket.py` | `active_devices`, `room_to_devices` | connect, disconnect, `send_capture` | orchestrator, devices | a device that stays connected gets the signal |
| Live feed, `services/event_bridge.py`, `api/v1/sse.py`, `api/v1/websocket.py` | bounded stream queues, socket sets | subscribe, dispatch, broadcast | Redis pub/sub, browsers | a stream that was never full loses and reorders nothing; a connected dashboard gets each undisturbed broadcast |
| Authentication, `services/auth_service.py`, `api/v1/auth.py`, `api/deps.py` | refresh tokens, session cache | register, login, refresh, logout | database, Redis | a login leaves one valid token; a logout ends what it found |
| System settings, `api/v1/system.py` | two JSON files, gates cached per pipeline | update, rollback, history | file system | the last revision is in force; the gates follow the file |
| Governance, `workers/governance_tasks.py`, `services/drift_detector.py`, `services/fairness_audit.py` | drift events, reports | nightly and monthly tasks | database, Redis | an alert for each drop below the threshold |
| CRUD routes, front end, migrations, scripts | rows; browser state | plain create, read, update, delete | database | outside the scope of these modules |

The behaviours that are hard to test, each at its line, are the `hazards` of
`PROJECT.json`.

How they interact: a device gets CAPTURE (`CaptureSignals`), uploads through
the gate (`IngestGate`), and the queue hands the upload to a worker
(`SnapshotPipeline`), which tests a clip (`LivenessCheck`), finds faces with the
models (`ModelServing`, `TritonBatcher`), names them (`FaceRecognition`), follows
them (`TrackLifecycle`), may refresh templates (`TemplateLifecycle`) and
publishes what the API sends to clients (`LiveFeed`). Staff fill the template
table (`EnrolmentUpload`, `TemplateLifecycle`) and set the gates
(`RuntimeSettings`) in sessions (`UserSessions`).

## 2. Modules

| Module | Role |
|---|---|
| `SnapshotPipeline` | broker, workers, tables, events and administrative requests |
| `AttendanceLedger` | what the tables and the event channel promise: the abstract specification that `SnapshotPipeline` implements |
| `TrackLifecycle` | tracks and cross-camera candidates of one worker process |
| `TritonBatcher` | the batching thread of the Triton client and its callers |
| `TemplateLifecycle` | the template table under every transaction that writes it |
| `EnrolmentUpload` | `enroll_from_images` photo by photo, and the verification test |
| `FaceRecognition` | `recognize`: one frame against templates that change meanwhile |
| `ModelServing` | loading, detection, restoration budget and extraction, with fallbacks |
| `LivenessCheck` | the tiers of `check_liveness` |
| `RuntimeSettings` | the settings files under several processes, and the pipelines that follow them |
| `LiveFeed` | event bridge, SSE queues and dashboard sockets of one process |
| `CaptureSignals` | heartbeat, orchestrator and device sockets of one process |
| `IngestGate` | both upload routes until dispatch |
| `UserSessions` | accounts and refresh tokens |
| `Backend` | `RuntimeSettings`, `LiveFeed`, `CaptureSignals`, `IngestGate` and `UserSessions` together |
| `Recognition` | `FaceRecognition`, `ModelServing`, `EnrolmentUpload` and `LivenessCheck` together |
| `SnapshotPipelineProofs`, `TrackLifecycleProofs`, `TritonBatcherProofs`, `TemplateLifecycleProofs`, `UserSessionsProofs` | theorems about the module they are named after |
| `BackendProofs` | theorems about settings, captures, the ingest gate and the live feed, and about `Backend` |
| `RecognitionProofs` | theorems about frames, models, enrolment and liveness, and about `Recognition` |
| `NumberFacts` | lemmas about numbers, finite sets and sums that these proofs share |
| `MCSnapshotPipeline`, `MCTrackLifecycle`, `MCTritonBatcher`, `MCTemplateLifecycle`, `MCCaptureSignals`, `MCRecognition`, `MCBackend` | model values, definitions and symmetry sets for TLC |

`Backend` and `Recognition` put several small state machines into one
specification. They share no state in the code either, so interleaving them would only
multiply states: a variable `part` says which of them a behaviour is about, and
the others keep one of their first states.

### SnapshotPipeline

One database transaction is one step, because PostgreSQL at READ COMMITTED
shows a statement what was committed when it started; between transactions any
other worker or request may act.

| Variable | Code |
|---|---|
| `broker`, `attempt` | the Celery queue: `queued`, `held` (delivered and unacknowledged), or settled as `done`, `error` (an error result was returned) or `failed` (the task raised); deliveries so far |
| `pc`, `job`, `match`, `insert` | a worker's position in its task, `matches`, and the session's new `Detection`s, later `inserted_matches` or `confirmed` |
| `tracked` | identities in the process's tracks and link candidates; `TrackLifecycle` has the detail |
| `students`, `enrolled`, `schedules`, `snaps`, `stamp`, `rows` | the tables; `stamp` is `Snapshot.timestamp`, whose default `now()` is the start of the transaction |
| `erasing` | an open right-to-deletion transaction with the `Detection`s its UPDATE has seen |
| `announced`, `completed` | messages on `attendance:detections` and `attendance:snapshots` |
| `sealed`, `seen`, `written`, `basis` | history only: no guard reads them |

| Action | Code |
|---|---|
| `Take`, `Settle`, `Crash` | Celery with `task_acks_late` and prefetch 1 (`celery_app.py`); `Acked`: a task that fails is acknowledged as well, and `max_retries` has no effect, since nothing calls `retry` |
| `Begin`, `Reject` | decoding, schedule query, clip length, liveness: the early returns |
| `RecogniseClip` | frames of a clip, voting (two frames of at most three) |
| `OpenSnapshot` | `db.add(snapshot); db.commit()` of either task |
| `Recognise` | the tracking branch, or `ai_pipeline.recognize` |
| `ReadSightings` | `existing_sightings` and the loop that adds `Detection`s |
| `CommitDetections`, `Annotate`, `Raise` | the commit with its foreign keys; the drawing after it; any exception, before the commit or in the drawing |
| `PublishDetection`, `PublishComplete`, `PublishFails`, `Return` | the part after the session is closed |
| `EraseBegin`, `EraseCommit`, `Enroll`, `DeleteStudent`, `DeleteSchedule` | requests of administrators |

`ExpireOnCommit` is the value that `SyncSession` has for `expire_on_commit`.
The code leaves SQLAlchemy's default, TRUE, with which the first use of
`snapshot.id` after the session is closed raises. Runs with FALSE
(`PipelineConcurrent`, `PipelineLedger`) follow the publishing code in the
further states it reaches when that attribute can be read, as in
`db/session.py`, whose session factory sets it to FALSE. No property that
passes depends on that value: the theorems are for both.

### AttendanceLedger

Six variables and the actions `Open`, `Enter`, `Announce`, `Complete`,
`Forget`, `Drop`. The refinement mapping sends `snaps`, `rows`, `sealed` and
`written` to `opened`, `entries`, `entered` and `sightings`. It says that a
snapshot's sightings are entered once and together, that an announcement
follows the entry, that completion follows the announcements, and that an entry
may lose its student but never gets another one.

### TrackLifecycle

A frame of one camera is one step (the worker is single-threaded): `Observe`
(`add_observation`), `Lost`, `Kept` and `Unseen` (`update`, `cleanup_stale`),
`Doubtful`, `Reopens` (`needs_identification`), `Record` (`record_identity`),
`Registrable`, `Linkable` (the linker), and `Process`, the tracking branch of
`process_snapshot`. The buffer of frames is represented by the quality of its
best frame, which is all that is read of it. The tracker that assigns ids and
the recogniser are arbitrary: an id may move to another face at any time. A frame
may be cut short by an exception after the tracker was updated: the tracks its
loop did not reach are observed, and nothing is reported. Re-identification
across cameras is enabled.

### TritonBatcher

Caller threads run `Submit` and then `Return` or `TimeOut`; the daemon thread
runs `StartBatch`, `ExtendBatch`, `WindowOver`, `Stop`, `InferSucceeds`,
`InferFails`, `AnswerNext`, `FailNext`; `Close` may come from anywhere. A block
under the condition variable's lock is one step. Answering is one request at a
time, because callers run between two `event.set()` calls.

### TemplateLifecycle

`student_embeddings` under uploads, direct enrolment, status changes, refresh,
rollback, erasure and purge. Unlike the pipeline's transactions these lock each
other's rows, so a transaction is taken apart into its statements.

| Variable | Code |
|---|---|
| `templates`, `enrolled`, `log` | committed `student_embeddings`, `Student.is_enrolled`, `template_audit_log` |
| `aged`, `due` | templates old enough for a refresh; students past their retention year |
| `tx` | open transactions: the rows as they were read (`seen`), what was written so far (`change`, `flag`, `entry`), `alone` |
| `doubtful`, `forgotten`, `demoted`, `tangled` | history: the exceptions the properties name |

Each `Begin...` action is the start of a request with the reads before its first
write; `AcceptPhoto`, `ReadTemplates`, `Rebalance`, `WriteEmbedding`,
`WriteStatus`, `Decide`, `WriteRefresh`, `WriteRollback`, `StartDelete` and
`FinishDelete` are its statements. A write waits for rows that another open
transaction has written and fails (`StaleDataError`) when a row is gone.
`Commit` makes the changes visible, `Abort` is any failure in between.

### EnrolmentUpload

`StartUpload`, then per photo `Inspect` (decoding, choice of the face box, crop,
quality), `FindDuplicate` (the student's own templates) and `CompareWithOthers`
(collision), then `Conclude` (rebalancing, commit and the reply with its groups)
or `AbortUpload`. `Distinct` and `Dominant` are the suppression of overlapping
boxes and the dominance rule of `_select_enrollment_face_box`. `Revise` is an
administrator's change of status, `Verify` is `test_enrollment_match`. Variables:
`rows` (committed lvface templates), `upload`, `replies`, `tested`.

### FaceRecognition

`StartFrame` reads gates and detections, `Resolve` chooses the index backend. With an
index, `Query` and `Queried` are one search per face and model; its answer is
some of the nearest rows, because the index is approximate and its filters come
after it. `QueryFails` marks the transaction `aborted` and goes on to the next
fallback (diskann, hnsw, banks). `LoadBank`, `LoadFails` and `BanksLoaded` are
the SELECTs of the template banks; each sees the templates of its own time, as
`Edit` (another transaction) may come between. `NextFace`, `ScoreWithBanks`,
`Decide` (fusion and `_match_decision`) and `Finish` complete the frame.

### ModelServing

`EnsureLoaded` (`_load_models`), then per frame `Detect`, per face `Preprocess`,
`EmbedBefore`, `Judge` (restoration and the safeguard that discards it) and
`Embed` for each model (a local model that works may find no face in the crop), and
`FaceDone`; `ResetStats` is the reading of the statistics. `Environment` changes the server, the local models and the budget
between any two calls. `budget` is the setting, `used` the frame's counter;
`runs` and `allowed` are history.

### LivenessCheck

`RunTier` is one test: `motion`, `flow`, `cnn`, `rppg`, `flash`, in this order; the
first that fails ends the check. What a test computes from pixels (motion,
spread of the flow, votes per sample, pulse) is an input.

### RuntimeSettings

The files are `settings` (with modification time `stamp`) and `history`. A process
serves one request at a time; its steps are those of the code, since another
process can run between any two: `StartUpdate` or `StartRollback` (read,
validate), `EmptySettings` and `WriteSettings` (`Path.write_text` truncates
first), `Number` (the revision's id), `AppendRevision` (reads the history
again), `EmptyHistory`, `WriteHistory`, `Respond`. `CutShort` is the death of a
process, `EditByHand` an operator, `Tick` the clock of file times. A pipeline's
`get_runtime_gates` is `Stat`, `ReadFile`, `Keep`. `Valid` has the three checks of a PATCH
(both threshold pairs and the fusion weights).

### LiveFeed

`Publish` is a worker; `Dispatch` is one message in `_bridge_loop`: it is put into
each stream's queue and the broadcast to the dashboards begins. `SendNext`,
`EventSent`, `EventSendRaises` are one `send_text` each, during which `Join`
and `Leave` may change the set that the broadcast iterates over (`Awaiting`);
`RoundFails` is the error that then follows, `FinishRound` discards the dead. `OpenStream`, `StartStream`, `Receive`, `CloseStream` are a stream's life;
`BridgeFails` ends the bridge.

### CaptureSignals

`Minute` is the clock, `Heartbeat` and `SkipRun` are APScheduler with
`max_instances` 1, `StoreCaptureNonce`, `Pick`, `Sent`, `SendRaises`,
`NextClass` and `JobFails` the orchestrator's job with its awaits. `Connect`, `Lose`
(the socket is gone and nobody knows) and `Disconnect` (its handler notices) are the
devices. `active` and `inRoom` are the two maps of the connection manager.

### IngestGate

A request goes through `ReceiveUpload`, `ReadCounter`, `IncrementCounter`, `Check`
(timestamp, device, class, room, signature), `StoreNonce` and `SendTask`, one
call to Redis, database or broker each. kombu may repeat the publication inside `send_task`:
`copies` counts what one dispatch left in the queue. `Fails` and `SendTaskFails` are the failure of such a
call, whose effect may have happened all the same; `Pass` is time, which ends
counters and nonces.

### UserSessions

`Register`, `Login`, `Refresh` and `Logout` open a call; `CreateTokens`,
`CacheSession`, `RevokeOld` and `InvalidateSession` are its statements,
`CommitCall` and `RollbackCall` its ends. `CreateUser`, `SetActive` and `DeleteUser`
are administrators. A token's `line` holds the tokens it descends from by exchanges
that no other exchange or logout of the account overlapped: history.

## 3. Runs

| Run | Instance | What it shows |
|---|---|---|
| `PipelineConcurrent` | 2 workers, 2 frames of a schedule, window 1, clock 0..2, 1 crash, tracking, erasure and renewed enrolment | however two workers interleave, deduplication never overlooks a sighting it could know of and never drops one that is recorded nowhere |
| `PipelineLedger` | 1 worker, a frame and a clip, 2 students, 1 crash, Redis failing, rows deleted meanwhile | types; every behaviour is a behaviour of the ledger |
| `PipelineSerial` | 1 worker, 3 frames of 2 schedules, 1 crash, Redis failing, `ExpireOnCommit` TRUE, fairness | FR-5.7 holds with one worker; a second entry for an upload needs a worker's death; every upload is settled |
| `TrackLifecycle` | 2 cameras with a track id each, 2 students, 2 qualities, 2 matches to confirm, 6 frames | confirmation needs agreement, carrying needs continuity, links need confirmation |
| `TritonBatcher` | 2 callers with 2 requests each, batches of 2, mixed shapes | answers reach their requests, in order; failures and timeouts do not stop the thread |
| `Templates` | 2 overlapping transactions, 3 requests about one of 2 students, 4 row ids, 2 faces, 2 starting tables | `is_enrolled` is what was counted; erasure is final; refresh and rollback exchange templates and keep one active |
| `Recognition` | 2 students, 4 templates, 2 models, 1 edit, 6 sets of gates; 3 deployments; 5 upload requests on 2 slots; clips of 2 or 3 samples | matches rest on a template and keep the margin; aborted frames are empty; the restoration budget; enrolment keeps templates apart and accounts for every photo; missing equipment fails no clip |
| `Backend` | 2 API processes with 3 settings requests; 1 stream and 2 dashboards; 2 cameras on 3 sockets; 3 uploads sent 3 times; 1 account with 2 overlapping calls | the settings in force and the gates in use; events and captures arrive; nonces and limits hold; sessions end and do not fork |
| `DedupRace` | 2 workers, 2 frames | violation of FR-5.7 |
| `SilentWorker` | 1 worker, 2 frames, no crash, `ExpireOnCommit` TRUE | violation: a committed sighting is never announced |
| `TwoCameras` | 1 worker, 2 frames | violation of FR-7.1 |
| `Heartbeat` | 1 camera, interval 2, started at minute 1 | violation of FR-4.1 |

Bounds. Two workers and two frames are the smallest instance in which a read of
existing sightings falls between another worker's read and commit; the third
frame of `PipelineSerial` belongs to another schedule, so that a query without
its filter is noticed. One crash gives a second delivery of a snapshot
that is committed already. The window is at most 1 tick and the clock has one
tick more, so two snapshots can be inside, on the edge of, and outside
the window. In `TrackLifecycle`, six frames suffice to confirm a track
(2 frames), lose or degrade it (1), confirm it again (1) and link another
camera to it (1), with one to spare; quality 1 is below 60 percent of quality 2. In
`TritonBatcher`, a caller's second request can follow a timed-out first
one that is still queued, or in a batch that is being answered.

In `Templates`, two open transactions can block, miss and overtake each other, and the third
request acts on what they left: the second refresh, a rollback out of turn, an
enrolment after an erasure. The second student exists to be collided with. One starting table has
a refresh behind it. In `Recognition`, the edit falls anywhere in the frame;
the gates cover each backend and each way of fusing two models, and the second
face of a frame is looked at when the transaction is aborted already. Requests
of one, two, three and five photos meet the verdicts, a near copy within one upload (996), a
collision (940) and faces just told apart (700). Clips of two samples are too short for the
motion tests, three are enough for all. The environment changes once: the step
from a server that is asked to one that fails is what the fallbacks are for.
In `Backend`, a queue of one event is full at the second; two ticks of file time
let a write be in the tick of a read and after it, and two shown revisions drop
the first of three; camera 1 has a second socket to reconnect with; a limit of
one, a window of two and three moments have uploads inside, at the end of and
after a window, and nonces likewise; three tokens are a login with two
exchanges, or two lines of tokens.

`RefreshKeepsOneActive` and `RefreshExchangesTemplates` (run `Templates`)
and `OwnPhotoVerifies` (`Recognition`) are about steps: what a commit does to the templates
in use, and what a verification answers.

Symmetry sets permute the workers, the students and the uploads of one schedule
in the pipeline, the students and cameras of `TrackLifecycle`, the
transactions of `Templates`, and the processes, request slots and calls of
`Backend`: no constant or property distinguishes them. None is used in a run with
a liveness property.

Deadlock checking is off because uploads, requests and frames run out; then
nothing is left to do.

Fairness. `SnapshotPipeline` assumes weak fairness of the steps of each
worker: a live Celery worker fetches while there is a message and runs its task
to the end. Nothing is assumed of crashes (bounded) or of administrators. It
does not help a worker to prefer success: `Raise` and `Reject` may always be
taken. `TritonBatcher` assumes weak fairness of the daemon thread only: its
waits and the gRPC call have timeouts. Callers may stop anywhere. The other
modules are checked for safety only: their requests may fail or stay away, and
the code retries none of them.

Mutants. Operators with the comment "Mutant" are plausible mistakes in
the definition after them; each property is violated once one of them is used
in its place, which `PROJECT.json` records. They are not part of the
specifications.

## 4. Proofs

`SnapshotPipelineProofs` proves, for any number of workers, students, uploads
and crashes and for any window:

| Theorem | Statement |
|---|---|
| `TypeCorrect` | `Spec => []TypeOK` |
| `DeduplicationIsSound` | `Spec => []NoDuplicateOfASeenSighting` |
| `DeduplicationLosesNothing` | `Spec => []SuppressedSightingIsRecorded` |
| `OneWorkerDeduplicates` | with at most one worker, `Spec => []OneSightingPerWindow` |
| `PipelineImplementsLedger` | `Spec => ImplementsLedger` |
| `SecondEntriesCostDeaths` | `Spec => []EnteredAgainOnlyAfterDeaths` |

Assumptions: the named ASSUMEs of the module (uploads are frames or clips,
`Nobody` is no student, the bounds are natural numbers), and no others.

The argument. None of these properties is inductive.
- `Control` = types, `HolderOK` (a busy worker holds an upload that the broker
  knows to be held, and no two hold the same) and `DeliveryOK` (a new delivery
  is paid for by a crash). It makes `Snap(w)` the identity of one
  delivery: no other worker can write for it.
- `Sightings` adds that ids are fresh until committed, that what was recorded
  stays recorded, and, for a worker between its read of existing sightings and its
  commit, that what it is about to insert is clear of every sighting sealed by
  then, and what it is about to leave out is covered by one of them. The commit
  turns these pending facts into the properties. Erasure only removes
  names and a schedule's deletion only removes rows, so neither can create a
  duplicate.
- `SecondEntriesCostDeaths` needs `DeathsCounted`: the deliveries that ended without
  being acknowledged (`CutShort`) are exactly as many as the deaths. A snapshot whose upload
  was entered again is one of them. The count is of a finite set (`FiniteSetTheorems`), and only a
  crash may change it: the step that would break it is a failed task that is put back.
- With one worker, `Serial` says that all sealed snapshots are in the basis of the
  worker that is about to commit, so "known of" becomes "all".
- `Published` relates a worker's position after its commit with what it has
  announced, which the ledger's `Complete` needs. `StepLedger` then maps each
  action to a ledger step or a stutter.

`TritonBatcherProofs` proves `TypeOK`, `AnsweredInOrder`, `NeverEmpty` and
`OwnResult` for any number of callers and any batch size. The invariant adds,
to the order of the requests, that a request is answered exactly when it has left queue
and batch, that a row is handed out only to the request at the same place of the
batch (`output` is `batch` while answering), and that a caller waits only for
its own last request.

`TrackLifecycleProofs` proves everything `TrackLifecycle` is checked for, for any
cameras, track ids, students and qualities, any number of frames and of
matches required, and any drop ratio up to 100 percent: `TypeOK`, `ConfirmedByAgreement`,
`CarriedIsSteady`, `LinksAreConfirmed`, `BestFrameOutlivesDrop`. The invariant says of
each track that the identifications it counts as agreeing are backed by its
last evidence, that its best frame is not below the floor set at confirmation, and that a
confirmed track was earned, by evidence or over a link from a confirmation that
the history `vouched` knows; all link candidates are in `vouched` as well. The
proof of a frame follows one track through `Observe`, `Doubtful` and `Record`.

`UserSessionsProofs` proves `SessionsEndAndDoNotFork` for any accounts, overlapping calls
and tokens. What a call has read may be out of date; the invariant says when it is
not: a token that an undisturbed (`alone`) call read is still valid and no
other call may revoke it, the number of a new token is nowhere else, and a logout's list has every
valid token of the lines it will end. `SessionsKeepTypes` adds that every token names an
account that exists; `OwnersInv` also asks it of the calls under way, or else the
call is `void` because the account was deleted.

`TemplateLifecycleProofs` proves all five properties of the template table, for any
students, rows, faces, scores and limits and any number of overlapping transactions.

| Theorem | Statement | Invariant |
|---|---|---|
| `TypesHold` | `[]TypeOK` | `Base`: what a transaction has read was given out before, no row is written by two open transactions, a log entry is about templates of one student |
| `EnrolmentAgrees` | `[]EnrolledAsCounted` | `CountInv`: a transaction that is `alone` with its student knows the current flag, and before its commit what it counted is what its commit will leave |
| `ForgottenStay` | `[]ForgottenStayForgotten` | `ForgetInv`: only erasure, purge, and rollbacks that found nothing can still be open about a forgotten student |
| `RefreshesKeepOneActive` | `RefreshKeepsOneActive` | `KeepInv` |
| `RefreshesExchange` | `RefreshExchangesTemplates` | `ExchangeInv`: additionally, the entries in force of the student lie in order |

`KeepInv` is the hard one. That a refresh and a rollback never take the last active
arcface template away does not follow from the table: a rollback puts the older template
back and takes the younger one out, and which of them is in use depends on all the
entries that were written before. The invariant says that a set of templates, closed under
the log's entries, contains one in use and no template that a trusting
rollback is about to take out; that the log has no cycles and the templates of an entry are lost
together; and that a request that is `alone` still sees its rows as they are. Students
whose status an administrator set, or whose templates an overlapped request changed
(`demoted`), are excepted, and from the second property also those whose refreshes overlapped
or were rolled back out of turn (`tangled`).

`BackendProofs` proves of the API processes, for any processes, pipelines, clients,
devices and uploads:

| Theorem | Statement | Invariant |
|---|---|---|
| `GatesAreCurrent` | `[]GatesFollowFile` | `GatesInv`: every content the file has had at a modification time is in `held`; a pipeline asks for the time before it reads, so what it keeps belongs to that time or a later one, and no pipeline knows a time later than the file's |
| `RevisionsAreInForce` | `[]LastRevisionInForce` | `RevisionInv`: ids in the history increase, a request that is `alone` finds at each of its steps what its earlier steps left, and once settled the history ends with the settings |
| `SettingsKeepTypes` | `[]SettingsTypeOK` | `FilesInv`, `OrderedInv`: what is read from the file, whoever wrote it, is ordered by the reading |
| `CapturesArrive` | `[]CaptureReachesDevices` | `CaptureInv`: a connection that was alone on its device stays the one the two maps lead to; while a class is being captured an owed device was sent to, is being sent to, or is still on the job's list |
| `CapturesKeepTypes` | `[]CapturesTypeOK` | `ClockInv`, `RoomsInv` |
| `GateHoldsAlways` | `[]GateHolds` | `GateInv`: `NonceInv` and `ApartInv` say that Redis keeps a nonce for its life from every accepted upload, those on their way to the broker included; `CounterInv` and `RoomInv` that a counter lives on for a window after every counted request, counts all of them, and has room for the one request that read it alone |
| `IngestKeepsTypes` | `[]IngestTypeOK` | `SpentInv` |
| `ListenersReached` | `[]FeedReachesListeners` | `FeedInv`: what a stream got, followed by what its queue holds, is what it asked for since it opened; a broadcast nobody disturbed owes its event only to dashboards it will still get to |
| `FeedKeepsTypes` | `[]FeedTypeOK` | `FeedBounds` |

`RecognitionProofs` proves of images, for any templates, models, frames,
gates, deployments, albums, thresholds and clips:

| Theorem | Statement | Invariant |
|---|---|---|
| `AbortedFramesAreEmpty` | `[]AbortedFrameReportsNothing` | `FrameInv`: once the transaction is aborted each way to a result needs another statement, and the frame can only raise |
| `MatchesRest`, `MarginIsKept` | `[]MatchesRestOnATemplate`, `[]MarginOverTheBank` | `MatchInv`: what a bank or a query returned was usable when it was read (`shown`), a student's score in a model is that of a row of theirs, and a weighted average is not above the largest of its terms |
| `FramesKeepTypes` | `[]FrameTypeOK` | `FrameTypes` |
| `BudgetIsKept` | `[]RestorationsWithinBudget` | the runs of a frame are its counter, which never exceeds the largest budget seen; without the equality of `runs` and `used` the property is not inductive |
| `ModelsKeepTypes` | `[]ServingTypeOK` | `ModelTypes`, `ThreadTypes`: while a frame is worked on a face is left |
| `TemplatesApart` | with `KnownApart`, `[]TemplatesStayApart` | `EnrolInv`, `DistanceInv`: the photos a lone upload has accepted are apart from each other and from every trusted row |
| `OwnPhotoIsConfirmed` | with `KnownApart`, `OwnPhotoVerifies` | the same |
| `OnePersonEach`, `RepliesAccount` | `[]OnePersonPerPhoto`, `[]UploadAccountsForEveryPhoto` | `AccountsInv`: each looked-at photo has its verdict, accepted ones have a template, and the groups of the reply count the refused ones |
| `UploadsKeepTypes` | `[]UploadTypeOK` | `AccountsInv` |
| `LossNeverFails` | `[]LiveSurvivesLoss` | `LiveInv`: all earlier tests passed, and each test passes with less equipment if it passes with more |
| `ClipsKeepTypes` | `[]LivenessTypeOK` | `LiveInv` |

`KnownApart` says that the templates at the start, quarantined ones apart, are as enrolment
would have left them: no two students' templates as near as a collision, no two
of one student as near as a duplicate. Without it the first verification could
already meet two look-alikes.

The parts together. `BackendKeepsTypes`, `BackendKeepsPromises`,
`RecognitionKeepsTypes` and `RecognitionKeepsPromises` carry these results over to the
specifications TLC explores: a step of `Backend` or `Recognition` is a step of one
part and a stutter of the others (`PartsBehave`, `ImagesBehave`).

Sums and greatest elements. `SumsExist`, `TotalsCompare` and the like in
`NumberFacts` are statements about recursive functions on sets. The library's
induction theorems cannot be instantiated by the installed provers, but its fact that every
nonempty set has a minimal element under a well-founded order can: an induction is then the
choice of a least counterexample and a contradiction. This is how the
weighted averages of `FaceRecognition` and the counts in the replies of
`EnrolmentUpload` are reasoned about.

Assumptions on constants: the named ASSUMEs of each module. Most only give types.
The others say what the code or its inputs guarantee: `Rows` and `Models` are finite and
the arcface model is one of them, `Streams` and `Dashboards` are different clients, a
template stored at the start is not keyed by an upload (`KnownAssumption`), a stored log is one
that refreshes can have written (`EntriesAssumption`), similarity is symmetric and
greatest for equal photos (`SimilarityAssumption`), and relaxed thresholds are at most the strict
ones (`GatesAssumption`, `SettingsAssumption`, `ThresholdsAssumption`; the API and the pipeline's
reading both see to it). TLC evaluates all of them in the runs.

Model-checked only:
- liveness, `EveryUploadIsSettled` and `EveryRequestIsAnswered`: fairness and
  ENABLED are out of the prover's reach;
- the four violation runs, whose statements are false.

Every other property of a run is a theorem.


## 5. What the code does not promise

The four violation runs are disagreements between the repository's words and
what its code does; `PROJECT.json` quotes them under `findings`.

- `DedupRace`. The read of existing sightings and the commit of new ones are
  separate statements of one READ COMMITTED transaction; nothing keeps two
  workers from both reading before either commits. The unique constraint
  covers one snapshot and each frame has its own. With one worker the property
  is a theorem.
- `SilentWorker`. `SyncSession` expires objects on commit; after the `with` block
  the session is closed; `snapshot.id` is then an attribute of a detached,
  expired object. The publishing block catches the error and logs it, and the
  `return` statement raises it again, so the task fails after its commit.
- `TwoCameras`. Each processed frame makes its own snapshot, and deduplication
  leaves later sightings in the window out, so the ratio of FR-7.1 falls
  with the number of frames per window, for a student whom every frame shows.
- `Heartbeat`. The job runs every `snapshot_interval_minutes` from the start of the
  process, and returns at once unless the minute is a multiple of that
  interval. Started off the boundary, the two never meet.

Met while modelling, and followed by the modules as it is. Where a property would
otherwise promise more, its exceptions name the case; the run then shows that the exception is
all there is, not that the exception does no harm.

- Erasure. Its DELETE sees the rows committed when it starts: a worker that is refreshing the
  student's template may commit a new one while the DELETE waits for the old one, and the
  new one stays. Its UPDATE likewise misses a Detection that a worker commits before it does.
- Templates. Two concurrent uploads of one face under two students both
  pass the collision check. Rebalancing puts quarantined templates back in use
  (`students.py:494`). Verification compares the plain cosine with the
  `face_match_*` thresholds, recognition 0.9 of it plus 0.1 of the retention score
  with its own.
- Recognition. The `numpy` backend ignores the cohort and `active_only`. A failed
  index query aborts the PostgreSQL transaction, so the hnsw and numpy
  fallbacks named in `README.md:95` and `SYSTEM_OVERVIEW.md:92` fail as well.
- Models. Whether Triton is there is decided once, at loading. CodeFormer without a
  session counts as applied and uses the budget. Errors of the local ArcFace
  detector end the frame; LVFace gives nothing without a local session, even when Triton has it.
- Settings. Two uvicorn workers (`docker-compose.yml:31`) share the files without
  a lock: a PATCH that reads a file another process has just emptied saves the
  defaults over everything. A PATCH drops the `ann_*` keys, which the API does not
  know. A null for the margin stops the pipeline's reading of the later
  keys. A write within one tick of file time may leave the old gates in use.
- Live feed. A stream abandoned before its generator starts stays subscribed for
  ever (`sse.py:156`). A broadcast iterates over the set of subscribers itself: a join or
  leave while it awaits a send ends it, and the dashboards not reached yet miss the event. An error of the subscription ends the bridge for good.
- Captures. The disconnect of a device's old socket removes its new one, and the device
  gets no signal until it connects again. The orchestrator keys nonces by room, the ingest API by device.
- Ingest. The nonce is spent before `send_task`, so a retry after a broker error is
  refused. The timestamp window of 120 s exceeds the nonce's life of 60 s, so an upload is accepted
  again in between (REQUIREMENTS.md NFR-2.2). The rate counter's end is renewed
  by each allowed request, and requests that read it together pass together.
- Sessions. Two overlapping refreshes with one token both succeed; a refresh
  under way during a logout survives it; the refresh of an inactive user undoes its own
  revocation; `get_cached_session` is never called; the lockout and blocklist
  of FR-1.4 and FR-1.5 do not exist.

## 6. Abstractions

- Uploads are in the queue from the start in `SnapshotPipeline`; how they
  get there is `IngestGate`. The clock moves when it is read.
- A delivery makes at most one snapshot, so (upload, delivery) stands for its id.
- In `SnapshotPipeline` faces are sets of students; confidences, boxes and
  images are left out. Recognition returns any set of students with templates (or
  tracked ones). `FaceRecognition` has what it returns for one frame.
- A clip's frames are recognised from one reading of the templates.
- Template refresh inside the two tasks appears in `SnapshotPipeline` as a
  possible reason for `Raise`; what it does to the templates is in `TemplateLifecycle`.
- Celery's visibility timeout, after which Redis delivers a message that
  a live worker still holds, is left out.
- `_TrackMatch` confidences are left out, so `TrackLifecycle` reports all matches
  of a frame before `_dedupe_matches_by_student`; `SnapshotPipeline` has sets of students.
- The Triton server is an arbitrary success or failure of each batch.
- What networks and filters compute from pixels (boxes, qualities, poses, embeddings up to
  similarity, motion, pulse) is an input, and so are digests, passwords and signatures.
- Scores are small integers: `FaceRecognition` counts in tenths and hundredths,
  `EnrolmentUpload` in thousandths. Weighted averages are kept exact.
- The matches that `recognize` returns are a set: its callers do not use their order.
- `EnrolmentUpload` has buckets by pose (photos of one resolution) and commits in
  one step; locks, failures in the closing statements and `is_enrolled` are
  in `TemplateLifecycle`, which in turn has faces that are near copies or not.
- `is_active` of a template is left out: each statement sets it with the status.
- In `ModelServing` one thread works on one frame.
- `CaptureSignals` has the clock in minutes. `RuntimeSettings` has one request at a
  time per process, as its routes do not await between their reads and writes.
- `LiveFeed` starts where an event is published on Redis; delivery by Redis is in order.

## 7. Not modelled

Each component's row in `PROJECT.json` says what of it is left out. In particular:

- Governance (`fairness_audit.py`, `drift_detector.py`, `governance_tasks.py`):
  statistics over floating-point scores by single periodic tasks, which only
  insert rows.
- `reid.py`, `face_sr.py`, `calibration_logger.py`, `flash_attention_validator.py`,
  `inference_stats.py`: computations on pixels, logs and counters that decide nothing.
- The assignment of track ids (BoT-SORT, IoU) and the linker's fused score: arbitrary in
  `TrackLifecycle`.
- CRUD routes, the attendance CSV and trends, the reports of `data_retention.py`,
  the read-only routes of `system.py`: single inserts or queries.
- The front end, migrations, scripts and benchmarks.

What remains worth doing: the visibility timeout in `SnapshotPipeline`; the
worker's refresh as a step between the pipeline's own statements, which would
join `SnapshotPipeline` and `TemplateLifecycle`; properties for the hazards that have
none yet, each with its reason in `PROJECT.json`.
