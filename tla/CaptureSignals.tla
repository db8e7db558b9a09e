--------------------------- MODULE CaptureSignals ---------------------------
(***************************************************************************)
(* One API process's heartbeat: APScheduler starts a job every interval,   *)
(* the orchestrator sends CAPTURE to the devices in the rooms of classes   *)
(* that are on, and the connection manager keeps the devices' sockets.     *)
(* Everything runs in one event loop: other handlers run where the code    *)
(* awaits a send, the database or Redis.                                   *)
(***************************************************************************)
EXTENDS Naturals, FiniteSets, Sequences

CONSTANTS
    Devices, Sockets,   \* cameras; the connections they open
    Owner, Room,        \* socket -> device; device -> room
    Classes,            \* schedules: [room, from, to] in minutes
    Interval,           \* snapshot_interval_minutes
    Starts, Horizon,    \* minutes at which the process may start; last minute
    MaxFailures         \* bound on jobs that fail

ASSUME CapturesAssumption ==
    /\ Owner \in [Sockets -> Devices] /\ DOMAIN Room = Devices
    /\ \A c \in Classes : c.from \in Nat /\ c.to \in Nat
    /\ Interval \in 1 .. 60 /\ Horizon \in Nat /\ Starts \subseteq 0 .. Horizon /\ MaxFailures \in Nat

VARIABLES
    started, minute, \* when the scheduler was started; the clock
    nextRun,    \* when it starts the job next
    socket,     \* state of each connection
    active,     \* active_devices: device -> socket
    inRoom,     \* room_to_devices: room -> devices
    job,        \* classes left, and the capture under way
    missed,     \* minutes of the jobs that failed and of the runs left out
    captured,   \* history: classes captured, each with the minute of the job
    sole        \* history: open sockets that have never shared their device with
                \* another connection, nor with a send to one

captureVars == <<started, minute, nextRun, socket, active, inRoom, job, missed, captured, sole>>
connections == <<socket, active, inRoom>>
clock == <<started, minute, nextRun>>

Rooms == {Room[d] : d \in Devices} \cup {c.room : c \in Classes}
NoJob == [step |-> "none"]
Nobody == {}

CapturesTypeOK ==
    /\ minute \in started .. Horizon /\ nextRun \in started .. Horizon + Interval
    /\ socket \in [Sockets -> {"new", "open", "lost", "ended"}]
    /\ \A d \in DOMAIN active : Owner[active[d]] = d
    /\ \A r \in Rooms : \A d \in inRoom[r] : Room[d] = r
    /\ job.step \in {"none", "nonce", "send"} /\ missed \subseteq 0 .. Horizon /\ sole \subseteq Sockets
-----------------------------------------------------------------------------
(* start_scheduler: the first run is an interval after the start.          *)
CapturesInit ==
    /\ started \in Starts /\ minute = started /\ nextRun = started + Interval
    /\ socket = [s \in Sockets |-> "new"] /\ active = <<>> /\ inRoom = [r \in Rooms |-> {}]
    /\ job = NoJob /\ missed = {} /\ captured = {} /\ sole = {}

Sending(d) == job.step = "send" /\ \E s \in job.at : Owner[s] = d

(* device_ws: accepted and registered, in place of an earlier socket.      *)
Connect(s) ==
    LET d == Owner[s]
        others == {t \in Sockets \ {s} : Owner[t] = d}
    IN /\ socket[s] = "new"
       /\ socket' = [socket EXCEPT ![s] = "open"]
       /\ active' = [e \in DOMAIN active \cup {d} |-> IF e = d THEN s ELSE active[e]]
       /\ inRoom' = [inRoom EXCEPT ![Room[d]] = @ \cup {d}]
       /\ sole' = IF ~Sending(d) /\ \A t \in others : socket[t] \in {"new", "ended"}
                  THEN sole \cup {s} ELSE sole \ others
       /\ UNCHANGED <<clock, job, missed, captured>>

(* The device, or the network, is gone; its handler has not noticed yet.   *)
Lose(s) ==
    /\ socket[s] = "open"
    /\ socket' = [socket EXCEPT ![s] = "lost"]
    /\ sole' = sole \ {s}
    /\ UNCHANGED <<clock, active, inRoom, job, missed, captured>>

(* DeviceConnectionManager.disconnect takes out whatever socket the device *)
(* has now.                                                                *)
Removed(d) ==
    /\ active' = [e \in DOMAIN active \ {d} |-> active[e]]
    /\ inRoom' = [inRoom EXCEPT ![Room[d]] = @ \ {d}]

(* WebSocketDisconnect in device_ws                                        *)
Disconnect(s) ==
    /\ socket[s] = "lost"
    /\ socket' = [socket EXCEPT ![s] = "ended"]
    /\ Removed(Owner[s])
    /\ UNCHANGED <<clock, job, missed, captured, sole>>
-----------------------------------------------------------------------------
On(c) == c.from <= minute /\ minute <= c.to

Orders(some) ==
    {o \in [1 .. Cardinality(some) -> some] : \A i, j \in DOMAIN o : o[i] = o[j] => i = j}

(* trigger_active_schedule_snapshots: nothing to do in a minute that is no *)
(* multiple of the interval.                                               *)
Heartbeat ==
    /\ job = NoJob /\ minute = nextRun
    /\ nextRun' = nextRun + Interval
    /\ \E order \in Orders({c \in Classes : On(c)}) :
          job' = IF (minute % 60) % Interval # 0 \/ order = <<>> THEN NoJob
                 ELSE [step |-> "nonce", begun |-> minute, classes |-> order, targets |-> {},
                       at |-> Nobody, sent |-> {}, owed |-> {}]
    /\ UNCHANGED <<started, minute, connections, missed, captured, sole>>

(* max_instances = 1: a run that is due while one is under way is skipped. *)
SkipRun ==
    /\ job # NoJob /\ minute = nextRun
    /\ nextRun' = nextRun + Interval /\ missed' = missed \cup {minute}
    /\ UNCHANGED <<started, minute, connections, job, captured, sole>>

(* The nonce is stored, and the room's devices are copied into a list.     *)
StoreCaptureNonce ==
    /\ job.step = "nonce"
    /\ LET room == Head(job.classes).room
       IN job' = [job EXCEPT !.step = "send", !.targets = inRoom[room], !.sent = {},
                             !.owed = {s \in sole : Room[Owner[s]] = room}]
    /\ UNCHANGED <<clock, connections, missed, captured, sole>>

(* An error of the database or of Redis ends the job.                      *)
JobFails ==
    /\ job.step = "nonce" /\ Cardinality(missed) < MaxFailures
    /\ job' = NoJob /\ missed' = missed \cup {job.begun}
    /\ UNCHANGED <<clock, connections, captured, sole>>

(* send_capture: the next of the listed devices.                           *)
Pick(d) ==
    /\ job.step = "send" /\ job.at = Nobody /\ d \in job.targets
    /\ job' = [job EXCEPT !.targets = @ \ {d}, !.at = IF d \in DOMAIN active THEN {active[d]} ELSE Nobody]
    /\ UNCHANGED <<clock, connections, missed, captured, sole>>

(* The send is over; to a lost socket it may seem to succeed.              *)
Sent(s) ==
    /\ job.step = "send" /\ job.at = {s} /\ socket[s] # "ended"
    /\ job' = [job EXCEPT !.at = Nobody, !.sent = @ \cup {s}]
    /\ UNCHANGED <<clock, connections, missed, captured, sole>>

(* Mutant: a send that raises ends the capture.                            *)
SendRaisesAndStops(s) ==
    /\ job.step = "send" /\ job.at = {s} /\ socket[s] # "open"
    /\ job' = [job EXCEPT !.at = Nobody, !.targets = {}]
    /\ Removed(Owner[s])
    /\ UNCHANGED <<clock, socket, missed, captured, sole>>

SendRaises(s) ==
    /\ job.step = "send" /\ job.at = {s} /\ socket[s] # "open"
    /\ job' = [job EXCEPT !.at = Nobody]
    /\ Removed(Owner[s])
    /\ UNCHANGED <<clock, socket, missed, captured, sole>>

RoomDone == job.step = "send" /\ job.targets = {} /\ job.at = Nobody

NextClass ==
    /\ RoomDone
    /\ captured' = captured \cup {<<Head(job.classes), job.begun>>}
    /\ job' = IF Len(job.classes) = 1 THEN NoJob
              ELSE [job EXCEPT !.step = "nonce", !.classes = Tail(@)]
    /\ UNCHANGED <<clock, connections, missed, sole>>

Minute ==
    /\ minute < Horizon /\ minute # nextRun
    /\ minute' = minute + 1
    /\ UNCHANGED <<started, nextRun, connections, job, missed, captured, sole>>

CapturesNext ==
    \/ Heartbeat \/ SkipRun \/ StoreCaptureNonce \/ JobFails \/ NextClass \/ Minute
    \/ \E s \in Sockets : Connect(s) \/ Lose(s) \/ Disconnect(s) \/ Sent(s) \/ SendRaises(s)
    \/ \E d \in Devices : Pick(d)

CapturesSpec == CapturesInit /\ [][CapturesNext]_captureVars
-----------------------------------------------------------------------------
(* A device in the room of a class that is being captured gets the signal, *)
(* whatever the other devices' sockets do, if its connection stays open    *)
(* and was never replaced by another one of that device.                   *)
CaptureReachesDevices == RoomDone => job.owed \cap sole \subseteq job.sent

(* FR-4.1: APScheduler triggers capture every N-minute boundary during     *)
(* active schedules, here from the first run after the start on.           *)
EveryBoundaryIsCaptured ==
    \A c \in Classes, b \in started + Interval .. minute - 1 :
        (b % 60) % Interval = 0 /\ c.from <= b /\ b <= c.to =>
            <<c, b>> \in captured \/ b \in missed \/ (job # NoJob /\ job.begun = b)
=============================================================================
