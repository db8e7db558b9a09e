-------------------------- MODULE AttendanceLedger --------------------------
(***************************************************************************)
(* What the attendance tables and the event channel promise their readers, *)
(* with no workers, queue or clock: a snapshot is opened, its sightings    *)
(* are entered once and together, an entry is announced only after it was  *)
(* entered, and completion is announced after every entry was. An entry    *)
(* may lose its student, or go with its schedule; it never changes hands.  *)
(***************************************************************************)
CONSTANTS
    Snapshots,   \* ids of snapshots
    Students,    \* ids of students
    Courses,     \* ids of schedules
    CourseOf,    \* the schedule a snapshot belongs to
    Nobody       \* the student of an entry that lost its student

VARIABLES
    opened,      \* snapshots that are in the ledger
    entries,     \* pairs of a snapshot and a student
    entered,     \* snapshots whose sightings were entered
    sightings,   \* the sightings entered for each of them
    announced,   \* entries that were announced
    completed    \* snapshots that were announced as complete

ledger == <<opened, entries, entered, sightings, announced, completed>>

Init ==
    /\ opened = {}
    /\ entries = {}
    /\ entered = {}
    /\ sightings = [s \in Snapshots |-> {}]
    /\ announced = {}
    /\ completed = {}

Open(s) ==
    /\ s \notin opened \cup entered
    /\ opened' = opened \cup {s}
    /\ UNCHANGED <<entries, entered, sightings, announced, completed>>

Enter(s, X) ==
    /\ s \notin entered
    /\ X # {} => s \in opened
    /\ entries' = entries \cup ({s} \X X)
    /\ entered' = entered \cup {s}
    /\ sightings' = [sightings EXCEPT ![s] = X]
    /\ UNCHANGED <<opened, announced, completed>>

Announce(s, x) ==
    /\ s \in entered \ completed
    /\ x \in sightings[s]
    /\ <<s, x>> \notin announced
    /\ announced' = announced \cup {<<s, x>>}
    /\ UNCHANGED <<opened, entries, entered, sightings, completed>>

Complete(s) ==
    /\ s \in entered \ completed
    /\ {s} \X sightings[s] \subseteq announced
    /\ completed' = completed \cup {s}
    /\ UNCHANGED <<opened, entries, entered, sightings, announced>>

Forget(x, gone) ==
    /\ gone \subseteq {e \in entries : e[2] = x}
    /\ entries' = (entries \ gone) \cup {<<e[1], Nobody>> : e \in gone}
    /\ UNCHANGED <<opened, entered, sightings, announced, completed>>

Drop(c) ==
    /\ opened' = {s \in opened : CourseOf[s] # c}
    /\ entries' = {e \in entries : CourseOf[e[1]] # c}
    /\ UNCHANGED <<entered, sightings, announced, completed>>

Next ==
    \/ \E s \in Snapshots :
          \/ Open(s)
          \/ \E X \in SUBSET Students : Enter(s, X)
          \/ \E x \in Students : Announce(s, x)
          \/ Complete(s)
    \/ \E x \in Students : \E gone \in SUBSET entries : Forget(x, gone)
    \/ \E c \in Courses : Drop(c)

Spec == Init /\ [][Next]_ledger
=============================================================================
