------------------------- MODULE TemplateLifecycle -------------------------
(***************************************************************************)
(* The face templates of students (student_embeddings) under the requests  *)
(* that write them: uploads of photos with rebalancing, direct enrolment,  *)
(* status changes by an administrator, automatic refresh by a worker and   *)
(* its rollback, erasure, and the nightly purge.                           *)
(*                                                                         *)
(* Every request is one database transaction at READ COMMITTED: it reads   *)
(* committed rows and its own changes, a write waits for rows that another *)
(* open transaction has written, and the session writes only columns whose *)
(* value differs from the one it loaded. A request may fail between any    *)
(* two statements, which undoes it. is_active is left out: every statement *)
(* sets it to template_status = "active".                                  *)
(***************************************************************************)
EXTENDS Naturals, FiniteSets, Sequences, Functions

CONSTANTS
    Students, Rows, Tx,   \* ids of students and templates; open requests
    Faces, Scores,        \* embeddings up to similarity; retention scores
    Poses, Labels, Label, \* pose_label with resolution; pose_label; of each
    Needed,               \* _required_pose_coverage: pose_label -> number
    MinActive,            \* MIN_ENROLLMENT_PHOTOS
    ActiveLimit, BackupLimit, \* per bucket
    Stored,               \* the tables a behaviour may start with
    Requested,            \* bound: the students requests are about
    MaxRequests           \* bound on the requests of a behaviour

ASSUME RequestedAssumption == Requested \subseteq Students
ASSUME RowsAssumption == Rows \subseteq Nat /\ IsFiniteSet(Rows)
ASSUME MinActiveAssumption == MinActive \in Nat \ {0}
ASSUME NeededAssumption == Label \in [Poses -> Labels] /\ Needed \in [Labels -> Nat]
ASSUME ScoresAssumption == Scores \subseteq Nat /\ \E m \in Scores : \A n \in Scores : n <= m
ASSUME LimitsAssumption ==
    ActiveLimit \in Nat \ {0} /\ BackupLimit \in Nat /\ MaxRequests \in Nat

VARIABLES
    templates, \* committed rows of student_embeddings
    enrolled,  \* Student.is_enrolled
    aged,      \* templates that have reached auto_refresh_max_age_days
    due,       \* students past their retention year
    log,       \* committed rows of template_audit_log
    tx,        \* the open transactions
    requests,  \* how many requests were begun
    doubtful,  \* history: students whose is_enrolled need not match their templates
    forgotten, \* history: erased students nobody has begun to enrol since
    demoted,   \* history: students with templates taken out of use, or lost, by
               \* other means than refresh and rollback
    tangled    \* history: students with refreshes that overlapped, were rolled back
               \* before later ones, or were redone by rebalancing

vars == <<templates, enrolled, aged, due, log, tx, requests, doubtful, forgotten, demoted, tangled>>

Unused == [status |-> "unused"]    \* an id that no row has had yet
Deleted == [status |-> "deleted"]  \* ids are never used again

Idle == [kind |-> "idle"]

Statuses == {"active", "backup", "quarantined"}
Models == {"lvface", "arcface"}

Row == [student : Students, model : Models, pose : Poses, face : Faces,
        score : Scores, status : Statuses]

Exists(row) == row.status \in Statuses

(* old and new are the ids the entry refers to; an id of a deleted row is  *)
(* set to null, which reading the entry sees as a row that does not exist. *)
Entry == [kind : {"refresh", "rollback"}, student : Students, old : Rows, new : Rows, of : Nat]

ASSUME StoredAssumption ==
    Stored \subseteq [templates : [Rows -> Row \cup {Unused, Deleted}], log : Seq(Entry)]

(* Entries are about arcface templates of one student, a refresh about one *)
(* and a younger one, which no other refresh made.                         *)
ASSUME EntriesAssumption ==
    \A stored \in Stored : \A i \in DOMAIN stored.log :
        /\ stored.log[i].of < i
        /\ \A r \in {stored.log[i].old, stored.log[i].new} :
              /\ stored.templates[r] # Unused
              /\ Exists(stored.templates[r]) =>
                    /\ stored.templates[r].student = stored.log[i].student
                    /\ stored.templates[r].model = "arcface"
        /\ stored.log[i].kind = "refresh" =>
              /\ stored.log[i].old < stored.log[i].new
              /\ \A j \in DOMAIN stored.log \ {i} :
                    stored.log[j].kind = "refresh" => stored.log[j].new # stored.log[i].new

Kinds == {"upload", "embedding", "status", "refresh", "rollback", "erase", "purge"}

(* loaded is is_enrolled as the request read it, seen the templates as it  *)
(* read them, change and flag what it has written so far, order the status *)
(* an administrator asked for, entry the one it rolls back; alone tells    *)
(* whether no other request for one of its students was open meanwhile.    *)
Transaction(read, written) ==
    [kind : Kinds, step : {"photos", "read", "write", "decide", "commit"},
     students : SUBSET Students, loaded : BOOLEAN, order : Statuses,
     flag : {"same", "set", "cleared"}, entry : Nat, alone : BOOLEAN,
     seen : [read -> Row], change : [written -> Row \cup {Deleted}]]
TypeOK ==
    /\ templates \in [Rows -> Row \cup {Unused, Deleted}]
    /\ enrolled \in [Students -> BOOLEAN]
    /\ aged \subseteq Rows
    /\ due \subseteq Students
    /\ log \in Seq(Entry) /\ \A i \in DOMAIN log : log[i].of < i
    /\ DOMAIN tx = Tx
    /\ \A t \in Tx : tx[t] # Idle =>
          /\ tx[t] \in Transaction(DOMAIN tx[t].seen, DOMAIN tx[t].change)
          /\ DOMAIN tx[t].seen \subseteq Rows /\ DOMAIN tx[t].change \subseteq Rows
    /\ requests \in 0 .. MaxRequests
    /\ doubtful \cup forgotten \cup demoted \cup tangled \subseteq Students
-----------------------------------------------------------------------------
Open(t) == tx[t] # Idle
At(t, step) == Open(t) /\ tx[t].step = step
Is(t, kinds) == Open(t) /\ tx[t].kind \in kinds

(* The rows of new, those of old for other ids.                            *)
Over(new, old) ==
    [r \in DOMAIN new \cup DOMAIN old |-> IF r \in DOMAIN new THEN new[r] ELSE old[r]]

(* What a statement of t sees.                                             *)
Visible(t) == Over(tx[t].change, templates)

RowsOf(s, table) == {r \in Rows : Exists(table[r]) /\ table[r].student = s}

(* The sets of ids another open transaction holds locks on.                *)
Locked(t) == UNION {DOMAIN tx[u].change : u \in {v \in Tx \ {t} : Open(v)}}
StudentLocked(t) ==
    \E u \in Tx \ {t} : Open(u) /\ tx[u].flag # "same" /\ tx[u].students \cap tx[t].students # {}

(* _rebalance_student_templates and the pose counts.                       *)
SameBucket(a, b) == a.model = b.model /\ a.pose = b.pose
Serving(s, table) ==
    {r \in RowsOf(s, table) : table[r].model = "lvface" /\ table[r].status = "active"}
Missing(s, table) ==
    {l \in Labels : Cardinality({r \in Serving(s, table) : Label[table[r].pose] = l}) < Needed[l]}
Complete(s, table) ==
    Cardinality(Serving(s, table)) >= MinActive /\ Missing(s, table) = {}

Rankings(rows) ==
    {rank \in [DOMAIN rows -> 1 .. Cardinality(DOMAIN rows)] :
        \A a, b \in DOMAIN rows : a # b =>
            rank[a] # rank[b] /\ (rows[a].score > rows[b].score => rank[a] < rank[b])}

Place(rows, rank, r) ==
    Cardinality({q \in DOMAIN rows : SameBucket(rows[q], rows[r]) /\ rank[q] < rank[r]})

Balanced(rows, rank) ==
    [r \in DOMAIN rows |->
        [rows[r] EXCEPT !.status =
            CASE Place(rows, rank, r) < ActiveLimit -> "active"
              [] Place(rows, rank, r) \in ActiveLimit .. ActiveLimit + BackupLimit - 1 -> "backup"
              [] OTHER -> "quarantined"]]

(* Active templates of the model that is refreshed.                        *)
InUse(s, table) ==
    {r \in RowsOf(s, table) : table[r].model = "arcface" /\ table[r].status = "active"}

(* A refresh that was not rolled back, and whether its result is in use or *)
(* was refreshed in turn.                                                  *)
Stands(j, entries) == entries[j].kind = "refresh" /\ \A k \in DOMAIN entries : entries[k].of # j
Follows(j, k, entries) == Stands(k, entries) /\ entries[k].old = entries[j].new
InOrder(s, table, entries) ==
    \A j \in DOMAIN entries : entries[j].student = s /\ Stands(j, entries) =>
        \/ ~Exists(table[entries[j].new]) \/ table[entries[j].new].status = "active"
        \/ \E k \in DOMAIN entries : Follows(j, k, entries)
-----------------------------------------------------------------------------
Init ==
    /\ \E stored \in Stored : templates = stored.templates /\ log = stored.log
    /\ aged = {}
    /\ enrolled = [s \in Students |-> Complete(s, templates)]
    /\ due \in SUBSET Requested
    /\ tx = [t \in Tx |-> Idle]
    /\ requests = 0
    /\ doubtful = {} /\ forgotten = {}
    /\ demoted = {s \in Students : \E i \in DOMAIN log :
                     log[i].student = s /\ (Exists(templates[log[i].old]) # Exists(templates[log[i].new]))}
    /\ tangled = {s \in Students : ~InOrder(s, templates, log)}

(* A request starts a transaction and reads what its first statements read.*)
Begin(t, kind, step, concerned, seen, order, entry) ==
    /\ tx[t] = Idle
    /\ requests < MaxRequests
    /\ requests' = requests + 1
    /\ LET others == {u \in Tx : Open(u) /\ tx[u].students \cap concerned # {}}
       IN tx' = [u \in Tx |->
            IF u = t
            THEN [kind |-> kind, step |-> step, students |-> concerned,
                  loaded |-> \E s \in concerned : enrolled[s], seen |-> seen,
                  change |-> <<>>, order |-> order, flag |-> "same", entry |-> entry,
                  alone |-> others = {}]
            ELSE IF u \in others THEN [tx[u] EXCEPT !.alone = FALSE] ELSE tx[u]]
    /\ forgotten' = IF kind \in {"upload", "embedding"} THEN forgotten \ concerned ELSE forgotten
    /\ UNCHANGED <<templates, enrolled, aged, due, log, doubtful, demoted, tangled>>

Goes(t, step, change, flag) ==
    /\ tx' = [tx EXCEPT ![t].step = step, ![t].change = Over(change, @), ![t].flag = flag]
    /\ UNCHANGED <<templates, enrolled, aged, due, log, requests, doubtful, forgotten, demoted, tangled>>

(* A failed statement, a lost connection or a deadlock: nothing remains.   *)
Abort(t) ==
    /\ Open(t)
    /\ tx' = [tx EXCEPT ![t] = Idle]
    /\ UNCHANGED <<templates, enrolled, aged, due, log, requests, doubtful, forgotten, demoted, tangled>>

(* UPDATE of the given rows to their new values: waits for their locks and *)
(* fails when one of them was deleted meanwhile (StaleDataError).          *)
Writable(t, ids) ==
    /\ ids \cap Locked(t) = {}
    /\ \A r \in ids : Exists(Visible(t)[r])

Restatused(t, new) ==
    LET stale == {r \in DOMAIN new : new[r].status # tx[t].seen[r].status}
    IN [r \in stale |-> [Visible(t)[r] EXCEPT !.status = new[r].status]]

(* The next value of the id sequence.                                      *)
FreeId(t, r) ==
    LET free(q) == Visible(t)[q] = Unused /\ q \notin Locked(t)
    IN free(r) /\ \A q \in Rows : q < r => ~free(q)
-----------------------------------------------------------------------------
(* enroll_from_images                                                      *)
BeginUpload(t, s) == Begin(t, "upload", "photos", {s}, <<>>, "backup", 0)

Duplicate(t, s, face) ==
    \E r \in RowsOf(s, Visible(t)) : Visible(t)[r].model = "lvface" /\ Visible(t)[r].face = face

Collides(t, s, face) ==
    \E o \in Students \ {s} : \E r \in RowsOf(o, Visible(t)) :
        /\ Visible(t)[r].model = "lvface" /\ Visible(t)[r].face = face
        /\ Visible(t)[r].status # "quarantined"

AcceptPhoto(t, r, face, pose, score) ==
    /\ At(t, "photos") /\ FreeId(t, r)
    /\ \E s \in tx[t].students :
          /\ ~Duplicate(t, s, face) /\ ~Collides(t, s, face)
          /\ Goes(t, "photos",
                  [q \in {r} |-> [student |-> s, model |-> "lvface", pose |-> pose, face |-> face,
                                  score |-> score, status |-> "backup"]], "same")

ReadTemplates(t) ==
    /\ At(t, "photos")
    /\ \E s \in tx[t].students :
          tx' = [tx EXCEPT ![t].step = "write",
                           ![t].seen = Restrict(Visible(t), RowsOf(s, Visible(t)))]
    /\ UNCHANGED <<templates, enrolled, aged, due, log, requests, doubtful, forgotten, demoted, tangled>>

Rebalance(t) ==
    /\ At(t, "write") /\ Is(t, {"upload"})
    /\ \E rank \in Rankings(tx[t].seen) :
          LET change == Restatused(t, Balanced(tx[t].seen, rank))
          IN Writable(t, DOMAIN change) /\ Goes(t, "decide", change, "same")

(* update_enrollment_template_status                                       *)
BeginStatus(t, r, status) ==
    /\ Exists(templates[r]) /\ templates[r].student \in Requested
    /\ Begin(t, "status", "write", {templates[r].student}, Restrict(templates, {r}), status, 0)

WriteStatus(t) ==
    /\ At(t, "write") /\ Is(t, {"status"})
    /\ LET change == Restatused(t, [r \in DOMAIN tx[t].seen |->
                                      [tx[t].seen[r] EXCEPT !.status = tx[t].order]])
       IN Writable(t, DOMAIN change) /\ Goes(t, "decide", change, "same")

(* Mutant: counts the committed templates, not the request's own changes.  *)
DecideBeforeFlush(t) ==
    /\ At(t, "decide") /\ ~StudentLocked(t)
    /\ \E s \in tx[t].students :
          Goes(t, "commit", <<>>, IF Complete(s, templates) THEN "set" ELSE "cleared")

(* The end of both: is_enrolled from the templates as they are now. The    *)
(* status change reads the student only here.                              *)
Decide(t) ==
    /\ At(t, "decide")
    /\ \E s \in tx[t].students :
          LET complete == Complete(s, Visible(t))
              loaded == IF Is(t, {"status"}) THEN enrolled[s] ELSE tx[t].loaded
          IN IF complete = loaded
             THEN Goes(t, "commit", <<>>, "same")
             ELSE /\ ~StudentLocked(t)
                  /\ Goes(t, "commit", <<>>, IF complete THEN "set" ELSE "cleared")

(* enroll_from_embedding                                                   *)
BeginEmbedding(t, s) == Begin(t, "embedding", "write", {s}, <<>>, "active", 0)

WriteEmbedding(t, r, face, pose) ==
    /\ At(t, "write") /\ Is(t, {"embedding"}) /\ FreeId(t, r)
    /\ ~tx[t].loaded => ~StudentLocked(t)
    /\ \E s \in tx[t].students :
          Goes(t, "commit",
               [q \in {r} |-> [student |-> s, model |-> "lvface", pose |-> pose, face |-> face,
                               score |-> CHOOSE m \in Scores : \A n \in Scores : n <= m,
                               status |-> "active"]],
               IF tx[t].loaded THEN "same" ELSE "set")
-----------------------------------------------------------------------------
(* maybe_auto_refresh_template_sync: the best of the active arcface        *)
(* templates (any of them may be the most similar one) is old enough.      *)
Refreshable(r) ==
    /\ Exists(templates[r]) /\ templates[r].model = "arcface" /\ templates[r].status = "active"
    /\ r \in aged

BeginRefresh(t, r) ==
    /\ Refreshable(r)
    /\ Begin(t, "refresh", "write", {templates[r].student}, Restrict(templates, {r}), "backup", 0)

WriteRefresh(t, r) ==
    /\ At(t, "write") /\ Is(t, {"refresh"}) /\ FreeId(t, r)
    /\ Writable(t, DOMAIN tx[t].seen)
    /\ \E best \in DOMAIN tx[t].seen :
          Goes(t, "commit",
               [q \in {best, r} |-> IF q = best THEN [Visible(t)[best] EXCEPT !.status = "backup"]
                                    ELSE [tx[t].seen[best] EXCEPT !.status = "active"]], "same")

(* Mutant: does not ask whether the refresh was rolled back before.        *)
BeginRollbackAgain(t, i) ==
    /\ i \in DOMAIN log /\ log[i].kind = "refresh"
    /\ Begin(t, "rollback", "write", {log[i].student},
             Restrict(templates, {r \in {log[i].old, log[i].new} : Exists(templates[r])}),
             "backup", i)

(* rollback_auto_refresh_async                                             *)
BeginRollback(t, i) ==
    /\ i \in DOMAIN log /\ log[i].kind = "refresh"
    /\ \A j \in DOMAIN log : log[j].of # i
    /\ Begin(t, "rollback", "write", {log[i].student},
             Restrict(templates, {r \in {log[i].old, log[i].new} : Exists(templates[r])}),
             "backup", i)

(* Mutant: withdraws the new template without restoring the old one.       *)
WriteRollbackHalf(t) ==
    /\ At(t, "write") /\ Is(t, {"rollback"})
    /\ LET change == Restatused(t, [r \in DOMAIN tx[t].seen |->
                                      [tx[t].seen[r] EXCEPT !.status = "backup"]])
       IN Writable(t, DOMAIN change) /\ Goes(t, "commit", change, "same")

WriteRollback(t) ==
    /\ At(t, "write") /\ Is(t, {"rollback"})
    /\ LET refresh == log[tx[t].entry]
           change == Restatused(t, [r \in DOMAIN tx[t].seen |->
                        [tx[t].seen[r] EXCEPT
                            !.status = IF r = refresh.old THEN "active" ELSE "backup"]])
       IN /\ \A r \in DOMAIN tx[t].seen : Exists(Visible(t)[r])
          /\ Writable(t, DOMAIN change)
          /\ Goes(t, "commit", change, "same")
-----------------------------------------------------------------------------
(* delete_student_biometric_data_async: the DELETE works on the rows that  *)
(* were committed when it started, and waits for their locks.              *)
BeginErase(t, s) == Begin(t, "erase", "read", {s}, <<>>, "quarantined", 0)

(* enforce_retention_sync                                                  *)
BeginPurge(t) ==
    /\ due # {}
    /\ Begin(t, "purge", "read", due, <<>>, "quarantined", 0)

StartDelete(t) ==
    /\ At(t, "read")
    /\ tx' = [tx EXCEPT ![t].step = "write",
                        ![t].seen = Restrict(templates, UNION {RowsOf(s, templates) : s \in tx[t].students})]
    /\ UNCHANGED <<templates, enrolled, aged, due, log, requests, doubtful, forgotten, demoted, tangled>>

(* Mutant: leaves the templates that are not in use.                       *)
FinishDeleteActive(t) ==
    /\ At(t, "write") /\ Is(t, {"erase", "purge"})
    /\ DOMAIN tx[t].seen \cap Locked(t) = {}
    /\ Goes(t, "commit",
            [r \in {q \in DOMAIN tx[t].seen : tx[t].seen[q].status = "active"} |-> Deleted],
            IF Is(t, {"erase"}) /\ tx[t].loaded THEN "cleared" ELSE "same")

FinishDelete(t) ==
    /\ At(t, "write") /\ Is(t, {"erase", "purge"})
    /\ DOMAIN tx[t].seen \cap Locked(t) = {}
    /\ LET clears == Is(t, {"erase"}) /\ tx[t].loaded
       IN /\ clears => ~StudentLocked(t)
          /\ Goes(t, "commit", [r \in DOMAIN tx[t].seen |-> Deleted],
                  IF clears THEN "cleared" ELSE "same")
-----------------------------------------------------------------------------
(* Mutant: a rollback refers to itself.                                    *)
NewEntriesOfThemselves(t) ==
    IF Is(t, {"rollback"})
    THEN <<[log[tx[t].entry] EXCEPT !.kind = "rollback", !.of = Len(log) + 1]>>
    ELSE <<>>

NewEntries(t) ==
    IF Is(t, {"refresh"})
    THEN <<[kind |-> "refresh", of |-> 0, 
            student |-> CHOOSE s \in tx[t].students : TRUE, old |-> CHOOSE r \in DOMAIN tx[t].seen : TRUE,
            new |-> CHOOSE r \in DOMAIN tx[t].change : r \notin DOMAIN tx[t].seen]>>
    ELSE IF Is(t, {"rollback"})
    THEN <<[kind |-> "rollback", of |-> tx[t].entry,
            student |-> log[tx[t].entry].student,
            old |-> log[tx[t].entry].new, new |-> log[tx[t].entry].old]>>
    ELSE <<>>

(* is_enrolled stays in step with the templates only when the request that *)
(* counts them was alone with them.                                        *)
NowDoubtful(t) ==
    IF Is(t, {"refresh", "rollback"}) THEN doubtful
    ELSE IF Is(t, {"embedding", "purge"}) \/ ~tx[t].alone THEN doubtful \cup tx[t].students
    ELSE doubtful \ tx[t].students

(* A refresh is rolled back while a later one of its result stands.        *)
OutOfTurn(t) == Is(t, {"rollback"}) /\ \E k \in DOMAIN log : Follows(tx[t].entry, k, log)
Reshuffles(t) ==
    Is(t, {"upload"}) /\ \E r \in DOMAIN tx[t].change : tx[t].change[r].model = "arcface"

Commit(t) ==
    /\ At(t, "commit")
    /\ templates' = Visible(t)
    /\ enrolled' = [s \in Students |->
                      IF s \in tx[t].students /\ tx[t].flag # "same"
                      THEN tx[t].flag = "set" ELSE enrolled[s]]
    /\ due' = IF Is(t, {"erase"}) THEN due \ tx[t].students ELSE due
    /\ log' = log \o NewEntries(t)
    /\ tx' = [tx EXCEPT ![t] = Idle]
    /\ doubtful' = NowDoubtful(t)
    /\ forgotten' = IF Is(t, {"erase"}) /\ tx[t].alone THEN forgotten \cup tx[t].students
                    ELSE forgotten
    /\ demoted' = IF Is(t, {"status"}) \/ (Is(t, {"upload", "erase", "purge"}) /\ ~tx[t].alone)
                  THEN demoted \cup tx[t].students ELSE demoted
    /\ tangled' = IF \/ Is(t, {"refresh", "rollback"}) /\ ~tx[t].alone
                     \/ OutOfTurn(t) \/ Reshuffles(t)
                  THEN tangled \cup tx[t].students ELSE tangled
    /\ UNCHANGED <<aged, requests>>

(* A template reaches auto_refresh_max_age_days.                           *)
Age(r) ==
    /\ Exists(templates[r]) /\ r \notin aged /\ templates[r].model = "arcface"
    /\ aged' = aged \cup {r}
    /\ UNCHANGED <<templates, enrolled, due, log, tx, requests, doubtful, forgotten, demoted, tangled>>

Statement(t) ==
    \/ ReadTemplates(t) \/ Rebalance(t) \/ WriteStatus(t) \/ Decide(t)
    \/ WriteRollback(t) \/ StartDelete(t) \/ FinishDelete(t) \/ Commit(t) \/ Abort(t)
    \/ \E r \in Rows : WriteRefresh(t, r)
    \/ \E r \in Rows, f \in Faces, p \in Poses :
          WriteEmbedding(t, r, f, p) \/ \E n \in Scores : AcceptPhoto(t, r, f, p, n)

Request(t) ==
    \/ BeginPurge(t)
    \/ \E s \in Requested : BeginUpload(t, s) \/ BeginEmbedding(t, s) \/ BeginErase(t, s)
    \/ \E r \in Rows : BeginRefresh(t, r) \/ \E status \in Statuses : BeginStatus(t, r, status)
    \/ \E i \in DOMAIN log : BeginRollback(t, i)

Next == (\E t \in Tx : Statement(t) \/ Request(t)) \/ (\E r \in Rows : Age(r))

Spec == Init /\ [][Next]_vars
-----------------------------------------------------------------------------
(* Whatever the order of uploads, status changes and erasures, is_enrolled *)
(* says that the student has the required active lvface templates, unless  *)
(* requests for the student overlapped, an embedding was posted directly   *)
(* or the nightly purge ran since it was last counted.                     *)
EnrolledAsCounted ==
    \A s \in Students \ doubtful : enrolled[s] <=> Complete(s, templates)

(* After an erasure that no other request overlapped a student has no      *)
(* template and is not enrolled until somebody begins to enrol the student *)
(* again: no refresh, rollback, status change or purge brings one back.    *)
ForgottenStayForgotten ==
    \A s \in forgotten : RowsOf(s, templates) = {} /\ ~enrolled[s]

(* Refreshes and rollbacks, overlapping and in any order, never take the   *)
(* last active one of a student's arcface templates out of use.            *)
RefreshKeepsOneActive ==
    [][\A s \in Students \ demoted' :
          (\E r \in RowsOf(s, templates') : templates'[r].model = "arcface")
          /\ InUse(s, templates) # {} => InUse(s, templates') # {}]_vars

(* Refresh and rollback exchange two templates: they never leave a student *)
(* with more active arcface templates than before, except by overlapping   *)
(* another request, by rolling a refresh back while a later one of its new *)
(* template stands, or after an upload's rebalancing chose among them.     *)
RefreshExchangesTemplates ==
    [][\A s \in Students \ (tangled' \cup demoted') :
          Cardinality(InUse(s, templates')) <= Cardinality(InUse(s, templates))]_vars
=============================================================================
