-------------------------- MODULE EnrolmentUpload --------------------------
(***************************************************************************)
(* enroll_from_images photo by photo: choosing the face box, the checks of *)
(* quality, the comparison with the student's own templates and with those *)
(* of others, and the reply; and the verification test by which staff      *)
(* confirm an enrolment. Uploads are transactions that run side by side;   *)
(* each sees committed templates and its own. Locks and failures of the    *)
(* closing statements are the matter of TemplateLifecycle: here an upload  *)
(* rebalances and commits in one step.                                     *)
(***************************************************************************)
EXTENDS Integers, Sequences, FiniteSets, FiniteSetsExt, Functions

CONSTANTS
    People, Uploads,    \* students; uploads that may run side by side
    Labels, Seen,       \* pose labels; faces as embeddings
    Similarity,         \* cosine of two faces, in thousandths
    Requests,           \* what is uploaded: student, photos, pose_label, auto_pose
    Enrolled,           \* students whose templates everybody is compared with
    Known,              \* committed templates to start with: id -> template
    DuplicateFrom, CollisionFrom,   \* thresholds, in thousandths
    StrictFrom, RelaxedFrom, Margin, \* face_match_* thresholds
    Places, Reserves,   \* active and backup templates of a bucket
    MaxRevisions        \* bound on the changes by administrators

Pairs == Seen \X Seen
ASSUME SimilarityAssumption ==
    /\ Similarity \in [Pairs -> -1000 .. 1000]
    /\ \A f, g \in Seen : Similarity[<<f, g>>] = Similarity[<<g, f>>]
    /\ \A f \in Seen : Similarity[<<f, f>>] = 1000
ASSUME ThresholdsAssumption ==
    /\ DuplicateFrom \in 1 .. 1000 /\ CollisionFrom \in 1 .. 1000 /\ Margin \in Nat
    /\ RelaxedFrom \in 0 .. 1000 /\ StrictFrom \in RelaxedFrom .. 1000
    /\ Places \in Nat \ {0} /\ Reserves \in Nat /\ MaxRevisions \in Nat

Flaws == {"face_too_small", "image_too_blurry", "face_quality_low"}

(* near: the other boxes whose intersection over union reaches 0.25.       *)
Box == [area : Int, near : SUBSET Nat, inside : BOOLEAN]

(* flaws, pose and face are those of the face in the box that is chosen.   *)
Photo == [file : {"empty", "garbage", "image"}, area : Nat \ {0}, boxes : Seq(Box),
          flaws : SUBSET Flaws, pose : Labels, sure : 0 .. 100,
          face : Seen \cup {"none", "invalid"}]

ASSUME RequestsAssumption ==
    \A q \in Requests :
        /\ q.person \in People /\ q.label \in Labels /\ q.auto \in BOOLEAN
        /\ q.album \in Seq(Photo) /\ Len(q.album) \in 1 .. 30

Ranks == {"active", "backup", "quarantined"}
Kept == [person : People, face : Seen, pose : Labels, rank : Ranks]

(* The templates of an upload get ids that nobody has used.                *)
ASSUME KnownAssumption ==
    /\ Known = [i \in DOMAIN Known |-> Known[i]] /\ \A i \in DOMAIN Known : Known[i] \in Kept
    /\ DOMAIN Known \cap (Uploads \X Nat) = {}

VARIABLES
    rows,     \* committed lvface templates
    upload,   \* the uploads
    replies,  \* EnrollmentSummaryRead of the uploads that ended
    tested,   \* what the verification test answered last
    revisions,
    doubtful  \* history: templates of uploads that overlapped another, or that
              \* were quarantined at some time

uploadVars == <<rows, upload, replies, tested, revisions, doubtful>>

Waiting == [step |-> "waiting"]

Verdicts == Flaws \cup {"accepted", "empty_file", "invalid_image_format", "no_face_detected",
    "multiple_faces_detected", "crop_failed", "embedding_extraction_failed",
    "invalid_embedding_vector", "duplicate_embedding", "collision_risk"}

UploadTypeOK ==
    /\ \A i \in DOMAIN rows : rows[i] \in Kept
    /\ \A u \in Uploads : upload[u] # Waiting =>
          /\ upload[u].step \in {"photo", "compare", "ended"} /\ upload[u].request \in Requests
          /\ \A i \in DOMAIN upload[u].checks : upload[u].checks[i] \in Verdicts
          /\ \A i \in DOMAIN upload[u].mine : upload[u].mine[i] \in Kept
    /\ revisions \in 0 .. MaxRevisions /\ tested \in {"none", "match", "mismatch"}
-----------------------------------------------------------------------------
(* _select_enrollment_face_box: boxes from the largest to the smallest,    *)
(* without those that overlap one kept before.                             *)
Larger(boxes, i, j) ==
    boxes[i].area > boxes[j].area \/ (boxes[i].area = boxes[j].area /\ i < j)

Distinct(boxes) ==
    CHOOSE kept \in SUBSET {i \in DOMAIN boxes : boxes[i].area > 0} :
        \A i \in DOMAIN boxes : boxes[i].area > 0 =>
            (i \in kept <=> ~\E j \in kept : Larger(boxes, j, i) /\ i \in boxes[j].near)

Tiny(photo, i, largest) ==
    \/ 100 * photo.boxes[i].area <= 22 * photo.boxes[largest].area
    \/ 1000 * photo.boxes[i].area <= 6 * photo.area

(* Mutant: tiny faces may be of any size beside the chosen one.            *)
DominantTiny(photo, i) ==
    /\ \A j \in Distinct(photo.boxes) \ {i} : Larger(photo.boxes, i, j) /\ Tiny(photo, j, i)
    /\ Cardinality(Distinct(photo.boxes)) > 1 => 10000 * photo.boxes[i].area >= 25 * photo.area

(* min_face_area_ratio is 0.0025.                                          *)
Dominant(photo, i) ==
    /\ \A j \in Distinct(photo.boxes) \ {i} :
          Larger(photo.boxes, i, j) /\ Tiny(photo, j, i)
          /\ 10 * photo.boxes[i].area >= 28 * photo.boxes[j].area
    /\ Cardinality(Distinct(photo.boxes)) > 1 => 10000 * photo.boxes[i].area >= 25 * photo.area

ChosenBoxes(photo) == {i \in Distinct(photo.boxes) : Dominant(photo, i)}

(* Mutant: a reason that _reject_reason_code does not know.                *)
QualityFailureUnknown(photo, faces) ==
    IF faces = 0 THEN "no_face_detected"
    ELSE IF faces > 1 THEN "multiple_faces_detected"
    ELSE IF photo.flaws # {} THEN "other" ELSE "accepted"

(* _quality_failure_reason: the first check that fails.                    *)
QualityFailure(photo, faces) ==
    IF faces = 0 THEN "no_face_detected"
    ELSE IF faces > 1 THEN "multiple_faces_detected"
    ELSE IF "face_too_small" \in photo.flaws THEN "face_too_small"
    ELSE IF "image_too_blurry" \in photo.flaws THEN "image_too_blurry"
    ELSE IF "face_quality_low" \in photo.flaws THEN "face_quality_low"
    ELSE "accepted"

(* A single box that was not selected has no area: its face has size 0.    *)
Unselected(photo) ==
    IF Len(photo.boxes) = 1 THEN "face_too_small" ELSE QualityFailure(photo, Len(photo.boxes))

Isolated(photo) == \E i \in ChosenBoxes(photo) : photo.boxes[i].inside

(* What happens to a photo before the database is asked.                   *)
Inspected(photo) ==
    IF photo.file = "empty" THEN "empty_file"
    ELSE IF photo.file = "garbage" THEN "invalid_image_format"
    ELSE IF ChosenBoxes(photo) = {} THEN Unselected(photo)
    ELSE IF ~Isolated(photo) THEN "crop_failed"
    ELSE IF QualityFailure(photo, 1) # "accepted" THEN QualityFailure(photo, 1)
    ELSE IF photo.face = "none" THEN "embedding_extraction_failed"
    ELSE IF photo.face = "invalid" THEN "invalid_embedding_vector"
    ELSE "accepted"

Asked(u) == upload[u].request

LabelUsed(u, photo) ==
    IF Asked(u).auto /\ photo.sure >= 55 THEN photo.pose ELSE Asked(u).label
-----------------------------------------------------------------------------
(* What the session of an upload sees: its templates are flushed first.    *)
Visible(u) == [i \in DOMAIN rows \cup DOMAIN upload[u].mine |->
                  IF i \in DOMAIN rows THEN rows[i] ELSE upload[u].mine[i]]

(* The highest cosine, and 0 with nothing to compare or nothing alike.     *)
Closest(face, others) == Max({0} \cup {Similarity[<<face, g>>] : g \in others})

(* Mutant: the session does not flush before a query.                      *)
OwnSimilarityCommitted(u, face) ==
    Closest(face, {rows[i].face : i \in {j \in DOMAIN rows : rows[j].person = Asked(u).person}})

(* _compute_novelty: quarantined templates count too.                      *)
OwnSimilarity(u, face) ==
    Closest(face, {Visible(u)[i].face :
                     i \in {j \in DOMAIN Visible(u) : Visible(u)[j].person = Asked(u).person}})

(* _compute_collision_risk                                                 *)
CollisionRisk(u, face) ==
    Closest(face, {Visible(u)[i].face :
        i \in {j \in DOMAIN Visible(u) : /\ Visible(u)[j].person # Asked(u).person
                                         /\ Visible(u)[j].rank # "quarantined"}})

(* _rebalance_student_templates, for any order of the retention scores.    *)
Orders(table, ids) ==
    {o \in [ids -> 1 .. Cardinality(ids)] : \A i, j \in ids : i # j => o[i] # o[j]}

Placed(table, o, i) ==
    LET before == Cardinality({j \in DOMAIN o : table[j].pose = table[i].pose /\ o[j] < o[i]})
    IN IF before < Places THEN "active"
       ELSE IF before < Places + Reserves THEN "backup" ELSE "quarantined"
-----------------------------------------------------------------------------
UploadInit ==
    /\ rows = Known
    /\ upload = [u \in Uploads |-> Waiting]
    /\ replies = <<>> /\ tested = "none" /\ revisions = 0
    /\ doubtful = {i \in DOMAIN Known : Known[i].rank = "quarantined"}

Running(u) == upload[u] # Waiting /\ upload[u].step # "ended"

StartUpload(u, request) ==
    /\ upload[u] = Waiting
    /\ LET alone == \A v \in Uploads : ~Running(v)
       IN upload' = [v \in Uploads |->
            IF v = u THEN [step |-> "photo", request |-> request, checks |-> <<>>, mine |-> <<>>,
                           alone |-> alone]
            ELSE IF Running(v) THEN [upload[v] EXCEPT !.alone = FALSE] ELSE upload[v]]
    /\ UNCHANGED <<rows, replies, tested, revisions, doubtful>>

Current(u) == Asked(u).album[Len(upload[u].checks) + 1]
PhotosLeft(u) == Running(u) /\ Len(upload[u].checks) < Len(Asked(u).album)

(* Mutant: a photo whose box is outside the image is left out silently.    *)
InspectLeavingOut(u) ==
    /\ PhotosLeft(u) /\ upload[u].step = "photo"
    /\ LET verdict == Inspected(Current(u))
       IN upload' = [upload EXCEPT
            ![u].step = IF verdict = "accepted" THEN "compare" ELSE "photo",
            ![u].request.album = IF verdict = "crop_failed" THEN Tail(@) ELSE @,
            ![u].checks = IF verdict \in {"accepted", "crop_failed"} THEN @ ELSE Append(@, verdict)]
    /\ UNCHANGED <<rows, replies, tested, revisions, doubtful>>

Inspect(u) ==
    /\ PhotosLeft(u) /\ upload[u].step = "photo"
    /\ LET verdict == Inspected(Current(u))
       IN upload' = [upload EXCEPT
            ![u].step = IF verdict = "accepted" THEN "compare" ELSE "photo",
            ![u].checks = IF verdict = "accepted" THEN @ ELSE Append(@, verdict)]
    /\ UNCHANGED <<rows, replies, tested, revisions, doubtful>>

Reject(u, code) ==
    upload' = [upload EXCEPT ![u].step = "photo", ![u].checks = Append(@, code)]

(* Novelty, and with the next statement the risk of a collision; what      *)
(* passes both is added as a backup template.                              *)
FindDuplicate(u) ==
    /\ PhotosLeft(u) /\ upload[u].step = "compare"
    /\ OwnSimilarity(u, Current(u).face) >= DuplicateFrom
    /\ Reject(u, "duplicate_embedding")
    /\ UNCHANGED <<rows, replies, tested, revisions, doubtful>>

CompareWithOthers(u) ==
    /\ PhotosLeft(u) /\ upload[u].step = "compare"
    /\ LET photo == Current(u)
           id == <<u, Len(upload[u].checks) + 1>>
       IN /\ OwnSimilarity(u, photo.face) < DuplicateFrom
          /\ IF CollisionRisk(u, photo.face) >= CollisionFrom
             THEN Reject(u, "collision_risk")
             ELSE upload' = [upload EXCEPT
                    ![u].step = "photo",
                    ![u].checks = Append(@, "accepted"),
                    ![u].mine = [i \in DOMAIN @ \cup {id} |->
                        IF i = id THEN [person |-> Asked(u).person, face |-> photo.face,
                                        pose |-> LabelUsed(u, photo), rank |-> "backup"]
                        ELSE @[i]]]
    /\ UNCHANGED <<rows, replies, tested, revisions, doubtful>>

(* _build_reject_diagnostics: how often each code was given, and one of    *)
(* the most frequent.                                                      *)
Groups(checks) ==
    [c \in Range(checks) \ {"accepted"} |-> Cardinality({i \in DOMAIN checks : checks[i] = c})]

Dominants(groups) == {c \in DOMAIN groups : \A d \in DOMAIN groups : groups[d] <= groups[c]}

Conclude(u) ==
    /\ Running(u) /\ ~PhotosLeft(u) /\ upload[u].step = "photo"
    /\ LET all == Visible(u)
           own == {i \in DOMAIN all : all[i].person = Asked(u).person}
       IN \E o \in Orders(all, own) :
            /\ rows' = [i \in DOMAIN all |->
                          IF i \in own THEN [all[i] EXCEPT !.rank = Placed(all, o, i)] ELSE all[i]]
            /\ doubtful' = doubtful \cup {i \in own : rows'[i].rank = "quarantined"}
                           \cup (IF upload[u].alone THEN {} ELSE DOMAIN upload[u].mine)
    /\ LET checks == upload[u].checks
           groups == Groups(checks)
       IN \E dominant \in IF groups = <<>> THEN {"none"} ELSE Dominants(groups) :
            replies' = [v \in DOMAIN replies \cup {u} |->
                IF v = u THEN [accepted |-> Cardinality(DOMAIN upload[u].mine), checks |-> checks,
                               groups |-> groups, dominant |-> dominant]
                ELSE replies[v]]
    /\ upload' = [upload EXCEPT ![u].step = "ended"]
    /\ UNCHANGED <<tested, revisions>>

(* An error before the commit undoes the upload, which may be sent again.  *)
AbortUpload(u) ==
    /\ Running(u)
    /\ upload' = [upload EXCEPT ![u] = Waiting]
    /\ UNCHANGED <<rows, replies, tested, revisions, doubtful>>

(* An administrator sets the status of a template.                         *)
Revise(i, rank) ==
    /\ revisions < MaxRevisions /\ revisions' = revisions + 1
    /\ rows' = [rows EXCEPT ![i].rank = rank]
    /\ doubtful' = IF rank = "quarantined" THEN doubtful \cup {i} ELSE doubtful
    /\ UNCHANGED <<upload, replies, tested>>
-----------------------------------------------------------------------------
(* test_enrollment_match: the plain cosine with every student's active     *)
(* templates, or those in reserve for who has none; scores below 0 do not  *)
(* count, and quality is reported but not asked for.                       *)
OfPerson(s) == {i \in DOMAIN rows : rows[i].person = s /\ rows[i].rank # "quarantined"}

(* Mutant: backup templates are compared although there are active ones.   *)
ComparedBackups(s) ==
    IF \E i \in OfPerson(s) : rows[i].rank = "backup"
    THEN {i \in OfPerson(s) : rows[i].rank = "backup"} ELSE OfPerson(s)

Compared(s) ==
    IF \E i \in OfPerson(s) : rows[i].rank = "active"
    THEN {i \in OfPerson(s) : rows[i].rank = "active"} ELSE OfPerson(s)

Scored(person, face) ==
    {s \in Enrolled \cup {person} : \E i \in Compared(s) : Similarity[<<face, rows[i].face>>] >= 0}

BestOf(s, face) == Max({Similarity[<<face, rows[i].face>>] : i \in Compared(s)})

Confirms(person, face, best) ==
    LET score == BestOf(person, face)
        second == Max({0} \cup {BestOf(s, face) : s \in Scored(person, face) \ {person}})
    IN /\ best = person
       /\ score >= StrictFrom \/ (score >= RelaxedFrom /\ score - second >= Margin)

Verify(person, photo) ==
    /\ photo.file = "image" /\ Isolated(photo) /\ photo.face \in Seen
    /\ LET scored == Scored(person, photo.face)
       IN \/ scored = {} /\ tested' = "mismatch"
          \/ \E best \in scored :
                /\ \A s \in scored : BestOf(s, photo.face) <= BestOf(best, photo.face)
                /\ tested' = IF Confirms(person, photo.face, best) THEN "match" ELSE "mismatch"
    /\ UNCHANGED <<rows, upload, replies, revisions, doubtful>>

AllPhotos == UNION {Range(q.album) : q \in Requests}

UploadNext ==
    \/ \E u \in Uploads :
        \/ Inspect(u) \/ FindDuplicate(u) \/ CompareWithOthers(u) \/ Conclude(u) \/ AbortUpload(u)
        \/ \E q \in Requests : StartUpload(u, q)
    \/ \E i \in DOMAIN rows, rank \in Ranks : Revise(i, rank)
    \/ \E s \in People, photo \in AllPhotos : Verify(s, photo)

UploadSpec == UploadInit /\ [][UploadNext]_uploadVars
-----------------------------------------------------------------------------
(* No two templates of a student are near copies of each other, though     *)
(* they come from one burst, and no two students have templates as alike   *)
(* as a collision, unless uploads overlapped or a template was brought     *)
(* back from quarantine.                                                   *)
TemplatesStayApart ==
    \A i, j \in DOMAIN rows \ doubtful : i # j =>
        Similarity[<<rows[i].face, rows[j].face>>] <
            (IF rows[i].person = rows[j].person THEN DuplicateFrom ELSE CollisionFrom)

(* The reply accounts for every photo of the upload: one check each, the   *)
(* groups add up to the rejected ones, and the templates it claims to have *)
(* accepted were stored under the student.                                 *)
UploadAccountsForEveryPhoto ==
    \A u \in DOMAIN replies :
        LET reply == replies[u]
        IN /\ \E q \in Requests : q.person = Asked(u).person /\ q.album = Asked(u).album
           /\ Len(reply.checks) = Len(Asked(u).album)
           /\ Len(reply.checks) - reply.accepted =
                 MapThenSumSet(LAMBDA c : reply.groups[c], DOMAIN reply.groups)
           /\ \A i \in DOMAIN reply.checks :
                 reply.checks[i] = "accepted" <=> <<u, i>> \in DOMAIN rows

(* A photo whose face became a template shows nobody else of a size near   *)
(* the student's: every other box covers much of a larger one or has at    *)
(* most 1/2.8 of its area.                                                 *)
OnePersonPerPhoto ==
    \A u \in Uploads : upload[u] # Waiting =>
        \A i \in DOMAIN upload[u].checks : upload[u].checks[i] = "accepted" =>
            LET boxes == Asked(u).album[i].boxes
                real == {j \in DOMAIN boxes : boxes[j].area > 0}
            IN \E chosen \in real : \A j \in real \ {chosen} :
                  \/ \E k \in real : Larger(boxes, k, j) /\ j \in boxes[k].near
                  \/ 28 * boxes[j].area <= 10 * boxes[chosen].area

(* The test confirms a student by a photo from which one of the active     *)
(* templates was made: no other student is nearer, as collisions were      *)
(* refused and nothing doubtful is stored.                                 *)
OwnPhotoVerifies ==
    [][tested' # tested =>
          \A s \in People, photo \in AllPhotos :
             (/\ doubtful = {}
              /\ \E i \in DOMAIN rows :
                    rows[i].person = s /\ rows[i].rank = "active" /\ rows[i].face = photo.face
              /\ Verify(s, photo))
             => tested' = "match"]_uploadVars
=============================================================================
