-------------------------- MODULE FaceRecognition --------------------------
(***************************************************************************)
(* AIPipeline.recognize: the faces of one frame are matched against the    *)
(* templates of enrolled students, through an index of the database or     *)
(* through template banks held in memory, while other transactions change  *)
(* the templates. A failed statement aborts the worker's transaction: with *)
(* no savepoint every later statement of the frame fails too.              *)
(*                                                                         *)
(* Cosine similarities and retention scores are numbers of 0 .. 10, so     *)
(* 0.9 * similarity + 0.1 * retention is in hundredths; a weighted average *)
(* is kept exact by the factor Scale.                                      *)
(***************************************************************************)
EXTENDS Naturals, FiniteSets, Sequences, FiniteSetsExt, Functions

CONSTANTS
    Students, Rows, Models, \* students, templates, embedding models
    Template,               \* row -> its student, model and retention score
    Frames,                 \* sequences of faces
    GateSets,               \* runtime gates a frame may run under
    Tables,                 \* template_status of each row to start with
    Scale,                  \* divisible by every sum of weights
    MaxEdits                \* bound on the changes by other transactions

(* ArcFace always runs: its thresholds decide when several models agree.   *)
ASSUME ModelsAssumption ==
    /\ IsFiniteSet(Models) /\ "arcface" \in Models /\ "none" \notin Models
    /\ Scale \in Nat \ {0} /\ MaxEdits \in Nat

ASSUME TemplateAssumption ==
    Template \in [Rows -> [student : Students, model : Models, retention : 0 .. 10]]

(* A face is usable when its box is inside the image and it passes the     *)
(* gates; probes are the models that give an embedding of it.              *)
Face == [usable : BOOLEAN, probes : SUBSET Models, similarity : [Rows -> 0 .. 10]]

ASSUME FramesAssumption == Frames \subseteq Seq(Face)

Backends == {"numpy", "hnsw", "diskann"}
FusionModes == {"weighted_average", "max_confidence", "arcface_only", "adaface_only", "lvface_only"}
Gates == [backend : Backends, diskann : BOOLEAN, k : Nat \ {0},
          activeOnly : BOOLEAN, excludeQuarantined : BOOLEAN, cohort : SUBSET Students,
          fusion : FusionModes, forced : Models \cup {"none"}, weight : [Models -> Nat],
          strict : [Models -> Nat], relaxed : [Models -> Nat], margin : Nat]

ASSUME GatesAssumption ==
    /\ GateSets \subseteq Gates
    /\ \A g \in GateSets : \A m \in Models : g.relaxed[m] <= g.strict[m]

Statuses == {"active", "backup", "quarantined"}

ASSUME TablesAssumption == Tables \subseteq [Rows -> Statuses]

VARIABLES
    status,   \* template_status of each row
    enrolled, \* students with is_enrolled
    edits,    \* changes made by others so far
    phase, gates, frame,
    faceAt,   \* the face the loop is at; 0 before the loop
    backend,  \* active_ann_backend
    bank,     \* rows of each template bank; <<>> until they are loaded
    scores,   \* model_scores so far: model -> student -> score
    matches,  \* accepted matches in order
    result,   \* what recognize returned
    aborted,  \* the transaction has failed
    shown     \* history: rows that could be used at some time during the frame

frameVars == <<status, enrolled, edits, phase, gates, frame, faceAt, backend, bank, scores,
               matches, result, aborted, shown>>

Phases == {"idle", "resolve", "banks", "face", "query", "decide", "returned", "raised"}
Match == [student : Students, score : Nat, face : Nat \ {0}]

FrameTypeOK ==
    /\ status \in [Rows -> Statuses] /\ enrolled \subseteq Students /\ edits \in 0 .. MaxEdits
    /\ phase \in Phases /\ backend \in Backends /\ aborted \in BOOLEAN
    /\ phase # "idle" => gates \in GateSets /\ frame \in Frames /\ faceAt \in 0 .. Len(frame) + 1
    /\ \A m \in DOMAIN bank : m \in Models /\ bank[m] \subseteq Rows
    /\ \A m \in DOMAIN scores :
          /\ m \in Models /\ DOMAIN scores[m] \subseteq Students
          /\ \A s \in DOMAIN scores[m] : scores[m][s] \in Nat
    /\ matches \in Seq(Match) /\ result \subseteq Match
    /\ shown \subseteq Rows
-----------------------------------------------------------------------------
StudentOf(r) == Template[r].student
RowsOfModel(m) == {r \in Rows : Template[r].model = m}

(* 0.9 * similarity + 0.1 * retention                                      *)
RowScore(f, r) == 9 * f.similarity[r] + Template[r].retention

(* The best template of each student among the given rows.                 *)
BestPerStudent(f, some) ==
    [s \in {StudentOf(r) : r \in some} |-> Max({RowScore(f, r) : r \in {q \in some : StudentOf(q) = s}})]

Servable(r) == StudentOf(r) \in enrolled /\ status[r] # "quarantined"

(* _build_template_matrix: backup templates only without active ones.      *)
Bank(m) ==
    {r \in RowsOfModel(m) :
        /\ Servable(r)
        /\ \/ status[r] = "active"
           \/ ~\E q \in RowsOfModel(m) : StudentOf(q) = StudentOf(r) /\ status[q] = "active"}

(* The WHERE clause of _find_nearest_sync.                                 *)
Candidates(m) ==
    {r \in RowsOfModel(m) :
        /\ StudentOf(r) \in enrolled \cap gates.cohort
        /\ gates.activeOnly => status[r] = "active"
        /\ gates.excludeQuarantined => status[r] # "quarantined"}

(* The index finds some of the nearest rows, k at the most: it is          *)
(* approximate, and the conditions apply to what it has found.             *)
Nearest(m) == {some \in SUBSET Candidates(m) : Cardinality(some) <= gates.k}

Usable(r) == Servable(r) \/ r \in Candidates(Template[r].model)
-----------------------------------------------------------------------------
(* Fusion of the models' scores.                                           *)
Only == [arcface_only |-> "arcface", adaface_only |-> "adaface", lvface_only |-> "lvface"]

Available == {m \in DOMAIN scores : DOMAIN scores[m] # {}}

Selected ==
    IF gates.forced \in Available THEN {gates.forced}
    ELSE IF gates.fusion \in DOMAIN Only THEN {Only[gates.fusion]} \cap Available
    ELSE Available

(* model_fusion_weights: uniform when the configured weights are all zero. *)
Weight(m) ==
    IF Cardinality(Selected) = 1 \/ \A n \in Selected : gates.weight[n] = 0
    THEN 1 ELSE gates.weight[m]

ModelsOf(s) == {m \in Selected : s \in DOMAIN scores[m]}

WeightOf(s) == MapThenSumSet(Weight, ModelsOf(s))

(* Mutant: the sum of the weighted scores is not divided by the weights.   *)
FusedUndivided(s) == Scale * MapThenSumSet(LAMBDA m : Weight(m) * scores[m][s], ModelsOf(s))

Fused(s) ==
    IF gates.fusion = "max_confidence" /\ gates.forced = "none"
    THEN Scale * Max({scores[m][s] : m \in ModelsOf(s)})
    ELSE (Scale * MapThenSumSet(LAMBDA m : Weight(m) * scores[m][s], ModelsOf(s))) \div WeightOf(s)

Contenders ==
    {s \in Students : ModelsOf(s) # {} /\
        (WeightOf(s) > 0 \/ (gates.fusion = "max_confidence" /\ gates.forced = "none"))}

(* The models whose thresholds may decide about a student; only lvface has *)
(* thresholds of its own.                                                  *)
DecisionModels(s) ==
    IF gates.fusion = "max_confidence" /\ gates.forced = "none"
    THEN {m \in ModelsOf(s) : Scale * scores[m][s] = Fused(s)}
    ELSE IF Cardinality(ModelsOf(s)) = 1 THEN ModelsOf(s) ELSE {"arcface"}

(* Mutant: second_best keeps its first value.                              *)
AheadOfNobody(s, margin) == Fused(s) >= Scale * margin

Ahead(s, margin) == \A t \in Contenders \ {s} : Fused(s) >= Fused(t) + Scale * margin

(* _match_decision                                                         *)
Accepts(s) ==
    \E m \in DecisionModels(s) :
        \/ Fused(s) >= Scale * gates.strict[m]
        \/ Fused(s) >= Scale * gates.relaxed[m] /\ Ahead(s, gates.margin)
-----------------------------------------------------------------------------
FrameInit ==
    /\ status \in Tables /\ enrolled = Students /\ edits = 0
    /\ phase = "idle" /\ gates = <<>> /\ frame = <<>> /\ faceAt = 0
    /\ backend = "numpy" /\ bank = <<>> /\ scores = <<>>
    /\ matches = <<>> /\ result = {} /\ aborted = FALSE /\ shown = {}

(* Another transaction commits: templates are demoted, promoted or taken   *)
(* out of use, students gain or lose is_enrolled.                          *)
Edit ==
    /\ edits < MaxEdits
    /\ edits' = edits + 1
    /\ \/ \E r \in Rows, st \in Statuses : status' = [status EXCEPT ![r] = st] /\ enrolled' = enrolled
       \/ \E s \in Students : enrolled' = SymDiff(enrolled, {s}) /\ status' = status
    /\ UNCHANGED <<phase, gates, frame, faceAt, backend, bank, scores, matches, result, aborted>>
    /\ shown' = IF phase = "idle" THEN shown ELSE shown \cup {r \in Rows : Usable(r)'}

(* ensure_loaded, get_runtime_gates, detect_faces and _resolve_ann_backend *)
StartFrame(f, g) ==
    /\ phase = "idle"
    /\ frame' = f /\ gates' = g
    /\ backend' = g.backend
    /\ phase' = CASE g.backend = "diskann" -> "resolve" [] g.backend = "numpy" -> "banks" [] OTHER -> "face"
    /\ faceAt' = IF g.backend = "hnsw" THEN 1 ELSE 0
    /\ UNCHANGED <<status, enrolled, edits, bank, scores, matches, result, aborted>>
    /\ shown' = {r \in Rows : Usable(r)'}

(* diskann is used when it is enabled and is_diskann_ready_sync says so;   *)
(* a check that fails is taken for a no, but it has failed the transaction.*)
Resolve ==
    /\ phase = "resolve"
    /\ phase' = "face" /\ faceAt' = 1
    /\ \/ gates.diskann /\ UNCHANGED <<backend, aborted>>
       \/ backend' = "hnsw" /\ UNCHANGED aborted
       \/ gates.diskann /\ backend' = "hnsw" /\ aborted' = TRUE
    /\ UNCHANGED <<status, enrolled, edits, gates, frame, bank, scores, matches, result, shown>>

LoadedAll == DOMAIN bank = Models

(* One SELECT of ensure_numpy_template_banks.                              *)
LoadBank(m) ==
    /\ phase = "banks" /\ ~aborted /\ m \notin DOMAIN bank
    /\ bank' = [n \in DOMAIN bank \cup {m} |-> IF n = m THEN Bank(m) ELSE bank[n]]
    /\ UNCHANGED <<status, enrolled, edits, phase, gates, frame, faceAt, backend, scores,
                   matches, result, aborted, shown>>

(* A SELECT of ensure_numpy_template_banks fails: recognize raises.        *)
LoadFails ==
    /\ phase = "banks" /\ ~LoadedAll
    /\ aborted' = TRUE /\ phase' = "raised"
    /\ UNCHANGED <<status, enrolled, edits, gates, frame, faceAt, backend, bank, scores,
                   matches, result, shown>>

(* Nothing loaded: recognize returns at the start, and goes on with the    *)
(* next face in the loop.                                                  *)
BanksLoaded ==
    /\ phase = "banks" /\ LoadedAll
    /\ LET empty == \A m \in Models : bank[m] = {}
       IN /\ phase' = IF faceAt = 0 THEN (IF empty THEN "returned" ELSE "face")
                      ELSE IF empty THEN "face" ELSE "decide"
          /\ faceAt' = IF faceAt = 0 \/ empty THEN faceAt + 1 ELSE faceAt
    /\ UNCHANGED <<status, enrolled, edits, gates, frame, backend, bank, scores, matches,
                   result, aborted, shown>>
-----------------------------------------------------------------------------
(* With banks a model is asked for an embedding only if it has templates.  *)
Probes ==
    IF backend = "numpy" THEN {m \in frame[faceAt].probes : bank[m] # {}} ELSE frame[faceAt].probes

NextFace ==
    /\ phase = "face" /\ faceAt <= Len(frame)
    /\ LET skipped == ~frame[faceAt].usable \/ Probes = {}
       IN /\ phase' = IF skipped THEN "face" ELSE IF backend = "numpy" THEN "decide" ELSE "query"
          /\ faceAt' = IF skipped THEN faceAt + 1 ELSE faceAt
    /\ scores' = <<>>
    /\ UNCHANGED <<status, enrolled, edits, gates, frame, backend, bank, matches, result,
                   aborted, shown>>

(* _score_per_student_ann for one model                                    *)
Query(m) ==
    /\ phase = "query" /\ ~aborted
    /\ m \in frame[faceAt].probes \ DOMAIN scores
    /\ \E found \in Nearest(m) :
          scores' = [n \in DOMAIN scores \cup {m} |->
                       IF n = m THEN BestPerStudent(frame[faceAt], found) ELSE scores[n]]
    /\ UNCHANGED <<status, enrolled, edits, phase, gates, frame, faceAt, backend, bank, matches,
                   result, aborted, shown>>

Queried ==
    /\ phase = "query" /\ DOMAIN scores = frame[faceAt].probes
    /\ phase' = "decide"
    /\ UNCHANGED <<status, enrolled, edits, gates, frame, faceAt, backend, bank, scores, matches,
                   result, aborted, shown>>

(* Mutant: the face whose query failed is skipped.                         *)
QueryFailsSkipping ==
    /\ phase = "query" /\ DOMAIN scores # frame[faceAt].probes
    /\ aborted' = TRUE
    /\ phase' = "face" /\ faceAt' = faceAt + 1
    /\ UNCHANGED <<status, enrolled, edits, gates, frame, backend, bank, scores, matches, result, shown>>

(* diskann falls back to hnsw, hnsw to the banks, which are then loaded.   *)
QueryFails ==
    /\ phase = "query" /\ DOMAIN scores # frame[faceAt].probes
    /\ aborted' = TRUE
    /\ scores' = <<>>
    /\ IF backend = "diskann"
       THEN backend' = "hnsw" /\ phase' = "query"
       ELSE backend' = "numpy" /\ phase' = "banks"
    /\ UNCHANGED <<status, enrolled, edits, gates, frame, faceAt, bank, matches, result, shown>>

(* score_with_numpy                                                        *)
ScoreWithBanks ==
    /\ phase = "decide" /\ backend = "numpy" /\ scores = <<>>
    /\ scores' = [m \in Probes |-> BestPerStudent(frame[faceAt], bank[m])]
    /\ UNCHANGED <<status, enrolled, edits, phase, gates, frame, faceAt, backend, bank, matches,
                   result, aborted, shown>>

(* Fusion, the best student and _match_decision.                           *)
Decide ==
    /\ phase = "decide" /\ scores # <<>>
    /\ phase' = "face" /\ faceAt' = faceAt + 1
    /\ \/ /\ Contenders = {}
          /\ matches' = matches
       \/ \E best \in Contenders :
             /\ \A s \in Contenders : Fused(s) <= Fused(best)
             /\ matches' = IF Accepts(best)
                           THEN Append(matches, [student |-> best, score |-> Fused(best), face |-> faceAt])
                           ELSE matches
    /\ UNCHANGED <<status, enrolled, edits, gates, frame, backend, bank, scores, result,
                   aborted, shown>>

(* _dedupe_by_student: of each student the first of the most confident     *)
(* matches; their order means nothing to the callers.                      *)
Deduped(all) ==
    {m \in Range(all) : \A n \in Range(all) : n.student = m.student =>
        n.score < m.score \/ (n.score = m.score /\ n.face >= m.face)}

Finish ==
    /\ phase = "face" /\ faceAt = Len(frame) + 1
    /\ phase' = "returned"
    /\ result' = Deduped(matches)
    /\ UNCHANGED <<status, enrolled, edits, gates, frame, faceAt, backend, bank, scores, matches,
                   aborted, shown>>

Recognise ==
    \/ \E f \in Frames, g \in GateSets : StartFrame(f, g)
    \/ Resolve \/ LoadFails \/ BanksLoaded \/ NextFace \/ Queried \/ QueryFails
    \/ ScoreWithBanks \/ Decide \/ Finish
    \/ \E m \in Models : LoadBank(m) \/ Query(m)

FrameNext == Recognise \/ Edit

FrameSpec == FrameInit /\ [][FrameNext]_frameVars
-----------------------------------------------------------------------------
(* Whatever the backend, its fallbacks and changes made meanwhile, a match *)
(* rests on a single template that could be used at some time during the   *)
(* frame and whose own score of that face reaches the relaxed threshold:   *)
(* neither fusion nor the index lifts a student over it.                   *)
MatchesRestOnATemplate ==
    \A m \in Range(matches) : \E r \in shown :
        /\ StudentOf(r) = m.student
        /\ \E n \in {"arcface", Template[r].model} \cap Models :
              RowScore(frame[m.face], r) >= gates.relaxed[n]

(* A match below every strict threshold that was found in the banks is     *)
(* ahead, by the margin, of every other student's templates there when     *)
(* one model alone decides: the runner-up is never overlooked.             *)
MarginOverTheBank ==
    gates # <<>> /\ gates.backend = "numpy" =>
        \A m \in Range(matches), n \in Models :
            (/\ n = gates.forced /\ frame[m.face].probes = {n}
             /\ m.score < Scale * gates.strict[n]) =>
               \A r \in bank[n] : StudentOf(r) # m.student =>
                   Scale * (RowScore(frame[m.face], r) + gates.margin) <= m.score

(* A frame one of whose statements failed never reports the faces matched  *)
(* before: with the transaction aborted the fallbacks fail as well.        *)
AbortedFrameReportsNothing ==
    phase = "returned" /\ aborted => result = {}
=============================================================================
