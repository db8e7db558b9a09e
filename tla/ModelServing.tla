---------------------------- MODULE ModelServing ----------------------------
(***************************************************************************)
(* The models behind AIPipeline: lazy loading, the Triton client with the  *)
(* local models it falls back to, detection with its modes, the restoring  *)
(* of poor crops by CodeFormer under a budget per frame, and extraction of *)
(* embeddings. One thread works on one frame at a time; the inference      *)
(* server, the local models and the settings may change between its calls. *)
(***************************************************************************)
EXTENDS Naturals, FiniteSets, FiniteSetsExt

CONSTANTS
    Deployments, \* sets of feature flags that are on
    Loadable,    \* sets of local models whose loading succeeds
    Budgets,     \* values of codeformer_max_per_frame
    DetectorModes, RestorationModes,
    MaxFaces, MaxAttempts, MaxEvents \* bounds: faces per frame; restorations; changes

Embedders == {"arcface", "adaface", "lvface"}
Detectors == {"yolov8", "yolov12", "yolov12_native", "yolo26"}
LocalModels == Embedders \cup Detectors \cup {"direct"}
Flags == {"triton", "yolov12", "dual_pass", "super_resolution", "codeformer", "adaface",
          "lvface", "preprocessing"}

ASSUME DeploymentsAssumption == Deployments \subseteq SUBSET Flags
ASSUME LoadableAssumption == Loadable \subseteq SUBSET LocalModels
ASSUME BudgetsAssumption == Budgets \subseteq Nat /\ MaxFaces \in Nat /\ MaxAttempts \in Nat /\ MaxEvents \in Nat

VARIABLES
    enabled,   \* the flags of this deployment
    loaded,    \* _loaded
    disk,      \* models whose files are there and can be loaded
    local,     \* local models in memory
    client,    \* the Triton client was connected when the models were loaded
    server,    \* the inference server: "up", "down" or answering "nonsense"
    broken,    \* local models whose calls fail at present
    budget,    \* codeformer_max_per_frame as the settings have it
    events,    \* changes of the environment so far
    step,      \* where the thread is in the frame
    detected,  \* what detect_faces returned
    faces,     \* faces left in the frame
    mode,      \* restoration_mode of the frame
    used,      \* codeformer_budget_context["used"]
    crop,      \* what _preprocess made of the crop
    before,    \* embedding of the crop before restoration
    embedded,  \* embeddings of the face, by model
    stats,     \* _restoration_stats
    runs,      \* history: CodeFormer runs of the frame
    allowed    \* history: largest budget in force during the frame

servingVars == <<enabled, loaded, disk, local, client, server, broken, budget, events, step, detected,
                 faces, mode, used, crop, before, embedded, stats, runs, allowed>>
environment == <<server, broken, budget, events>>
models == <<enabled, loaded, disk, local, client>>

Steps == {"start", "idle", "face", "restored", "judge", "embed"}
Crops == {"raw", "corrected", "restored", "upscaled"}
Embeddings == {"triton", "local", "none"}
ServingTypeOK ==
    /\ enabled \in Deployments /\ loaded \in BOOLEAN /\ client \in BOOLEAN
    /\ disk \subseteq LocalModels /\ local \subseteq disk /\ broken \subseteq LocalModels
    /\ server \in {"up", "down", "nonsense"} /\ budget \in Budgets /\ events \in 0 .. MaxEvents
    /\ step \in Steps /\ detected \in {"triton", "nothing", "error", ""} \cup Detectors
    /\ faces \in 0 .. MaxFaces /\ mode \in RestorationModes
    /\ used \in Nat /\ crop \in Crops /\ before \in Embeddings
    /\ DOMAIN embedded \subseteq Embedders /\ \A m \in DOMAIN embedded : embedded[m] \in Embeddings
    /\ \A c \in DOMAIN stats : stats[c] \in Nat
    /\ allowed \in Nat /\ runs \in Nat
-----------------------------------------------------------------------------
NoStats == [attempts |-> 0, applied |-> 0, discarded |-> 0]

ServingInit ==
    /\ enabled \in Deployments /\ loaded = FALSE /\ disk \in Loadable /\ local = {} /\ client = FALSE
    /\ server = "up" /\ broken = {} /\ budget \in Budgets /\ events = 0
    /\ step = "start" /\ detected = "" /\ faces = 0
    /\ mode = "auto" /\ mode \in RestorationModes
    /\ used = 0 /\ crop = "raw" /\ before = "none" /\ embedded = <<>>
    /\ stats = NoStats /\ runs = 0 /\ allowed = 0

(* The server stops, starts or misbehaves; a local model starts or stops   *)
(* failing; an administrator changes the budget.                           *)
Environment ==
    /\ events < MaxEvents
    /\ events' = events + 1
    /\ \/ server' \in {"up", "down", "nonsense"} \ {server} /\ UNCHANGED <<broken, budget>>
       \/ \E m \in local : broken' = SymDiff(broken, {m}) /\ UNCHANGED <<server, budget>>
       \/ budget' \in Budgets \ {budget} /\ UNCHANGED <<server, broken>>
    /\ allowed' = IF budget' > allowed THEN budget' ELSE allowed
    /\ UNCHANGED <<models, step, detected, faces, mode, used, crop, before, embedded, stats, runs>>

(* _load_models: what is not enabled is not loaded. The client asks once   *)
(* whether the server is live.                                             *)
Wanted ==
    {"yolov8", "arcface", "direct"}
    \cup (IF "yolov12" \in enabled THEN {"yolov12", "yolov12_native"} ELSE {})
    \cup (enabled \cap {"adaface", "lvface"})

EnsureLoaded ==
    /\ step = "start" /\ ~loaded
    /\ loaded' = TRUE
    /\ local' = Wanted \cap disk
    /\ client' = ("triton" \in enabled /\ server # "down")
    /\ step' = "idle"
    /\ UNCHANGED <<enabled, disk, environment, detected, faces, mode, used, crop, before, embedded,
                   stats, runs, allowed>>

Working(m) == m \in local \ broken
-----------------------------------------------------------------------------
(* detect_faces: with no mode given Triton is asked first, then the mode   *)
(* is chosen; modes of the benchmarks load their model on demand.          *)
AutoMode ==
    IF "yolov12" \notin enabled \/ "yolov12" \notin local THEN "yolov8_sahi"
    ELSE IF "dual_pass" \in enabled THEN "yolov12_sahi" ELSE "yolov12_native"

ModelOf(m) ==
    CASE m = "yolov12_native" -> "yolov12_native"
      [] m = "yolov12_sahi" -> "yolov12"
      [] m = "yolo26_reference" -> "yolo26"
      [] OTHER -> "yolov8"

OnDemand(m) == local \cup {d \in disk : d = ModelOf(m) /\ d # "yolov8"}

DetectorFor(m) ==
    IF ModelOf(m) \in OnDemand(m) \/ m = "yolo26_reference" THEN ModelOf(m) ELSE "yolov8"

Detection(m) ==
    IF m = "none" /\ client /\ server # "down" THEN "triton"
    ELSE LET d == DetectorFor(IF m = "none" THEN AutoMode ELSE m)
         IN IF d \notin OnDemand(IF m = "none" THEN AutoMode ELSE m) THEN "nothing"
            ELSE IF d \in broken THEN "error" ELSE d

Detect(m, r, n) ==
    /\ step = "idle" /\ stats.attempts < MaxAttempts
    /\ detected' = Detection(m)
    /\ local' = IF Detection(m) = "triton" THEN local
                ELSE OnDemand(IF m = "none" THEN AutoMode ELSE m)
    /\ faces' = IF detected' \in {"nothing", "error"} THEN 0 ELSE n
    /\ step' = IF faces' = 0 THEN "idle" ELSE "face"
    /\ mode' = r /\ used' = 0 /\ runs' = 0 /\ allowed' = budget
    /\ embedded' = <<>>
    /\ UNCHANGED <<enabled, loaded, disk, client, environment, crop, before, stats>>
-----------------------------------------------------------------------------
(* What asking model m for an embedding may give. An embedding of Triton   *)
(* that is not finite is none, and no local model is asked then; every     *)
(* other failure of the server is made up for. ArcFace's direct path is    *)
(* tried before its detector, which may find no face in the crop, and      *)
(* whose errors are not caught.                                            *)
Extracted(m) ==
    IF client /\ server = "up" THEN {"triton"}
    ELSE IF (client /\ server = "nonsense") \/ m \notin local THEN {"none"}
    ELSE IF m # "arcface" THEN {IF Working(m) THEN "local" ELSE "none"}
    ELSE IF Working("direct") THEN {"local"}
    ELSE IF Working(m) THEN {"local", "none"} ELSE {"error"}

(* extract_embedding_lvface asks for a local session before all else.      *)
Extraction(m) == IF m = "lvface" /\ m \notin local THEN {"none"} ELSE Extracted(m)

(* restoration_mode: which of the two enhancers the crop may go through.   *)
Restoring ==
    "codeformer" \in enabled /\ mode \in {"auto", "codeformer", "both"}
Upscaling == "super_resolution" \in enabled /\ mode \in {"auto", "realesrgan", "both"}

(* preprocess_face_crop: a crop that is tiny and of low quality is         *)
(* restored within the budget. CodeFormer without a session returns the    *)
(* crop as it is, which counts as restored all the same.                   *)
Restores(poor) == Restoring /\ poor /\ used < budget

Preprocess(poor, small) ==
    /\ step = "face"
    /\ IF "preprocessing" \notin enabled
       THEN crop' = "raw" /\ step' = "embed" /\ UNCHANGED <<used, runs, stats>>
       ELSE IF Restores(poor)
       THEN /\ crop' = "restored" /\ step' = "restored"
            /\ used' = used + 1 /\ runs' = runs + 1
            /\ stats' = [stats EXCEPT !.attempts = @ + 1, !.applied = @ + 1]
       ELSE /\ crop' = IF Upscaling /\ small THEN "upscaled" ELSE "corrected"
            /\ step' = "embed" /\ UNCHANGED <<used, runs, stats>>
    /\ UNCHANGED <<models, environment, detected, faces, mode, before, embedded, allowed>>

(* The safeguard takes an arcface embedding of the crop before and after;  *)
(* an error of either has _preprocess return the crop as it came.          *)
EmbedBefore ==
    /\ step = "restored"
    /\ \E e \in Extracted("arcface") :
          IF e = "error" THEN step' = "embed" /\ crop' = "raw" /\ before' = before
          ELSE step' = "judge" /\ crop' = crop /\ before' = e
    /\ UNCHANGED <<models, environment, detected, faces, mode, used, embedded, stats, runs, allowed>>

(* Mutant: a discarded restoration is given back to the frame's budget.    *)
JudgeGivingBack(alike) ==
    /\ step = "judge" /\ step' = "embed"
    /\ IF before # "none" /\ ~alike
       THEN crop' = "raw" /\ stats' = [stats EXCEPT !.discarded = @ + 1] /\ used' = used - 1
       ELSE UNCHANGED <<crop, stats, used>>
    /\ UNCHANGED <<models, environment, detected, faces, mode, before, embedded, runs, allowed>>

Judge(alike) ==
    /\ step = "judge"
    /\ step' = "embed"
    /\ \E after \in Extracted("arcface") :
          IF after = "error" THEN crop' = "raw" /\ UNCHANGED stats
          ELSE IF before # "none" /\ after # "none" /\ ~alike
          THEN crop' = "raw" /\ stats' = [stats EXCEPT !.discarded = @ + 1]
          ELSE UNCHANGED <<crop, stats>>
    /\ UNCHANGED <<models, environment, detected, faces, mode, used, before, embedded, runs, allowed>>

(* The three embeddings in their order; an error of the local detector is  *)
(* raised and ends the frame.                                              *)
Embed(m) ==
    /\ step = "embed" /\ m \notin DOMAIN embedded
    /\ m = IF "arcface" \notin DOMAIN embedded THEN "arcface"
           ELSE IF "adaface" \notin DOMAIN embedded THEN "adaface" ELSE "lvface"
    /\ \E e \in Extraction(m) :
          IF e = "error"
          THEN step' = "idle" /\ faces' = 0 /\ embedded' = <<>>
          ELSE /\ embedded' = [n \in DOMAIN embedded \cup {m} |-> IF n = m THEN e ELSE embedded[n]]
               /\ UNCHANGED <<step, faces>>
    /\ UNCHANGED <<models, environment, detected, mode, used, crop, before, stats, runs, allowed>>

FaceDone ==
    /\ step = "embed" /\ DOMAIN embedded = Embedders
    /\ faces' = faces - 1
    /\ step' = IF faces' = 0 THEN "idle" ELSE "face"
    /\ embedded' = <<>>
    /\ UNCHANGED <<models, environment, detected, mode, used, crop, before, stats, runs, allowed>>

(* get_restoration_stats(reset=True)                                       *)
ResetStats ==
    /\ step = "idle" /\ stats # NoStats
    /\ stats' = NoStats
    /\ UNCHANGED <<models, environment, step, detected, faces, mode, used, crop, before, embedded, runs, allowed>>

ServingNext ==
    \/ EnsureLoaded \/ Environment \/ EmbedBefore \/ FaceDone \/ ResetStats
    \/ \E m \in DetectorModes, r \in RestorationModes, n \in 0 .. MaxFaces : Detect(m, r, n)
    \/ \E poor, small \in BOOLEAN : Preprocess(poor, small)
    \/ \E alike \in BOOLEAN : Judge(alike)
    \/ \E m \in Embedders : Embed(m)

ServingSpec == ServingInit /\ [][ServingNext]_servingVars
-----------------------------------------------------------------------------
(* No more crops of a frame go through CodeFormer than the largest budget  *)
(* in force during it, whether they are kept or discarded afterwards and   *)
(* however the setting changes between two faces.                          *)
RestorationsWithinBudget == runs <= allowed
=============================================================================
