------------------------- MODULE RecognitionProofs --------------------------
(***************************************************************************)
(* Theorems about what happens to images: the recognition of a frame, for  *)
(* any templates, models, frames, gates and changes by other               *)
(* transactions; the models behind it, for any deployment, number of faces *)
(* and values of the settings; enrolment, for any uploads, photos and      *)
(* thresholds; and the liveness check, for any clip.                       *)
(***************************************************************************)
EXTENDS Recognition, NumberFacts, SequenceTheorems
-----------------------------------------------------------------------------
(* The index is asked only while it is the backend, and until then no bank *)
(* has been loaded; a face that is looked up has a probe.                  *)
ProgressInv ==
    /\ faceAt \in Nat
    /\ phase # "idle" => frame \in Frames
    /\ phase \in {"face", "query", "decide"} => faceAt # 0
    /\ phase = "query" => backend # "numpy" /\ frame[faceAt].probes # {} /\ Models # {}
    /\ phase = "banks" => backend = "numpy"
    /\ backend # "numpy" => bank = <<>>
    /\ phase \in {"idle", "resolve"} => matches = <<>> /\ bank = <<>>
    /\ phase # "returned" => result = {}

(* An aborted frame is before its first match, or on its way to raise.     *)
AbortedInv ==
    aborted =>
        /\ phase \in {"face", "query", "banks", "raised", "returned"}
        /\ phase = "face" => matches = <<>> /\ backend # "numpy"
        /\ phase = "query" => scores = <<>>
        /\ phase = "banks" => bank = <<>> /\ Models # {}
        /\ phase = "returned" => result = {}

FrameInv == ProgressInv /\ AbortedInv

LEMMA NothingIsLoaded == DOMAIN <<>> = {}
OBVIOUS

LEMMA NothingToDedupe == Deduped(<<>>) = {}
BY DEF Deduped, Range

LEMMA FacesAreFaces ==
    ASSUME frame \in Frames, faceAt \in Nat, faceAt # 0, faceAt <= Len(frame)
    PROVE  frame[faceAt].probes \subseteq Models
<1>1. frame \in Seq(Face) /\ faceAt \in 1 .. Len(frame)
  BY FramesAssumption
<1>2. frame[faceAt] \in Face
  BY <1>1
<1> QED
  BY <1>2 DEF Face

LEMMA FrameInvInit == FrameInit => FrameInv
BY DEF FrameInit, FrameInv, ProgressInv, AbortedInv

LEMMA EditKeeps == FrameInv /\ Edit => FrameInv'
BY DEF Edit, FrameInv, ProgressInv, AbortedInv

LEMMA StartFrameKeeps ==
    ASSUME FrameInv, NEW f \in Frames, NEW g \in GateSets, StartFrame(f, g)
    PROVE  FrameInv'
<1>1. g.backend \in Backends
  BY GatesAssumption DEF Gates
<1>2. phase' = IF g.backend = "diskann" THEN "resolve" ELSE IF g.backend = "numpy" THEN "banks" ELSE "face"
  BY <1>1 DEF StartFrame, Backends
<1>3. ~aborted /\ ~aborted'
  BY DEF StartFrame, FrameInv, AbortedInv
<1> QED
  BY <1>1, <1>2, <1>3 DEF StartFrame, FrameInv, ProgressInv, AbortedInv, Backends

LEMMA ResolveKeeps == FrameInv /\ Resolve => FrameInv'
BY DEF Resolve, FrameInv, ProgressInv, AbortedInv

LEMMA LoadBankKeeps ==
    ASSUME FrameInv, NEW m \in Models, LoadBank(m)
    PROVE  FrameInv'
BY DEF LoadBank, FrameInv, ProgressInv, AbortedInv

LEMMA LoadFailsKeeps == FrameInv /\ LoadFails => FrameInv'
BY DEF LoadFails, FrameInv, ProgressInv, AbortedInv

LEMMA BanksLoadedKeeps ==
    ASSUME FrameInv, BanksLoaded
    PROVE  FrameInv'
<1>1. ~aborted
  BY NothingIsLoaded DEF BanksLoaded, LoadedAll, FrameInv, AbortedInv
<1> QED
  BY <1>1 DEF BanksLoaded, FrameInv, ProgressInv, AbortedInv

LEMMA NextFaceKeeps ==
    ASSUME FrameInv, NextFace
    PROVE  FrameInv'
<1>1. CASE phase' = "query"
  <2>1. backend # "numpy" /\ Probes # {} /\ faceAt' = faceAt
    BY <1>1 DEF NextFace
  <2>2. frame[faceAt].probes # {} /\ Models # {}
    BY <2>1, FacesAreFaces DEF Probes, NextFace, FrameInv, ProgressInv
  <2> QED BY <1>1, <2>1, <2>2 DEF NextFace, FrameInv, ProgressInv, AbortedInv
<1>2. CASE phase' # "query"
  BY <1>2 DEF NextFace, FrameInv, ProgressInv, AbortedInv
<1> QED
  BY <1>1, <1>2

LEMMA QueryKeeps ==
    ASSUME FrameInv, NEW m \in Models, Query(m)
    PROVE  FrameInv'
BY DEF Query, FrameInv, ProgressInv, AbortedInv

LEMMA QueriedKeeps ==
    ASSUME FrameInv, Queried
    PROVE  FrameInv'
<1>1. ~aborted
  BY NothingIsLoaded DEF Queried, FrameInv, ProgressInv, AbortedInv
<1> QED
  BY <1>1 DEF Queried, FrameInv, ProgressInv, AbortedInv

LEMMA QueryFailsKeeps == FrameInv /\ QueryFails => FrameInv'
BY DEF QueryFails, FrameInv, ProgressInv, AbortedInv

LEMMA ScoringKeeps == FrameInv /\ (ScoreWithBanks \/ Decide) => FrameInv'
BY DEF ScoreWithBanks, Decide, FrameInv, ProgressInv, AbortedInv

LEMMA FinishKeeps == FrameInv /\ Finish => FrameInv'
BY NothingToDedupe DEF Finish, FrameInv, ProgressInv, AbortedInv

LEMMA FrameInvNext == FrameInv /\ [FrameNext]_frameVars => FrameInv'
<1>1. FrameInv /\ UNCHANGED frameVars => FrameInv'
  BY DEF frameVars, FrameInv, ProgressInv, AbortedInv
<1> QED
  BY <1>1, EditKeeps, StartFrameKeeps, ResolveKeeps, LoadBankKeeps, LoadFailsKeeps, BanksLoadedKeeps,
     NextFaceKeeps, QueryKeeps, QueriedKeeps, QueryFailsKeeps, ScoringKeeps, FinishKeeps
  DEF FrameNext, Recognise

(* recognize raises when one of its statements failed after a face had     *)
(* been matched: its fallbacks never lead to a result with part of a       *)
(* frame's faces.                                                          *)
THEOREM AbortedFramesAreEmpty == FrameSpec => []AbortedFrameReportsNothing
<1>1. FrameInv => AbortedFrameReportsNothing
  BY DEF FrameInv, AbortedInv, AbortedFrameReportsNothing
<1> QED
  BY <1>1, FrameInvInit, FrameInvNext, PTL DEF FrameSpec
-----------------------------------------------------------------------------
(* The counter of codeformer_budget_context counts the runs, and while a   *)
(* frame is worked on the budget in force is one of those it was allowed.  *)
BudgetInv ==
    /\ budget \in Nat /\ used \in Nat /\ allowed \in Nat
    /\ runs = used
    /\ used <= allowed
    /\ step \notin {"start", "idle"} => budget <= allowed

LEMMA BudgetInit == ServingInit => BudgetInv
<1> SUFFICES ASSUME ServingInit
             PROVE  BudgetInv
  OBVIOUS
<1>1. budget \in Nat
  BY BudgetsAssumption DEF ServingInit
<1>2. step = "start" /\ used = 0 /\ runs = 0 /\ allowed = 0
  BY DEF ServingInit
<1> QED
  BY <1>1, <1>2 DEF BudgetInv

LEMMA BudgetNext == BudgetInv /\ [ServingNext]_servingVars => BudgetInv'
<1> SUFFICES ASSUME BudgetInv, [ServingNext]_servingVars
             PROVE  BudgetInv'
  OBVIOUS
<1> USE DEF BudgetInv
<1>1. CASE EnsureLoaded
  BY <1>1 DEF EnsureLoaded, environment
<1>2. CASE Environment
  <2>1. budget' \in Nat
    BY <1>2, BudgetsAssumption DEF Environment
  <2>2. allowed' = (IF budget' > allowed THEN budget' ELSE allowed)
        /\ UNCHANGED <<step, used, runs>>
    BY <1>2 DEF Environment
  <2> QED BY <2>1, <2>2
<1>3. CASE EmbedBefore
  BY <1>3 DEF EmbedBefore, environment
<1>4. CASE FaceDone
  BY <1>4 DEF FaceDone, environment
<1>5. CASE ResetStats
  BY <1>5 DEF ResetStats, environment
<1>6. ASSUME NEW m \in DetectorModes, NEW r \in RestorationModes, NEW n \in 0 .. MaxFaces,
             Detect(m, r, n)
      PROVE  BudgetInv'
  BY <1>6 DEF Detect, environment
<1>7. ASSUME NEW poor \in BOOLEAN, NEW small \in BOOLEAN, Preprocess(poor, small)
      PROVE  BudgetInv'
  <2>1. step = "face" /\ UNCHANGED <<budget, allowed>>
    BY <1>7 DEF Preprocess, environment
  <2>2. CASE "preprocessing" \in enabled /\ Restores(poor)
    <3>1. used < budget
      BY <2>2 DEF Restores
    <3>2. used' = used + 1 /\ runs' = runs + 1
      BY <1>7, <2>2 DEF Preprocess
    <3> QED BY <2>1, <3>1, <3>2
  <2>3. CASE ~("preprocessing" \in enabled /\ Restores(poor))
    <3>1. UNCHANGED <<used, runs>>
      BY <1>7, <2>3 DEF Preprocess
    <3> QED BY <2>1, <3>1
  <2> QED BY <2>2, <2>3
<1>8. ASSUME NEW alike \in BOOLEAN, Judge(alike)
      PROVE  BudgetInv'
  BY <1>8 DEF Judge, environment
<1>9. ASSUME NEW m \in Embedders, Embed(m)
      PROVE  BudgetInv'
  BY <1>9 DEF Embed, environment
<1>10. CASE UNCHANGED servingVars
  BY <1>10 DEF servingVars
<1> QED
  BY <1>1, <1>2, <1>3, <1>4, <1>5, <1>6, <1>7, <1>8, <1>9, <1>10 DEF ServingNext

(* No more crops of a frame go through CodeFormer than the largest budget  *)
(* in force during it (_preprocess and its codeformer_budget_context),     *)
(* however the server, the models and the settings change meanwhile.       *)
THEOREM BudgetIsKept == ServingSpec => []RestorationsWithinBudget
<1>1. BudgetInv => RestorationsWithinBudget
  BY DEF BudgetInv, RestorationsWithinBudget
<1> QED
  BY <1>1, BudgetInit, BudgetNext, PTL DEF ServingSpec

-----------------------------------------------------------------------------
(* The liveness check.                                                     *)
LEMMA TiersInOrder ==
    /\ DOMAIN Tiers = 1 .. 5
    /\ Tiers[1] = "motion" /\ Tiers[2] = "flow" /\ Tiers[3] = "cnn" /\ Tiers[4] = "rppg" /\ Tiers[5] = "flash"
BY DEF Tiers

(* The tests so far were passed, and the check ends behind the last one.   *)
LiveInv ==
    /\ tier \in 1 .. 6
    /\ \A i \in 1 .. tier - 1 : Passes(clip, equipment, Tiers[i])
    /\ passed => tier = 6

LEMMA LessEquipmentPasses ==
    ASSUME NEW c, NEW e, NEW less \in SUBSET e, NEW i \in 1 .. 5, Passes(c, e, Tiers[i])
    PROVE  Passes(c, less, Tiers[i])
<1>1. CASE i = 1
  BY <1>1, TiersInOrder DEF Passes
<1>2. CASE i = 2
  BY <1>2, TiersInOrder DEF Passes
<1>3. CASE i = 3
  <2>1. LooksReal(c, e) => LooksReal(c, less)
    BY DEF LooksReal
  <2> QED BY <1>3, <2>1, TiersInOrder DEF Passes
<1>4. CASE i = 4
  <2>1. HasPulse(c, e) => HasPulse(c, less)
    BY DEF HasPulse
  <2> QED BY <1>4, <2>1, TiersInOrder DEF Passes
<1>5. CASE i = 5
  <2>1. Scatters(c, e) => Scatters(c, less)
    BY DEF Scatters
  <2> QED BY <1>5, <2>1, TiersInOrder DEF Passes
<1> QED
  BY <1>1, <1>2, <1>3, <1>4, <1>5

LEMMA LiveInvNext == LiveInv /\ [RunTier]_livenessVars => LiveInv'
<1> SUFFICES ASSUME LiveInv, [RunTier]_livenessVars PROVE LiveInv'
  OBVIOUS
<1>1. CASE RunTier
  <2>1. /\ tier \in 1 .. 5 /\ Passes(clip, equipment, Tiers[tier]) /\ tier' = tier + 1
        /\ passed' = (tier' \notin 1 .. 5) /\ UNCHANGED <<clip, equipment>>
    BY <1>1, TiersInOrder DEF RunTier
  <2>2. \A i \in 1 .. tier' - 1 : i = tier \/ i \in 1 .. tier - 1
    BY <2>1
  <2>3. \A i \in 1 .. tier' - 1 : Passes(clip, equipment, Tiers[i])
    BY <2>1, <2>2 DEF LiveInv
  <2>4. tier' \in 1 .. 6 /\ (tier' \notin 1 .. 5 => tier' = 6)
    BY <2>1
  <2>5. passed' => tier' = 6
    BY <2>1, <2>4, Zenon
  <2>6. UNCHANGED <<clip, equipment>>
    BY <2>1
  <2> QED BY <2>3, <2>4, <2>5, <2>6 DEF LiveInv
<1>2. CASE UNCHANGED livenessVars
  BY <1>2 DEF LiveInv, livenessVars
<1> QED
  BY <1>1, <1>2

(* Taking equipment away never fails a clip that was found live            *)
(* (check_liveness), whatever the clip shows.                              *)
THEOREM LossNeverFails == LivenessSpec => []LiveSurvivesLoss
<1>1. LivenessInit => LiveInv
  BY DEF LivenessInit, LiveInv
<1>2. LiveInv => LiveSurvivesLoss
  <2> SUFFICES ASSUME LiveInv, passed, NEW less \in SUBSET equipment, NEW i \in 1 .. 5
               PROVE  Passes(clip, less, Tiers[i])
    BY TiersInOrder DEF LiveSurvivesLoss
  <2>1. Passes(clip, equipment, Tiers[i])
    BY DEF LiveInv
  <2> QED BY <2>1, LessEquipmentPasses
<1> QED
  BY <1>1, <1>2, LiveInvNext, PTL DEF LivenessSpec

-----------------------------------------------------------------------------
(* Enrolment from photos: what an upload that runs has done so far, which  *)
(* ids are in the table, and that the upload's own templates keep their    *)
(* distance when it has the table to itself.                               *)
Fields == {"step", "request", "checks", "mine", "alone"}

Album(u) == Asked(u).album

UploadShape(u) ==
    /\ upload[u] = [f \in Fields |-> upload[u][f]]
    /\ upload[u].step \in {"photo", "compare", "ended"} /\ upload[u].alone \in BOOLEAN
    /\ upload[u].request \in Requests
    /\ upload[u].checks \in Seq(Verdicts) /\ Len(upload[u].checks) <= Len(Album(u))
    /\ upload[u].mine = [i \in DOMAIN upload[u].mine |-> upload[u].mine[i]]
    /\ \A i \in DOMAIN upload[u].mine :
          /\ \E n \in 1 .. Len(upload[u].checks) : i = <<u, n>>
          /\ upload[u].mine[i] \in Kept /\ upload[u].mine[i].person = Asked(u).person

(* What was accepted, or is about to be compared, passed the inspection.   *)
PhotosSeen(u) ==
    /\ \A n \in DOMAIN upload[u].checks :
          upload[u].checks[n] = "accepted" => Inspected(Album(u)[n]) = "accepted"
    /\ upload[u].step = "compare" => PhotosLeft(u) /\ Inspected(Current(u)) = "accepted"

UploadsInv ==
    /\ upload = [u \in Uploads |-> upload[u]]
    /\ \A u \in Uploads : upload[u] # Waiting => UploadShape(u) /\ PhotosSeen(u)

TableInv ==
    /\ rows = [i \in DOMAIN rows |-> rows[i]]
    /\ \A i \in DOMAIN rows : rows[i] \in Kept /\ (rows[i].rank = "quarantined" => i \in doubtful)
    /\ \A u \in Uploads, n \in Nat :
          <<u, n>> \in DOMAIN rows => upload[u] # Waiting /\ upload[u].step = "ended"

Apart(a, b) ==
    Similarity[<<a.face, b.face>>] < (IF a.person = b.person THEN DuplicateFrom ELSE CollisionFrom)

AloneApart(u) ==
    /\ \A v \in Uploads : Running(v) => v = u
    /\ \A i \in DOMAIN upload[u].mine :
          /\ \A j \in DOMAIN upload[u].mine : i # j => Apart(upload[u].mine[i], upload[u].mine[j])
          /\ \A j \in DOMAIN rows \ doubtful : Apart(upload[u].mine[i], rows[j])

DistanceInv ==
    /\ \A i, j \in DOMAIN rows \ doubtful : i # j => Apart(rows[i], rows[j])
    /\ \A u \in Uploads : Running(u) /\ upload[u].alone => AloneApart(u)

EnrolInv == UploadsInv /\ TableInv

(* What a step has to keep; distances are kept if there were any.          *)
EnrolKept == EnrolInv' /\ (DistanceInv => DistanceInv')

LEMMA MaximumIsIn ==
    ASSUME NEW lo \in Int, NEW hi \in Int, NEW T, T \subseteq lo .. hi, T # {}
    PROVE  Max(T) \in T /\ \A y \in T : Max(T) >= y
<1>1. PICK x \in T : \A y \in T : y <= x
  BY IntGreatest
<1>2. \A y \in T : y \in Int
  OBVIOUS
<1>3. \A y \in T : x >= y
  BY <1>1, <1>2
<1> QED
  BY <1>3, Zenon DEF Max

LEMMA CosineIsBounded ==
    ASSUME NEW f \in Seen, NEW g \in Seen
    PROVE  Similarity[<<f, g>>] \in -1000 .. 1000
<1>1. Similarity \in [Pairs -> -1000 .. 1000]
  BY SimilarityAssumption
<1>2. <<f, g>> \in Pairs
  BY DEF Pairs
<1> QED
  BY <1>1, <1>2

(* The highest cosine is a number, and no cosine is above it.              *)
LEMMA CloserThanAll ==
    ASSUME NEW face \in Seen, NEW others \in SUBSET Seen
    PROVE  /\ Closest(face, others) \in Int
           /\ \A g \in others, d \in Int :
                 Closest(face, others) < d => Similarity[<<face, g>>] < d
<1> DEFINE T == {0} \cup {Similarity[<<face, g>>] : g \in others}
           lo == -1000
           hi == 1000
           most == Max(T)
<1>1. \A g \in others : Similarity[<<face, g>>] \in lo .. hi
  <2> SUFFICES ASSUME NEW g \in others PROVE Similarity[<<face, g>>] \in -1000 .. 1000
    OBVIOUS
  <2>1. g \in Seen
    OBVIOUS
  <2> HIDE DEF T, most
  <2> QED BY <2>1, CosineIsBounded, SMTT(40)
<1>2. 0 \in lo .. hi /\ lo \in Int /\ hi \in Int
  OBVIOUS
<1> HIDE DEF lo, hi
<1>3. T \subseteq lo .. hi
  <2>1. ASSUME NEW x \in T
        PROVE  x \in lo .. hi
    <3>1. CASE x \in {0}
      BY <1>2, <3>1
    <3>2. CASE x \in {Similarity[<<face, g>>] : g \in others}
      <4>1. PICK g \in others : x = Similarity[<<face, g>>]
        BY <3>2
      <4> QED BY <1>1, <4>1
    <3> QED BY <2>1, <3>1, <3>2
  <2> QED BY <2>1
<1>4. T # {} /\ \A g \in others : Similarity[<<face, g>>] \in T
  OBVIOUS
<1>5. most = Closest(face, others)
  BY Zenon DEF Closest
<1>6. most \in T /\ \A y \in T : most >= y
  <2> HIDE DEF T
  <2> QED BY <1>2, <1>3, <1>4, MaximumIsIn, Zenon
<1> HIDE DEF most, T
<1>7. \A y \in T : y \in Int
  BY <1>2, <1>3
<1>8. most \in Int
  BY <1>6, <1>7
<1>9. ASSUME NEW g \in others, NEW d \in Int, most < d
      PROVE  Similarity[<<face, g>>] < d
  <2> DEFINE y == Similarity[<<face, g>>]
  <2>1. y \in Int /\ most >= y
    BY <1>4, <1>6, <1>7, Zenon
  <2> HIDE DEF y
  <2>2. y < d
    BY <1>8, <1>9, <2>1
  <2> QED BY <2>2 DEF y
<1> QED
  BY <1>5, <1>8, <1>9, Zenon

(* The boxes that are kept: going down from the largest, there is one      *)
(* selection in which a box is left out for a larger one only.             *)
Real(boxes) == {i \in DOMAIN boxes : boxes[i].area > 0}

Selects(boxes, picked, D) ==
    /\ picked \subseteq D
    /\ \A i \in D : i \in picked <=> ~\E j \in picked : Larger(boxes, j, i) /\ i \in boxes[j].near

Upper(boxes, D) == D \subseteq Real(boxes) /\ \A i \in D, j \in Real(boxes) : Larger(boxes, j, i) => j \in D

LEMMA LargestBox ==
    ASSUME NEW boxes \in Seq(Box), NEW D, D \subseteq Real(boxes), D # {}
    PROVE  \E i \in D : \A j \in D : j # i => Larger(boxes, i, j)
<1> DEFINE n == Len(boxes)
           area == [i \in 1 .. n |-> IF boxes[i].area > 0 THEN boxes[i].area ELSE 0]
           Areas == {a \in {area[i] : i \in 1 .. n} : \E i \in D : boxes[i].area = a}
<1>1. n \in Nat /\ DOMAIN boxes = 1 .. n /\ \A i \in 1 .. n : boxes[i] \in Box /\ boxes[i].area \in Int
  <2>1. n \in Nat /\ DOMAIN boxes = 1 .. n
    BY LenProperties
  <2>2. \A i \in 1 .. n : boxes[i] \in Box
    BY ElementOfSeq
  <2> QED BY <2>1, <2>2 DEF Box
<1>10. \A i \in D : i \in Nat
  BY <1>1 DEF Real
<1>2. \A i \in D : i \in 1 .. n /\ boxes[i].area = area[i] /\ area[i] \in Nat
  BY <1>1 DEF Real
<1>3. \A i \in 1 .. n : area[i] \in Nat
  BY <1>1
<1>4. IsFiniteSet(Areas) /\ Areas \subseteq Nat /\ Areas # {}
  <2>1. IsFiniteSet({area[i] : i \in 1 .. n}) /\ {area[i] : i \in 1 .. n} \subseteq Nat
    <3> HIDE DEF area, n
    <3> QED BY <1>1, <1>3, BoundedValues
  <2>2. IsFiniteSet(Areas)
    BY <2>1, FS_Subset
  <2>3. Areas # {}
    BY <1>2
  <2> QED BY <2>1, <2>2, <2>3
<1>5. PICK a \in Areas : \A b \in Areas : b <= a
  <2> HIDE DEF Areas
  <2> QED BY <1>4, NatGreatest
<1>6. \A j \in D : boxes[j].area \in Areas
  BY <1>2
<1> DEFINE Firsts == {i \in D : boxes[i].area = a}
<1>7. Firsts \subseteq Nat /\ Firsts # {}
  <2>1. \A i \in D : i \in Nat
    BY <1>10
  <2>2. \E i \in D : boxes[i].area = a
    BY <1>5
  <2> QED BY <2>1, <2>2
<1>8. PICK i \in Firsts : \A j \in Firsts : i <= j
  <2> HIDE DEF Firsts
  <2> QED BY <1>7, NatLeast
<1>9. ASSUME NEW j \in D, j # i
      PROVE  Larger(boxes, i, j)
  <2>1. boxes[j].area \in Areas /\ boxes[j].area <= a /\ a \in Nat /\ boxes[j].area \in Int
    BY <1>1, <1>2, <1>4, <1>5, <1>6
  <2>2. boxes[i].area = a /\ i \in Nat /\ j \in Nat
    BY <1>8, <1>10
  <2>3. CASE boxes[j].area = a
    <3>1. i <= j
      BY <1>8, <2>3
    <3> QED BY <1>9, <2>2, <2>3, <3>1 DEF Larger
  <2>4. CASE boxes[j].area # a
    BY <2>1, <2>2, <2>4 DEF Larger
  <2> QED BY <2>3, <2>4
<1> QED
  BY <1>8, <1>9

LEMMA OneMoreBox ==
    ASSUME NEW boxes \in Seq(Box), NEW D, NEW picked, Upper(boxes, D), Selects(boxes, picked, D),
           NEW i \in Real(boxes) \ D, \A j \in Real(boxes) \ D : j # i => Larger(boxes, i, j)
    PROVE  Upper(boxes, D \cup {i}) /\ \E more : Selects(boxes, more, D \cup {i})
<1>1. \A j \in Real(boxes) : boxes[j].area \in Int /\ j \in Int
  <2>1. Len(boxes) \in Nat /\ DOMAIN boxes = 1 .. Len(boxes)
    BY LenProperties
  <2>2. \A j \in 1 .. Len(boxes) : boxes[j] \in Box
    BY ElementOfSeq
  <2> QED BY <2>1, <2>2 DEF Box, Real
<1>2. ~Larger(boxes, i, i) /\ \A j \in Real(boxes) : Larger(boxes, i, j) => ~Larger(boxes, j, i)
  BY <1>1 DEF Larger
<1>3. Upper(boxes, D \cup {i})
  BY <1>2 DEF Upper
<1>4. \A j \in D : ~Larger(boxes, i, j) /\ j # i
  BY DEF Upper
<1>5. CASE \E j \in picked : Larger(boxes, j, i) /\ i \in boxes[j].near
  <2>1. Selects(boxes, picked, D \cup {i})
    BY <1>4, <1>5 DEF Selects
  <2> QED BY <1>3, <2>1
<1>6. CASE ~\E j \in picked : Larger(boxes, j, i) /\ i \in boxes[j].near
  <2>1. Selects(boxes, picked \cup {i}, D \cup {i})
    BY <1>2, <1>4, <1>6 DEF Selects
  <2> QED BY <1>3, <2>1
<1> QED
  BY <1>5, <1>6

LEMMA SelectionExists ==
    ASSUME NEW boxes \in Seq(Box)
    PROVE  \E picked : Selects(boxes, picked, Real(boxes))
<1> DEFINE Done == {D \in SUBSET Real(boxes) : Upper(boxes, D) /\ \E picked : Selects(boxes, picked, D)}
           Sizes == {n \in 0 .. Len(boxes) : \E D \in Done : Cardinality(D) = n}
<1>1. Len(boxes) \in Nat /\ Real(boxes) \subseteq 1 .. Len(boxes)
  BY LenProperties DEF Real
<1>2. \A D \in SUBSET Real(boxes) : IsFiniteSet(D) /\ Cardinality(D) \in 0 .. Len(boxes)
  <2>1. IsFiniteSet(1 .. Len(boxes)) /\ Cardinality(1 .. Len(boxes)) = Len(boxes)
    <3>1. IsFiniteSet(1 .. Len(boxes))
          /\ Cardinality(1 .. Len(boxes)) = IF 1 > Len(boxes) THEN 0 ELSE Len(boxes) - 1 + 1
      BY <1>1, FS_Interval
    <3> QED BY <1>1, <3>1
  <2>2. ASSUME NEW D \in SUBSET Real(boxes)
        PROVE  IsFiniteSet(D) /\ Cardinality(D) \in 0 .. Len(boxes)
    <3>1. D \subseteq 1 .. Len(boxes)
      BY <1>1
    <3>2. IsFiniteSet(D) /\ Cardinality(D) <= Len(boxes)
      BY <2>1, <3>1, FS_Subset
    <3> QED BY <1>1, <3>2, FS_CardinalityType
  <2> QED BY <2>2
<1>3. {} \in Done
  BY DEF Upper, Selects
<1>4. Sizes \subseteq Nat /\ Sizes # {} /\ IsFiniteSet(Sizes)
  <2>1. IsFiniteSet(0 .. Len(boxes))
    BY <1>1, FS_Interval
  <2>2. IsFiniteSet(Sizes)
    BY <2>1, FS_Subset
  <2>3. Sizes # {}
    BY <1>2, <1>3
  <2> QED BY <1>1, <2>2, <2>3
<1>5. PICK n \in Sizes : \A m \in Sizes : m <= n
  <2> HIDE DEF Sizes
  <2> QED BY <1>4, NatGreatest
<1>6. PICK D \in Done : Cardinality(D) = n
  BY <1>5
<1>7. PICK picked : Selects(boxes, picked, D)
  BY <1>6
<1>8. CASE Real(boxes) \ D = {}
  <2>1. D = Real(boxes)
    BY <1>6, <1>8
  <2> QED BY <1>7, <2>1
<1>9. CASE Real(boxes) \ D # {}
  <2>1. PICK i \in Real(boxes) \ D : \A j \in Real(boxes) \ D : j # i => Larger(boxes, i, j)
    BY <1>9, LargestBox
  <2>2. D \cup {i} \in Done
    <3>1. Upper(boxes, D) /\ D \cup {i} \subseteq Real(boxes)
      BY <1>6, <2>1
    <3>2. Upper(boxes, D \cup {i}) /\ \E more : Selects(boxes, more, D \cup {i})
      BY <1>7, <2>1, <3>1, OneMoreBox
    <3> QED BY <3>1, <3>2
  <2>3. Cardinality(D \cup {i}) = n + 1
    BY <1>2, <1>6, <2>1, FS_AddElement
  <2>4. Cardinality(D \cup {i}) \in Sizes
    BY <1>2, <2>2
  <2>5. n \in Nat /\ n + 1 <= n
    BY <1>4, <1>5, <2>3, <2>4
  <2> QED BY <2>5
<1> QED
  BY <1>8, <1>9

(* _select_enrollment_face_box: the boxes kept are a selection.            *)
LEMMA DistinctSelects ==
    ASSUME NEW boxes \in Seq(Box)
    PROVE  /\ Distinct(boxes) \subseteq Real(boxes)
           /\ \A j \in Real(boxes) \ Distinct(boxes) :
                 \E k \in Real(boxes) : Larger(boxes, k, j) /\ j \in boxes[k].near
<1>1. PICK picked : Selects(boxes, picked, Real(boxes))
  BY SelectionExists
<1>2. picked \in SUBSET {i \in DOMAIN boxes : boxes[i].area > 0}
  BY <1>1 DEF Selects, Real
<1>3. \A i \in DOMAIN boxes : boxes[i].area > 0 =>
         (i \in picked <=> ~\E j \in picked : Larger(boxes, j, i) /\ i \in boxes[j].near)
  BY <1>1 DEF Selects, Real
<1>4. /\ Distinct(boxes) \in SUBSET {i \in DOMAIN boxes : boxes[i].area > 0}
      /\ \A i \in DOMAIN boxes : boxes[i].area > 0 =>
            (i \in Distinct(boxes) <=>
                ~\E j \in Distinct(boxes) : Larger(boxes, j, i) /\ i \in boxes[j].near)
  BY <1>2, <1>3 DEF Distinct
<1> QED
  BY <1>4 DEF Real

(* What the inspection of a photo says, and what it has found when it says *)
(* nothing against the photo.                                              *)
LEMMA InspectionVerdict ==
    ASSUME NEW photo \in Photo
    PROVE  /\ Inspected(photo) \in Verdicts
           /\ Inspected(photo) = "accepted" => ChosenBoxes(photo) # {} /\ photo.face \in Seen
<1>1. Len(photo.boxes) \in Nat /\ photo.face \in Seen \cup {"none", "invalid"} /\ photo.flaws \subseteq Flaws
  BY LenProperties DEF Photo
<1>2. \A k \in Nat : QualityFailure(photo, k) \in Verdicts /\ (k # 1 => QualityFailure(photo, k) # "accepted")
  BY DEF QualityFailure, Verdicts, Flaws
<1>3. Unselected(photo) \in Verdicts /\ Unselected(photo) # "accepted"
  BY <1>1, <1>2 DEF Unselected, Verdicts, Flaws
<1>4. QualityFailure(photo, 1) \in Verdicts
  BY <1>2
<1> QED
  BY <1>1, <1>3, <1>4 DEF Inspected, Verdicts, Flaws

LEMMA CurrentPhoto ==
    ASSUME NEW u \in Uploads, UploadShape(u), PhotosLeft(u)
    PROVE  /\ Len(upload[u].checks) \in Nat /\ Len(upload[u].checks) + 1 \in DOMAIN Album(u)
           /\ Current(u) \in Photo
<1>1. Len(upload[u].checks) \in Nat /\ Album(u) \in Seq(Photo)
  <2>1. upload[u].checks \in Seq(Verdicts) /\ upload[u].request \in Requests
    BY DEF UploadShape
  <2> QED BY <2>1, LenProperties, RequestsAssumption DEF Album, Asked
<1>2. Len(Album(u)) \in Nat /\ DOMAIN Album(u) = 1 .. Len(Album(u))
  BY <1>1, LenProperties
<1>3. Len(upload[u].checks) + 1 \in 1 .. Len(Album(u))
  BY <1>1, <1>2 DEF PhotosLeft, Album
<1>4. Current(u) \in Photo
  BY <1>1, <1>3, ElementOfSeq DEF Current, Album
<1> QED
  BY <1>1, <1>2, <1>3, <1>4

LEMMA SameUpload ==
    ASSUME NEW v, upload'[v] = upload[v]
    PROVE  /\ Running(v)' <=> Running(v)
           /\ UploadShape(v) => UploadShape(v)'
           /\ PhotosSeen(v) => PhotosSeen(v)'
BY DEF Running, UploadShape, PhotosSeen, PhotosLeft, Current, Album, Asked, Inspected

(* A step of one upload that stores nothing.                               *)
LEMMA QuietStep ==
    ASSUME EnrolInv, UNCHANGED <<rows, doubtful>>, NEW u \in Uploads, Running(u),
           upload' = [v \in Uploads |-> upload'[v]],
           \A v \in Uploads : v # u => upload'[v] = upload[v],
           upload'[u] # Waiting => UploadShape(u)' /\ PhotosSeen(u)' /\
               upload'[u].mine = upload[u].mine /\ upload'[u].alone = upload[u].alone
    PROVE  EnrolKept
<1>1. UploadsInv'
  <2>1. ASSUME NEW v \in Uploads, upload'[v] # Waiting
        PROVE  UploadShape(v)' /\ PhotosSeen(v)'
    <3>1. CASE v = u
      BY <2>1, <3>1
    <3>2. CASE v # u
      BY <2>1, <3>2, SameUpload DEF EnrolInv, UploadsInv
    <3> QED BY <3>1, <3>2
  <2> QED BY <2>1 DEF UploadsInv
<1>2. TableInv'
  <2>1. ASSUME NEW v \in Uploads, upload[v] # Waiting, upload[v].step = "ended"
        PROVE  upload'[v] = upload[v]
    BY <2>1 DEF Running
  <2>2. ASSUME NEW v \in Uploads, NEW n \in Nat, <<v, n>> \in DOMAIN rows'
        PROVE  upload'[v] # Waiting /\ upload'[v].step = "ended"
    BY <2>1, <2>2 DEF EnrolInv, TableInv
  <2> QED BY <2>2 DEF EnrolInv, TableInv
<1>3. \A v \in Uploads : Running(v)' =>
         Running(v) /\ upload'[v].mine = upload[v].mine /\ upload'[v].alone = upload[v].alone
  <2>1. ASSUME NEW v \in Uploads, Running(v)', v # u
        PROVE  Running(v) /\ upload'[v].mine = upload[v].mine /\ upload'[v].alone = upload[v].alone
    BY <2>1, SameUpload
  <2>2. Running(u)' => upload'[u] # Waiting
    BY DEF Running
  <2> QED BY <2>1, <2>2
<1>4. ASSUME DistanceInv, NEW v \in Uploads, Running(v)', upload'[v].alone
      PROVE  AloneApart(v)'
  <2>1. AloneApart(v)
    BY <1>3, <1>4 DEF DistanceInv
  <2> QED BY <1>3, <1>4, <2>1 DEF AloneApart, Apart
<1>5. ASSUME DistanceInv PROVE DistanceInv'
  BY <1>4, <1>5 DEF DistanceInv, Apart
<1> QED
  BY <1>1, <1>2, <1>5 DEF EnrolInv, EnrolKept

LEMMA OneMoreCheck ==
    ASSUME NEW u \in Uploads, UploadShape(u), PhotosSeen(u), PhotosLeft(u), NEW code \in Verdicts,
           code = "accepted" => Inspected(Current(u)) = "accepted",
           upload'[u] = [f \in Fields |-> upload'[u][f]],
           upload'[u].step = "photo", upload'[u].checks = Append(upload[u].checks, code),
           upload'[u].request = upload[u].request, upload'[u].alone = upload[u].alone,
           upload'[u].mine = [i \in DOMAIN upload'[u].mine |-> upload'[u].mine[i]],
           \A i \in DOMAIN upload'[u].mine :
              /\ i \in DOMAIN upload[u].mine \/ i = <<u, Len(upload[u].checks) + 1>>
              /\ upload'[u].mine[i] \in Kept /\ upload'[u].mine[i].person = Asked(u).person
    PROVE  UploadShape(u)' /\ PhotosSeen(u)'
<1> DEFINE n == Len(upload[u].checks)
<1>1. n \in Nat /\ n + 1 \in DOMAIN Album(u) /\ n + 1 <= Len(Album(u)) /\ n = Len(upload[u].checks)
  <2>1. n \in Nat /\ n + 1 \in DOMAIN Album(u)
    BY CurrentPhoto
  <2>2. Album(u) \in Seq(Photo)
    BY RequestsAssumption DEF UploadShape, Album, Asked
  <2> QED BY <2>1, <2>2, LenProperties
<1>2. upload[u].checks \in Seq(Verdicts)
  BY DEF UploadShape
<1>3. /\ upload'[u].checks \in Seq(Verdicts) /\ Len(upload'[u].checks) = n + 1
      /\ \A i \in 1 .. n : upload'[u].checks[i] = upload[u].checks[i]
      /\ upload'[u].checks[n + 1] = code
  <2> DEFINE c == upload[u].checks
             d == upload'[u].checks
  <2>1. c \in Seq(Verdicts) /\ d = Append(c, code) /\ n = Len(c)
    BY <1>2
  <2> HIDE DEF c, d, n
  <2>2. d \in Seq(Verdicts)
    BY <2>1, AppendProperties
  <2>3. Len(d) = n + 1 /\ (\A i \in 1 .. n : d[i] = c[i]) /\ d[n + 1] = code
    BY <2>1, AppendProperties
  <2> QED BY <2>2, <2>3 DEF c, d
<1>4. Album(u)' = Album(u) /\ Asked(u)' = Asked(u)
  BY DEF Album, Asked
<1>5. DOMAIN upload'[u].checks = 1 .. n + 1 /\ DOMAIN upload[u].checks = 1 .. n
  BY <1>1, <1>2, <1>3, LenProperties
<1> HIDE DEF n
<1>6. \A i \in DOMAIN upload'[u].mine : \E k \in 1 .. n + 1 : i = <<u, k>>
  <2>1. \A i \in DOMAIN upload[u].mine : \E k \in 1 .. n : i = <<u, k>>
    BY <1>1 DEF UploadShape
  <2>2. n + 1 \in 1 .. n + 1 /\ \A k \in 1 .. n : k \in 1 .. n + 1
    BY <1>1
  <2> QED BY <1>1, <2>1, <2>2
<1>7. UploadShape(u)'
  <2>1. upload'[u].request \in Requests /\ upload'[u].alone \in BOOLEAN
    BY DEF UploadShape
  <2> QED BY <1>1, <1>3, <1>4, <1>6, <2>1 DEF UploadShape
<1>8. ASSUME NEW i \in 1 .. n + 1, upload'[u].checks[i] = "accepted"
      PROVE  Inspected(Album(u)[i]) = "accepted"
  <2>1. CASE i \in 1 .. n
    BY <1>3, <1>5, <1>8, <2>1 DEF PhotosSeen
  <2>2. CASE i = n + 1
    BY <1>1, <1>3, <1>8, <2>2 DEF Current, Album
  <2> QED BY <1>1, <2>1, <2>2
<1>9. PhotosSeen(u)'
  <2>1. \A i \in DOMAIN upload'[u].checks :
           upload'[u].checks[i] = "accepted" => Inspected(Album(u)'[i]) = "accepted"
    BY <1>4, <1>5, <1>8
  <2> QED BY <2>1 DEF PhotosSeen, Inspected
<1> QED
  BY <1>7, <1>9

LEMMA NotWaiting == ASSUME NEW x, x.step # "waiting" PROVE x # Waiting
BY DEF Waiting

(* A step of an upload that asks, checks and stores nothing new.           *)
LEMMA ShapeKept ==
    ASSUME NEW v, UploadShape(v), upload'[v] = [f \in Fields |-> upload'[v][f]],
           upload'[v].step \in {"photo", "compare", "ended"}, upload'[v].alone \in BOOLEAN,
           upload'[v].request = upload[v].request, upload'[v].checks = upload[v].checks,
           upload'[v].mine = upload[v].mine
    PROVE  UploadShape(v)' /\ Album(v)' = Album(v) /\ Asked(v)' = Asked(v)
<1>1. Album(v)' = Album(v) /\ Asked(v)' = Asked(v)
  BY DEF Album, Asked
<1>2. UploadShape(v)'
  BY <1>1 DEF UploadShape
<1> QED
  BY <1>1, <1>2

LEMMA InspectKeeps == \A u \in Uploads : EnrolInv /\ Inspect(u) => EnrolKept
<1> SUFFICES ASSUME NEW u \in Uploads, EnrolInv, Inspect(u) PROVE EnrolKept
  OBVIOUS
<1> DEFINE verdict == Inspected(Current(u))
<1>1. /\ PhotosLeft(u) /\ upload[u].step = "photo" /\ Running(u) /\ UNCHANGED <<rows, doubtful>>
      /\ upload' = [upload EXCEPT
            ![u].step = IF verdict = "accepted" THEN "compare" ELSE "photo",
            ![u].checks = IF verdict = "accepted" THEN @ ELSE Append(@, verdict)]
  BY DEF Inspect, PhotosLeft
<1>2. UploadShape(u) /\ PhotosSeen(u) /\ upload = [v \in Uploads |-> upload[v]]
  BY <1>1 DEF EnrolInv, UploadsInv, Running
<1>3. verdict \in Verdicts
  BY <1>1, <1>2, CurrentPhoto, InspectionVerdict
<1> HIDE DEF verdict
<1>4. /\ upload'[u] = [f \in Fields |-> upload'[u][f]]
      /\ upload'[u].step = IF verdict = "accepted" THEN "compare" ELSE "photo"
      /\ upload'[u].checks = IF verdict = "accepted" THEN upload[u].checks ELSE Append(upload[u].checks, verdict)
      /\ upload'[u].request = upload[u].request /\ upload'[u].mine = upload[u].mine
      /\ upload'[u].alone = upload[u].alone
  BY <1>1, <1>2 DEF UploadShape, Fields
<1>5. upload' = [v \in Uploads |-> upload'[v]] /\ \A v \in Uploads : v # u => upload'[v] = upload[v]
  BY <1>1, <1>2
<1>6. UploadShape(u)' /\ PhotosSeen(u)'
  <2>1. CASE verdict = "accepted"
    <3>1. upload'[u].step = "compare" /\ upload'[u].checks = upload[u].checks
      BY <1>4, <2>1
    <3>2. upload'[u].alone \in BOOLEAN
      BY <1>2, <1>4 DEF UploadShape
    <3>3. UploadShape(u)' /\ Album(u)' = Album(u) /\ Asked(u)' = Asked(u)
      BY <1>2, <1>4, <3>1, <3>2, ShapeKept
    <3>7. Running(u)'
      BY <3>1, NotWaiting DEF Running
    <3>4. PhotosLeft(u)' /\ Current(u)' = Current(u)
      BY <1>1, <3>1, <3>3, <3>7 DEF PhotosLeft, Current, Album
    <3>5. Inspected(Current(u))' = verdict
      BY <3>4 DEF verdict, Inspected
    <3>6. PhotosSeen(u)'
      BY <1>2, <2>1, <3>1, <3>3, <3>4, <3>5 DEF PhotosSeen, Inspected
    <3> QED BY <3>3, <3>6
  <2>2. CASE verdict # "accepted"
    <3>1. \A i \in DOMAIN upload'[u].mine :
             /\ i \in DOMAIN upload[u].mine \/ i = <<u, Len(upload[u].checks) + 1>>
             /\ upload'[u].mine[i] \in Kept /\ upload'[u].mine[i].person = Asked(u).person
      BY <1>2, <1>4 DEF UploadShape
    <3>2. upload'[u].mine = [i \in DOMAIN upload'[u].mine |-> upload'[u].mine[i]]
      BY <1>2, <1>4 DEF UploadShape
    <3>3. upload'[u].step = "photo" /\ upload'[u].checks = Append(upload[u].checks, verdict)
      BY <1>4, <2>2
    <3> QED BY <1>1, <1>2, <1>3, <1>4, <2>2, <3>1, <3>2, <3>3, OneMoreCheck
  <2> QED BY <2>1, <2>2
<1> QED
  BY <1>1, <1>4, <1>5, <1>6, QuietStep

(* A photo that is turned down stores nothing.                             *)
LEMMA RejectKeeps ==
    ASSUME EnrolInv, NEW u \in Uploads, NEW code \in Verdicts \ {"accepted"}, PhotosLeft(u),
           Reject(u, code), UNCHANGED <<rows, doubtful>>
    PROVE  EnrolKept
<1>1. UploadShape(u) /\ PhotosSeen(u) /\ upload = [v \in Uploads |-> upload[v]] /\ Running(u)
  BY DEF EnrolInv, UploadsInv, Running, PhotosLeft
<1>2. /\ upload'[u] = [f \in Fields |-> upload'[u][f]]
      /\ upload'[u].step = "photo" /\ upload'[u].checks = Append(upload[u].checks, code)
      /\ upload'[u].request = upload[u].request /\ upload'[u].mine = upload[u].mine
      /\ upload'[u].alone = upload[u].alone
      /\ upload' = [v \in Uploads |-> upload'[v]] /\ \A v \in Uploads : v # u => upload'[v] = upload[v]
  BY <1>1 DEF Reject, UploadShape, Fields
<1>3. \A i \in DOMAIN upload'[u].mine :
         /\ i \in DOMAIN upload[u].mine \/ i = <<u, Len(upload[u].checks) + 1>>
         /\ upload'[u].mine[i] \in Kept /\ upload'[u].mine[i].person = Asked(u).person
  BY <1>1, <1>2 DEF UploadShape
<1>4. upload'[u].mine = [i \in DOMAIN upload'[u].mine |-> upload'[u].mine[i]]
  BY <1>1, <1>2 DEF UploadShape
<1>5. UploadShape(u)' /\ PhotosSeen(u)'
  BY <1>1, <1>2, <1>3, <1>4, OneMoreCheck
<1> QED
  BY <1>1, <1>2, <1>5, QuietStep

LEMMA FindDuplicateKeeps == \A u \in Uploads : EnrolInv /\ FindDuplicate(u) => EnrolKept
<1> SUFFICES ASSUME NEW u \in Uploads, EnrolInv, FindDuplicate(u) PROVE EnrolKept
  OBVIOUS
<1>1. "duplicate_embedding" \in Verdicts \ {"accepted"}
  BY DEF Verdicts
<1> QED
  BY <1>1, RejectKeeps DEF FindDuplicate

LEMMA AbortUploadKeeps == \A u \in Uploads : EnrolInv /\ AbortUpload(u) => EnrolKept
<1> SUFFICES ASSUME NEW u \in Uploads, EnrolInv, AbortUpload(u) PROVE EnrolKept
  OBVIOUS
<1>1. Running(u) /\ UNCHANGED <<rows, doubtful>> /\ upload' = [upload EXCEPT ![u] = Waiting]
  BY DEF AbortUpload
<1>2. /\ upload' = [v \in Uploads |-> upload'[v]] /\ upload'[u] = Waiting
      /\ \A v \in Uploads : v # u => upload'[v] = upload[v]
  BY <1>1 DEF EnrolInv, UploadsInv
<1> QED
  BY <1>1, <1>2, QuietStep

LEMMA EnrolInvStutters == EnrolInv /\ UNCHANGED <<rows, upload, doubtful>> => EnrolKept
<1> SUFFICES ASSUME EnrolInv, UNCHANGED <<rows, upload, doubtful>> PROVE EnrolKept
  OBVIOUS
<1>1. UploadsInv'
  BY SameUpload DEF EnrolInv, UploadsInv
<1>2. TableInv'
  BY DEF EnrolInv, TableInv
<1>3. ASSUME DistanceInv PROVE DistanceInv'
  BY <1>3 DEF DistanceInv, AloneApart, Apart, Running
<1> QED
  BY <1>1, <1>2, <1>3 DEF EnrolInv, EnrolKept

LEMMA StartUploadKeeps == \A u \in Uploads, q \in Requests : EnrolInv /\ StartUpload(u, q) => EnrolKept
<1> SUFFICES ASSUME NEW u \in Uploads, NEW q \in Requests, EnrolInv, StartUpload(u, q) PROVE EnrolKept
  OBVIOUS
<1> DEFINE lone == \A v \in Uploads : ~Running(v)
<1>1. /\ upload[u] = Waiting /\ UNCHANGED <<rows, doubtful>>
      /\ upload' = [v \in Uploads |->
            IF v = u THEN [step |-> "photo", request |-> q, checks |-> <<>>, mine |-> <<>>, alone |-> lone]
            ELSE IF Running(v) THEN [upload[v] EXCEPT !.alone = FALSE] ELSE upload[v]]
  BY DEF StartUpload
<1>2. /\ upload'[u] = [f \in Fields |-> upload'[u][f]]
      /\ upload'[u].step = "photo" /\ upload'[u].request = q /\ upload'[u].checks = <<>>
      /\ upload'[u].mine = <<>> /\ upload'[u].alone = lone /\ lone \in BOOLEAN
  BY <1>1 DEF Fields
<1>3. ASSUME NEW v \in Uploads, v # u, Running(v)
      PROVE  /\ upload'[v] = [f \in Fields |-> upload'[v][f]]
             /\ upload'[v].step = upload[v].step /\ upload'[v].request = upload[v].request
             /\ upload'[v].checks = upload[v].checks /\ upload'[v].mine = upload[v].mine
             /\ upload'[v].alone = FALSE
  <2>1. UploadShape(v)
    BY <1>3 DEF EnrolInv, UploadsInv, Running
  <2> QED BY <1>1, <1>3, <2>1 DEF UploadShape, Fields
<1>4. \A v \in Uploads : v # u /\ ~Running(v) => upload'[v] = upload[v]
  BY <1>1
<1>5. upload' = [v \in Uploads |-> upload'[v]]
  BY <1>1
<1> HIDE DEF lone
<1>6. UploadShape(u)' /\ PhotosSeen(u)'
  <2>1. <<>> \in Seq(Verdicts) /\ Len(<<>>) = 0 /\ DOMAIN <<>> = {} /\ <<>> = [i \in DOMAIN <<>> |-> <<>>[i]]
    BY EmptySeq
  <2>2. q.album \in Seq(Photo) /\ Len(q.album) \in Nat
    BY RequestsAssumption, LenProperties
  <2>3. Album(u)' = q.album
    BY <1>2 DEF Album, Asked
  <2>4. UploadShape(u)'
    BY <1>2, <2>1, <2>2, <2>3 DEF UploadShape
  <2> QED BY <1>2, <2>1, <2>4 DEF PhotosSeen
<1>7. ASSUME NEW v \in Uploads, v # u, Running(v)
      PROVE  UploadShape(v)' /\ PhotosSeen(v)'
  <2>1. UploadShape(v) /\ PhotosSeen(v)
    BY <1>7 DEF EnrolInv, UploadsInv, Running
  <2>2. Album(v)' = Album(v) /\ Asked(v)' = Asked(v)
    BY <1>3, <1>7 DEF Album, Asked
  <2>3. UploadShape(v)'
    BY <1>3, <1>7, <2>1, <2>2 DEF UploadShape
  <2>8. upload[v].step \in {"photo", "compare", "ended"}
    BY <2>1 DEF UploadShape
  <2>4. Running(v)'
    BY <1>3, <1>7, <2>8, NotWaiting DEF Running
  <2>5. PhotosLeft(v)' <=> PhotosLeft(v)
    BY <1>3, <1>7, <2>2, <2>4 DEF PhotosLeft
  <2>6. Current(v)' = Current(v)
    BY <1>3, <1>7, <2>2 DEF Current
  <2>7. PhotosSeen(v)'
    <3>1. upload'[v].checks = upload[v].checks /\ upload'[v].step = upload[v].step
      BY <1>3, <1>7
    <3>2. (\A n \in DOMAIN upload[v].checks :
              upload[v].checks[n] = "accepted" => Inspected(Album(v)[n]) = "accepted")'
      BY <2>1, <2>2, <3>1 DEF PhotosSeen
    <3>3. (upload[v].step = "compare" => PhotosLeft(v) /\ Inspected(Current(v)) = "accepted")'
      BY <2>1, <2>5, <2>6, <3>1 DEF PhotosSeen
    <3> QED BY <3>2, <3>3 DEF PhotosSeen
  <2> QED BY <2>3, <2>7
<1>8. UploadsInv'
  <2>1. ASSUME NEW v \in Uploads, upload'[v] # Waiting
        PROVE  UploadShape(v)' /\ PhotosSeen(v)'
    <3>1. CASE v # u /\ ~Running(v)
      <4>1. upload'[v] = upload[v]
        BY <1>4, <3>1
      <4> QED BY <2>1, <4>1, SameUpload DEF EnrolInv, UploadsInv
    <3> QED BY <1>6, <1>7, <3>1
  <2> QED BY <1>5, <2>1 DEF UploadsInv
<1>9. TableInv'
  <2>1. ASSUME NEW v \in Uploads, upload[v] # Waiting, upload[v].step = "ended"
        PROVE  upload'[v] = upload[v]
    BY <1>1, <1>4, <2>1 DEF Running
  <2>2. ASSUME NEW v \in Uploads, NEW n \in Nat, <<v, n>> \in DOMAIN rows'
        PROVE  upload'[v] # Waiting /\ upload'[v].step = "ended"
    BY <1>1, <2>1, <2>2 DEF EnrolInv, TableInv
  <2> QED BY <1>1, <2>2 DEF EnrolInv, TableInv
<1>10. ASSUME NEW v \in Uploads, Running(v)', upload'[v].alone
       PROVE  AloneApart(v)'
  <2>1. v = u
    BY <1>3, <1>4, <1>10 DEF Running
  <2>2. lone
    BY <1>2, <1>10, <2>1
  <2>3. \A w \in Uploads : w # u => ~Running(w)'
    BY <1>4, <2>2, SameUpload DEF lone
  <2>4. DOMAIN upload'[u].mine = {}
    BY <1>2
  <2> QED BY <2>1, <2>3, <2>4 DEF AloneApart
<1>11. ASSUME DistanceInv PROVE DistanceInv'
  BY <1>1, <1>10, <1>11 DEF DistanceInv, Apart
<1> QED
  BY <1>8, <1>9, <1>11 DEF EnrolInv, EnrolKept

(* The template that a photo would become.                                 *)
Made(u, photo) ==
    [person |-> Asked(u).person, face |-> photo.face, pose |-> LabelUsed(u, photo), rank |-> "backup"]

LEMMA MadeIsKept ==
    ASSUME NEW u \in Uploads, UploadShape(u), PhotosSeen(u), upload[u].step = "compare"
    PROVE  /\ Current(u).face \in Seen /\ Inspected(Current(u)) = "accepted"
           /\ Made(u, Current(u)) \in Kept
<1>1. Current(u) \in Photo /\ Inspected(Current(u)) = "accepted"
  BY CurrentPhoto DEF PhotosSeen
<1>2. Current(u).face \in Seen
  BY <1>1, InspectionVerdict
<1>3. Asked(u).person \in People /\ Asked(u).label \in Labels
  BY RequestsAssumption DEF UploadShape, Asked
<1>4. Current(u).pose \in Labels
  BY <1>1 DEF Photo
<1>5. LabelUsed(u, Current(u)) \in Labels
  BY <1>3, <1>4 DEF LabelUsed
<1>6. Made(u, Current(u)) \in Kept
  BY <1>2, <1>3, <1>5 DEF Made, Kept, Ranks
<1> QED
  BY <1>1, <1>2, <1>6

(* The session of an upload sees the table, and what it added itself.      *)
LEMMA WhatIsVisible ==
    ASSUME EnrolInv, NEW u \in Uploads, Running(u)
    PROVE  /\ DOMAIN Visible(u) = DOMAIN rows \cup DOMAIN upload[u].mine
           /\ \A i \in DOMAIN rows : Visible(u)[i] = rows[i]
           /\ \A i \in DOMAIN upload[u].mine : i \notin DOMAIN rows /\ Visible(u)[i] = upload[u].mine[i]
           /\ \A i \in DOMAIN Visible(u) : Visible(u)[i] \in Kept
<1>1. UploadShape(u)
  BY DEF EnrolInv, UploadsInv, Running
<1>2. ASSUME NEW i \in DOMAIN upload[u].mine
      PROVE  i \notin DOMAIN rows
  <2>1. PICK n \in 1 .. Len(upload[u].checks) : i = <<u, n>>
    BY <1>1, <1>2 DEF UploadShape
  <2>2. n \in Nat
    BY <2>1
  <2> QED BY <2>1, <2>2 DEF EnrolInv, TableInv, Running
<1>3. DOMAIN Visible(u) = DOMAIN rows \cup DOMAIN upload[u].mine
  BY DEF Visible
<1>4. \A i \in DOMAIN rows : Visible(u)[i] = rows[i]
  BY DEF Visible
<1>5. \A i \in DOMAIN upload[u].mine : Visible(u)[i] = upload[u].mine[i]
  BY <1>2 DEF Visible
<1>6. \A i \in DOMAIN rows : rows[i] \in Kept
  BY DEF EnrolInv, TableInv
<1>7. \A i \in DOMAIN upload[u].mine : upload[u].mine[i] \in Kept
  BY <1>1 DEF UploadShape
<1> QED
  BY <1>2, <1>3, <1>4, <1>5, <1>6, <1>7

LEMMA ComparedIsApart ==
    ASSUME EnrolInv, NEW u \in Uploads, Running(u), NEW face \in Seen,
           OwnSimilarity(u, face) < DuplicateFrom, CollisionRisk(u, face) < CollisionFrom,
           NEW a, a.person = Asked(u).person, a.face = face
    PROVE  \A i \in DOMAIN Visible(u) :
              Visible(u)[i].rank # "quarantined" \/ Visible(u)[i].person = Asked(u).person
              => Apart(a, Visible(u)[i])
<1> DEFINE own == {Visible(u)[i].face : i \in {j \in DOMAIN Visible(u) : Visible(u)[j].person = Asked(u).person}}
           others == {Visible(u)[i].face :
                         i \in {j \in DOMAIN Visible(u) : /\ Visible(u)[j].person # Asked(u).person
                                                          /\ Visible(u)[j].rank # "quarantined"}}
<1>1. \A i \in DOMAIN Visible(u) : Visible(u)[i].face \in Seen
  BY WhatIsVisible DEF Kept
<1>2. own \in SUBSET Seen /\ others \in SUBSET Seen
  BY <1>1
<1>3. DuplicateFrom \in Int /\ CollisionFrom \in Int
  BY ThresholdsAssumption
<1>4. Closest(face, own) < DuplicateFrom
  BY Zenon DEF OwnSimilarity
<1>5. Closest(face, others) < CollisionFrom
  BY Zenon DEF CollisionRisk
<1>7. Closest(face, own) \in Int /\ \A g \in own : Similarity[<<face, g>>] < DuplicateFrom
  BY <1>2, <1>3, <1>4, CloserThanAll, Zenon
<1>8. Closest(face, others) \in Int /\ \A g \in others : Similarity[<<face, g>>] < CollisionFrom
  BY <1>2, <1>3, <1>5, CloserThanAll, Zenon
<1>6. ASSUME NEW i \in DOMAIN Visible(u),
             Visible(u)[i].rank # "quarantined" \/ Visible(u)[i].person = Asked(u).person
      PROVE  Apart(a, Visible(u)[i])
  <2>1. CASE Visible(u)[i].person = Asked(u).person
    <3>1. Visible(u)[i].face \in own
      BY <2>1
    <3> HIDE DEF own
    <3>2. Similarity[<<face, Visible(u)[i].face>>] < DuplicateFrom
      BY <1>7, <3>1
    <3> QED BY <2>1, <3>2 DEF Apart
  <2>2. CASE Visible(u)[i].person # Asked(u).person
    <3>1. Visible(u)[i].face \in others
      BY <1>6, <2>2
    <3> HIDE DEF others
    <3>2. Similarity[<<face, Visible(u)[i].face>>] < CollisionFrom
      BY <1>8, <3>1
    <3> QED BY <2>2, <3>2 DEF Apart
  <2> QED BY <2>1, <2>2
<1> QED
  BY <1>6

LEMMA RiskIsANumber ==
    ASSUME EnrolInv, NEW u \in Uploads, Running(u), NEW face \in Seen
    PROVE  CollisionRisk(u, face) \in Int
<1> DEFINE others == {Visible(u)[i].face :
                         i \in {j \in DOMAIN Visible(u) : /\ Visible(u)[j].person # Asked(u).person
                                                          /\ Visible(u)[j].rank # "quarantined"}}
<1>1. \A i \in DOMAIN Visible(u) : Visible(u)[i].face \in Seen
  BY WhatIsVisible DEF Kept
<1>2. others \in SUBSET Seen
  BY <1>1
<1>3. CollisionRisk(u, face) = Closest(face, others)
  BY Zenon DEF CollisionRisk
<1> HIDE DEF others
<1> QED
  BY <1>2, <1>3, CloserThanAll

LEMMA ApartBothWays == ASSUME NEW a \in Kept, NEW b \in Kept, Apart(a, b) PROVE Apart(b, a)
<1>1. a.face \in Seen /\ b.face \in Seen
  BY DEF Kept
<1>2. Similarity[<<a.face, b.face>>] = Similarity[<<b.face, a.face>>]
  BY <1>1, SimilarityAssumption
<1> QED
  BY <1>2 DEF Apart

LEMMA AcceptKeeps ==
    ASSUME EnrolInv, NEW u \in Uploads, PhotosLeft(u), upload[u].step = "compare",
           OwnSimilarity(u, Current(u).face) < DuplicateFrom,
           CollisionRisk(u, Current(u).face) < CollisionFrom,
           UNCHANGED <<rows, doubtful>>, NEW id, id = <<u, Len(upload[u].checks) + 1>>,
           upload' = [upload EXCEPT
               ![u].step = "photo", ![u].checks = Append(@, "accepted"),
               ![u].mine = [i \in DOMAIN @ \cup {id} |-> IF i = id THEN Made(u, Current(u)) ELSE @[i]]]
    PROVE  EnrolKept
<1> DEFINE new == Made(u, Current(u))
           mine == upload[u].mine
<1>1. UploadShape(u) /\ PhotosSeen(u) /\ upload = [v \in Uploads |-> upload[v]] /\ Running(u)
  BY DEF EnrolInv, UploadsInv, Running, PhotosLeft
<1>2. Current(u).face \in Seen /\ Inspected(Current(u)) = "accepted" /\ new \in Kept
  BY <1>1, MadeIsKept
<1>3. new.person = Asked(u).person /\ new.face = Current(u).face
  BY DEF Made
<1> HIDE DEF new
<1>4. /\ upload'[u] = [f \in Fields |-> upload'[u][f]]
      /\ upload'[u].step = "photo" /\ upload'[u].checks = Append(upload[u].checks, "accepted")
      /\ upload'[u].request = upload[u].request /\ upload'[u].alone = upload[u].alone
  <2> DEFINE was == upload[u]
             is == upload'[u]
             longer == Append(upload[u].checks, "accepted")
             more == [i \in DOMAIN mine \cup {id} |-> IF i = id THEN Made(u, Current(u)) ELSE mine[i]]
  <2>1. is = [was EXCEPT !.step = "photo", !.checks = longer, !.mine = more]
    BY <1>1
  <2>2. was = [f \in Fields |-> was[f]]
    BY <1>1 DEF UploadShape
  <2>3. /\ is = [f \in Fields |-> is[f]]
        /\ is.step = "photo" /\ is.checks = longer /\ is.request = was.request /\ is.alone = was.alone
    <3> HIDE DEF was, is, longer, more, mine
    <3>1. is = [f \in Fields |-> IF f = "mine" THEN more ELSE IF f = "checks" THEN longer
                                 ELSE IF f = "step" THEN "photo" ELSE was[f]]
      BY <2>1, <2>2 DEF Fields
    <3> QED BY <3>1 DEF Fields
  <2> QED BY <2>3
<1>15. upload'[u].mine = [i \in DOMAIN mine \cup {id} |-> IF i = id THEN new ELSE mine[i]]
  BY <1>1 DEF UploadShape, Fields, new
<1>5. upload' = [v \in Uploads |-> upload'[v]] /\ \A v \in Uploads : v # u => upload'[v] = upload[v]
  BY <1>1
<1>6. /\ DOMAIN upload'[u].mine = DOMAIN mine \cup {id}
      /\ upload'[u].mine = [i \in DOMAIN upload'[u].mine |-> upload'[u].mine[i]]
      /\ upload'[u].mine[id] = new /\ \A i \in DOMAIN mine \ {id} : upload'[u].mine[i] = mine[i]
  <2> DEFINE more == upload'[u].mine
  <2>1. more = [i \in DOMAIN mine \cup {id} |-> IF i = id THEN new ELSE mine[i]]
    BY <1>15
  <2> HIDE DEF more, mine
  <2> QED BY <2>1 DEF more
<1>7. \A i \in DOMAIN mine : mine[i] \in Kept /\ mine[i].person = Asked(u).person
  BY <1>1 DEF UploadShape
<1>8. UploadShape(u)' /\ PhotosSeen(u)'
  <2>1. \A i \in DOMAIN upload'[u].mine :
           /\ i \in DOMAIN upload[u].mine \/ i = <<u, Len(upload[u].checks) + 1>>
           /\ upload'[u].mine[i] \in Kept /\ upload'[u].mine[i].person = Asked(u).person
    BY <1>2, <1>3, <1>6, <1>7
  <2>2. "accepted" \in Verdicts
    BY DEF Verdicts
  <2> HIDE DEF mine
  <2> QED BY <1>1, <1>2, <1>4, <1>6, <2>1, <2>2, OneMoreCheck
<1>9. UploadsInv'
  <2>1. ASSUME NEW v \in Uploads, upload'[v] # Waiting
        PROVE  UploadShape(v)' /\ PhotosSeen(v)'
    <3>1. CASE v = u
      BY <1>8, <3>1
    <3>2. CASE v # u
      BY <1>5, <2>1, <3>2, SameUpload DEF EnrolInv, UploadsInv
    <3> QED BY <3>1, <3>2
  <2> QED BY <1>5, <2>1 DEF UploadsInv
<1>10. TableInv'
  <2>1. ASSUME NEW v \in Uploads, upload[v] # Waiting, upload[v].step = "ended"
        PROVE  upload'[v] = upload[v]
    BY <1>1, <1>5, <2>1 DEF Running
  <2>2. ASSUME NEW v \in Uploads, NEW n \in Nat, <<v, n>> \in DOMAIN rows'
        PROVE  upload'[v] # Waiting /\ upload'[v].step = "ended"
    BY <2>1, <2>2 DEF EnrolInv, TableInv
  <2> QED BY <2>2 DEF EnrolInv, TableInv
<1>11. \A i \in DOMAIN rows \ doubtful : Apart(new, rows[i])
  <2>1. ASSUME NEW i \in DOMAIN rows \ doubtful
        PROVE  Apart(new, rows[i])
    <3>1. i \in DOMAIN Visible(u) /\ Visible(u)[i] = rows[i]
      BY <1>1, WhatIsVisible
    <3>2. rows[i].rank # "quarantined"
      BY DEF EnrolInv, TableInv
    <3> QED BY <1>1, <1>2, <1>3, <3>1, <3>2, ComparedIsApart
  <2> QED BY <2>1
<1>12. \A i \in DOMAIN mine : Apart(new, mine[i])
  <2>1. ASSUME NEW i \in DOMAIN mine
        PROVE  Apart(new, mine[i])
    <3>1. i \in DOMAIN Visible(u) /\ Visible(u)[i] = mine[i]
      BY <1>1, WhatIsVisible
    <3> QED BY <1>1, <1>2, <1>3, <1>7, <3>1, ComparedIsApart
  <2> QED BY <2>1
<1> HIDE DEF mine
<1>13. ASSUME DistanceInv, NEW v \in Uploads, Running(v)', upload'[v].alone
       PROVE  AloneApart(v)'
  <2>1. \A w \in Uploads : Running(w)' => Running(w)
    BY <1>1, <1>5, SameUpload
  <2>2. upload[v].alone /\ Running(v)
    BY <1>4, <1>5, <1>13, <2>1
  <2>3. AloneApart(v) /\ v = u
    BY <1>1, <1>13, <2>2 DEF DistanceInv, AloneApart
  <2>4. \A i, j \in DOMAIN upload'[u].mine : i # j => Apart(upload'[u].mine[i], upload'[u].mine[j])
    <3>1. ASSUME NEW i \in DOMAIN mine \ {id}
          PROVE  Apart(new, mine[i]) /\ Apart(mine[i], new)
      BY <1>2, <1>7, <1>12, <3>1, ApartBothWays
    <3>2. \A i, j \in DOMAIN mine : i # j => Apart(mine[i], mine[j])
      BY <2>3 DEF AloneApart, mine
    <3>3. ASSUME NEW i \in DOMAIN upload'[u].mine, NEW j \in DOMAIN upload'[u].mine, i # j
          PROVE  Apart(upload'[u].mine[i], upload'[u].mine[j])
      <4>1. CASE i = id
        BY <1>6, <3>1, <3>3, <4>1
      <4>2. CASE j = id
        BY <1>6, <3>1, <3>3, <4>2
      <4>3. CASE i # id /\ j # id
        <5>1. i \in DOMAIN mine \ {id} /\ j \in DOMAIN mine \ {id}
          BY <1>6, <4>3
        <5>2. Apart(mine[i], mine[j])
          BY <3>2, <3>3, <5>1
        <5> QED BY <1>6, <5>1, <5>2
      <4> QED BY <4>1, <4>2, <4>3
    <3> QED BY <3>3
  <2>5. \A i \in DOMAIN upload'[u].mine, j \in DOMAIN rows' \ doubtful' :
            Apart(upload'[u].mine[i], rows'[j])
    <3>1. \A i \in DOMAIN mine, j \in DOMAIN rows \ doubtful : Apart(mine[i], rows[j])
      BY <2>3 DEF AloneApart, mine
    <3> QED BY <1>6, <1>11, <3>1, ZenonT(60)
  <2>6. \A w \in Uploads : Running(w)' => w = u
    BY <2>1, <2>3 DEF AloneApart
  <2>7. AloneApart(u)'
    BY <2>4, <2>5, <2>6, Zenon DEF AloneApart, Apart
  <2> QED BY <2>3, <2>7
<1>14. ASSUME DistanceInv PROVE DistanceInv'
  <2>1. \A i, j \in DOMAIN rows' \ doubtful' : i # j => Apart(rows[i], rows[j])'
    BY <1>14 DEF DistanceInv, Apart
  <2> QED BY <1>13, <1>14, <2>1, Zenon DEF DistanceInv, Apart
<1> QED
  BY <1>9, <1>10, <1>14 DEF EnrolInv, EnrolKept

LEMMA CompareWithOthersKeeps == \A u \in Uploads : EnrolInv /\ CompareWithOthers(u) => EnrolKept
<1> SUFFICES ASSUME NEW u \in Uploads, EnrolInv, CompareWithOthers(u) PROVE EnrolKept
  OBVIOUS
<1>1. /\ PhotosLeft(u) /\ upload[u].step = "compare" /\ UNCHANGED <<rows, doubtful>>
      /\ OwnSimilarity(u, Current(u).face) < DuplicateFrom
  BY DEF CompareWithOthers
<1>2. CASE CollisionRisk(u, Current(u).face) >= CollisionFrom
  <2>1. "collision_risk" \in Verdicts \ {"accepted"}
    BY DEF Verdicts
  <2>2. Reject(u, "collision_risk")
    BY <1>2, Zenon DEF CompareWithOthers
  <2> QED BY <1>1, <2>1, <2>2, RejectKeeps
<1>3. CASE ~(CollisionRisk(u, Current(u).face) >= CollisionFrom)
  <2>1. PICK id : id = <<u, Len(upload[u].checks) + 1>>
    OBVIOUS
  <2>2. upload' = [upload EXCEPT
            ![u].step = "photo", ![u].checks = Append(@, "accepted"),
            ![u].mine = [i \in DOMAIN @ \cup {id} |-> IF i = id THEN Made(u, Current(u)) ELSE @[i]]]
    BY <1>3, <2>1 DEF CompareWithOthers, Made
  <2>3. CollisionRisk(u, Current(u).face) < CollisionFrom
    <3>1. UploadShape(u) /\ PhotosSeen(u) /\ Running(u)
      BY <1>1 DEF EnrolInv, UploadsInv, Running, PhotosLeft
    <3>2. CollisionRisk(u, Current(u).face) \in Int
      BY <1>1, <3>1, MadeIsKept, RiskIsANumber
    <3> QED BY <1>3, <3>2, ThresholdsAssumption
  <2> QED BY <1>1, <2>1, <2>2, <2>3, AcceptKeeps
<1> QED
  BY <1>2, <1>3

(* The closing statements of an upload: what was its own joins the table,  *)
(* and ranks are given anew, with nobody changing person or face.          *)
LEMMA ConcludedRows ==
    ASSUME EnrolInv, NEW u \in Uploads, Running(u), Conclude(u)
    PROVE  /\ rows' = [i \in DOMAIN rows' |-> rows'[i]]
           /\ DOMAIN rows' = DOMAIN rows \cup DOMAIN upload[u].mine
           /\ \A i \in DOMAIN rows' :
                 /\ rows'[i] \in Kept
                 /\ rows'[i].person = Visible(u)[i].person /\ rows'[i].face = Visible(u)[i].face
                 /\ rows'[i].rank = "quarantined" => i \in doubtful'
           /\ doubtful \subseteq doubtful'
           /\ ~upload[u].alone => DOMAIN upload[u].mine \subseteq doubtful'
<1> DEFINE all == Visible(u)
           own == {i \in DOMAIN all : all[i].person = Asked(u).person}
<1>1. PICK o \in Orders(all, own) :
         /\ rows' = [i \in DOMAIN all |->
                       IF i \in own THEN [all[i] EXCEPT !.rank = Placed(all, o, i)] ELSE all[i]]
         /\ doubtful' = doubtful \cup {i \in own : rows'[i].rank = "quarantined"}
                        \cup (IF upload[u].alone THEN {} ELSE DOMAIN upload[u].mine)
  BY Zenon DEF Conclude
<1>2. /\ DOMAIN all = DOMAIN rows \cup DOMAIN upload[u].mine
      /\ \A i \in DOMAIN rows : all[i] = rows[i]
      /\ \A i \in DOMAIN upload[u].mine : all[i] = upload[u].mine[i]
      /\ \A i \in DOMAIN all : all[i] \in Kept
  BY WhatIsVisible
<1>3. \A i \in DOMAIN upload[u].mine : upload[u].mine[i].person = Asked(u).person
  BY DEF EnrolInv, UploadsInv, UploadShape, Running
<1>4. \A i \in own : Placed(all, o, i) \in Ranks
  BY DEF Placed, Ranks
<1> HIDE DEF all
<1>5. ASSUME NEW i \in DOMAIN all
      PROVE  /\ rows'[i] \in Kept
             /\ rows'[i].person = all[i].person /\ rows'[i].face = all[i].face
  <2>1. CASE i \in own
    <3> DEFINE r == Placed(all, o, i)
               a == all[i]
               b == rows'[i]
    <3>1. b = [a EXCEPT !.rank = r] /\ r \in Ranks /\ a \in Kept
      BY <1>1, <1>2, <1>4, <2>1
    <3> HIDE DEF a, b, r
    <3>2. b \in Kept /\ b.person = a.person /\ b.face = a.face
      BY <3>1 DEF Kept
    <3> QED BY <3>2 DEF a, b
  <2>2. CASE i \notin own
    BY <1>1, <1>2, <2>2
  <2> QED BY <2>1, <2>2
<1>6. DOMAIN rows' = DOMAIN all /\ rows' = [i \in DOMAIN rows' |-> rows'[i]]
  BY <1>1
<1>7. ASSUME NEW i \in DOMAIN all, rows'[i].rank = "quarantined"
      PROVE  i \in doubtful'
  <2>1. CASE i \in own
    BY <1>1, <1>7, <2>1
  <2>2. CASE i \notin own
    <3>1. rows'[i] = all[i]
      BY <1>1, <2>2
    <3>2. i \in DOMAIN rows
      BY <1>2, <1>3, <2>2
    <3>3. rows[i].rank = "quarantined"
      BY <1>2, <1>7, <3>1, <3>2
    <3> QED BY <1>1, <3>2, <3>3 DEF EnrolInv, TableInv
  <2> QED BY <2>1, <2>2
<1>8. doubtful \subseteq doubtful' /\ (~upload[u].alone => DOMAIN upload[u].mine \subseteq doubtful')
  BY <1>1
<1> QED
  BY <1>2, <1>5, <1>6, <1>7, <1>8 DEF all

LEMMA ConcludeKeeps == \A u \in Uploads : EnrolInv /\ Conclude(u) => EnrolKept
<1> SUFFICES ASSUME NEW u \in Uploads, EnrolInv, Conclude(u) PROVE EnrolKept
  OBVIOUS
<1>1. Running(u) /\ upload' = [upload EXCEPT ![u].step = "ended"]
  BY DEF Conclude
<1>2. UploadShape(u) /\ PhotosSeen(u) /\ upload = [v \in Uploads |-> upload[v]]
  BY <1>1 DEF EnrolInv, UploadsInv, Running
<1>3. /\ upload'[u] = [f \in Fields |-> upload'[u][f]] /\ upload'[u].step = "ended"
      /\ upload'[u].checks = upload[u].checks /\ upload'[u].request = upload[u].request
      /\ upload'[u].mine = upload[u].mine /\ upload'[u].alone = upload[u].alone
  BY <1>1, <1>2 DEF UploadShape, Fields
<1>4. upload' = [v \in Uploads |-> upload'[v]] /\ \A v \in Uploads : v # u => upload'[v] = upload[v]
  BY <1>1, <1>2
<1>5. UploadShape(u)' /\ PhotosSeen(u)'
  <2>1. upload'[u].alone \in BOOLEAN
    BY <1>2, <1>3 DEF UploadShape
  <2>2. UploadShape(u)' /\ Album(u)' = Album(u)
    BY <1>2, <1>3, <2>1, ShapeKept
  <2>3. PhotosSeen(u)'
    BY <1>2, <1>3, <2>2 DEF PhotosSeen, Inspected
  <2> QED BY <2>2, <2>3
<1>6. UploadsInv'
  <2>1. ASSUME NEW v \in Uploads, upload'[v] # Waiting
        PROVE  UploadShape(v)' /\ PhotosSeen(v)'
    <3>1. CASE v = u
      BY <1>5, <3>1
    <3>2. CASE v # u
      BY <1>4, <2>1, <3>2, SameUpload DEF EnrolInv, UploadsInv
    <3> QED BY <3>1, <3>2
  <2> QED BY <1>4, <2>1 DEF UploadsInv
<1>7. /\ rows' = [i \in DOMAIN rows' |-> rows'[i]]
      /\ DOMAIN rows' = DOMAIN rows \cup DOMAIN upload[u].mine
      /\ \A i \in DOMAIN rows' :
            /\ rows'[i] \in Kept
            /\ rows'[i].person = Visible(u)[i].person /\ rows'[i].face = Visible(u)[i].face
            /\ rows'[i].rank = "quarantined" => i \in doubtful'
      /\ doubtful \subseteq doubtful'
      /\ ~upload[u].alone => DOMAIN upload[u].mine \subseteq doubtful'
  BY <1>1, ConcludedRows
<1>8. /\ \A i \in DOMAIN rows : Visible(u)[i] = rows[i] /\ rows[i] \in Kept
      /\ \A i \in DOMAIN upload[u].mine : Visible(u)[i] = upload[u].mine[i] /\ upload[u].mine[i] \in Kept
  BY <1>1, <1>2, WhatIsVisible, ZenonT(60) DEF UploadShape, EnrolInv, TableInv
<1>9. TableInv'
  <2>1. ASSUME NEW v \in Uploads, NEW n \in Nat, <<v, n>> \in DOMAIN rows'
        PROVE  upload'[v] # Waiting /\ upload'[v].step = "ended"
    <3>1. CASE <<v, n>> \in DOMAIN rows
      <4>1. upload[v] # Waiting /\ upload[v].step = "ended"
        BY <3>1 DEF EnrolInv, TableInv
      <4>2. v # u
        BY <1>1, <4>1 DEF Running
      <4> QED BY <1>4, <4>1, <4>2
    <3>2. CASE <<v, n>> \in DOMAIN upload[u].mine
      <4>1. v = u
        BY <1>2, <3>2 DEF UploadShape
      <4> QED BY <1>3, <4>1, NotWaiting
    <3> QED BY <1>7, <2>1, <3>1, <3>2
  <2> QED BY <1>7, <2>1 DEF TableInv
<1>10. ASSUME DistanceInv, NEW i \in DOMAIN rows' \ doubtful', NEW j \in DOMAIN rows' \ doubtful', i # j
       PROVE  Apart(rows'[i], rows'[j])
  <2> DEFINE a == Visible(u)[i]
             b == Visible(u)[j]
             mine == upload[u].mine
  <2>1. i \notin doubtful /\ j \notin doubtful
    BY <1>7
  <2>2. i \in DOMAIN mine \/ j \in DOMAIN mine => AloneApart(u)
    BY <1>1, <1>7, <1>10 DEF DistanceInv
  <2>3. CASE i \in DOMAIN mine /\ j \in DOMAIN mine
    <3>1. Apart(mine[i], mine[j])
      BY <1>10, <2>2, <2>3 DEF AloneApart
    <3> QED BY <1>7, <1>8, <2>3, <3>1 DEF Apart
  <2>4. CASE i \in DOMAIN mine /\ j \in DOMAIN rows
    <3>1. Apart(mine[i], rows[j])
      BY <2>1, <2>2, <2>4 DEF AloneApart
    <3> QED BY <1>7, <1>8, <2>4, <3>1 DEF Apart
  <2>5. CASE i \in DOMAIN rows /\ j \in DOMAIN mine
    <3>1. Apart(mine[j], rows[i])
      BY <2>1, <2>2, <2>5 DEF AloneApart
    <3>2. Apart(rows[i], mine[j])
      BY <1>8, <2>5, <3>1, ApartBothWays
    <3> QED BY <1>7, <1>8, <2>5, <3>2 DEF Apart
  <2>6. CASE i \in DOMAIN rows /\ j \in DOMAIN rows
    <3>1. Apart(rows[i], rows[j])
      BY <1>10, <2>1, <2>6 DEF DistanceInv
    <3> QED BY <1>7, <1>8, <2>6, <3>1 DEF Apart
  <2> QED BY <1>7, <2>3, <2>4, <2>5, <2>6
<1>11. ASSUME DistanceInv
       PROVE  \A v \in Uploads : Running(v)' => ~upload'[v].alone
  <2>1. ASSUME NEW v \in Uploads, Running(v)', upload'[v].alone
        PROVE  FALSE
    <3>1. v # u
      BY <1>3, <2>1 DEF Running
    <3>2. Running(v) /\ upload[v].alone
      BY <1>4, <2>1, <3>1, SameUpload
    <3> QED BY <1>1, <1>11, <3>1, <3>2 DEF DistanceInv, AloneApart
  <2> QED BY <2>1
<1>12. ASSUME DistanceInv PROVE DistanceInv'
  BY <1>10, <1>11, <1>12, Zenon DEF DistanceInv, Apart
<1> QED
  BY <1>6, <1>9, <1>12 DEF EnrolInv, EnrolKept

LEMMA ReviseKeeps ==
    \A i \in DOMAIN rows, rank \in Ranks : EnrolInv /\ Revise(i, rank) => EnrolKept
<1> SUFFICES ASSUME NEW i \in DOMAIN rows, NEW rank \in Ranks, EnrolInv, Revise(i, rank)
             PROVE  EnrolKept
  OBVIOUS
<1>1. /\ rows' = [rows EXCEPT ![i].rank = rank] /\ UNCHANGED upload
      /\ doubtful' = IF rank = "quarantined" THEN doubtful \cup {i} ELSE doubtful
  BY DEF Revise
<1>2. rows = [j \in DOMAIN rows |-> rows[j]] /\ \A j \in DOMAIN rows : rows[j] \in Kept
  BY DEF EnrolInv, TableInv
<1>3. DOMAIN rows' = DOMAIN rows /\ rows' = [j \in DOMAIN rows' |-> rows'[j]] /\ doubtful \subseteq doubtful'
  BY <1>1, <1>2
<1>4. \A j \in DOMAIN rows : rows'[j] = [rows[j] EXCEPT !.rank = IF j = i THEN rank ELSE @]
  BY <1>1, <1>2 DEF Kept
<1>5. ASSUME NEW j \in DOMAIN rows
      PROVE  /\ rows'[j] \in Kept /\ rows'[j].person = rows[j].person /\ rows'[j].face = rows[j].face
             /\ rows'[j].rank = IF j = i THEN rank ELSE rows[j].rank
  <2> DEFINE a == rows[j]
             b == rows'[j]
             r == IF j = i THEN rank ELSE a.rank
  <2>1. b = [a EXCEPT !.rank = r] /\ a \in Kept
    BY <1>2, <1>4
  <2>2. r \in Ranks
    BY <2>1 DEF Kept
  <2> HIDE DEF a, b, r
  <2>3. b \in Kept /\ b.person = a.person /\ b.face = a.face /\ b.rank = r
    BY <2>1, <2>2 DEF Kept
  <2> QED BY <2>3 DEF a, b, r
<1>6. UploadsInv'
  BY <1>1, SameUpload DEF EnrolInv, UploadsInv
<1>7. TableInv'
  <2>1. \A j \in DOMAIN rows' : rows'[j] \in Kept /\ (rows'[j].rank = "quarantined" => j \in doubtful')
    BY <1>1, <1>3, <1>5 DEF EnrolInv, TableInv
  <2> QED BY <1>1, <1>3, <2>1 DEF EnrolInv, TableInv
<1>8. ASSUME DistanceInv
      PROVE  \A j, k \in DOMAIN rows' \ doubtful' : j # k => Apart(rows'[j], rows'[k])
  BY <1>3, <1>5, <1>8 DEF DistanceInv, Apart
<1>9. ASSUME DistanceInv, NEW v \in Uploads, Running(v)', upload'[v].alone
      PROVE  AloneApart(v)'
  <2>1. AloneApart(v)
    BY <1>1, <1>9 DEF DistanceInv, Running
  <2>2. \A j \in DOMAIN upload'[v].mine, k \in DOMAIN rows' \ doubtful' : Apart(upload'[v].mine[j], rows'[k])
    BY <1>1, <1>3, <1>5, <2>1 DEF AloneApart, Apart
  <2>3. \A j, k \in DOMAIN upload'[v].mine : j # k => Apart(upload'[v].mine[j], upload'[v].mine[k])
    BY <1>1, <2>1 DEF AloneApart
  <2>4. \A w \in Uploads : Running(w)' => w = v
    BY <1>1, <2>1 DEF AloneApart, Running
  <2> QED BY <2>2, <2>3, <2>4, Zenon DEF AloneApart, Apart
<1>10. ASSUME DistanceInv PROVE DistanceInv'
  BY <1>8, <1>9, <1>10, Zenon DEF DistanceInv, Apart
<1> QED
  BY <1>6, <1>7, <1>10 DEF EnrolInv, EnrolKept

(* The table at the start, but for what is in quarantine, is as enrolment  *)
(* would have left it.                                                     *)
KnownApart ==
    \A i, j \in DOMAIN Known :
        i # j /\ Known[i].rank # "quarantined" /\ Known[j].rank # "quarantined" => Apart(Known[i], Known[j])

LEMMA EnrolInvInit == UploadInit => EnrolInv /\ (KnownApart => DistanceInv)
<1> SUFFICES ASSUME UploadInit PROVE EnrolInv /\ (KnownApart => DistanceInv)
  OBVIOUS
<1>1. /\ rows = Known /\ doubtful = {i \in DOMAIN Known : Known[i].rank = "quarantined"}
      /\ upload = [u \in Uploads |-> upload[u]] /\ \A u \in Uploads : upload[u] = Waiting
  BY DEF UploadInit
<1>2. UploadsInv
  BY <1>1 DEF UploadsInv
<1>3. TableInv
  <2>1. \A u \in Uploads, n \in Nat : <<u, n>> \notin DOMAIN Known
    BY KnownAssumption
  <2> QED BY <1>1, <2>1, KnownAssumption DEF TableInv
<1>4. ASSUME KnownApart PROVE DistanceInv
  <2>1. \A i \in DOMAIN rows \ doubtful : i \in DOMAIN Known /\ Known[i].rank # "quarantined"
    BY <1>1
  <2> QED BY <1>1, <1>4, <2>1 DEF KnownApart, DistanceInv, Running
<1> QED
  BY <1>2, <1>3, <1>4 DEF EnrolInv

LEMMA EnrolInvNext == EnrolInv /\ [UploadNext]_uploadVars => EnrolKept
<1> SUFFICES ASSUME EnrolInv, [UploadNext]_uploadVars PROVE EnrolKept
  OBVIOUS
<1>1. CASE UNCHANGED uploadVars
  BY <1>1, EnrolInvStutters DEF uploadVars
<1>2. ASSUME NEW u \in Uploads, Inspect(u) PROVE EnrolKept
  BY <1>2, InspectKeeps
<1>3. ASSUME NEW u \in Uploads, FindDuplicate(u) PROVE EnrolKept
  BY <1>3, FindDuplicateKeeps
<1>4. ASSUME NEW u \in Uploads, CompareWithOthers(u) PROVE EnrolKept
  BY <1>4, CompareWithOthersKeeps
<1>5. ASSUME NEW u \in Uploads, Conclude(u) PROVE EnrolKept
  BY <1>5, ConcludeKeeps
<1>6. ASSUME NEW u \in Uploads, AbortUpload(u) PROVE EnrolKept
  BY <1>6, AbortUploadKeeps
<1>7. ASSUME NEW u \in Uploads, NEW q \in Requests, StartUpload(u, q) PROVE EnrolKept
  BY <1>7, StartUploadKeeps
<1>8. ASSUME NEW i \in DOMAIN rows, NEW rank \in Ranks, Revise(i, rank) PROVE EnrolKept
  BY <1>8, ReviseKeeps
<1>9. ASSUME NEW s \in People, NEW photo \in AllPhotos, Verify(s, photo) PROVE EnrolKept
  BY <1>9, EnrolInvStutters DEF Verify
<1> QED
  BY <1>1, <1>2, <1>3, <1>4, <1>5, <1>6, <1>7, <1>8, <1>9 DEF UploadNext

(* No upload, however its photos interleave with those of others, leaves   *)
(* two templates closer than the thresholds, if the table did not have     *)
(* such a pair before and neither came from overlapping uploads or back    *)
(* from quarantine.                                                        *)
THEOREM TemplatesApart == ASSUME KnownApart PROVE UploadSpec => []TemplatesStayApart
<1>1. UploadInit => EnrolInv /\ DistanceInv
  BY EnrolInvInit
<1>2. EnrolInv /\ DistanceInv /\ [UploadNext]_uploadVars => EnrolInv' /\ DistanceInv'
  BY EnrolInvNext DEF EnrolKept
<1>3. DistanceInv => TemplatesStayApart
  BY DEF DistanceInv, TemplatesStayApart, Apart
<1> QED
  BY <1>1, <1>2, <1>3, PTL DEF UploadSpec

(* A face that became a template is the only one of its size in the photo: *)
(* any other box covers much of a larger one or is much smaller.           *)
THEOREM OnePersonEach == UploadSpec => []OnePersonPerPhoto
<1>1. UploadInit => EnrolInv
  BY EnrolInvInit
<1>2. EnrolInv /\ [UploadNext]_uploadVars => EnrolInv'
  BY EnrolInvNext DEF EnrolKept
<1>3. EnrolInv => OnePersonPerPhoto
  <2> SUFFICES ASSUME EnrolInv, NEW u \in Uploads, upload[u] # Waiting,
                      NEW i \in DOMAIN upload[u].checks, upload[u].checks[i] = "accepted"
               PROVE  LET boxes == Asked(u).album[i].boxes
                          real == {j \in DOMAIN boxes : boxes[j].area > 0}
                      IN \E chosen \in real : \A j \in real \ {chosen} :
                            \/ \E k \in real : Larger(boxes, k, j) /\ j \in boxes[k].near
                            \/ 28 * boxes[j].area <= 10 * boxes[chosen].area
    BY DEF OnePersonPerPhoto
  <2> DEFINE photo == Album(u)[i]
             boxes == photo.boxes
  <2>1. UploadShape(u) /\ PhotosSeen(u)
    BY DEF EnrolInv, UploadsInv
  <2>2. photo \in Photo /\ Inspected(photo) = "accepted"
    <3>1. upload[u].checks \in Seq(Verdicts) /\ Len(upload[u].checks) <= Len(Album(u))
          /\ Album(u) \in Seq(Photo)
      BY <2>1, RequestsAssumption DEF UploadShape, Album, Asked
    <3>2. i \in 1 .. Len(upload[u].checks) /\ Len(upload[u].checks) \in Nat /\ Len(Album(u)) \in Nat
      BY <3>1, LenProperties
    <3>3. i \in 1 .. Len(Album(u))
      BY <3>1, <3>2
    <3>4. photo \in Photo
      BY <3>1, <3>3, ElementOfSeq
    <3> QED BY <2>1, <3>4 DEF PhotosSeen
  <2> HIDE DEF photo
  <2>3. boxes \in Seq(Box)
    BY <2>2 DEF Photo
  <2>4. PICK chosen \in Distinct(boxes) : Dominant(photo, chosen)
    BY <2>2, InspectionVerdict DEF ChosenBoxes
  <2>5. /\ Distinct(boxes) \subseteq Real(boxes)
        /\ \A j \in Real(boxes) \ Distinct(boxes) :
              \E k \in Real(boxes) : Larger(boxes, k, j) /\ j \in boxes[k].near
    BY <2>3, DistinctSelects
  <2>6. ASSUME NEW j \in Distinct(boxes) \ {chosen}
        PROVE  28 * boxes[j].area <= 10 * boxes[chosen].area
    <3>1. 10 * boxes[chosen].area >= 28 * boxes[j].area
      BY <2>4, <2>6 DEF Dominant
    <3>2. boxes[chosen].area \in Int /\ boxes[j].area \in Int
      <4>1. chosen \in DOMAIN boxes /\ j \in DOMAIN boxes
        BY <2>5 DEF Real
      <4>2. boxes[chosen] \in Box /\ boxes[j] \in Box
        BY <2>3, <4>1, LenProperties, ElementOfSeq
      <4> QED BY <4>2 DEF Box
    <3> QED BY <3>1, <3>2
  <2>7. \E c \in Real(boxes) : \A j \in Real(boxes) \ {c} :
           \/ \E k \in Real(boxes) : Larger(boxes, k, j) /\ j \in boxes[k].near
           \/ 28 * boxes[j].area <= 10 * boxes[c].area
    BY <2>4, <2>5, <2>6
  <2> QED BY <2>7 DEF Real, photo, Album
<1> QED
  BY <1>1, <1>2, <1>3, PTL DEF UploadSpec

(* The best score of a student is the cosine of one of the templates that  *)
(* count, and none of those is nearer.                                     *)
LEMMA BestIsReached ==
    ASSUME EnrolInv, NEW s, NEW face \in Seen, Compared(s) # {}
    PROVE  /\ BestOf(s, face) \in -1000 .. 1000
           /\ \E i \in Compared(s) : BestOf(s, face) = Similarity[<<face, rows[i].face>>]
           /\ \A i \in Compared(s) :
                 Similarity[<<face, rows[i].face>>] \in Int
                 /\ BestOf(s, face) >= Similarity[<<face, rows[i].face>>]
<1> DEFINE T == {Similarity[<<face, rows[i].face>>] : i \in Compared(s)}
           lo == -1000
           hi == 1000
<1>1. \A i \in Compared(s) : i \in DOMAIN rows /\ rows[i].face \in Seen
  BY DEF Compared, OfPerson, EnrolInv, TableInv, Kept
<1>2. \A i \in Compared(s) : Similarity[<<face, rows[i].face>>] \in lo .. hi
  <2> SUFFICES ASSUME NEW i \in Compared(s) PROVE Similarity[<<face, rows[i].face>>] \in -1000 .. 1000
    OBVIOUS
  <2>1. rows[i].face \in Seen
    BY <1>1
  <2> HIDE DEF T
  <2> QED BY <2>1, CosineIsBounded, SMTT(40)
<1>3. lo \in Int /\ hi \in Int
  OBVIOUS
<1>4. T # {}
  OBVIOUS
<1>5. BestOf(s, face) = Max(T)
  BY Zenon DEF BestOf
<1> HIDE DEF lo, hi
<1>6. T \subseteq lo .. hi
  BY <1>2
<1>7. Max(T) \in T /\ \A y \in T : Max(T) >= y
  <2> HIDE DEF T
  <2> QED BY <1>3, <1>4, <1>6, MaximumIsIn, Zenon
<1>8. \A i \in Compared(s) : BestOf(s, face) >= Similarity[<<face, rows[i].face>>]
  BY <1>5, <1>7, Zenon
<1>9. \E i \in Compared(s) : BestOf(s, face) = Similarity[<<face, rows[i].face>>]
  BY <1>5, <1>7, Zenon
<1>10. BestOf(s, face) \in lo .. hi
  BY <1>2, <1>9
<1>11. \A i \in Compared(s) : Similarity[<<face, rows[i].face>>] \in Int
  BY <1>2, <1>3
<1> QED
  BY <1>8, <1>9, <1>10, <1>11, ZenonT(40) DEF lo, hi

(* With an active template made from this very photo a student scores      *)
(* highest, and nobody else does.                                          *)
LEMMA OwnPhotoScoresHighest ==
    ASSUME EnrolInv, DistanceInv, doubtful = {}, NEW s \in People, NEW face \in Seen,
           NEW i \in DOMAIN rows, rows[i].person = s, rows[i].rank = "active", rows[i].face = face
    PROVE  /\ s \in Scored(s, face) /\ BestOf(s, face) = 1000
           /\ \A t \in Scored(s, face) : t # s => BestOf(t, face) < 1000
<1>1. i \in Compared(s) /\ Similarity[<<face, rows[i].face>>] = 1000
  BY SimilarityAssumption DEF Compared, OfPerson
<1>2. BestOf(s, face) = 1000
  <2>1. BestOf(s, face) \in -1000 .. 1000 /\ BestOf(s, face) >= 1000
    BY <1>1, BestIsReached, SMTT(40)
  <2> QED BY <2>1, SMTT(40)
<1>3. s \in Scored(s, face)
  BY <1>1 DEF Scored
<1>4. ASSUME NEW t \in Scored(s, face), t # s
      PROVE  BestOf(t, face) < 1000
  <2>1. Compared(t) # {}
    BY DEF Scored
  <2>2. PICK j \in Compared(t) : BestOf(t, face) = Similarity[<<face, rows[j].face>>]
    BY <2>1, BestIsReached
  <2>3. j \in DOMAIN rows /\ rows[j].person = t /\ rows[j].rank # "quarantined"
    BY <2>2 DEF Compared, OfPerson
  <2>4. Apart(rows[i], rows[j]) /\ rows[i].person # rows[j].person
    BY <1>4, <2>3 DEF DistanceInv
  <2>5. Similarity[<<face, rows[j].face>>] < CollisionFrom
    BY <2>4 DEF Apart
  <2> DEFINE b == BestOf(t, face)
  <2>6. b \in -1000 .. 1000
    BY <2>1, BestIsReached, SMTT(40)
  <2>7. b < CollisionFrom
    BY <2>2, <2>5
  <2> HIDE DEF b
  <2>8. b < 1000
    BY <2>6, <2>7, ThresholdsAssumption
  <2> QED BY <2>8 DEF b
<1> QED
  BY <1>2, <1>3, <1>4

(* The verification test recognises a student by a photo from which an     *)
(* active template was made, whoever else is enrolled, as long as nothing  *)
(* doubtful is stored.                                                     *)
THEOREM OwnPhotoIsConfirmed == ASSUME KnownApart PROVE UploadSpec => OwnPhotoVerifies
<1>1. UploadInit => EnrolInv /\ DistanceInv
  BY EnrolInvInit
<1>2. EnrolInv /\ DistanceInv /\ [UploadNext]_uploadVars => EnrolInv' /\ DistanceInv'
  BY EnrolInvNext DEF EnrolKept
<1>3. ASSUME EnrolInv, DistanceInv, NEW s \in People, NEW photo \in AllPhotos, doubtful = {},
             NEW i \in DOMAIN rows, rows[i].person = s, rows[i].rank = "active",
             rows[i].face = photo.face, Verify(s, photo)
      PROVE  tested' = "match"
  <2> DEFINE face == photo.face
  <2>1. face \in Seen
    BY <1>3 DEF Verify
  <2>2. /\ s \in Scored(s, face) /\ BestOf(s, face) = 1000
        /\ \A t \in Scored(s, face) : t # s => BestOf(t, face) < 1000
    BY <1>3, <2>1, OwnPhotoScoresHighest
  <2>3. PICK best \in Scored(s, face) :
           /\ \A t \in Scored(s, face) : BestOf(t, face) <= BestOf(best, face)
           /\ tested' = IF Confirms(s, face, best) THEN "match" ELSE "mismatch"
    BY <1>3, <2>2, ZenonT(40) DEF Verify
  <2>4. best = s
    <3>1. ASSUME best # s PROVE FALSE
      <4>1. BestOf(best, face) < 1000 /\ 1000 <= BestOf(best, face)
        BY <2>2, <2>3, <3>1
      <4>2. BestOf(best, face) \in Int
        <5>1. Compared(best) # {}
          BY <2>3 DEF Scored
        <5> HIDE DEF face
        <5>2. BestOf(best, face) \in -1000 .. 1000
          BY <1>3, <2>1, <5>1, BestIsReached
        <5> QED BY <5>2
      <4> QED BY <4>1, <4>2
    <3> QED BY <3>1
  <2>5. BestOf(s, face) >= StrictFrom
    BY <2>2, ThresholdsAssumption
  <2>6. Confirms(s, face, best)
    <3> HIDE DEF face
    <3> QED BY <2>4, <2>5, Zenon DEF Confirms
  <2> QED BY <2>3, <2>6
<1>4. EnrolInv /\ DistanceInv /\ [UploadNext]_uploadVars
      => [tested' # tested =>
             \A s \in People, photo \in AllPhotos :
                (/\ doubtful = {}
                 /\ \E i \in DOMAIN rows :
                       rows[i].person = s /\ rows[i].rank = "active" /\ rows[i].face = photo.face
                 /\ Verify(s, photo))
                => tested' = "match"]_uploadVars
  BY <1>3
<1> QED
  BY <1>1, <1>2, <1>4, PTL DEF UploadSpec, OwnPhotoVerifies

-----------------------------------------------------------------------------
(* What a reply says: a photo is reported as accepted exactly when a       *)
(* template was made of it, and what an upload has said stays true.        *)
CodesMatch(u) ==
    \A n \in DOMAIN upload[u].checks :
        upload[u].checks[n] = "accepted" <=> <<u, n>> \in DOMAIN upload[u].mine

Ended(u) == upload[u] # Waiting /\ upload[u].step = "ended"

Stored(u) ==
    /\ Len(upload[u].checks) = Len(Album(u))
    /\ \A n \in DOMAIN upload[u].checks : <<u, n>> \in DOMAIN rows <=> <<u, n>> \in DOMAIN upload[u].mine

RepliesInv ==
    \A u \in DOMAIN replies :
        /\ u \in Uploads /\ Ended(u)
        /\ replies[u].checks = upload[u].checks
        /\ replies[u].accepted = Cardinality(DOMAIN upload[u].mine)
        /\ replies[u].groups = Groups(upload[u].checks)

AccountsInv ==
    /\ EnrolInv
    /\ \A u \in Uploads : (upload[u] # Waiting => CodesMatch(u)) /\ (Ended(u) => Stored(u))
    /\ RepliesInv

(* Uploads that have ended are not touched again.                          *)
LEMMA AccountsStay ==
    ASSUME AccountsInv, EnrolInv', UNCHANGED replies, DOMAIN rows' = DOMAIN rows,
           \A v \in Uploads :
              \/ upload'[v] = upload[v]
              \/ /\ ~Ended(v)
                 /\ upload'[v] # Waiting => upload'[v].step # "ended" /\ CodesMatch(v)'
    PROVE  AccountsInv'
<1>1. ASSUME NEW v \in Uploads
      PROVE  (upload'[v] # Waiting => CodesMatch(v)') /\ (Ended(v)' => Stored(v)')
  <2>1. CASE upload'[v] = upload[v]
    BY <2>1 DEF AccountsInv, CodesMatch, Ended, Stored, Album, Asked
  <2>2. CASE upload'[v] # upload[v]
    BY <2>2 DEF Ended
  <2> QED BY <2>1, <2>2
<1>2. \A v \in Uploads : Ended(v) => upload'[v] = upload[v]
  OBVIOUS
<1>3. RepliesInv'
  <2>1. ASSUME NEW u \in DOMAIN replies
        PROVE  /\ u \in Uploads /\ Ended(u)'
               /\ replies'[u].checks = upload'[u].checks
               /\ replies'[u].accepted = Cardinality(DOMAIN upload'[u].mine)
               /\ replies'[u].groups = Groups(upload'[u].checks)
    BY <1>2 DEF AccountsInv, RepliesInv, Ended
  <2> QED BY <2>1, Zenon DEF RepliesInv, Groups
<1> QED
  BY <1>1, <1>3 DEF AccountsInv

LEMMA StartUploadAccounts ==
    \A u \in Uploads, q \in Requests : AccountsInv /\ StartUpload(u, q) => AccountsInv'
<1> SUFFICES ASSUME NEW u \in Uploads, NEW q \in Requests, AccountsInv, StartUpload(u, q) PROVE AccountsInv'
  OBVIOUS
<1> DEFINE lone == \A v \in Uploads : ~Running(v)
<1>1. /\ upload[u] = Waiting /\ UNCHANGED <<rows, replies>>
      /\ upload' = [v \in Uploads |->
            IF v = u THEN [step |-> "photo", request |-> q, checks |-> <<>>, mine |-> <<>>, alone |-> lone]
            ELSE IF Running(v) THEN [upload[v] EXCEPT !.alone = FALSE] ELSE upload[v]]
  BY DEF StartUpload
<1> HIDE DEF lone
<1>2. EnrolInv'
  BY StartUploadKeeps DEF AccountsInv, EnrolKept
<1>3. ~Ended(u) /\ upload'[u].step # "ended" /\ CodesMatch(u)'
  BY <1>1, NothingIsLoaded DEF Ended, CodesMatch
<1>4. ASSUME NEW v \in Uploads, v # u, Running(v)
      PROVE  ~Ended(v) /\ upload'[v].step # "ended" /\ CodesMatch(v)'
  <2>1. UploadShape(v) /\ CodesMatch(v) /\ upload[v].step # "ended"
    BY <1>4 DEF AccountsInv, EnrolInv, UploadsInv, Running
  <2>2. /\ upload'[v].step = upload[v].step /\ upload'[v].checks = upload[v].checks
        /\ upload'[v].mine = upload[v].mine
    BY <1>1, <1>4, <2>1 DEF UploadShape, Fields
  <2> QED BY <2>1, <2>2 DEF Ended, CodesMatch
<1>5. \A v \in Uploads : v # u /\ ~Running(v) => upload'[v] = upload[v]
  BY <1>1
<1> QED
  BY <1>1, <1>2, <1>3, <1>4, <1>5, AccountsStay

(* The step of one upload adds no template, or one with its check.         *)
LEMMA OneUploadAccounts ==
    ASSUME AccountsInv, EnrolInv', NEW u \in Uploads, Running(u), UNCHANGED <<rows, replies>>,
           \A v \in Uploads : v # u => upload'[v] = upload[v],
           upload'[u] # Waiting => upload'[u].step # "ended" /\ CodesMatch(u)'
    PROVE  AccountsInv'
<1>1. ~Ended(u)
  BY DEF Running, Ended
<1> QED
  BY <1>1, AccountsStay

LEMMA CodesAfter ==
    ASSUME NEW u \in Uploads, UploadShape(u), CodesMatch(u), NEW code \in Verdicts,
           upload'[u].checks = Append(upload[u].checks, code),
           DOMAIN upload'[u].mine = DOMAIN upload[u].mine
               \cup (IF code = "accepted" THEN {<<u, Len(upload[u].checks) + 1>>} ELSE {})
    PROVE  CodesMatch(u)'
<1> DEFINE c == upload[u].checks
           n == Len(c)
           d == upload'[u].checks
           mine == DOMAIN upload[u].mine
<1>1. c \in Seq(Verdicts) /\ \A i \in mine : \E k \in 1 .. n : i = <<u, k>>
  BY DEF UploadShape
<1>2. /\ n \in Nat /\ DOMAIN c = 1 .. n /\ DOMAIN d = 1 .. n + 1
      /\ (\A i \in 1 .. n : d[i] = c[i]) /\ d[n + 1] = code
  <2>1. d = Append(c, code)
    OBVIOUS
  <2> HIDE DEF c, d
  <2>2. n \in Nat /\ DOMAIN c = 1 .. n
    BY <1>1, LenProperties
  <2>3. d \in Seq(Verdicts) /\ Len(d) = n + 1 /\ (\A i \in 1 .. n : d[i] = c[i]) /\ d[n + 1] = code
    BY <1>1, <2>1, AppendProperties
  <2> QED BY <2>2, <2>3, LenProperties
<1>3. \A i \in 1 .. n : c[i] = "accepted" <=> <<u, i>> \in mine
  BY <1>2 DEF CodesMatch
<1>4. <<u, n + 1>> \notin mine
  BY <1>1, <1>2
<1>5. DOMAIN upload'[u].mine = mine \cup (IF code = "accepted" THEN {<<u, n + 1>>} ELSE {})
  OBVIOUS
<1> HIDE DEF c, n, d, mine
<1>6. ASSUME NEW i \in 1 .. n + 1
      PROVE  d[i] = "accepted" <=> <<u, i>> \in DOMAIN upload'[u].mine
  <2>1. CASE i \in 1 .. n
    <3>1. i # n + 1
      BY <1>2, <2>1
    <3> QED BY <1>2, <1>3, <1>5, <2>1, <3>1
  <2>2. CASE i = n + 1
    BY <1>2, <1>4, <1>5, <2>2
  <2> QED BY <1>2, <2>1, <2>2
<1> QED
  BY <1>2, <1>6 DEF CodesMatch, d

LEMMA InspectAccounts == \A u \in Uploads : AccountsInv /\ Inspect(u) => AccountsInv'
<1> SUFFICES ASSUME NEW u \in Uploads, AccountsInv, Inspect(u) PROVE AccountsInv'
  OBVIOUS
<1> DEFINE verdict == Inspected(Current(u))
<1>1. /\ PhotosLeft(u) /\ Running(u) /\ UNCHANGED <<rows, replies>>
      /\ upload' = [upload EXCEPT
            ![u].step = IF verdict = "accepted" THEN "compare" ELSE "photo",
            ![u].checks = IF verdict = "accepted" THEN @ ELSE Append(@, verdict)]
  BY DEF Inspect, PhotosLeft
<1>2. EnrolInv' /\ UploadShape(u) /\ CodesMatch(u) /\ upload = [v \in Uploads |-> upload[v]]
  BY <1>1, InspectKeeps DEF AccountsInv, EnrolKept, EnrolInv, UploadsInv, Running
<1>3. verdict \in Verdicts
  BY <1>1, <1>2, CurrentPhoto, InspectionVerdict
<1> HIDE DEF verdict
<1>4. /\ upload'[u].step # "ended" /\ upload'[u].mine = upload[u].mine
      /\ upload'[u].checks = IF verdict = "accepted" THEN upload[u].checks ELSE Append(upload[u].checks, verdict)
      /\ \A v \in Uploads : v # u => upload'[v] = upload[v]
  BY <1>1, <1>2 DEF UploadShape, Fields
<1>5. CodesMatch(u)'
  <2>1. CASE verdict = "accepted"
    BY <1>2, <1>4, <2>1 DEF CodesMatch
  <2>2. CASE verdict # "accepted"
    BY <1>2, <1>3, <1>4, <2>2, CodesAfter
  <2> QED BY <2>1, <2>2
<1> QED
  BY <1>1, <1>2, <1>4, <1>5, OneUploadAccounts

LEMMA RejectAccounts ==
    ASSUME AccountsInv, EnrolInv', NEW u \in Uploads, NEW code \in Verdicts \ {"accepted"}, Running(u),
           Reject(u, code), UNCHANGED <<rows, replies>>
    PROVE  AccountsInv'
<1>1. UploadShape(u) /\ CodesMatch(u) /\ upload = [v \in Uploads |-> upload[v]]
  BY DEF AccountsInv, EnrolInv, UploadsInv, Running
<1>2. /\ upload'[u].step # "ended" /\ upload'[u].checks = Append(upload[u].checks, code)
      /\ upload'[u].mine = upload[u].mine /\ \A v \in Uploads : v # u => upload'[v] = upload[v]
  BY <1>1 DEF Reject, UploadShape, Fields
<1>3. CodesMatch(u)'
  BY <1>1, <1>2, CodesAfter
<1> QED
  BY <1>2, <1>3, OneUploadAccounts

LEMMA FindDuplicateAccounts == \A u \in Uploads : AccountsInv /\ FindDuplicate(u) => AccountsInv'
<1> SUFFICES ASSUME NEW u \in Uploads, AccountsInv, FindDuplicate(u) PROVE AccountsInv'
  OBVIOUS
<1>1. "duplicate_embedding" \in Verdicts \ {"accepted"} /\ Running(u)
  BY DEF Verdicts, FindDuplicate, PhotosLeft
<1>2. EnrolInv'
  BY FindDuplicateKeeps DEF AccountsInv, EnrolKept
<1> QED
  BY <1>1, <1>2, RejectAccounts DEF FindDuplicate

LEMMA CompareAccounts == \A u \in Uploads : AccountsInv /\ CompareWithOthers(u) => AccountsInv'
<1> SUFFICES ASSUME NEW u \in Uploads, AccountsInv, CompareWithOthers(u) PROVE AccountsInv'
  OBVIOUS
<1> DEFINE n == Len(upload[u].checks)
           id == <<u, n + 1>>
           new == Made(u, Current(u))
<1>1. Running(u) /\ UNCHANGED <<rows, replies>>
  BY DEF CompareWithOthers, PhotosLeft
<1>2. EnrolInv' /\ UploadShape(u) /\ CodesMatch(u) /\ upload = [v \in Uploads |-> upload[v]]
  BY <1>1, CompareWithOthersKeeps DEF AccountsInv, EnrolKept, EnrolInv, UploadsInv, Running
<1>3. \/ Reject(u, "collision_risk")
      \/ upload' = [upload EXCEPT
            ![u].step = "photo", ![u].checks = Append(@, "accepted"),
            ![u].mine = [i \in DOMAIN @ \cup {id} |-> IF i = id THEN new ELSE @[i]]]
  BY Zenon DEF CompareWithOthers, Made
<1>4. CASE Reject(u, "collision_risk")
  <2>1. "collision_risk" \in Verdicts \ {"accepted"}
    BY DEF Verdicts
  <2> QED BY <1>1, <1>2, <1>4, <2>1, RejectAccounts
<1> HIDE DEF new
<1>5. CASE upload' = [upload EXCEPT
            ![u].step = "photo", ![u].checks = Append(@, "accepted"),
            ![u].mine = [i \in DOMAIN @ \cup {id} |-> IF i = id THEN new ELSE @[i]]]
  <2> DEFINE was == upload[u]
             is == upload'[u]
             longer == Append(upload[u].checks, "accepted")
             more == [i \in DOMAIN upload[u].mine \cup {id} |-> IF i = id THEN new ELSE upload[u].mine[i]]
  <2>1. is = [was EXCEPT !.step = "photo", !.checks = longer, !.mine = more]
    BY <1>2, <1>5
  <2>2. was = [f \in Fields |-> was[f]]
    BY <1>2 DEF UploadShape
  <2>3. DOMAIN more = DOMAIN upload[u].mine \cup {id}
    OBVIOUS
  <2>4. is.step = "photo" /\ is.checks = longer /\ is.mine = more
    <3> HIDE DEF was, is, longer, more
    <3>1. is = [f \in Fields |-> IF f = "mine" THEN more ELSE IF f = "checks" THEN longer
                                 ELSE IF f = "step" THEN "photo" ELSE was[f]]
      BY <2>1, <2>2 DEF Fields
    <3> QED BY <3>1 DEF Fields
  <2>5. CodesMatch(u)'
    <3>1. upload'[u].checks = Append(upload[u].checks, "accepted")
          /\ DOMAIN upload'[u].mine = DOMAIN upload[u].mine \cup {<<u, Len(upload[u].checks) + 1>>}
      BY <2>3, <2>4
    <3>2. "accepted" \in Verdicts
      BY DEF Verdicts
    <3> QED BY <1>2, <3>1, <3>2, CodesAfter
  <2>6. \A v \in Uploads : v # u => upload'[v] = upload[v]
    BY <1>2, <1>5
  <2>7. upload'[u].step # "ended"
    BY <2>4
  <2> QED BY <1>1, <1>2, <2>5, <2>6, <2>7, OneUploadAccounts
<1> QED
  BY <1>3, <1>4, <1>5

LEMMA AbortUploadAccounts == \A u \in Uploads : AccountsInv /\ AbortUpload(u) => AccountsInv'
<1> SUFFICES ASSUME NEW u \in Uploads, AccountsInv, AbortUpload(u) PROVE AccountsInv'
  OBVIOUS
<1>1. Running(u) /\ UNCHANGED <<rows, replies>> /\ upload' = [upload EXCEPT ![u] = Waiting]
  BY DEF AbortUpload
<1>2. EnrolInv'
  BY AbortUploadKeeps DEF AccountsInv, EnrolKept
<1>3. upload'[u] = Waiting /\ \A v \in Uploads : v # u => upload'[v] = upload[v]
  BY <1>1 DEF AccountsInv, EnrolInv, UploadsInv
<1> QED
  BY <1>1, <1>2, <1>3, OneUploadAccounts

LEMMA ReviseAccounts ==
    \A i \in DOMAIN rows, rank \in Ranks : AccountsInv /\ Revise(i, rank) => AccountsInv'
<1> SUFFICES ASSUME NEW i \in DOMAIN rows, NEW rank \in Ranks, AccountsInv, Revise(i, rank)
             PROVE  AccountsInv'
  OBVIOUS
<1>1. EnrolInv'
  BY ReviseKeeps DEF AccountsInv, EnrolKept
<1>2. DOMAIN rows' = DOMAIN rows /\ UNCHANGED <<upload, replies>>
  BY DEF Revise
<1> QED
  BY <1>1, <1>2, AccountsStay

LEMMA ConcludeAccounts == \A u \in Uploads : AccountsInv /\ Conclude(u) => AccountsInv'
<1> SUFFICES ASSUME NEW u \in Uploads, AccountsInv, Conclude(u) PROVE AccountsInv'
  OBVIOUS
<1> DEFINE checks == upload[u].checks
           mine == upload[u].mine
<1>1. Running(u) /\ ~PhotosLeft(u) /\ upload' = [upload EXCEPT ![u].step = "ended"]
  BY DEF Conclude
<1>2. EnrolInv' /\ EnrolInv /\ UploadShape(u) /\ CodesMatch(u) /\ upload = [v \in Uploads |-> upload[v]]
  BY <1>1, ConcludeKeeps DEF AccountsInv, EnrolKept, EnrolInv, UploadsInv, Running
<1>3. /\ upload'[u].step = "ended" /\ upload'[u].checks = checks /\ upload'[u].mine = mine
      /\ upload'[u].request = upload[u].request
      /\ \A v \in Uploads : v # u => upload'[v] = upload[v]
  BY <1>1, <1>2 DEF UploadShape, Fields
<1>4. DOMAIN rows' = DOMAIN rows \cup DOMAIN mine
  BY <1>1, <1>2, ConcludedRows
<1>5. Album(u)' = Album(u)
  BY <1>3 DEF Album, Asked
<1>6. Ended(u)' /\ CodesMatch(u)'
  BY <1>2, <1>3, NotWaiting DEF Ended, CodesMatch
<1>7. Stored(u)'
  <2>1. checks \in Seq(Verdicts) /\ Len(checks) \in Nat /\ DOMAIN checks = 1 .. Len(checks)
    BY <1>2, LenProperties DEF UploadShape
  <2>2. Len(checks) = Len(Album(u))
    <3>1. Len(Album(u)) \in Nat
      BY <1>2, RequestsAssumption, LenProperties DEF UploadShape, Album, Asked
    <3>2. Len(checks) <= Len(Album(u)) /\ ~(Len(checks) < Len(Album(u)))
      BY <1>1, <1>2 DEF PhotosLeft, Album, UploadShape
    <3> QED BY <2>1, <3>1, <3>2
  <2>3. \A n \in DOMAIN checks : <<u, n>> \notin DOMAIN rows
    BY <1>1, <1>2, <2>1 DEF EnrolInv, TableInv, Running
  <2> QED BY <1>3, <1>4, <1>5, <2>2, <2>3 DEF Stored
<1>8. ASSUME NEW v \in Uploads, v # u
      PROVE  (upload'[v] # Waiting => CodesMatch(v)') /\ (Ended(v)' => Stored(v)')
  <2>1. upload'[v] = upload[v]
    BY <1>3, <1>8
  <2>2. \A n : <<v, n>> \in DOMAIN rows' <=> <<v, n>> \in DOMAIN rows
    BY <1>2, <1>4, <1>8 DEF UploadShape
  <2> QED BY <2>1, <2>2 DEF AccountsInv, CodesMatch, Ended, Stored, Album, Asked
<1>9. PICK dominant :
         replies' = [v \in DOMAIN replies \cup {u} |->
                IF v = u THEN [accepted |-> Cardinality(DOMAIN mine), checks |-> checks,
                               groups |-> Groups(checks), dominant |-> dominant]
                ELSE replies[v]]
  BY Zenon DEF Conclude
<1>10. RepliesInv'
  <2>1. ASSUME NEW v \in DOMAIN replies'
        PROVE  /\ v \in Uploads /\ Ended(v)'
               /\ replies'[v].checks = upload'[v].checks
               /\ replies'[v].accepted = Cardinality(DOMAIN upload'[v].mine)
               /\ replies'[v].groups = Groups(upload'[v].checks)
    <3>1. CASE v = u
      BY <1>3, <1>6, <1>9, <3>1
    <3>2. CASE v # u
      <4>1. v \in DOMAIN replies /\ replies'[v] = replies[v]
        BY <1>9, <3>2
      <4>2. /\ v \in Uploads /\ Ended(v) /\ replies[v].checks = upload[v].checks
            /\ replies[v].accepted = Cardinality(DOMAIN upload[v].mine)
            /\ replies[v].groups = Groups(upload[v].checks)
        BY <4>1 DEF AccountsInv, RepliesInv
      <4>3. upload'[v] = upload[v]
        BY <1>3, <3>2, <4>2
      <4> QED BY <4>1, <4>2, <4>3 DEF Ended
    <3> QED BY <3>1, <3>2
  <2> QED BY <2>1, Zenon DEF RepliesInv, Groups
<1> QED
  BY <1>2, <1>6, <1>7, <1>8, <1>10 DEF AccountsInv

LEMMA AccountsInit == UploadInit => AccountsInv
<1> SUFFICES ASSUME UploadInit PROVE AccountsInv
  OBVIOUS
<1>1. EnrolInv
  BY EnrolInvInit
<1>2. \A u \in Uploads : upload[u] = Waiting
  BY DEF UploadInit
<1>3. RepliesInv
  BY NothingIsLoaded DEF UploadInit, RepliesInv
<1> QED
  BY <1>1, <1>2, <1>3 DEF AccountsInv, Ended

LEMMA AccountsNext == AccountsInv /\ [UploadNext]_uploadVars => AccountsInv'
<1> SUFFICES ASSUME AccountsInv, [UploadNext]_uploadVars PROVE AccountsInv'
  OBVIOUS
<1>1. CASE UNCHANGED <<rows, upload, replies, doubtful>>
  <2>1. EnrolInv'
    BY <1>1, EnrolInvStutters DEF AccountsInv, EnrolKept
  <2> QED BY <1>1, <2>1, AccountsStay
<1>2. CASE UNCHANGED uploadVars
  BY <1>1, <1>2 DEF uploadVars
<1>3. ASSUME NEW s \in People, NEW photo \in AllPhotos, Verify(s, photo) PROVE AccountsInv'
  BY <1>1, <1>3 DEF Verify
<1> QED
  BY <1>2, <1>3, InspectAccounts, FindDuplicateAccounts, CompareAccounts, ConcludeAccounts,
     AbortUploadAccounts, StartUploadAccounts, ReviseAccounts DEF UploadNext

LEMMA SumIsTotal == ASSUME NEW S, NEW g PROVE MapThenSumSet(LAMBDA c : g[c], S) = Total(S, g)
BY DEF MapThenSumSet, MapThenFoldSet, Total, Unfolds, Added

(* The groups of a reply add up to the photos that were turned down.       *)
LEMMA GroupsAddUp ==
    ASSUME NEW checks \in Seq(Verdicts)
    PROVE  /\ IsFiniteSet(DOMAIN checks) /\ Cardinality(DOMAIN checks) = Len(checks)
           /\ MapThenSumSet(LAMBDA c : Groups(checks)[c], DOMAIN Groups(checks))
              = Cardinality({i \in DOMAIN checks : checks[i] # "accepted"})
<1> DEFINE I == DOMAIN checks
           g == Groups(checks)
           S == DOMAIN g
<1>1. I = 1 .. Len(checks) /\ Len(checks) \in Nat
  BY LenProperties
<1>2. IsFiniteSet(I) /\ Cardinality(I) = Len(checks)
  BY <1>1, FS_Interval
<1>3. S = Range(checks) \ {"accepted"} /\ \A c \in S : g[c] = Cardinality({i \in I : checks[i] = c})
  BY DEF Groups
<1>4. IsFiniteSet(Range(checks))
  <2>1. checks \in Surjection(I, Range(checks))
    BY DEF Surjection, Range
  <2> QED BY <1>2, <2>1, FS_Surjection
<1>5. IsFiniteSet(S)
  BY <1>3, <1>4, FS_Subset
<1> HIDE DEF g, I
<1>6. Total(S, g) = Cardinality({i \in I : checks[i] \in S})
  BY <1>2, <1>3, <1>5, TotalCounts
<1>7. {i \in I : checks[i] \in S} = {i \in I : checks[i] # "accepted"}
  BY <1>3 DEF Range, I
<1>8. MapThenSumSet(LAMBDA c : g[c], S) = Total(S, g)
  BY SumIsTotal
<1> QED
  BY <1>2, <1>6, <1>7, <1>8 DEF g, I

(* As many templates as photos that were accepted.                         *)
LEMMA AcceptedAreMade ==
    ASSUME NEW u \in Uploads, UploadShape(u), CodesMatch(u)
    PROVE  Cardinality(DOMAIN upload[u].mine)
           = Cardinality({i \in DOMAIN upload[u].checks : upload[u].checks[i] = "accepted"})
<1> DEFINE checks == upload[u].checks
           mine == DOMAIN upload[u].mine
           A == {i \in DOMAIN checks : checks[i] = "accepted"}
           f == [i \in A |-> <<u, i>>]
<1>1. checks \in Seq(Verdicts) /\ DOMAIN checks = 1 .. Len(checks)
  BY LenProperties DEF UploadShape
<1>2. ASSUME NEW i \in mine PROVE \E n \in A : i = <<u, n>>
  <2>1. PICK n \in DOMAIN checks : i = <<u, n>>
    BY <1>1 DEF UploadShape
  <2>2. checks[n] = "accepted"
    BY <2>1 DEF CodesMatch
  <2> QED BY <2>1, <2>2
<1>3. \A n \in A : <<u, n>> \in mine
  BY DEF CodesMatch
<1>4. IsFiniteSet(A)
  BY <1>1, GroupsAddUp, FS_Subset
<1> HIDE DEF checks, mine, A
<1>5. f \in Bijection(A, mine)
  <2>1. f \in [A -> mine]
    BY <1>3
  <2>2. \A a \in A : f[a] = <<u, a>>
    OBVIOUS
  <2> HIDE DEF f
  <2>3. \A a, b \in A : f[a] = f[b] => a = b
    BY <2>2
  <2>4. \A i \in mine : \E n \in A : f[n] = i
    BY <1>2, <2>2
  <2>5. f \in Injection(A, mine)
    BY <2>1, <2>3 DEF Injection, IsInjective
  <2>6. f \in Surjection(A, mine)
    BY <2>1, <2>4 DEF Surjection
  <2> QED BY <2>5, <2>6 DEF Bijection
<1>6. Cardinality(mine) = Cardinality(A)
  BY <1>4, <1>5, FS_Bijection DEF ExistsBijection
<1> QED
  BY <1>6 DEF mine, A, checks

(* EnrollmentSummaryRead tells what enroll_from_images has done: every     *)
(* photo has its check, the reject groups count the photos turned down,    *)
(* and a photo is called accepted exactly when its template is stored.     *)
THEOREM RepliesAccount == UploadSpec => []UploadAccountsForEveryPhoto
<1>1. ASSUME AccountsInv, NEW u \in DOMAIN replies
      PROVE  LET reply == replies[u]
             IN /\ \E q \in Requests : q.person = Asked(u).person /\ q.album = Asked(u).album
                /\ Len(reply.checks) = Len(Asked(u).album)
                /\ Len(reply.checks) - reply.accepted =
                      MapThenSumSet(LAMBDA c : reply.groups[c], DOMAIN reply.groups)
                /\ \A i \in DOMAIN reply.checks :
                      reply.checks[i] = "accepted" <=> <<u, i>> \in DOMAIN rows
  <2> DEFINE checks == upload[u].checks
             taken == {i \in DOMAIN checks : checks[i] = "accepted"}
             refused == {i \in DOMAIN checks : checks[i] # "accepted"}
  <2>1. /\ u \in Uploads /\ Ended(u) /\ replies[u].checks = checks
        /\ replies[u].accepted = Cardinality(DOMAIN upload[u].mine)
        /\ replies[u].groups = Groups(checks)
    BY <1>1 DEF AccountsInv, RepliesInv
  <2>2. UploadShape(u) /\ CodesMatch(u) /\ Stored(u)
    BY <1>1, <2>1 DEF AccountsInv, EnrolInv, UploadsInv, Ended
  <2>3. checks \in Seq(Verdicts) /\ Asked(u) \in Requests
    BY <2>2 DEF UploadShape, Asked
  <2>4. Cardinality(DOMAIN upload[u].mine) = Cardinality(taken)
    BY <2>1, <2>2, AcceptedAreMade
  <2>5. /\ IsFiniteSet(DOMAIN checks) /\ Cardinality(DOMAIN checks) = Len(checks)
        /\ MapThenSumSet(LAMBDA c : Groups(checks)[c], DOMAIN Groups(checks)) = Cardinality(refused)
    BY <2>3, GroupsAddUp
  <2>6. /\ Cardinality(refused) = Cardinality(DOMAIN checks) - Cardinality(taken)
        /\ Cardinality(DOMAIN checks) \in Nat /\ Cardinality(taken) \in Nat
    <3>1. DOMAIN checks \ taken = refused /\ DOMAIN checks \cap taken = taken
      OBVIOUS
    <3> DEFINE I == DOMAIN checks
    <3>2. taken \in SUBSET I
      OBVIOUS
    <3> HIDE DEF taken, refused, I
    <3>3. IsFiniteSet(I)
      BY <2>5 DEF I
    <3>4. IsFiniteSet(taken)
      BY <3>2, <3>3, FS_Subset
    <3>5. I \ taken = refused /\ I \cap taken = taken
      BY <3>1 DEF I
    <3>6. Cardinality(I \ taken) = Cardinality(I) - Cardinality(I \cap taken)
      BY <3>3, FS_Difference
    <3>7. Cardinality(I) \in Nat /\ Cardinality(taken) \in Nat
      BY <3>3, <3>4, FS_CardinalityType
    <3> QED BY <3>5, <3>6, <3>7 DEF I
  <2>7. \A i \in DOMAIN checks : checks[i] = "accepted" <=> <<u, i>> \in DOMAIN rows
    BY <2>2 DEF CodesMatch, Stored
  <2>8. Len(checks) = Len(Asked(u).album)
    BY <2>2 DEF Stored, Album
  <2> HIDE DEF taken, refused, checks
  <2>9. Len(checks) - replies[u].accepted = Cardinality(refused)
    BY <2>1, <2>4, <2>5, <2>6
  <2>10. Len(replies[u].checks) - replies[u].accepted
         = MapThenSumSet(LAMBDA c : replies[u].groups[c], DOMAIN replies[u].groups)
    <3> DEFINE g == replies[u].groups
               h == Groups(checks)
    <3>1. /\ MapThenSumSet(LAMBDA c : g[c], DOMAIN g) = Total(DOMAIN g, g)
          /\ MapThenSumSet(LAMBDA c : h[c], DOMAIN h) = Total(DOMAIN h, h)
      BY SumIsTotal
    <3>2. MapThenSumSet(LAMBDA c : h[c], DOMAIN h) = Cardinality(refused) /\ g = h
      BY <2>1, <2>5
    <3> HIDE DEF g, h
    <3>3. MapThenSumSet(LAMBDA c : g[c], DOMAIN g) = Cardinality(refused)
      BY <3>1, <3>2, Zenon
    <3> QED BY <2>1, <2>9, <3>3 DEF g
  <2> QED BY <2>1, <2>3, <2>7, <2>8, <2>10, Zenon
<1>2. AccountsInv => UploadAccountsForEveryPhoto
  BY <1>1, Zenon DEF UploadAccountsForEveryPhoto
<1> QED
  BY <1>2, AccountsInit, AccountsNext, PTL DEF UploadSpec

-----------------------------------------------------------------------------
(* What a match rests on. Rows that can be used are noted, banks hold such *)
(* rows, and every score of the face at hand is that of such a row.        *)
ShownInv ==
    phase # "idle" =>
        gates \in GateSets /\ shown \subseteq Rows /\ {r \in Rows : Usable(r)} \subseteq shown

BankInv == \A m \in DOMAIN bank : m \in Models /\ bank[m] \subseteq shown \cap RowsOfModel(m)

ScoredBy(m, s, v) ==
    \E r \in shown : StudentOf(r) = s /\ Template[r].model = m /\ v = RowScore(frame[faceAt], r)

FaceInv ==
    /\ phase \in {"idle", "resolve", "banks"} => scores = <<>>
    /\ phase = "banks" /\ faceAt # 0 => faceAt \in 1 .. Len(frame)
    /\ phase \in {"query", "decide"} =>
          /\ faceAt \in 1 .. Len(frame)
          /\ \A m \in DOMAIN scores :
                m \in Models /\ \A s \in DOMAIN scores[m] : ScoredBy(m, s, scores[m][s])

MatchesInv == matches \in Seq(Match) /\ MatchesRestOnATemplate

(* With banks from the start they are complete before the first face, and  *)
(* the scores are the best of their rows.                                  *)
AheadInv ==
    /\ phase = "resolve" => backend # "numpy"
    /\ phase \in {"face", "decide"} /\ backend = "numpy" => LoadedAll
    /\ phase # "idle" /\ gates.backend = "numpy" =>
          backend = "numpy" /\ (phase = "banks" => faceAt = 0 /\ matches = <<>>)
    /\ phase = "decide" /\ backend = "numpy" /\ scores # <<>> =>
          scores = [m \in Probes |-> BestPerStudent(frame[faceAt], bank[m])]
    /\ MarginOverTheBank

MatchInv == FrameInv /\ ShownInv /\ BankInv /\ FaceInv /\ MatchesInv /\ AheadInv

LEMMA FaceOfFrame ==
    ASSUME FrameInv, phase # "idle", NEW i \in 1 .. Len(frame)
    PROVE  frame[i] \in Face /\ frame \in Seq(Face) /\ Len(frame) \in Nat
<1>1. frame \in Seq(Face)
  BY FramesAssumption DEF FrameInv, ProgressInv
<1>2. frame[i] \in Face
  BY <1>1, ElementOfSeq
<1> QED
  BY <1>1, <1>2, LenProperties

LEMMA RowScoreIsSmall ==
    ASSUME NEW f \in Face, NEW r \in Rows
    PROVE  RowScore(f, r) \in 0 .. 100 /\ StudentOf(r) \in Students
<1>1. f.similarity[r] \in 0 .. 10
  BY DEF Face
<1>2. Template[r].retention \in 0 .. 10 /\ Template[r].student \in Students
  BY TemplateAssumption
<1> QED
  BY <1>1, <1>2 DEF RowScore, StudentOf

(* The score of a student is that of one of the rows, and none is better.  *)
LEMMA BestRows ==
    ASSUME NEW f \in Face, NEW some \in SUBSET Rows
    PROVE  /\ DOMAIN BestPerStudent(f, some) = {StudentOf(r) : r \in some}
           /\ \A s \in DOMAIN BestPerStudent(f, some) :
                 \E r \in some : StudentOf(r) = s /\ BestPerStudent(f, some)[s] = RowScore(f, r)
           /\ \A r \in some : RowScore(f, r) <= BestPerStudent(f, some)[StudentOf(r)]
<1> DEFINE best == BestPerStudent(f, some)
           Of(s) == {RowScore(f, r) : r \in {q \in some : StudentOf(q) = s}}
           hi == 100
<1>1. DOMAIN best = {StudentOf(r) : r \in some} /\ \A s \in DOMAIN best : best[s] = Max(Of(s))
  BY Zenon DEF BestPerStudent
<1>2. \A r \in some : RowScore(f, r) \in 0 .. hi
  BY RowScoreIsSmall
<1>3. hi \in Int /\ 0 \in Int
  OBVIOUS
<1> HIDE DEF hi, best
<1>4. ASSUME NEW s \in DOMAIN best
      PROVE  best[s] \in Of(s) /\ \A y \in Of(s) : best[s] >= y
  <2>1. Of(s) # {} /\ Of(s) \subseteq 0 .. hi
    BY <1>1, <1>2
  <2> HIDE DEF Of
  <2> QED BY <1>1, <1>3, <2>1, MaximumIsIn, Zenon
<1>5. \A s \in DOMAIN best : \E r \in some : StudentOf(r) = s /\ best[s] = RowScore(f, r)
  BY <1>4
<1>6. ASSUME NEW r \in some
      PROVE  RowScore(f, r) <= best[StudentOf(r)]
  <2>1. StudentOf(r) \in DOMAIN best /\ RowScore(f, r) \in Of(StudentOf(r))
    BY <1>1
  <2>2. best[StudentOf(r)] >= RowScore(f, r)
    BY <1>4, <2>1
  <2>3. best[StudentOf(r)] \in 0 .. hi /\ RowScore(f, r) \in 0 .. hi
    BY <1>2, <1>5, <2>1
  <2> QED BY <1>3, <2>2, <2>3
<1> QED
  BY <1>1, <1>5, <1>6 DEF best

(* Scores that the models gave are those of rows that were found.          *)
LEMMA ScoredByRows ==
    ASSUME FrameInv, ShownInv, phase # "idle", faceAt \in 1 .. Len(frame), NEW m \in Models,
           NEW some \in SUBSET (shown \cap RowsOfModel(m)),
           NEW s \in DOMAIN BestPerStudent(frame[faceAt], some)
    PROVE  ScoredBy(m, s, BestPerStudent(frame[faceAt], some)[s])
<1>1. frame[faceAt] \in Face /\ some \in SUBSET Rows
  BY FaceOfFrame DEF ShownInv
<1>2. PICK r \in some : StudentOf(r) = s /\ BestPerStudent(frame[faceAt], some)[s] = RowScore(frame[faceAt], r)
  BY <1>1, BestRows
<1> QED
  BY <1>2 DEF ScoredBy, RowsOfModel

(* The sums of _score_fused, over the models that know a student.          *)
WeightAt(s) == [m \in ModelsOf(s) |-> Weight(m)]
ShareAt(s) == [m \in ModelsOf(s) |-> Weight(m) * scores[m][s]]

LEMMA WeightIsTotal == \A s : WeightOf(s) = Total(ModelsOf(s), WeightAt(s))
<1> SUFFICES ASSUME NEW s PROVE WeightOf(s) = Total(ModelsOf(s), WeightAt(s))
  OBVIOUS
<1> DEFINE S == ModelsOf(s)
           w == WeightAt(s)
           Next2(t, g) == IF t = {} THEN 0 ELSE LET x == CHOOSE x \in t : TRUE IN Weight(x) + g[t \ {x}]
           Unfolds2(g) == g = [t \in SUBSET S |-> Next2(t, g)]
<1>1. WeightOf(s) = (CHOOSE g : Unfolds2(g))[S]
  BY DEF WeightOf, MapThenSumSet, MapThenFoldSet
<1>2. ASSUME NEW g, NEW t \in SUBSET S
      PROVE  Added(t, w, g) = Next2(t, g)
  <2>1. CASE t = {}
    BY <2>1 DEF Added
  <2>2. CASE t # {}
    <3> DEFINE x == CHOOSE x \in t : TRUE
    <3>1. x \in S
      BY <2>2
    <3>2. w[x] = Weight(x)
      <4> HIDE DEF x
      <4> QED BY <3>1 DEF WeightAt
    <3> HIDE DEF w
    <3> QED BY <2>2, <3>2, Zenon DEF Added
  <2> QED BY <2>1, <2>2
<1>3. \A g : Unfolds(S, w, g) <=> Unfolds2(g)
  <2> HIDE DEF Next2, S, w
  <2>1. ASSUME NEW g
        PROVE  [t \in SUBSET S |-> Added(t, w, g)] = [t \in SUBSET S |-> Next2(t, g)]
    BY <1>2
  <2> QED BY <2>1, Zenon DEF Unfolds
<1> HIDE DEF Unfolds2, S, w
<1>4. (CHOOSE g : Unfolds(S, w, g)) = (CHOOSE g : Unfolds2(g))
  BY <1>3
<1> QED
  BY <1>1, <1>4 DEF Total, S, w

LEMMA ShareIsTotal ==
    \A s : MapThenSumSet(LAMBDA m : Weight(m) * scores[m][s], ModelsOf(s)) = Total(ModelsOf(s), ShareAt(s))
<1> SUFFICES ASSUME NEW s
             PROVE  MapThenSumSet(LAMBDA m : Weight(m) * scores[m][s], ModelsOf(s))
                    = Total(ModelsOf(s), ShareAt(s))
  OBVIOUS
<1> DEFINE S == ModelsOf(s)
           w == ShareAt(s)
           Next2(t, g) == IF t = {} THEN 0
                          ELSE LET x == CHOOSE x \in t : TRUE IN Weight(x) * scores[x][s] + g[t \ {x}]
           Unfolds2(g) == g = [t \in SUBSET S |-> Next2(t, g)]
<1>1. MapThenSumSet(LAMBDA m : Weight(m) * scores[m][s], S) = (CHOOSE g : Unfolds2(g))[S]
  BY DEF MapThenSumSet, MapThenFoldSet
<1>2. ASSUME NEW g, NEW t \in SUBSET S
      PROVE  Added(t, w, g) = Next2(t, g)
  <2>1. CASE t = {}
    BY <2>1 DEF Added
  <2>2. CASE t # {}
    <3> DEFINE x == CHOOSE x \in t : TRUE
    <3>1. x \in S
      BY <2>2
    <3>2. w[x] = Weight(x) * scores[x][s]
      <4> HIDE DEF x
      <4> QED BY <3>1 DEF ShareAt
    <3> HIDE DEF w
    <3> QED BY <2>2, <3>2, Zenon DEF Added
  <2> QED BY <2>1, <2>2
<1>3. \A g : Unfolds(S, w, g) <=> Unfolds2(g)
  <2> HIDE DEF Next2, S, w
  <2>1. ASSUME NEW g
        PROVE  [t \in SUBSET S |-> Added(t, w, g)] = [t \in SUBSET S |-> Next2(t, g)]
    BY <1>2
  <2> QED BY <2>1, Zenon DEF Unfolds
<1> HIDE DEF Unfolds2, S, w
<1>4. (CHOOSE g : Unfolds(S, w, g)) = (CHOOSE g : Unfolds2(g))
  BY <1>3
<1> QED
  BY <1>1, <1>4 DEF Total, S, w

(* The models that know a student, and the one that scores highest.        *)
LEMMA TopModel ==
    ASSUME FrameInv, ShownInv, FaceInv, phase = "decide", NEW s \in Contenders
    PROVE  /\ IsFiniteSet(ModelsOf(s))
           /\ \A m \in ModelsOf(s) :
                 /\ m \in Models /\ m \in Selected /\ s \in DOMAIN scores[m] /\ scores[m][s] \in 0 .. 100
                 /\ ScoredBy(m, s, scores[m][s])
           /\ \E top \in ModelsOf(s) :
                 /\ \A m \in ModelsOf(s) : scores[m][s] <= scores[top][s]
                 /\ Max({scores[m][s] : m \in ModelsOf(s)}) = scores[top][s]
<1> DEFINE V == {scores[m][s] : m \in ModelsOf(s)}
           hi == 100
<1>1. \A m \in ModelsOf(s) : m \in Selected /\ m \in DOMAIN scores /\ s \in DOMAIN scores[m]
  BY DEF ModelsOf, Selected, Available
<1>2. \A m \in ModelsOf(s) : m \in Models /\ ScoredBy(m, s, scores[m][s])
  BY <1>1 DEF FaceInv
<1>3. frame[faceAt] \in Face
  BY FaceOfFrame DEF FaceInv
<1>4. \A m \in ModelsOf(s) : scores[m][s] \in 0 .. hi
  BY <1>2, <1>3, RowScoreIsSmall DEF ScoredBy, ShownInv
<1>5. IsFiniteSet(ModelsOf(s))
  BY <1>2, ModelsAssumption, FS_Subset
<1>6. V # {} /\ hi \in Int /\ 0 \in Int
  BY DEF Contenders
<1> HIDE DEF hi
<1>7. V \subseteq 0 .. hi
  BY <1>4
<1>8. Max(V) \in V /\ \A y \in V : Max(V) >= y
  <2> HIDE DEF V
  <2> QED BY <1>6, <1>7, MaximumIsIn, Zenon
<1>9. PICK top \in ModelsOf(s) : Max(V) = scores[top][s]
  BY <1>8
<1>10. \A m \in ModelsOf(s) : scores[m][s] <= scores[top][s]
  BY <1>4, <1>6, <1>8, <1>9
<1> QED
  BY <1>1, <1>2, <1>4, <1>5, <1>9, <1>10 DEF hi

(* However models are weighted, the fused score of a student is at most    *)
(* the highest that one of them gave.                                      *)
LEMMA FusedIsBelow ==
    ASSUME FrameInv, ShownInv, FaceInv, phase = "decide", NEW s \in Contenders
    PROVE  /\ Fused(s) \in Nat
           /\ \E top \in ModelsOf(s) : Fused(s) <= Scale * scores[top][s]
<1>1. PICK top \in ModelsOf(s) :
         /\ \A m \in ModelsOf(s) : scores[m][s] <= scores[top][s]
         /\ Max({scores[m][s] : m \in ModelsOf(s)}) = scores[top][s]
  BY TopModel
<1>2. \A m \in ModelsOf(s) : m \in Models /\ m \in Selected /\ scores[m][s] \in Nat
  BY TopModel
<1>3. Scale \in Nat /\ Scale > 0 /\ scores[top][s] \in Nat
  BY <1>1, <1>2, ModelsAssumption
<1> DEFINE best == scores[top][s]
           plain == gates.fusion = "max_confidence" /\ gates.forced = "none"
<1>4. CASE plain
  <2>1. Fused(s) = Scale * best
    BY <1>1, <1>4 DEF Fused
  <2> HIDE DEF best
  <2>2. Fused(s) \in Nat /\ Fused(s) <= Scale * best
    BY <1>3, <2>1 DEF best
  <2> QED BY <1>1, <2>2 DEF best
<1>5. CASE ~plain
  <2> DEFINE w == WeightAt(s)
             p == ShareAt(s)
             whole == Total(ModelsOf(s), w)
             share == Total(ModelsOf(s), p)
  <2>1. WeightOf(s) > 0 /\ Fused(s) = (Scale * share) \div whole /\ WeightOf(s) = whole
    <3>1. Fused(s) = (Scale * MapThenSumSet(LAMBDA m : Weight(m) * scores[m][s], ModelsOf(s))) \div WeightOf(s)
      BY <1>5, Zenon DEF Fused
    <3>2. WeightOf(s) > 0
      BY <1>5 DEF Contenders
    <3> QED BY <3>1, <3>2, WeightIsTotal, ShareIsTotal, Zenon
  <2>2. ASSUME NEW m \in ModelsOf(s)
        PROVE  w[m] \in Nat /\ p[m] \in Nat /\ p[m] <= best * w[m]
    <3>1. Weight(m) \in Nat
      <4>1. gates \in Gates
        BY GatesAssumption DEF ShownInv
      <4>2. gates.weight[m] \in Nat
        BY <1>2, <2>2, <4>1 DEF Gates
      <4> QED BY <4>2 DEF Weight
    <3>2. w[m] = Weight(m) /\ p[m] = Weight(m) * scores[m][s]
      BY <2>2 DEF WeightAt, ShareAt
    <3>3. scores[m][s] \in Nat /\ scores[m][s] <= best /\ best \in Nat
      BY <1>1, <1>2, <2>2
    <3> DEFINE a == Weight(m)
               c == scores[m][s]
    <3>4. a \in Nat /\ c \in Nat /\ best \in Nat /\ c <= best
      BY <3>1, <3>3
    <3> HIDE DEF a, c, best, w, p
    <3>5. a * c \in Nat /\ a * c <= best * a
      BY <3>4
    <3> QED BY <3>1, <3>2, <3>5 DEF a, c
  <2>3. IsFiniteSet(ModelsOf(s)) /\ best \in Nat
    BY <1>3, TopModel
  <2> HIDE DEF w, p, best
  <2>4. whole \in Nat /\ share \in Nat /\ share <= best * whole
    BY <2>2, <2>3, TotalsCompare
  <2> HIDE DEF whole, share
  <2>5. Scale * share \in Nat /\ Scale * best \in Nat /\ Scale * share <= (Scale * best) * whole
    BY <1>3, <2>3, <2>4
  <2>6. Fused(s) \in Nat /\ Fused(s) <= Scale * best
    BY <2>1, <2>4, <2>5, QuotientBelow
  <2> QED BY <1>1, <2>6 DEF best
<1> QED
  BY <1>4, <1>5

(* With one model only the fused score is the model's own.                 *)
LEMMA LoneModel ==
    ASSUME FrameInv, ShownInv, FaceInv, phase = "decide", NEW n \in Models, n = gates.forced,
           DOMAIN scores \subseteq {n}, NEW s, ModelsOf(s) # {}
    PROVE  /\ ModelsOf(s) = {n} /\ WeightOf(s) = 1 /\ DecisionModels(s) = {n}
           /\ scores[n][s] \in Nat /\ Fused(s) = Scale * scores[n][s]
<1>1. n # "none" /\ Scale \in Nat
  BY ModelsAssumption
<1>2. Selected \subseteq {n} /\ ModelsOf(s) \subseteq Selected
  BY DEF ModelsOf, Selected, Available
<1>3. ModelsOf(s) = {n} /\ Selected = {n} /\ s \in DOMAIN scores[n] /\ n \in DOMAIN scores
  BY <1>2 DEF ModelsOf, Selected, Available
<1>4. Cardinality({n}) = 1
  BY FS_Singleton
<1>5. Weight(n) = 1
  BY <1>3, <1>4 DEF Weight
<1>6. scores[n][s] \in Nat
  <2>1. ScoredBy(n, s, scores[n][s])
    BY <1>3 DEF FaceInv
  <2>2. frame[faceAt] \in Face
    BY FaceOfFrame DEF FaceInv
  <2>3. scores[n][s] \in 0 .. 100
    BY <2>1, <2>2, RowScoreIsSmall DEF ScoredBy, ShownInv
  <2> QED BY <2>3
<1>7. WeightOf(s) = 1
  <2>1. WeightAt(s)[n] = 1
    BY <1>3, <1>5 DEF WeightAt
  <2>2. Total({n}, WeightAt(s)) = WeightAt(s)[n]
    BY <2>1, TotalOfOne
  <2> QED BY <1>3, <2>1, <2>2, WeightIsTotal
<1>8. MapThenSumSet(LAMBDA m : Weight(m) * scores[m][s], ModelsOf(s)) = scores[n][s]
  <2>1. ShareAt(s)[n] = scores[n][s]
    BY <1>3, <1>5, <1>6 DEF ShareAt
  <2>2. Total({n}, ShareAt(s)) = ShareAt(s)[n]
    BY <1>6, <2>1, TotalOfOne
  <2> QED BY <1>3, <2>1, <2>2, ShareIsTotal, Zenon
<1>9. Fused(s) = (Scale * MapThenSumSet(LAMBDA m : Weight(m) * scores[m][s], ModelsOf(s))) \div WeightOf(s)
  BY <1>1, Zenon DEF Fused
<1>10. Fused(s) = Scale * scores[n][s]
  <2> DEFINE v == scores[n][s]
  <2>1. Fused(s) = (Scale * v) \div 1
    BY <1>7, <1>8, <1>9, Zenon
  <2>2. v \in Nat
    BY <1>6
  <2> HIDE DEF v
  <2>3. (Scale * v) \div 1 = Scale * v
    <3>1. Scale * v \in Nat
      BY <1>1, <2>2
    <3> DEFINE z == Scale * v
    <3> HIDE DEF z
    <3>2. z \in Nat => z \div 1 = z
      OBVIOUS
    <3> QED BY <3>1, <3>2 DEF z
  <2> QED BY <2>1, <2>3 DEF v
<1>11. DecisionModels(s) = {n}
  BY <1>1, <1>3, <1>4 DEF DecisionModels
<1> QED
  BY <1>3, <1>6, <1>7, <1>10, <1>11

(* A student that is accepted has a row whose score reaches a relaxed      *)
(* threshold: one of that model, or any where ArcFace decides.             *)
LEMMA AcceptedRests ==
    ASSUME FrameInv, ShownInv, FaceInv, phase = "decide", NEW s \in Contenders, Accepts(s)
    PROVE  \E r \in shown :
              /\ StudentOf(r) = s
              /\ \E n \in {"arcface", Template[r].model} \cap Models :
                    RowScore(frame[faceAt], r) >= gates.relaxed[n]
<1>1. Fused(s) \in Nat
  BY FusedIsBelow
<1>2. PICK top \in ModelsOf(s) : Fused(s) <= Scale * scores[top][s]
  BY FusedIsBelow
<1>3. \A m \in ModelsOf(s) : m \in Models /\ scores[m][s] \in 0 .. 100 /\ ScoredBy(m, s, scores[m][s])
  BY TopModel
<1>4. PICK d \in DecisionModels(s) :
         \/ Fused(s) >= Scale * gates.strict[d]
         \/ Fused(s) >= Scale * gates.relaxed[d] /\ Ahead(s, gates.margin)
  BY DEF Accepts
<1>5. \E t \in ModelsOf(s) : Fused(s) <= Scale * scores[t][s] /\ (t = d \/ d = "arcface")
  <2>1. CASE gates.fusion = "max_confidence" /\ gates.forced = "none"
    <3>1. d \in ModelsOf(s) /\ Scale * scores[d][s] = Fused(s)
      BY <2>1 DEF DecisionModels
    <3> QED BY <1>1, <3>1
  <2>2. CASE ~(gates.fusion = "max_confidence" /\ gates.forced = "none") /\ Cardinality(ModelsOf(s)) = 1
    <3>1. d \in ModelsOf(s)
      BY <2>2 DEF DecisionModels
    <3>2. PICK x : ModelsOf(s) = {x}
      BY <2>2, TopModel, FS_Singleton
    <3> QED BY <1>2, <3>1, <3>2
  <2>3. CASE ~(gates.fusion = "max_confidence" /\ gates.forced = "none") /\ Cardinality(ModelsOf(s)) # 1
    <3>1. d = "arcface"
      BY <2>3 DEF DecisionModels
    <3> QED BY <1>2, <3>1
  <2> QED BY <2>1, <2>2, <2>3
<1>6. PICK t \in ModelsOf(s) : Fused(s) <= Scale * scores[t][s] /\ (t = d \/ d = "arcface")
  BY <1>5
<1>7. d \in Models
  BY <1>3, <1>6, ModelsAssumption
<1>8. gates.relaxed[d] \in Nat /\ gates.strict[d] \in Nat /\ gates.relaxed[d] <= gates.strict[d]
  <2>1. gates \in Gates /\ gates.relaxed[d] <= gates.strict[d]
    BY <1>7, GatesAssumption DEF ShownInv
  <2> QED BY <1>7, <2>1 DEF Gates
<1>9. scores[t][s] >= gates.relaxed[d]
  <2> DEFINE v == scores[t][s]
             lo == gates.relaxed[d]
             hi == gates.strict[d]
             k == Fused(s)
  <2>1. k \in Nat /\ v \in Nat /\ lo \in Nat /\ hi \in Nat /\ lo <= hi /\ Scale \in Nat /\ Scale > 0
    BY <1>1, <1>3, <1>8, ModelsAssumption
  <2>2. k <= Scale * v /\ (k >= Scale * hi \/ k >= Scale * lo)
    BY <1>4, <1>6
  <2> HIDE DEF v, lo, hi, k
  <2>3. Scale * lo <= Scale * hi /\ Scale * lo \in Nat /\ Scale * hi \in Nat /\ Scale * v \in Nat
    BY <2>1
  <2>4. Scale * lo <= Scale * v
    BY <2>1, <2>2, <2>3
  <2>5. ASSUME v + 1 <= lo PROVE FALSE
    <3>1. Scale * (v + 1) <= Scale * lo
      BY <2>1, <2>5
    <3>2. Scale * (v + 1) = Scale * v + Scale
      BY <2>1
    <3> QED BY <2>1, <2>3, <2>4, <3>1, <3>2
  <2>6. v >= lo
    BY <2>1, <2>5
  <2> QED BY <2>6 DEF v, lo
<1>10. PICK r \in shown : StudentOf(r) = s /\ Template[r].model = t /\ scores[t][s] = RowScore(frame[faceAt], r)
  BY <1>3 DEF ScoredBy
<1> QED
  BY <1>6, <1>7, <1>9, <1>10

(* Where one model decides and banks are complete, a student accepted      *)
(* below the strict threshold is ahead of all rows of other students.      *)
LEMMA AheadOfBank ==
    ASSUME MatchInv, phase = "decide", scores # <<>>, gates.backend = "numpy",
           NEW s \in Contenders, Accepts(s), NEW n \in Models, n = gates.forced,
           frame[faceAt].probes = {n}, Fused(s) < Scale * gates.strict[n],
           NEW r \in bank[n], StudentOf(r) # s
    PROVE  Scale * (RowScore(frame[faceAt], r) + gates.margin) <= Fused(s)
<1> DEFINE t == StudentOf(r)
           f == frame[faceAt]
           v == scores[n][t]
           k == RowScore(f, r)
<1>1. /\ FrameInv /\ ShownInv /\ FaceInv /\ BankInv
      /\ backend = "numpy" /\ scores = [m \in Probes |-> BestPerStudent(f, bank[m])]
  BY DEF MatchInv, AheadInv
<1>2. f \in Face /\ gates \in Gates
  BY <1>1, FaceOfFrame, GatesAssumption DEF FaceInv, ShownInv
<1>3. Probes \subseteq {n} /\ DOMAIN scores = Probes
  BY <1>1 DEF Probes
<1>4. ModelsOf(s) # {}
  BY DEF Contenders
<1>5. ModelsOf(s) = {n} /\ DecisionModels(s) = {n} /\ Fused(s) = Scale * scores[n][s] /\ scores[n][s] \in Nat
  BY <1>1, <1>3, <1>4, LoneModel
<1>6. n \in Selected /\ n \in DOMAIN scores
  BY <1>5 DEF ModelsOf, Selected, Available
<1>7. bank[n] \in SUBSET Rows
  <2>1. n \in DOMAIN bank
    BY <1>1 DEF MatchInv, AheadInv, LoadedAll
  <2> QED BY <1>1, <2>1 DEF BankInv, ShownInv
<1>8. scores[n] = BestPerStudent(f, bank[n])
  BY <1>1, <1>3, <1>6
<1>9. t \in DOMAIN scores[n] /\ k <= v
  <2> DEFINE best == BestPerStudent(f, bank[n])
  <2>1. DOMAIN best = {StudentOf(q) : q \in bank[n]} /\ RowScore(f, r) <= best[StudentOf(r)]
    BY <1>2, <1>7, BestRows
  <2> HIDE DEF best
  <2> QED BY <1>8, <2>1 DEF best
<1>10. ModelsOf(t) # {}
  BY <1>6, <1>9 DEF ModelsOf
<1>11. Fused(t) = Scale * v /\ v \in Nat /\ WeightOf(t) = 1
  BY <1>1, <1>3, <1>10, LoneModel
<1>12. t \in Students /\ k \in 0 .. 100
  BY <1>2, <1>7, RowScoreIsSmall
<1>13. t \in Contenders \ {s}
  BY <1>10, <1>11, <1>12 DEF Contenders
<1>14. Ahead(s, gates.margin)
  <2>1. \/ Fused(s) >= Scale * gates.strict[n]
        \/ Fused(s) >= Scale * gates.relaxed[n] /\ Ahead(s, gates.margin)
    BY <1>5 DEF Accepts
  <2>2. ~(Fused(s) >= Scale * gates.strict[n])
    <3>1. Fused(s) \in Nat
      BY <1>1, FusedIsBelow
    <3>2. Scale * gates.strict[n] \in Nat
      <4>1. gates.strict[n] \in Nat /\ Scale \in Nat
        BY <1>2, ModelsAssumption DEF Gates
      <4> QED BY <4>1
    <3> DEFINE a == Fused(s)
               b == Scale * gates.strict[n]
    <3>3. a \in Nat /\ b \in Nat /\ a < b
      BY <3>1, <3>2
    <3> HIDE DEF a, b
    <3>4. ~(a >= b)
      BY <3>3
    <3> QED BY <3>4 DEF a, b
  <2> QED BY <2>1, <2>2
<1>15. Fused(s) >= Fused(t) + Scale * gates.margin
  BY <1>13, <1>14 DEF Ahead
<1>16. gates.margin \in Nat /\ Scale \in Nat
  BY <1>2, ModelsAssumption DEF Gates
<1> DEFINE a == Fused(s)
           g == gates.margin
<1>17. a >= Scale * v + Scale * g /\ a \in Nat
  BY <1>1, <1>11, <1>15, FusedIsBelow
<1>21. k \in Nat
  <2> HIDE DEF k
  <2> QED BY <1>12
<1> HIDE DEF a, g, v, k
<1>18. k \in Nat /\ k <= v /\ v \in Nat /\ g \in Nat /\ Scale \in Nat
  BY <1>9, <1>11, <1>16, <1>21 DEF g
<1>19. Scale * (k + g) = Scale * k + Scale * g /\ Scale * k <= Scale * v
       /\ Scale * k \in Nat /\ Scale * g \in Nat /\ Scale * v \in Nat
  BY <1>18
<1>20. Scale * (k + g) <= a
  BY <1>17, <1>18, <1>19
<1> QED
  BY <1>20 DEF a, g, k, f

LEMMA RangeOfAppend ==
    ASSUME NEW T, NEW q \in Seq(T), NEW e \in T
    PROVE  Append(q, e) \in Seq(T) /\ Range(Append(q, e)) = Range(q) \cup {e}
<1>1. /\ Append(q, e) \in Seq(T) /\ Len(q) \in Nat /\ Len(Append(q, e)) = Len(q) + 1
      /\ (\A i \in 1 .. Len(q) : Append(q, e)[i] = q[i]) /\ Append(q, e)[Len(q) + 1] = e
  BY AppendProperties, LenProperties
<1>2. DOMAIN q = 1 .. Len(q) /\ DOMAIN Append(q, e) = 1 .. Len(q) + 1
  BY <1>1, LenProperties
<1>3. \A i \in 1 .. Len(q) + 1 : i \in 1 .. Len(q) \/ i = Len(q) + 1
  BY <1>1
<1>4. Len(q) + 1 \in 1 .. Len(q) + 1 /\ \A i \in 1 .. Len(q) : i \in 1 .. Len(q) + 1
  BY <1>1
<1>5. Range(q) = {q[i] : i \in 1 .. Len(q)} /\ Range(Append(q, e)) = {Append(q, e)[i] : i \in 1 .. Len(q) + 1}
  BY <1>2 DEF Range
<1>6. \A x \in Range(Append(q, e)) : x \in Range(q) \cup {e}
  BY <1>1, <1>3, <1>5
<1>7. \A x \in Range(q) \cup {e} : x \in Range(Append(q, e))
  BY <1>1, <1>4, <1>5
<1> QED
  BY <1>1, <1>6, <1>7

(* A frame, its gates and its banks do not change under its matches.       *)
LEMMA MatchesStay ==
    ASSUME MatchesInv, MarginOverTheBank, UNCHANGED <<matches, frame, gates>>, shown \subseteq shown',
           UNCHANGED bank \/ matches = <<>>
    PROVE  MatchesInv' /\ MarginOverTheBank'
<1>1. MatchesInv'
  BY DEF MatchesInv, MatchesRestOnATemplate
<1>2. MarginOverTheBank'
  BY DEF MarginOverTheBank, Range
<1> QED
  BY <1>1, <1>2

LEMMA DecideRests == MatchInv /\ Decide => MatchInv'
<1> SUFFICES ASSUME MatchInv, Decide PROVE MatchInv'
  OBVIOUS
<1>1. /\ FrameInv /\ ShownInv /\ BankInv /\ FaceInv /\ MatchesInv /\ AheadInv
      /\ phase = "decide" /\ scores # <<>> /\ phase' = "face"
      /\ UNCHANGED <<status, enrolled, gates, frame, backend, bank, scores, shown>>
  BY DEF MatchInv, Decide
<1>2. FrameInv'
  BY <1>1, ScoringKeeps
<1>3. ShownInv' /\ BankInv' /\ FaceInv'
  BY <1>1 DEF ShownInv, BankInv, FaceInv, Usable, Servable, Candidates, RowsOfModel, StudentOf
<1>4. MatchesInv' /\ MarginOverTheBank'
  <2>1. CASE matches' = matches
    BY <1>1, <2>1, MatchesStay DEF AheadInv
  <2>2. ASSUME NEW best \in Contenders, Accepts(best),
               matches' = Append(matches, [student |-> best, score |-> Fused(best), face |-> faceAt])
        PROVE  MatchesInv' /\ MarginOverTheBank'
    <3> DEFINE new == [student |-> best, score |-> Fused(best), face |-> faceAt]
    <3>1. new \in Match
      <4>1. best \in Students /\ Fused(best) \in Nat
        BY <1>1, FusedIsBelow DEF Contenders
      <4>2. faceAt \in Nat \ {0}
        BY <1>1 DEF FrameInv, ProgressInv
      <4> QED BY <4>1, <4>2 DEF Match
    <3>2. new.student = best /\ new.score = Fused(best) /\ new.face = faceAt
      OBVIOUS
    <3> HIDE DEF new
    <3>3. matches' = Append(matches, new)
      BY <2>2 DEF new
    <3>4. matches' \in Seq(Match) /\ Range(matches') = Range(matches) \cup {new}
      BY <1>1, <3>1, <3>3, RangeOfAppend DEF MatchesInv
    <3>5. MatchesRestOnATemplate'
      <4>1. \E r \in shown :
               /\ StudentOf(r) = best
               /\ \E n \in {"arcface", Template[r].model} \cap Models :
                     RowScore(frame[faceAt], r) >= gates.relaxed[n]
        BY <1>1, <2>2, AcceptedRests
      <4>2. \A m \in Range(matches) : \E r \in shown :
               /\ StudentOf(r) = m.student
               /\ \E n \in {"arcface", Template[r].model} \cap Models :
                     RowScore(frame[m.face], r) >= gates.relaxed[n]
        BY <1>1 DEF MatchesInv, MatchesRestOnATemplate
      <4> QED BY <1>1, <3>2, <3>4, <4>1, <4>2 DEF MatchesRestOnATemplate
    <3>6. MarginOverTheBank'
      <4> SUFFICES ASSUME gates.backend = "numpy", NEW n \in Models, n = gates.forced,
                          NEW m \in Range(matches'), frame[m.face].probes = {n},
                          m.score < Scale * gates.strict[n],
                          NEW r \in bank[n], StudentOf(r) # m.student, gates # <<>>
                   PROVE  Scale * (RowScore(frame[m.face], r) + gates.margin) <= m.score
        BY <1>1 DEF MarginOverTheBank
      <4>1. CASE m = new
        BY <1>1, <2>2, <3>2, <4>1, AheadOfBank
      <4>2. CASE m \in Range(matches)
        BY <1>1, <4>2 DEF AheadInv, MarginOverTheBank
      <4> QED BY <3>4, <4>1, <4>2
    <3> QED BY <3>4, <3>5, <3>6 DEF MatchesInv
  <2>3. \/ matches' = matches
        \/ \E best \in Contenders :
              Accepts(best)
              /\ matches' = Append(matches, [student |-> best, score |-> Fused(best), face |-> faceAt])
    BY Zenon DEF Decide
  <2> QED BY <2>1, <2>2, <2>3
<1>5. AheadInv'
  BY <1>1, <1>4 DEF AheadInv, LoadedAll
<1> QED
  BY <1>2, <1>3, <1>4, <1>5 DEF MatchInv

LEMMA NothingMatched ==
    ASSUME matches = <<>>
    PROVE  MatchesInv /\ MarginOverTheBank
<1>1. Range(matches) = {} /\ matches \in Seq(Match)
  BY DEF Range
<1> QED
  BY <1>1 DEF MatchesInv, MatchesRestOnATemplate, MarginOverTheBank

LEMMA UsableIsShown ==
    ASSUME ShownInv, phase # "idle", NEW m \in Models
    PROVE  Bank(m) \subseteq shown \cap RowsOfModel(m) /\ Candidates(m) \subseteq shown \cap RowsOfModel(m)
<1>1. \A r \in Bank(m) : r \in Rows /\ r \in RowsOfModel(m) /\ Usable(r)
  BY DEF Bank, RowsOfModel, Usable
<1>2. \A r \in Candidates(m) : r \in Rows /\ r \in RowsOfModel(m) /\ Usable(r)
  BY DEF Candidates, RowsOfModel, Usable
<1> QED
  BY <1>1, <1>2 DEF ShownInv

LEMMA EditRests == MatchInv /\ Edit => MatchInv'
<1> SUFFICES ASSUME MatchInv, Edit PROVE MatchInv'
  OBVIOUS
<1>1. /\ FrameInv /\ ShownInv /\ BankInv /\ FaceInv /\ MatchesInv /\ AheadInv
      /\ UNCHANGED <<phase, gates, frame, faceAt, backend, bank, scores, matches>>
      /\ shown' = IF phase = "idle" THEN shown ELSE shown \cup {r \in Rows : Usable(r)'}
  BY DEF MatchInv, Edit
<1>2. FrameInv' /\ shown \subseteq shown'
  BY <1>1, EditKeeps
<1>3. ShownInv'
  BY <1>1 DEF ShownInv
<1>4. BankInv'
  BY <1>1, <1>2 DEF BankInv, RowsOfModel
<1>5. FaceInv'
  BY <1>1, <1>2 DEF FaceInv, ScoredBy, RowScore, StudentOf
<1>6. MatchesInv' /\ MarginOverTheBank'
  BY <1>1, <1>2, MatchesStay DEF AheadInv
<1>7. AheadInv'
  BY <1>1, <1>6 DEF AheadInv, LoadedAll, Probes
<1> QED
  BY <1>2, <1>3, <1>4, <1>5, <1>6, <1>7 DEF MatchInv

LEMMA StartFrameRests ==
    ASSUME MatchInv, NEW f \in Frames, NEW g \in GateSets, StartFrame(f, g)
    PROVE  MatchInv'
<1>1. /\ FrameInv /\ FaceInv /\ phase = "idle" /\ frame' = f /\ gates' = g /\ backend' = g.backend
      /\ UNCHANGED <<bank, scores, matches>> /\ shown' = {r \in Rows : Usable(r)'}
      /\ faceAt' = IF g.backend = "hnsw" THEN 1 ELSE 0
  BY DEF MatchInv, StartFrame
<1>2. g.backend \in Backends
  BY GatesAssumption DEF Gates
<1>3. phase' = IF g.backend = "diskann" THEN "resolve" ELSE IF g.backend = "numpy" THEN "banks" ELSE "face"
  BY <1>2 DEF StartFrame, Backends
<1>4. bank = <<>> /\ scores = <<>> /\ matches = <<>>
  BY <1>1 DEF FrameInv, ProgressInv, FaceInv
<1>5. FrameInv'
  BY <1>1, StartFrameKeeps
<1>6. ShownInv'
  BY <1>1 DEF ShownInv
<1>7. BankInv' /\ FaceInv'
  BY <1>1, <1>2, <1>3, <1>4, NothingIsLoaded DEF BankInv, FaceInv, Backends
<1>8. MatchesInv' /\ MarginOverTheBank'
  <2>1. (matches = <<>>)'
    BY <1>1, <1>4
  <2> QED BY <2>1, NothingMatched, PTL
<1>9. AheadInv'
  BY <1>1, <1>2, <1>3, <1>4, <1>8 DEF AheadInv, Backends
<1> QED
  BY <1>5, <1>6, <1>7, <1>8, <1>9 DEF MatchInv

(* The steps that leave the table, the rows in use and the matches alone.  *)
LEMMA SearchRests ==
    ASSUME MatchInv, FrameInv', FaceInv',
           UNCHANGED <<status, enrolled, gates, frame, matches, shown>>, phase # "idle", phase' # "idle",
           UNCHANGED bank \/ BankInv',
           phase' = "resolve" => backend' # "numpy",
           phase' \in {"face", "decide"} /\ backend' = "numpy" => LoadedAll',
           gates.backend = "numpy" =>
               backend' = "numpy" /\ (UNCHANGED bank \/ matches = <<>>)
               /\ (phase' = "banks" => faceAt' = 0 /\ matches = <<>>),
           phase' = "decide" /\ backend' = "numpy" /\ scores' # <<>> =>
               scores' = [m \in Probes' |-> BestPerStudent(frame'[faceAt'], bank'[m])]
    PROVE  MatchInv'
<1>1. ShownInv /\ BankInv /\ MatchesInv /\ AheadInv
  BY DEF MatchInv
<1>2. ShownInv'
  BY <1>1 DEF ShownInv, Usable, Servable, Candidates, RowsOfModel, StudentOf
<1>3. BankInv'
  BY <1>1 DEF BankInv, RowsOfModel
<1>4. MatchesInv'
  BY <1>1 DEF MatchesInv, MatchesRestOnATemplate
<1>5. MarginOverTheBank'
  <2>1. CASE gates.backend = "numpy"
    BY <1>1, <2>1, MatchesStay DEF AheadInv
  <2>2. CASE gates.backend # "numpy"
    BY <2>2 DEF MarginOverTheBank
  <2> QED BY <2>1, <2>2
<1>6. AheadInv'
  BY <1>5, Zenon DEF AheadInv, BestPerStudent, RowScore, StudentOf
<1> QED
  BY <1>2, <1>3, <1>4, <1>6 DEF MatchInv

LEMMA ResolveRests == MatchInv /\ Resolve => MatchInv'
<1> SUFFICES ASSUME MatchInv, Resolve PROVE MatchInv'
  OBVIOUS
<1>1. /\ FrameInv /\ FaceInv /\ AheadInv
      /\ phase = "resolve" /\ phase' = "face" /\ backend' \in {backend, "hnsw"}
      /\ UNCHANGED <<status, enrolled, gates, frame, bank, scores, matches, shown>>
  BY DEF MatchInv, Resolve
<1>2. FrameInv'
  BY <1>1, ResolveKeeps
<1>3. FaceInv'
  BY <1>1 DEF FaceInv
<1>4. backend # "numpy" /\ backend' # "numpy" /\ gates.backend # "numpy"
  BY <1>1 DEF AheadInv
<1> QED
  BY <1>1, <1>2, <1>3, <1>4, SearchRests

LEMMA LoadBankRests ==
    ASSUME MatchInv, NEW m \in Models, LoadBank(m)
    PROVE  MatchInv'
<1>1. /\ FrameInv /\ ShownInv /\ BankInv /\ FaceInv /\ AheadInv
      /\ phase = "banks" /\ bank' = [n \in DOMAIN bank \cup {m} |-> IF n = m THEN Bank(m) ELSE bank[n]]
      /\ UNCHANGED <<status, enrolled, phase, gates, frame, faceAt, backend, scores, matches, shown>>
  BY DEF MatchInv, LoadBank
<1>2. FrameInv'
  BY LoadBankKeeps DEF MatchInv
<1>3. FaceInv'
  BY <1>1 DEF FaceInv
<1>4. Bank(m) \subseteq shown \cap RowsOfModel(m)
  BY <1>1, UsableIsShown
<1>5. BankInv'
  BY <1>1, <1>4 DEF BankInv, RowsOfModel
<1>6. gates.backend = "numpy" => backend' = "numpy" /\ matches = <<>> /\ faceAt' = 0
  BY <1>1 DEF AheadInv
<1> QED
  BY <1>1, <1>2, <1>3, <1>5, <1>6, SearchRests

LEMMA LoadFailsRests == MatchInv /\ LoadFails => MatchInv'
<1> SUFFICES ASSUME MatchInv, LoadFails PROVE MatchInv'
  OBVIOUS
<1>1. /\ FrameInv /\ FaceInv /\ AheadInv /\ phase = "banks" /\ phase' = "raised"
      /\ UNCHANGED <<status, enrolled, gates, frame, faceAt, backend, bank, scores, matches, shown>>
  BY DEF MatchInv, LoadFails
<1>2. FrameInv' /\ FaceInv'
  BY <1>1, LoadFailsKeeps DEF FaceInv
<1>3. gates.backend = "numpy" => backend' = "numpy"
  BY <1>1 DEF AheadInv
<1> QED
  BY <1>1, <1>2, <1>3, SearchRests

LEMMA BanksLoadedRests ==
    ASSUME MatchInv, BanksLoaded
    PROVE  MatchInv'
<1>1. /\ FrameInv /\ FaceInv /\ AheadInv /\ phase = "banks" /\ phase' \in {"returned", "face", "decide"}
      /\ LoadedAll /\ (phase' = "decide" => faceAt # 0 /\ faceAt' = faceAt)
      /\ UNCHANGED <<status, enrolled, gates, frame, backend, bank, scores, matches, shown>>
  BY DEF MatchInv, BanksLoaded
<1>2. FrameInv'
  BY BanksLoadedKeeps DEF MatchInv
<1>3. scores = <<>> /\ scores' = <<>>
  BY <1>1 DEF FaceInv
<1>4. FaceInv'
  BY <1>1, <1>3, NothingIsLoaded DEF FaceInv
<1>5. LoadedAll' /\ (gates.backend = "numpy" => backend' = "numpy")
  BY <1>1 DEF AheadInv, LoadedAll
<1> QED
  BY <1>1, <1>2, <1>3, <1>4, <1>5, SearchRests

LEMMA NextFaceRests ==
    ASSUME MatchInv, NextFace
    PROVE  MatchInv'
<1>1. /\ FrameInv /\ FaceInv /\ AheadInv /\ phase = "face" /\ phase' \in {"face", "decide", "query"}
      /\ faceAt <= Len(frame) /\ (phase' # "face" => faceAt' = faceAt) /\ scores' = <<>>
      /\ UNCHANGED <<status, enrolled, gates, frame, backend, bank, matches, shown>>
  BY DEF MatchInv, NextFace
<1>2. FrameInv'
  BY NextFaceKeeps DEF MatchInv
<1>3. phase' # "face" => faceAt' \in 1 .. Len(frame)
  <2>1. frame \in Seq(Face)
    BY <1>1, FramesAssumption DEF FrameInv, ProgressInv
  <2>2. Len(frame) \in Nat
    BY <2>1, LenProperties
  <2> QED BY <1>1, <2>2 DEF FrameInv, ProgressInv
<1>4. FaceInv'
  BY <1>1, <1>3, NothingIsLoaded DEF FaceInv
<1>5. backend = "numpy" => LoadedAll /\ LoadedAll'
  BY <1>1 DEF AheadInv, LoadedAll
<1>6. gates.backend = "numpy" => backend' = "numpy"
  BY <1>1 DEF AheadInv
<1> QED
  BY <1>1, <1>2, <1>4, <1>5, <1>6, SearchRests

(* In the steps between a query and a decision the index is the backend.   *)
LEMMA QueryRests ==
    ASSUME MatchInv, NEW m \in Models, Query(m)
    PROVE  MatchInv'
<1>1. /\ FrameInv /\ ShownInv /\ FaceInv /\ AheadInv /\ phase = "query"
      /\ UNCHANGED <<status, enrolled, phase, gates, frame, faceAt, backend, bank, matches, shown>>
  BY DEF MatchInv, Query
<1>2. PICK found \in Nearest(m) :
         scores' = [n \in DOMAIN scores \cup {m} |->
                       IF n = m THEN BestPerStudent(frame[faceAt], found) ELSE scores[n]]
  BY DEF Query
<1>3. FrameInv'
  BY QueryKeeps DEF MatchInv
<1>4. found \in SUBSET (shown \cap RowsOfModel(m))
  BY <1>1, UsableIsShown DEF Nearest
<1>5. faceAt \in 1 .. Len(frame)
  BY <1>1 DEF FaceInv
<1>6. \A s \in DOMAIN BestPerStudent(frame[faceAt], found) :
         ScoredBy(m, s, BestPerStudent(frame[faceAt], found)[s])
  BY <1>1, <1>4, <1>5, ScoredByRows
<1>7. \A n \in DOMAIN scores' : n \in Models /\ \A s \in DOMAIN scores'[n] : ScoredBy(n, s, scores'[n][s])
  <2> DEFINE best == BestPerStudent(frame[faceAt], found)
  <2>1. \A n \in DOMAIN scores : n \in Models /\ \A s \in DOMAIN scores[n] : ScoredBy(n, s, scores[n][s])
    BY <1>1 DEF FaceInv
  <2>2. \A s \in DOMAIN best : ScoredBy(m, s, best[s])
    BY <1>6
  <2>3. scores' = [n \in DOMAIN scores \cup {m} |-> IF n = m THEN best ELSE scores[n]]
    BY <1>2
  <2> HIDE DEF best
  <2> QED BY <2>1, <2>2, <2>3
<1>8. FaceInv'
  BY <1>1, <1>5, <1>7 DEF FaceInv, ScoredBy, RowScore, StudentOf
<1>9. backend # "numpy" /\ gates.backend # "numpy"
  BY <1>1 DEF FrameInv, ProgressInv, AheadInv
<1> QED
  BY <1>1, <1>3, <1>8, <1>9, SearchRests

LEMMA QueriedRests ==
    ASSUME MatchInv, Queried
    PROVE  MatchInv'
<1>1. /\ FrameInv /\ FaceInv /\ AheadInv /\ phase = "query" /\ phase' = "decide"
      /\ UNCHANGED <<status, enrolled, gates, frame, faceAt, backend, bank, scores, matches, shown>>
  BY DEF MatchInv, Queried
<1>2. FrameInv'
  BY QueriedKeeps DEF MatchInv
<1>3. FaceInv'
  BY <1>1 DEF FaceInv, ScoredBy, RowScore, StudentOf
<1>4. backend # "numpy" /\ gates.backend # "numpy"
  BY <1>1 DEF FrameInv, ProgressInv, AheadInv
<1> QED
  BY <1>1, <1>2, <1>3, <1>4, SearchRests

LEMMA QueryFailsRests == MatchInv /\ QueryFails => MatchInv'
<1> SUFFICES ASSUME MatchInv, QueryFails PROVE MatchInv'
  OBVIOUS
<1>1. /\ FrameInv /\ FaceInv /\ AheadInv /\ phase = "query" /\ scores' = <<>>
      /\ (phase' = "query" \/ phase' = "banks")
      /\ UNCHANGED <<status, enrolled, gates, frame, faceAt, bank, matches, shown>>
  BY DEF MatchInv, QueryFails
<1>2. FrameInv'
  BY <1>1, QueryFailsKeeps
<1>3. FaceInv'
  BY <1>1, NothingIsLoaded DEF FaceInv
<1>4. gates.backend # "numpy"
  BY <1>1 DEF FrameInv, ProgressInv, AheadInv
<1> QED
  BY <1>1, <1>2, <1>3, <1>4, SearchRests

LEMMA ScoreWithBanksRests ==
    ASSUME MatchInv, ScoreWithBanks
    PROVE  MatchInv'
<1>1. /\ FrameInv /\ ShownInv /\ BankInv /\ FaceInv /\ AheadInv /\ phase = "decide" /\ backend = "numpy"
      /\ scores' = [m \in Probes |-> BestPerStudent(frame[faceAt], bank[m])]
      /\ UNCHANGED <<status, enrolled, phase, gates, frame, faceAt, backend, bank, matches, shown>>
  BY DEF MatchInv, ScoreWithBanks
<1>2. FrameInv'
  BY <1>1, ScoringKeeps
<1>3. faceAt \in 1 .. Len(frame) /\ DOMAIN bank = Models
  BY <1>1 DEF FaceInv, AheadInv, LoadedAll
<1>4. frame[faceAt] \in Face
  BY <1>1, <1>3, FaceOfFrame
<1>5. \A m \in Probes : m \in Models /\ bank[m] \in SUBSET (shown \cap RowsOfModel(m))
  BY <1>1, <1>3, <1>4 DEF Probes, Face, BankInv
<1>6. \A m \in Probes : \A s \in DOMAIN BestPerStudent(frame[faceAt], bank[m]) :
         ScoredBy(m, s, BestPerStudent(frame[faceAt], bank[m])[s])
  BY <1>1, <1>3, <1>5, ScoredByRows
<1>7. \A n \in DOMAIN scores' : n \in Models /\ \A s \in DOMAIN scores'[n] : ScoredBy(n, s, scores'[n][s])
  <2> DEFINE best(n) == BestPerStudent(frame[faceAt], bank[n])
  <2>1. \A n \in Probes : n \in Models /\ \A s \in DOMAIN best(n) : ScoredBy(n, s, best(n)[s])
    BY <1>5, <1>6
  <2>2. scores' = [n \in Probes |-> best(n)]
    BY <1>1
  <2> HIDE DEF best
  <2> QED BY <2>1, <2>2
<1>8. FaceInv'
  BY <1>1, <1>3, <1>7 DEF FaceInv, ScoredBy, RowScore, StudentOf
<1>9. LoadedAll' /\ Probes' = Probes
  BY <1>1, <1>3 DEF LoadedAll, Probes
<1> QED
  BY <1>1, <1>2, <1>8, <1>9, SearchRests

LEMMA FinishRests == MatchInv /\ Finish => MatchInv'
<1> SUFFICES ASSUME MatchInv, Finish PROVE MatchInv'
  OBVIOUS
<1>1. /\ FrameInv /\ FaceInv /\ AheadInv /\ phase = "face" /\ phase' = "returned"
      /\ UNCHANGED <<status, enrolled, gates, frame, faceAt, backend, bank, scores, matches, shown>>
  BY DEF MatchInv, Finish
<1>2. FrameInv' /\ FaceInv'
  BY <1>1, FinishKeeps DEF FaceInv
<1>3. gates.backend = "numpy" => backend' = "numpy"
  BY <1>1 DEF AheadInv
<1> QED
  BY <1>1, <1>2, <1>3, SearchRests

LEMMA MatchInvInit == FrameInit => MatchInv
<1> SUFFICES ASSUME FrameInit PROVE MatchInv
  OBVIOUS
<1>1. FrameInv /\ MatchesInv /\ MarginOverTheBank
  BY FrameInvInit, NothingMatched DEF FrameInit
<1>2. ShownInv /\ BankInv /\ FaceInv /\ AheadInv
  BY <1>1, NothingIsLoaded DEF FrameInit, ShownInv, BankInv, FaceInv, AheadInv
<1> QED
  BY <1>1, <1>2 DEF MatchInv

LEMMA MatchInvNext == MatchInv /\ [FrameNext]_frameVars => MatchInv'
<1>1. ASSUME MatchInv, UNCHANGED frameVars
      PROVE  MatchInv'
  <2>1. /\ FrameInv /\ ShownInv /\ BankInv /\ FaceInv /\ MatchesInv /\ AheadInv
        /\ UNCHANGED <<status, enrolled, phase, gates, frame, faceAt, backend, bank, scores, matches, shown>>
    BY <1>1 DEF MatchInv, frameVars
  <2>2. FrameInv'
    BY <1>1, <2>1, FrameInvNext
  <2>3. ShownInv' /\ BankInv'
    BY <2>1 DEF ShownInv, BankInv, Usable, Servable, Candidates, RowsOfModel, StudentOf
  <2>4. FaceInv'
    BY <2>1 DEF FaceInv, ScoredBy, RowScore, StudentOf
  <2>5. MatchesInv' /\ MarginOverTheBank'
    BY <2>1, MatchesStay DEF AheadInv
  <2>6. AheadInv'
    <3>1. Probes' = Probes /\ LoadedAll' = LoadedAll
      BY <2>1 DEF Probes, LoadedAll
    <3>2. ASSUME NEW m PROVE BestPerStudent(frame'[faceAt'], bank'[m]) = BestPerStudent(frame[faceAt], bank[m])
      BY <2>1
    <3> QED BY <2>1, <2>5, <3>1, <3>2 DEF AheadInv
  <2> QED BY <2>2, <2>3, <2>4, <2>5, <2>6 DEF MatchInv
<1> QED
  BY <1>1, EditRests, StartFrameRests, ResolveRests, LoadBankRests, LoadFailsRests, BanksLoadedRests,
     NextFaceRests, QueryRests, QueriedRests, QueryFailsRests, ScoreWithBanksRests, DecideRests, FinishRests
  DEF FrameNext, Recognise

(* Whatever index or bank answered, and however templates were changed in  *)
(* the meantime, a student recognize accepts has one template, usable at   *)
(* some time during the frame, that on its own is similar enough to the    *)
(* face: fusion and fallbacks never make a match out of weaker ones.       *)
THEOREM MatchesRest == FrameSpec => []MatchesRestOnATemplate
<1>1. MatchInv => MatchesRestOnATemplate
  BY DEF MatchInv, MatchesInv
<1> QED
  BY <1>1, MatchInvInit, MatchInvNext, PTL DEF FrameSpec

(* When one model decides from banks in memory, a student _match_decision  *)
(* accepts under the relaxed threshold leads every template of another     *)
(* student in the bank by the margin.                                      *)
THEOREM MarginIsKept == FrameSpec => []MarginOverTheBank
<1>1. MatchInv => MarginOverTheBank
  BY DEF MatchInv, AheadInv
<1> QED
  BY <1>1, MatchInvInit, MatchInvNext, PTL DEF FrameSpec

-----------------------------------------------------------------------------
(* Types of a frame.                                                       *)
ScoresTyped ==
    \A m \in DOMAIN scores :
        /\ m \in Models /\ DOMAIN scores[m] \subseteq Students
        /\ \A s \in DOMAIN scores[m] : scores[m][s] \in Nat

FrameTypes ==
    /\ status \in [Rows -> Statuses] /\ enrolled \subseteq Students /\ edits \in 0 .. MaxEdits
    /\ phase \in Phases /\ backend \in Backends /\ aborted \in BOOLEAN
    /\ phase # "idle" => faceAt \in 0 .. Len(frame) + 1
    /\ ScoresTyped /\ result \subseteq Match /\ shown \subseteq Rows

(* The face at hand is one of the frame, or the loop is at its end.        *)
LEMMA FaceWithinFrame ==
    ASSUME MatchInv, FrameTypes, [FrameNext]_frameVars, phase' # "idle"
    PROVE  faceAt' \in 0 .. Len(frame') + 1
<1>1. FrameInv /\ FaceInv /\ (phase # "idle" => faceAt \in 0 .. Len(frame) + 1)
  BY DEF MatchInv, FrameTypes
<1>2. ASSUME NEW f \in Frames
      PROVE  Len(f) \in Nat
  <2>1. f \in Seq(Face)
    BY FramesAssumption
  <2> QED BY <2>1, LenProperties
<1>3. phase # "idle" => Len(frame) \in Nat
  BY <1>1, <1>2 DEF FrameInv, ProgressInv
<1>4. ASSUME NEW f \in Frames, NEW g \in GateSets, StartFrame(f, g)
      PROVE  faceAt' \in 0 .. Len(frame') + 1
  BY <1>2, <1>4 DEF StartFrame
<1>5. CASE Resolve
  BY <1>3, <1>5 DEF Resolve
<1>6. CASE BanksLoaded
  BY <1>1, <1>3, <1>6 DEF BanksLoaded, FaceInv
<1>7. CASE NextFace
  BY <1>1, <1>3, <1>7 DEF NextFace
<1>8. CASE Decide
  BY <1>1, <1>3, <1>8 DEF Decide, FaceInv
<1>9. ASSUME UNCHANGED <<phase, frame, faceAt>> \/ (phase # "idle" /\ UNCHANGED <<frame, faceAt>>)
      PROVE  faceAt' \in 0 .. Len(frame') + 1
  BY <1>1, <1>9
<1>10. CASE Edit \/ LoadFails \/ Queried \/ QueryFails \/ ScoreWithBanks \/ Finish \/ UNCHANGED frameVars
  BY <1>9, <1>10 DEF Edit, LoadFails, Queried, QueryFails, ScoreWithBanks, Finish, frameVars
<1>11. ASSUME NEW m \in Models, LoadBank(m) \/ Query(m)
       PROVE  faceAt' \in 0 .. Len(frame') + 1
  BY <1>9, <1>11 DEF LoadBank, Query
<1> QED
  BY <1>4, <1>5, <1>6, <1>7, <1>8, <1>10, <1>11 DEF FrameNext, Recognise

LEMMA ScoresKeepTypes ==
    ASSUME MatchInv, MatchInv', FrameTypes, [FrameNext]_frameVars
    PROVE  ScoresTyped'
<1>1. ASSUME scores' = <<>>
      PROVE  ScoresTyped'
  BY <1>1, NothingIsLoaded DEF ScoresTyped
<1>2. CASE UNCHANGED scores
  BY <1>2 DEF ScoresTyped, FrameTypes
<1>3. CASE phase' = "query" \/ phase' = "decide"
  <2>1. /\ (phase # "idle")' /\ FrameInv' /\ ShownInv'
        /\ faceAt' \in 1 .. Len(frame')
        /\ \A m \in DOMAIN scores' :
              m \in Models /\ \A s \in DOMAIN scores'[m] : ScoredBy(m, s, scores[m][s])'
    BY <1>3 DEF MatchInv, FaceInv
  <2>2. shown' \subseteq Rows
    BY <2>1 DEF ShownInv
  <2>3. frame' \in Seq(Face)
    BY <2>1, FramesAssumption DEF FrameInv, ProgressInv
  <2>4. frame'[faceAt'] \in Face
    BY <2>1, <2>3, ElementOfSeq
  <2>5. ASSUME NEW m \in DOMAIN scores', NEW s \in DOMAIN scores'[m]
        PROVE  s \in Students /\ scores'[m][s] \in Nat
    <3>1. PICK r \in shown' : StudentOf(r) = s /\ scores'[m][s] = RowScore(frame'[faceAt'], r)
      BY <2>1 DEF ScoredBy
    <3>2. r \in Rows /\ Template[r] \in [student : Students, model : Models, retention : 0 .. 10]
      BY <2>2, <3>1, TemplateAssumption
    <3>3. s \in Students
      BY <3>1, <3>2 DEF StudentOf
    <3>4. frame'[faceAt'].similarity[r] \in 0 .. 10 /\ Template[r].retention \in 0 .. 10
      BY <2>4, <3>2 DEF Face
    <3> QED BY <3>1, <3>3, <3>4 DEF RowScore
  <2> QED BY <2>1, <2>5 DEF ScoresTyped
<1>4. \/ scores' = <<>> \/ UNCHANGED scores \/ phase' = "query" \/ phase' = "decide"
  BY DEF FrameNext, Recognise, Edit, StartFrame, Resolve, LoadBank, LoadFails, BanksLoaded, NextFace, Query,
     Queried, QueryFails, ScoreWithBanks, Decide, Finish, frameVars
<1> QED
  BY <1>1, <1>2, <1>3, <1>4

LEMMA FrameTypesInit == FrameInit => FrameTypes
<1> SUFFICES ASSUME FrameInit PROVE FrameTypes
  OBVIOUS
<1>1. /\ status \in Tables /\ enrolled = Students /\ edits = 0 /\ phase = "idle" /\ backend = "numpy"
      /\ scores = <<>> /\ result = {} /\ aborted = FALSE /\ shown = {}
  BY DEF FrameInit
<1>2. status \in [Rows -> Statuses] /\ MaxEdits \in Nat
  BY <1>1, TablesAssumption, ModelsAssumption
<1>3. ScoresTyped
  BY <1>1, NothingIsLoaded DEF ScoresTyped
<1>4. edits \in 0 .. MaxEdits /\ enrolled \subseteq Students /\ phase \in Phases /\ backend \in Backends
  BY <1>1, <1>2 DEF Phases, Backends
<1>5. aborted \in BOOLEAN /\ result \subseteq Match /\ shown \subseteq Rows
  BY <1>1
<1> QED
  BY <1>1, <1>2, <1>3, <1>4, <1>5 DEF FrameTypes

LEMMA FrameTypesNext == MatchInv /\ MatchInv' /\ FrameTypes /\ [FrameNext]_frameVars => FrameTypes'
<1> SUFFICES ASSUME MatchInv, MatchInv', FrameTypes, [FrameNext]_frameVars PROVE FrameTypes'
  OBVIOUS
<1>1. (phase' # "idle" => faceAt' \in 0 .. Len(frame') + 1) /\ ScoresTyped'
  BY FaceWithinFrame, ScoresKeepTypes
<1>2. status' \in [Rows -> Statuses] /\ enrolled' \subseteq Students /\ edits' \in 0 .. MaxEdits
  <2>1. CASE Edit
    <3>1. edits' \in 0 .. MaxEdits
      BY <2>1, ModelsAssumption DEF Edit, FrameTypes
    <3>2. ASSUME NEW r \in Rows, NEW st \in Statuses, status' = [status EXCEPT ![r] = st], enrolled' = enrolled
          PROVE  status' \in [Rows -> Statuses] /\ enrolled' \subseteq Students
      BY <3>2 DEF FrameTypes
    <3>3. ASSUME NEW s \in Students, enrolled' = SymDiff(enrolled, {s}), status' = status
          PROVE  status' \in [Rows -> Statuses] /\ enrolled' \subseteq Students
      BY <3>3 DEF FrameTypes, SymDiff
    <3> QED BY <2>1, <3>1, <3>2, <3>3 DEF Edit
  <2>2. CASE ~Edit
    <3>1. UNCHANGED <<status, enrolled, edits>>
      BY <2>2 DEF FrameNext, Recognise, StartFrame, Resolve, LoadBank, LoadFails, BanksLoaded, NextFace, Query,
         Queried, QueryFails, ScoreWithBanks, Decide, Finish, frameVars
    <3> QED BY <3>1 DEF FrameTypes
  <2> QED BY <2>1, <2>2
<1>3. backend' \in Backends
  <2>1. ASSUME NEW f \in Frames, NEW g \in GateSets, StartFrame(f, g)
        PROVE  backend' \in Backends
    BY <2>1, GatesAssumption DEF StartFrame, Gates
  <2>2. ASSUME \A f \in Frames, g \in GateSets : ~StartFrame(f, g)
        PROVE  backend' \in {backend, "hnsw", "numpy"}
    BY <2>2 DEF FrameNext, Recognise, Edit, Resolve, LoadBank, LoadFails, BanksLoaded, NextFace, Query,
       Queried, QueryFails, ScoreWithBanks, Decide, Finish, frameVars
  <2> QED BY <2>1, <2>2 DEF FrameTypes, Backends
<1>4. phase' \in Phases /\ aborted' \in BOOLEAN
  <2>1. phase' = phase \/ phase' \in Phases
    BY DEF FrameNext, Recognise, Edit, StartFrame, Resolve, LoadBank, LoadFails, BanksLoaded, NextFace, Query,
       Queried, QueryFails, ScoreWithBanks, Decide, Finish, frameVars, Phases
  <2>2. aborted' = aborted \/ aborted' = TRUE
    BY Zenon DEF FrameNext, Recognise, Edit, StartFrame, Resolve, LoadBank, LoadFails, BanksLoaded, NextFace, Query,
       Queried, QueryFails, ScoreWithBanks, Decide, Finish, frameVars
  <2> QED BY <2>1, <2>2 DEF FrameTypes
<1>5. result' \subseteq Match
  <2>1. CASE Finish
    <3>1. result' = Deduped(matches) /\ matches \in Seq(Match)
      BY <2>1 DEF Finish, MatchInv, MatchesInv
    <3>2. Deduped(matches) \subseteq Range(matches)
      BY DEF Deduped
    <3>3. Range(matches) \subseteq Match
      BY <3>1, ElementOfSeq DEF Range
    <3> QED BY <3>1, <3>2, <3>3
  <2>2. CASE ~Finish
    <3>1. result' = result
      BY <2>2 DEF FrameNext, Recognise, Edit, StartFrame, Resolve, LoadBank, LoadFails, BanksLoaded, NextFace, Query,
         Queried, QueryFails, ScoreWithBanks, Decide, frameVars
    <3> QED BY <3>1 DEF FrameTypes
  <2> QED BY <2>1, <2>2
<1>6. shown' \subseteq Rows
  <2>1. \/ shown' = shown
        \/ shown' = {r \in Rows : Usable(r)'}
        \/ shown' = shown \cup {r \in Rows : Usable(r)'}
    BY DEF FrameNext, Recognise, Edit, StartFrame, Resolve, LoadBank, LoadFails, BanksLoaded, NextFace, Query,
       Queried, QueryFails, ScoreWithBanks, Decide, Finish, frameVars
  <2> QED BY <2>1 DEF FrameTypes
<1> QED
  BY <1>1, <1>2, <1>3, <1>4, <1>5, <1>6 DEF FrameTypes

(* Type correctness of recognize: the loop stays within the frame through  *)
(* all fallbacks, and banks, scores and matches are of rows, models and    *)
(* students that exist.                                                    *)
THEOREM FramesKeepTypes == FrameSpec => []FrameTypeOK
<1>1. MatchInv /\ FrameTypes => FrameTypeOK
  <2> SUFFICES ASSUME MatchInv, FrameTypes PROVE FrameTypeOK
    OBVIOUS
  <2>1. phase # "idle" => gates \in GateSets /\ frame \in Frames
    BY DEF MatchInv, ShownInv, FrameInv, ProgressInv
  <2>2. \A m \in DOMAIN bank : m \in Models /\ bank[m] \subseteq Rows
    BY DEF MatchInv, BankInv, RowsOfModel
  <2>3. matches \in Seq(Match)
    BY DEF MatchInv, MatchesInv
  <2> QED BY <2>1, <2>2, <2>3 DEF FrameTypes, FrameTypeOK, ScoresTyped
<1>2. FrameInit => MatchInv /\ FrameTypes
  BY MatchInvInit, FrameTypesInit
<1>3. MatchInv /\ FrameTypes /\ [FrameNext]_frameVars => (MatchInv /\ FrameTypes)'
  BY MatchInvNext, FrameTypesNext
<1> QED
  BY <1>1, <1>2, <1>3, PTL DEF FrameSpec

-----------------------------------------------------------------------------
(* Type correctness of enrolment: a photo gets a code that the reply knows,*)
(* and what is stored is a template.                                       *)
THEOREM UploadsKeepTypes == UploadSpec => []UploadTypeOK
<1> DEFINE B == revisions \in 0 .. MaxRevisions /\ tested \in {"none", "match", "mismatch"}
<1>1. UploadInit => EnrolInv /\ B
  BY EnrolInvInit, ThresholdsAssumption DEF UploadInit
<1>2. B /\ [UploadNext]_uploadVars => B'
  <2> SUFFICES ASSUME B, [UploadNext]_uploadVars PROVE B'
    OBVIOUS
  <2>1. revisions' = revisions \/ (revisions < MaxRevisions /\ revisions' = revisions + 1)
    BY DEF UploadNext, uploadVars, Inspect, FindDuplicate, CompareWithOthers, Conclude, AbortUpload, StartUpload,
       Revise, Verify
  <2>2. tested' \in {tested, "match", "mismatch"}
    BY DEF UploadNext, uploadVars, Inspect, FindDuplicate, CompareWithOthers, Conclude, AbortUpload, StartUpload,
       Revise, Verify
  <2> QED BY <2>1, <2>2, ThresholdsAssumption
<1>3. EnrolInv /\ B => UploadTypeOK
  <2> SUFFICES ASSUME EnrolInv, B PROVE UploadTypeOK
    OBVIOUS
  <2>1. \A i \in DOMAIN rows : rows[i] \in Kept
    BY DEF EnrolInv, TableInv
  <2>2. ASSUME NEW u \in Uploads, upload[u] # Waiting
        PROVE  /\ upload[u].step \in {"photo", "compare", "ended"} /\ upload[u].request \in Requests
               /\ \A i \in DOMAIN upload[u].checks : upload[u].checks[i] \in Verdicts
               /\ \A i \in DOMAIN upload[u].mine : upload[u].mine[i] \in Kept
    <3>1. UploadShape(u)
      BY <2>2 DEF EnrolInv, UploadsInv
    <3>2. upload[u].checks \in Seq(Verdicts)
      BY <3>1 DEF UploadShape
    <3>3. \A i \in DOMAIN upload[u].checks : upload[u].checks[i] \in Verdicts
      BY <3>2, ElementOfSeq
    <3> QED BY <3>1, <3>3 DEF UploadShape
  <2> QED BY <2>1, <2>2 DEF UploadTypeOK
<1>4. EnrolInv /\ [UploadNext]_uploadVars => EnrolInv'
  BY EnrolInvNext DEF EnrolKept
<1> QED
  BY <1>1, <1>2, <1>3, <1>4, PTL DEF UploadSpec
-----------------------------------------------------------------------------
(* Type correctness of the liveness check: it ends behind its last test.   *)
THEOREM ClipsKeepTypes == LivenessSpec => []LivenessTypeOK
<1> DEFINE T == clip \in Clips /\ equipment \subseteq Equipment /\ passed \in BOOLEAN
<1>1. LivenessInit => LiveInv /\ T
  <2>1. LivenessInit => LiveInv
    BY DEF LivenessInit, LiveInv
  <2>2. LivenessInit => T
    BY DEF LivenessInit
  <2> QED BY <2>1, <2>2
<1>2. T /\ [RunTier]_livenessVars => T'
  <2>1. [RunTier]_livenessVars => UNCHANGED <<clip, equipment>>
    BY DEF RunTier, livenessVars
  <2>2. passed \in BOOLEAN /\ [RunTier]_livenessVars => passed' \in BOOLEAN
    <3>1. CASE RunTier
      BY <3>1, Zenon DEF RunTier
    <3>2. CASE UNCHANGED livenessVars
      BY <3>2 DEF livenessVars
    <3> QED BY <3>1, <3>2
  <2> QED BY <2>1, <2>2
<1>3. LiveInv /\ T => LivenessTypeOK
  BY DEF LiveInv, LivenessTypeOK
<1> QED
  BY <1>1, <1>2, <1>3, LiveInvNext, PTL DEF LivenessSpec
-----------------------------------------------------------------------------
(* Types of the models. While a frame is worked on a face is left, and     *)
(* models in memory are among those on the disk.                           *)
Stats == [attempts : Nat, applied : Nat, discarded : Nat]

ModelTypes ==
    /\ enabled \in Deployments /\ loaded \in BOOLEAN /\ client \in BOOLEAN
    /\ disk \subseteq LocalModels /\ local \subseteq disk /\ broken \subseteq LocalModels
    /\ server \in {"up", "down", "nonsense"} /\ budget \in Budgets /\ events \in 0 .. MaxEvents

ThreadTypes ==
    /\ step \in Steps /\ detected \in {"triton", "nothing", "error", ""} \cup Detectors
    /\ faces \in 0 .. MaxFaces /\ (step \notin {"start", "idle"} => faces # 0)
    /\ mode \in RestorationModes /\ crop \in Crops /\ before \in Embeddings
    /\ DOMAIN embedded \subseteq Embedders /\ \A m \in DOMAIN embedded : embedded[m] \in Embeddings
    /\ stats \in Stats

LEMMA CountedOneMore ==
    ASSUME NEW s \in Stats
    PROVE  /\ [s EXCEPT !.discarded = @ + 1] \in Stats
           /\ [s EXCEPT !.attempts = @ + 1, !.applied = @ + 1] \in Stats
<1>1. /\ s = [c \in {"attempts", "applied", "discarded"} |-> s[c]]
      /\ s.attempts \in Nat /\ s.applied \in Nat /\ s.discarded \in Nat
  BY DEF Stats
<1>2. [s EXCEPT !.discarded = @ + 1] = [c \in {"attempts", "applied", "discarded"} |->
          IF c = "discarded" THEN s.discarded + 1 ELSE s[c]]
  BY <1>1
<1>3. [s EXCEPT !.attempts = @ + 1, !.applied = @ + 1] = [c \in {"attempts", "applied", "discarded"} |->
          IF c = "attempts" THEN s.attempts + 1 ELSE IF c = "applied" THEN s.applied + 1 ELSE s[c]]
  BY <1>1
<1> QED
  BY <1>1, <1>2, <1>3 DEF Stats

LEMMA DetectorsAreModels ==
    ASSUME NEW m
    PROVE  ModelOf(m) \in Detectors /\ DetectorFor(m) \in Detectors
           /\ Detection(m) \in {"triton", "nothing", "error", ""} \cup Detectors
<1>1. \A n : ModelOf(n) \in Detectors
  BY DEF ModelOf, Detectors
<1>2. \A n : DetectorFor(n) \in Detectors
  BY <1>1 DEF DetectorFor, Detectors
<1> QED
  BY <1>1, <1>2 DEF Detection

LEMMA ModelTypesNext == ModelTypes /\ [ServingNext]_servingVars => ModelTypes'
<1> SUFFICES ASSUME ModelTypes, [ServingNext]_servingVars PROVE ModelTypes'
  OBVIOUS
<1>1. CASE EnsureLoaded
  <2>1. /\ loaded' = TRUE /\ local' = Wanted \cap disk /\ client' = ("triton" \in enabled /\ server # "down")
        /\ UNCHANGED <<enabled, disk, server, broken, budget, events>>
    BY <1>1 DEF EnsureLoaded, environment
  <2>2. client' \in BOOLEAN
    BY <2>1, Zenon
  <2>3. loaded' \in BOOLEAN /\ local' \subseteq disk'
    BY <2>1
  <2> QED BY <2>1, <2>2, <2>3 DEF ModelTypes
<1>2. CASE Environment
  <2>1. UNCHANGED <<enabled, loaded, disk, local, client>> /\ events < MaxEvents /\ events' = events + 1
    BY <1>2 DEF Environment, models
  <2>2. server' \in {"up", "down", "nonsense"} /\ budget' \in Budgets
    BY <1>2 DEF Environment, ModelTypes
  <2>3. broken' \subseteq LocalModels
    BY <1>2 DEF Environment, ModelTypes, SymDiff
  <2>4. events' \in 0 .. MaxEvents
    BY <2>1, BudgetsAssumption DEF ModelTypes
  <2> QED BY <2>1, <2>2, <2>3, <2>4 DEF ModelTypes
<1>3. ASSUME NEW m \in DetectorModes, NEW r \in RestorationModes, NEW n \in 0 .. MaxFaces, Detect(m, r, n)
      PROVE  ModelTypes'
  <2>1. local' \subseteq disk /\ UNCHANGED <<enabled, loaded, disk, client, server, broken, budget, events>>
    BY <1>3 DEF Detect, OnDemand, environment, ModelTypes
  <2> QED BY <2>1 DEF ModelTypes
<1>4. ASSUME UNCHANGED <<models, environment>>
      PROVE  ModelTypes'
  BY <1>4 DEF ModelTypes, models, environment
<1>5. CASE EmbedBefore \/ FaceDone \/ ResetStats \/ UNCHANGED servingVars
  BY <1>4, <1>5 DEF EmbedBefore, FaceDone, ResetStats, servingVars, models, environment
<1>6. ASSUME \/ \E poor \in BOOLEAN, small \in BOOLEAN : Preprocess(poor, small)
             \/ \E alike \in BOOLEAN : Judge(alike)
             \/ \E m \in Embedders : Embed(m)
      PROVE  ModelTypes'
  BY <1>4, <1>6 DEF Preprocess, Judge, Embed
<1> QED
  BY <1>1, <1>2, <1>3, <1>5, <1>6 DEF ServingNext

LEMMA ExtractionsAreEmbeddings ==
    ASSUME NEW m
    PROVE  Extracted(m) \subseteq Embeddings \cup {"error"}
BY DEF Extracted, Embeddings

LEMMA ThreadTypesNext == ThreadTypes /\ [ServingNext]_servingVars => ThreadTypes'
<1> SUFFICES ASSUME ThreadTypes, [ServingNext]_servingVars PROVE ThreadTypes'
  OBVIOUS
<1>1. CASE EnsureLoaded
  BY <1>1 DEF EnsureLoaded, ThreadTypes, Steps
<1>2. CASE Environment
  BY <1>2 DEF Environment, ThreadTypes
<1>3. ASSUME NEW m \in DetectorModes, NEW r \in RestorationModes, NEW n \in 0 .. MaxFaces, Detect(m, r, n)
      PROVE  ThreadTypes'
  <2>1. /\ detected' = Detection(m) /\ mode' = r /\ embedded' = <<>>
        /\ faces' = (IF detected' \in {"nothing", "error"} THEN 0 ELSE n)
        /\ step' = (IF faces' = 0 THEN "idle" ELSE "face")
        /\ UNCHANGED <<crop, before, stats>>
    BY <1>3 DEF Detect
  <2>2. detected' \in {"triton", "nothing", "error", ""} \cup Detectors
    BY <2>1, DetectorsAreModels
  <2>3. faces' \in 0 .. MaxFaces
    BY <2>1, BudgetsAssumption
  <2>4. step' \in Steps /\ (step' \notin {"start", "idle"} => faces' # 0)
    BY <2>1 DEF Steps
  <2> QED BY <2>1, <2>2, <2>3, <2>4, NothingIsLoaded DEF ThreadTypes
<1>4. ASSUME NEW poor \in BOOLEAN, NEW small \in BOOLEAN, Preprocess(poor, small)
      PROVE  ThreadTypes'
  <2>1. /\ step = "face" /\ UNCHANGED <<detected, faces, mode, before, embedded>>
        /\ step' \in {"embed", "restored"} /\ crop' \in Crops
    BY <1>4 DEF Preprocess, Crops
  <2>2. stats' = stats \/ stats' = [stats EXCEPT !.attempts = @ + 1, !.applied = @ + 1]
    BY <1>4 DEF Preprocess
  <2>3. stats' \in Stats
    BY <2>2, CountedOneMore DEF ThreadTypes
  <2> QED BY <2>1, <2>3 DEF ThreadTypes, Steps
<1>5. CASE EmbedBefore
  <2>1. /\ step = "restored" /\ UNCHANGED <<detected, faces, mode, embedded, stats>>
        /\ step' \in {"embed", "judge"} /\ crop' \in {crop, "raw"}
    BY <1>5 DEF EmbedBefore
  <2>2. before' \in Embeddings
    <3>1. PICK e \in Extracted("arcface") : before' = (IF e = "error" THEN before ELSE e)
      BY <1>5 DEF EmbedBefore
    <3>2. e \in Embeddings \cup {"error"}
      BY <3>1, ExtractionsAreEmbeddings
    <3> QED BY <3>1, <3>2 DEF ThreadTypes
  <2> QED BY <2>1, <2>2 DEF ThreadTypes, Steps, Crops
<1>6. ASSUME NEW alike \in BOOLEAN, Judge(alike)
      PROVE  ThreadTypes'
  <2>1. /\ step = "judge" /\ step' = "embed" /\ UNCHANGED <<detected, faces, mode, before, embedded>>
        /\ crop' \in {crop, "raw"} /\ (stats' = stats \/ stats' = [stats EXCEPT !.discarded = @ + 1])
    BY <1>6 DEF Judge
  <2>2. stats' \in Stats
    BY <2>1, CountedOneMore DEF ThreadTypes
  <2> QED BY <2>1, <2>2 DEF ThreadTypes, Steps, Crops
<1>7. ASSUME NEW m \in Embedders, Embed(m)
      PROVE  ThreadTypes'
  <2>1. step = "embed" /\ UNCHANGED <<detected, mode, crop, before, stats>>
    BY <1>7 DEF Embed
  <2>2. PICK e \in Extraction(m) :
             IF e = "error"
             THEN step' = "idle" /\ faces' = 0 /\ embedded' = <<>>
             ELSE /\ embedded' = [n \in DOMAIN embedded \cup {m} |-> IF n = m THEN e ELSE embedded[n]]
                  /\ UNCHANGED <<step, faces>>
    BY <1>7 DEF Embed
  <2>3. CASE e = "error"
    <3>1. step' = "idle" /\ faces' = 0 /\ embedded' = <<>>
      BY <2>2, <2>3
    <3>2. step' \in Steps /\ faces' \in 0 .. MaxFaces
      BY <3>1, BudgetsAssumption DEF Steps
    <3>3. DOMAIN embedded' = {}
      BY <3>1, NothingIsLoaded
    <3> QED BY <2>1, <3>1, <3>2, <3>3 DEF ThreadTypes
  <2>4. CASE e # "error"
    <3>1. /\ embedded' = [n \in DOMAIN embedded \cup {m} |-> IF n = m THEN e ELSE embedded[n]]
          /\ UNCHANGED <<step, faces>>
      BY <2>2, <2>4
    <3>2. e \in Embeddings
      BY <2>2, <2>4, ExtractionsAreEmbeddings DEF Extraction, Embeddings
    <3> QED BY <2>1, <3>1, <3>2 DEF ThreadTypes
  <2> QED BY <2>3, <2>4
<1>8. CASE FaceDone
  <2>1. /\ step = "embed" /\ faces' = faces - 1 /\ step' = (IF faces' = 0 THEN "idle" ELSE "face")
        /\ embedded' = <<>> /\ UNCHANGED <<detected, mode, crop, before, stats>>
    BY <1>8 DEF FaceDone
  <2>2. faces' \in 0 .. MaxFaces
    <3>1. faces \in 0 .. MaxFaces /\ faces # 0 /\ MaxFaces \in Nat
      BY <2>1, BudgetsAssumption DEF ThreadTypes
    <3> QED BY <2>1, <3>1
  <2> QED BY <2>1, <2>2, NothingIsLoaded DEF ThreadTypes, Steps
<1>9. CASE ResetStats
  <2>1. stats' \in Stats
    BY <1>9 DEF ResetStats, NoStats, Stats
  <2> QED BY <1>9, <2>1 DEF ResetStats, ThreadTypes
<1>10. CASE UNCHANGED servingVars
  BY <1>10 DEF servingVars, ThreadTypes
<1> QED
  BY <1>1, <1>2, <1>3, <1>4, <1>5, <1>6, <1>7, <1>8, <1>9, <1>10 DEF ServingNext

(* Type correctness of the models: no model is in memory that is not on    *)
(* the disk, faces are counted down to the end of the frame, and each call *)
(* ends with an embedding of Triton, of the local model or with none.      *)
THEOREM ModelsKeepTypes == ServingSpec => []ServingTypeOK
<1> DEFINE I == BudgetInv /\ ModelTypes /\ ThreadTypes
<1>1. ServingInit => I
  <2> SUFFICES ASSUME ServingInit PROVE ModelTypes /\ ThreadTypes
    BY BudgetInit
  <2>1. /\ enabled \in Deployments /\ loaded = FALSE /\ disk \in Loadable /\ local = {} /\ client = FALSE
        /\ server = "up" /\ broken = {} /\ budget \in Budgets /\ events = 0
        /\ step = "start" /\ detected = "" /\ faces = 0 /\ mode \in RestorationModes
        /\ crop = "raw" /\ before = "none" /\ embedded = <<>> /\ stats = NoStats
    BY DEF ServingInit
  <2>2. MaxFaces \in Nat /\ MaxEvents \in Nat /\ disk \subseteq LocalModels
    BY <2>1, BudgetsAssumption, LoadableAssumption
  <2>3. stats \in Stats
    BY <2>1 DEF NoStats, Stats
  <2>4. loaded \in BOOLEAN /\ client \in BOOLEAN
    BY <2>1
  <2>5. events \in 0 .. MaxEvents /\ faces \in 0 .. MaxFaces
    <3>1. events = 0 /\ faces = 0
      BY <2>1
    <3> QED BY <2>2, <3>1
  <2>6. ModelTypes
    BY <2>1, <2>2, <2>4, <2>5 DEF ModelTypes
  <2>7. step \in Steps /\ crop \in Crops /\ before \in Embeddings /\ DOMAIN embedded = {}
    BY <2>1, NothingIsLoaded DEF Steps, Crops, Embeddings
  <2>8. ThreadTypes
    BY <2>1, <2>3, <2>5, <2>7 DEF ThreadTypes
  <2> QED BY <2>6, <2>8
<1>2. I => ServingTypeOK
  <2>1. stats \in Stats => \A c \in DOMAIN stats : stats[c] \in Nat
    BY DEF Stats
  <2> QED BY <2>1 DEF BudgetInv, ModelTypes, ThreadTypes, ServingTypeOK
<1>3. I /\ [ServingNext]_servingVars => I'
  BY BudgetNext, ModelTypesNext, ThreadTypesNext
<1> QED
  BY <1>1, <1>2, <1>3, PTL DEF ServingSpec
-----------------------------------------------------------------------------
(* The parts together: each behaves as it does alone.                      *)
LEMMA ImagesBehave == Spec => FrameSpec /\ ServingSpec /\ UploadSpec /\ LivenessSpec
<1>1. Init => FrameInit /\ ServingInit /\ UploadInit /\ LivenessInit
  BY DEF Init
<1>2. [Next]_<<frameVars, servingVars, uploadVars, livenessVars, part>> =>
          [FrameNext]_frameVars /\ [ServingNext]_servingVars /\ [UploadNext]_uploadVars /\ [RunTier]_livenessVars
  BY DEF Next
<1> QED
  BY <1>1, <1>2, PTL DEF Spec, FrameSpec, ServingSpec, UploadSpec, LivenessSpec

(* Type correctness of the parts together.                                 *)
THEOREM RecognitionKeepsTypes == Spec => []TypeOK
<1>1. Spec => []FrameTypeOK /\ []ServingTypeOK /\ []UploadTypeOK /\ []LivenessTypeOK
  BY ImagesBehave, FramesKeepTypes, ModelsKeepTypes, UploadsKeepTypes, ClipsKeepTypes
<1>2. FrameTypeOK /\ ServingTypeOK /\ UploadTypeOK /\ LivenessTypeOK => TypeOK
  BY DEF TypeOK
<1> QED
  BY <1>1, <1>2, PTL

(* What the parts promise they promise together; the two promises about    *)
(* likeness are for tables that had no pair of look-alikes before.         *)
THEOREM RecognitionKeepsPromises ==
    Spec => /\ [](/\ MatchesRestOnATemplate /\ MarginOverTheBank /\ AbortedFrameReportsNothing
                  /\ RestorationsWithinBudget /\ UploadAccountsForEveryPhoto /\ OnePersonPerPhoto
                  /\ LiveSurvivesLoss)
            /\ KnownApart => []TemplatesStayApart /\ OwnPhotoVerifies
<1>1. Spec => /\ []MatchesRestOnATemplate /\ []MarginOverTheBank /\ []AbortedFrameReportsNothing
              /\ []RestorationsWithinBudget /\ []UploadAccountsForEveryPhoto /\ []OnePersonPerPhoto
              /\ []LiveSurvivesLoss
  BY ImagesBehave, MatchesRest, MarginIsKept, AbortedFramesAreEmpty, BudgetIsKept, RepliesAccount, OnePersonEach,
     LossNeverFails
<1>2. ASSUME KnownApart
      PROVE  UploadSpec => []TemplatesStayApart /\ OwnPhotoVerifies
  BY <1>2, TemplatesApart, OwnPhotoIsConfirmed
<1>3. Spec => (KnownApart => []TemplatesStayApart /\ OwnPhotoVerifies)
  BY <1>2, ImagesBehave
<1> QED
  BY <1>1, <1>3, PTL
=============================================================================
