--------------------------- MODULE LivenessCheck ---------------------------
(***************************************************************************)
(* check_liveness as process_clip calls it: five tests of a clip, the      *)
(* cheapest first; the first that fails ends the check. A test whose model *)
(* file, setting or camera is missing is skipped. The numbers a test       *)
(* computes from pixels are inputs; how they are combined is modelled. No  *)
(* caller passes a depth_checker, which is left out.                       *)
(***************************************************************************)
EXTENDS Naturals, Sequences, FiniteSets

CONSTANTS Clips,     \* the clips
          MinPulse   \* rppg_min_frames

(* A sampled frame: its largest face, if any, may be too small to look at  *)
(* (under 8 pixels once cut to the image); spoof is the vote of the CNN.   *)
Sample == [face : {"none", "tiny", "clear"}, spoof : BOOLEAN]

(* motion: the average difference of frames, at most the threshold, up to  *)
(* twice of it, or more; sway: magnitude and spread of the optical flow;   *)
(* pulse: quality and rate of the rPPG signal; scattering: of the flash.   *)
Clip == [samples : Seq(Sample), motion : {"still", "slight", "strong"}, sway : BOOLEAN,
         pulse : BOOLEAN, scattering : BOOLEAN]

(* The anti-spoof model, the two optional tests, a camera with a flash.    *)
Equipment == {"model", "rppg", "flash", "flash_camera"}

ASSUME ClipsAssumption == Clips \subseteq Clip
ASSUME MinPulseAssumption == MinPulse \in Nat

VARIABLES clip, equipment, tier, passed

livenessVars == <<clip, equipment, tier, passed>>

Tiers == <<"motion", "flow", "cnn", "rppg", "flash">>

LivenessTypeOK ==
    /\ clip \in Clips /\ equipment \subseteq Equipment
    /\ tier \in 1 .. 6 /\ passed \in BOOLEAN
-----------------------------------------------------------------------------
(* check_liveness_motion and check_liveness_optical_flow want three frames;*)
(* much motion makes up for a flow that is too uniform.                    *)
Moves(c) == Len(c.samples) >= 3 /\ c.motion # "still"
Sways(c) == (Len(c.samples) >= 3 /\ c.sway) \/ c.motion = "strong"

(* check_clip: three in five of the faces must look real.                  *)
FaceCrops(c) == {i \in DOMAIN c.samples : c.samples[i].face # "none"}

(* Mutant: a clip without a face, or a missing model, fails the test.      *)
LooksRealOrFails(c, e) ==
    "model" \in e /\ FaceCrops(c) # {}
    /\ 10 * Cardinality({i \in FaceCrops(c) : ~c.samples[i].spoof}) >= 6 * Cardinality(FaceCrops(c))

LooksReal(c, e) ==
    "model" \in e /\ FaceCrops(c) # {} =>
        10 * Cardinality({i \in FaceCrops(c) : ~c.samples[i].spoof}) >= 6 * Cardinality(FaceCrops(c))

(* check_liveness_rppg: a frame without a face is read where the last      *)
(* usable one was.                                                         *)
Readable(c) ==
    {i \in DOMAIN c.samples :
        \/ c.samples[i].face = "clear"
        \/ c.samples[i].face = "none" /\ \E j \in 1 .. i - 1 : c.samples[j].face = "clear"}

HasPulse(c, e) ==
    "rppg" \in e /\ Len(c.samples) >= MinPulse =>
        Cardinality(Readable(c)) >= MinPulse /\ c.pulse

(* check_liveness_flash looks at the first face found, or at the centre.   *)
FirstFace(c) ==
    {i \in FaceCrops(c) : \A j \in FaceCrops(c) : i <= j}

Scatters(c, e) ==
    {"flash", "flash_camera"} \subseteq e /\ Len(c.samples) >= 2 =>
        c.scattering /\ \A i \in FirstFace(c) : c.samples[i].face # "tiny"

Passes(c, e, name) ==
    CASE name = "motion" -> Moves(c)
      [] name = "flow" -> Sways(c)
      [] name = "cnn" -> LooksReal(c, e)
      [] name = "rppg" -> HasPulse(c, e)
      [] name = "flash" -> Scatters(c, e)
-----------------------------------------------------------------------------
LivenessInit ==
    /\ clip \in Clips /\ equipment \in SUBSET Equipment
    /\ tier = 1 /\ passed = FALSE

RunTier ==
    /\ tier \in DOMAIN Tiers /\ Passes(clip, equipment, Tiers[tier])
    /\ tier' = tier + 1
    /\ passed' = (tier' \notin DOMAIN Tiers)
    /\ UNCHANGED <<clip, equipment>>

LivenessSpec == LivenessInit /\ [][RunTier]_livenessVars
-----------------------------------------------------------------------------
(* A clip that is found live stays so when the model file, the flash or    *)
(* one of the settings is taken away: missing equipment skips a test and   *)
(* never fails the clip.                                                   *)
LiveSurvivesLoss ==
    passed => \A less \in SUBSET equipment, i \in DOMAIN Tiers : Passes(clip, less, Tiers[i])
=============================================================================
