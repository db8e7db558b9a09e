----------------------------- MODULE Recognition -----------------------------
(***************************************************************************)
(* What happens to images, together: recognition of a frame, the models    *)
(* behind it, enrolment from photos and the liveness check. They share no  *)
(* state; a behaviour is about one of them, named by part, and the others  *)
(* keep one of their first states.                                         *)
(***************************************************************************)
EXTENDS FaceRecognition, ModelServing, EnrolmentUpload, LivenessCheck

VARIABLE part

FirstClip == CHOOSE c \in Clips : TRUE

FramePinned == status = CHOOSE t \in Tables : TRUE
ServingPinned ==
    /\ enabled = CHOOSE d \in Deployments : TRUE
    /\ disk = CHOOSE d \in Loadable : TRUE
    /\ budget = 0
ClipPinned == clip = FirstClip /\ equipment = {}

Init ==
    /\ \/ part = "frame" /\ ServingPinned /\ ClipPinned
       \/ part = "serving" /\ FramePinned /\ ClipPinned
       \/ part = "upload" /\ FramePinned /\ ServingPinned /\ ClipPinned
       \/ part = "clip" /\ FramePinned /\ ServingPinned
    /\ FrameInit /\ ServingInit /\ UploadInit /\ LivenessInit

Next ==
    /\ \/ part = "frame" /\ FrameNext /\ UNCHANGED <<servingVars, uploadVars, livenessVars>>
       \/ part = "serving" /\ ServingNext /\ UNCHANGED <<frameVars, uploadVars, livenessVars>>
       \/ part = "upload" /\ UploadNext /\ UNCHANGED <<frameVars, servingVars, livenessVars>>
       \/ part = "clip" /\ RunTier /\ UNCHANGED <<frameVars, servingVars, uploadVars>>
    /\ part' = part

Spec == Init /\ [][Next]_<<frameVars, servingVars, uploadVars, livenessVars, part>>

(* The types of all parts: among them that every refused photo is given a  *)
(* code the reply knows.                                                   *)
TypeOK == FrameTypeOK /\ ServingTypeOK /\ UploadTypeOK /\ LivenessTypeOK
=============================================================================
