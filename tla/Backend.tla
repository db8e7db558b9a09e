------------------------------- MODULE Backend -------------------------------
(***************************************************************************)
(* What surrounds recognition in the API processes, together: settings,    *)
(* live feed, capture signals, the ingest gate and sessions. They share no *)
(* state; a behaviour is about one of them, named by part, and the others  *)
(* keep their first state, so that they are explored side by side.         *)
(***************************************************************************)
EXTENDS RuntimeSettings, LiveFeed, CaptureSignals, IngestGate, UserSessions

VARIABLE part

backendVars == <<settingsVars, feedVars, captureVars, ingestVars, sessionVars>>

Init ==
    /\ part \in {"settings", "feed", "captures", "ingest", "sessions"}
    /\ SettingsInit /\ FeedInit /\ CapturesInit /\ IngestInit /\ SessionsInit
    /\ part # "captures" => started = 0

Next ==
    /\ \/ /\ part = "settings" /\ SettingsNext
          /\ UNCHANGED <<feedVars, captureVars, ingestVars, sessionVars>>
       \/ /\ part = "feed" /\ FeedNext
          /\ UNCHANGED <<settingsVars, captureVars, ingestVars, sessionVars>>
       \/ /\ part = "captures" /\ CapturesNext
          /\ UNCHANGED <<settingsVars, feedVars, ingestVars, sessionVars>>
       \/ /\ part = "ingest" /\ IngestNext
          /\ UNCHANGED <<settingsVars, feedVars, captureVars, sessionVars>>
       \/ /\ part = "sessions" /\ SessionsNext
          /\ UNCHANGED <<settingsVars, feedVars, captureVars, ingestVars>>
    /\ part' = part

Spec == Init /\ [][Next]_<<backendVars, part>>

(* The types of all parts: among them that gates in use never have a       *)
(* relaxed threshold above the strict one, and that token numbers are keys *)
(* and name accounts that exist.                                           *)
TypeOK == SettingsTypeOK /\ FeedTypeOK /\ CapturesTypeOK /\ IngestTypeOK /\ SessionsTypeOK
=============================================================================
