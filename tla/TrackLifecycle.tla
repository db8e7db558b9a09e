--------------------------- MODULE TrackLifecycle ---------------------------
(***************************************************************************)
(* The face tracks that one worker process keeps for its cameras between   *)
(* frames (enable_tracking), the identities they carry, and the candidates *)
(* from which a track of another camera may inherit an identity.           *)
(*                                                                         *)
(* A frame of one camera is one step: the process has one thread. The      *)
(* tracker that assigns ids to faces, the recogniser and the person model  *)
(* may give any answer. Time is abstract: whatever the frame did not show  *)
(* may be too old to be kept.                                              *)
(***************************************************************************)
EXTENDS Naturals, Sequences

CONSTANTS
    Cameras,
    TrackIds,     \* ids the tracker gives out; it may use one again
    Students,
    Nobody,       \* None
    Qualities,    \* quality scores of a face crop, as positive numbers
    Required,     \* settings.tracking_consistent_match_count
    MaxLost,      \* settings.tracking_max_lost_frames
    DropPercent,  \* settings.tracking_quality_drop_ratio, in percent
    MaxFrames     \* bound on the number of frames

ASSUME NobodyAssumption == Nobody \notin Students
ASSUME QualitiesAssumption == Qualities \subseteq Nat \ {0}
ASSUME RequiredAssumption == Required \in Nat \ {0}
ASSUME MaxLostAssumption == MaxLost \in Nat \ {0}
ASSUME DropPercentAssumption == DropPercent \in 10 .. 100
ASSUME MaxFramesAssumption == MaxFrames \in Nat

VARIABLES
    frames,      \* how many frames were processed
    tracks,      \* per camera, the Track of every id that is alive
    candidates,  \* the linker's confirmed tracks
    matches,     \* what the last frame reported
    evidence,    \* history: the last identifications of each track, newest last
    lowest,      \* history: the worst quality since it was confirmed, 0 if a frame missed it
    vouched      \* history: tracks and the students they were confirmed as

vars == <<frames, tracks, candidates, matches, evidence, lowest, vouched>>

(* best is the quality of the best frame in the buffer, floor is           *)
(* min_confirmed_quality, agreeing is consistent_matches (which is only    *)
(* compared with Required, so it stops there), person tells whether there  *)
(* is a best_person_embedding.                                             *)
Track == [identity : Students \cup {Nobody},
          status   : {"new", "active", "confirmed", "lost"},
          agreeing : 0 .. Required,
          forced   : BOOLEAN,
          best     : Qualities \cup {0},
          floor    : Qualities \cup {0},
          missed   : 0 .. MaxLost,
          person   : BOOLEAN]

TypeOK ==
    /\ frames \in 0 .. MaxFrames
    /\ DOMAIN tracks = Cameras
    /\ \A c \in Cameras :
          /\ DOMAIN tracks[c] \subseteq TrackIds
          /\ \A i \in DOMAIN tracks[c] : tracks[c][i] \in Track
    /\ candidates \subseteq [camera : Cameras, id : TrackIds, student : Students]
    /\ matches \subseteq [camera : Cameras, id : TrackIds, student : Students,
                          how : {"carried", "identified", "linked"},
                          source : Cameras \X TrackIds]
    /\ evidence \in [Cameras \X TrackIds -> Seq(Students)]
    /\ lowest \in [Cameras \X TrackIds -> Qualities \cup {0}]
    /\ vouched \subseteq [camera : Cameras, id : TrackIds, student : Students]

Init ==
    /\ frames = 0
    /\ tracks = [c \in Cameras |-> <<>>]
    /\ candidates = {}
    /\ matches = {}
    /\ evidence = [ci \in Cameras \X TrackIds |-> <<>>]
    /\ lowest = [ci \in Cameras \X TrackIds |-> 0]
    /\ vouched = {}

-----------------------------------------------------------------------------
(* Track and its methods.                                                  *)

NewTrack == [identity |-> Nobody, status |-> "new", agreeing |-> 0, forced |-> TRUE,
             best |-> 0, floor |-> 0, missed |-> 0, person |-> FALSE]

Higher(p, q) == IF p > q THEN p ELSE q
Dropped(q, floor) == 100 * q < DropPercent * floor

(* Mutant: the buffer keeps its newest frame.                              *)
NewestFrame(t, q) == q

(* The buffer is sorted by quality and cut at its end, so the best frame a *)
(* track ever had stays in front.                                          *)
BestFrame(t, q) == Higher(t.best, q)

(* add_observation, with a face of quality q.                              *)
Observe(t, q) ==
    LET drop == t.status = "confirmed" /\ t.floor > 0 /\ Dropped(q, t.floor) IN
    [t EXCEPT !.missed = 0,
              !.best = BestFrame(t, q),
              !.forced = t.forced \/ drop,
              !.status = IF t.status = "confirmed" /\ ~drop THEN "confirmed" ELSE "active"]

(* Mutant: matches are counted, whomever they name.                        *)
AgreeingWithAnyone(t, x) == IF t.agreeing < Required THEN t.agreeing + 1 ELSE Required

(* consistent_matches after a match with x.                                *)
Agreeing(t, x) ==
    IF t.identity # x THEN 1
    ELSE IF t.agreeing < Required THEN t.agreeing + 1 ELSE Required

(* record_identity.                                                        *)
Record(t, x) ==
    LET conflict == t.identity \notin {x, Nobody}
        n == Agreeing(t, x)
        confirmed == n >= Required
    IN  [t EXCEPT !.identity = x,
                  !.agreeing = n,
                  !.forced = ~confirmed /\ (t.forced \/ conflict),
                  !.status = IF confirmed THEN "confirmed"
                             ELSE IF conflict THEN "active" ELSE t.status,
                  !.floor = IF confirmed THEN Higher(t.floor, t.best) ELSE t.floor]

(* needs_identification. Its last test compares the best frame with the    *)
(* floor, and reopens the track when it fails.                             *)
Reopens(t) == t.floor > 0 /\ Dropped(t.best, t.floor)
Reopened(t) == [t EXCEPT !.forced = TRUE, !.status = "active"]
Doubtful(t) == t.forced \/ t.identity = Nobody \/ t.agreeing < Required \/ t.status # "confirmed"
NeedsIdentification(t) == Doubtful(t) \/ Reopens(t)

(* Identification of a track: nothing, when it is not needed or finds      *)
(* nobody, else the student it finds.                                      *)
Identify(t, x) ==
    LET u == IF ~Doubtful(t) /\ Reopens(t) THEN Reopened(t) ELSE t IN
    IF NeedsIdentification(t) /\ x # Nobody THEN Record(u, x) ELSE u

-----------------------------------------------------------------------------
(* The tracker assigned ids to the faces of a frame of camera c.           *)
Seen(c, quality) ==
    [i \in DOMAIN quality |->
        Observe(IF i \in DOMAIN tracks[c] THEN tracks[c][i] ELSE NewTrack, quality[i])]

(* Mutant: a track that is lost keeps its status.                          *)
Overlooked(t) == [t EXCEPT !.missed = @ + 1]

(* A track that the frame did not show.                                    *)
Lost(t) == [t EXCEPT !.missed = @ + 1, !.status = "lost"]

(* Mutant: one more frame may miss the track before it is dropped.         *)
KeptOnceMore(t) == t.missed <= MaxLost

(* Not missed too often, counting this frame.                              *)
Kept(t) == t.missed < MaxLost
Missed(c, quality) ==
    [i \in {j \in DOMAIN tracks[c] \ DOMAIN quality : Kept(tracks[c][j])} |->
        Lost(tracks[c][i])]

(* Tracks that cleanup_stale may remove: the frame showed the others.      *)
Unseen(c, quality) ==
    {ci \in Cameras \X TrackIds :
        ci[2] \in DOMAIN tracks[ci[1]] /\ (ci[1] # c \/ ci[2] \notin DOMAIN quality)}

(* Mutant: any track with an identity is registered.                       *)
RegistrableIfNamed(t) == t.identity # Nobody /\ t.person

(* register_confirmed_track.                                               *)
Registrable(t) == t.status = "confirmed" /\ t.identity # Nobody /\ t.person

(* The candidates of other cameras a track may be linked to.               *)
Linkable(c, remembered) == {k \in remembered : k.camera # c}

Extend(seq, x) ==
    LET longer == Append(seq, x) IN
    IF Len(longer) > Required THEN Tail(longer) ELSE longer

(* What the tracking branch of process_snapshot makes of a frame of camera *)
(* c: the quality of the face of each track it shows, the student each of  *)
(* them would be identified as, the tracks the loop over them reached, the *)
(* tracks whose person crop embeds, the tracks that are too old to keep    *)
(* and the candidates that are not. A loop that a query or a model stops   *)
(* with an exception leaves its tracks observed and reports nothing.       *)
Process(c, quality, who, reached, embedded, stale, remembered) ==
    LET ids == DOMAIN quality
        seen == Seen(c, quality)
        asked == {i \in reached : NeedsIdentification(seen[i])}
        named == {i \in asked : who[i] # Nobody}
        carried == reached \ asked
        recorded == [i \in ids |->
            IF i \in reached THEN Identify(seen[i], who[i]) ELSE seen[i]]
        unresolved == {i \in ids : reached = ids /\ recorded[i].identity = Nobody}
        withPerson == [i \in ids |->
            [recorded[i] EXCEPT !.person = @ \/ (i \in embedded
                                  /\ i \in named \cup carried \cup unresolved)]]
        registered == {i \in named \cup carried : Registrable(withPerson[i])}
        missed == Missed(c, quality)
        alive == [d \in Cameras |->
            {i \in IF d = c THEN DOMAIN missed \cup ids ELSE DOMAIN tracks[d] :
                <<d, i>> \notin stale}]
    IN
    \E link \in [unresolved -> Linkable(c, remembered) \cup {Nobody}] :
        LET linked == {i \in unresolved : withPerson[i].person /\ link[i] # Nobody}
            after == [i \in ids |->
                IF i \in linked
                THEN [withPerson[i] EXCEPT !.identity = link[i].student, !.forced = FALSE]
                ELSE withPerson[i]]
        IN
        /\ tracks' = [d \in Cameras |-> [i \in alive[d] |->
              IF d # c THEN tracks[d][i] ELSE IF i \in ids THEN after[i] ELSE missed[i]]]
        /\ candidates' =
              {k \in remembered : k.camera # c \/ k.id \notin registered}
                \cup {[camera |-> c, id |-> i, student |-> after[i].identity] : i \in registered}
        /\ matches' =
              {[camera |-> c, id |-> i, student |-> after[i].identity,
                how |-> IF i \in carried THEN "carried"
                        ELSE IF i \in named THEN "identified" ELSE "linked",
                source |-> IF i \in linked THEN <<link[i].camera, link[i].id>> ELSE <<c, i>>]
                  : i \in IF reached = ids THEN carried \cup named \cup linked ELSE {}}
        /\ evidence' = [ci \in Cameras \X TrackIds |->
              IF ci[2] \notin alive[ci[1]] THEN <<>>
              ELSE IF ci[1] = c /\ ci[2] \in named THEN Extend(evidence[ci], who[ci[2]])
              ELSE evidence[ci]]
        /\ lowest' = [ci \in Cameras \X TrackIds |->
              IF ci[2] \notin alive[ci[1]] THEN 0
              ELSE IF ci[1] # c THEN lowest[ci]
              ELSE IF ci[2] \notin ids THEN 0
              ELSE IF ci[2] \in named /\ after[ci[2]].status = "confirmed" THEN after[ci[2]].best
              ELSE IF quality[ci[2]] < lowest[ci] THEN quality[ci[2]] ELSE lowest[ci]]
        /\ vouched' = vouched \cup
              {[camera |-> c, id |-> i, student |-> after[i].identity]
                  : i \in {j \in named : after[j].status = "confirmed"}}

Frame(c) ==
    /\ frames < MaxFrames
    /\ frames' = frames + 1
    /\ \E ids \in SUBSET TrackIds, remembered \in SUBSET candidates :
          \E quality \in [ids -> Qualities], reached \in SUBSET ids :
             \E who \in [reached -> Students \cup {Nobody}],
                embedded \in SUBSET reached, stale \in SUBSET Unseen(c, quality) :
                Process(c, quality, who, reached, embedded, stale, remembered)

Next == \E c \in Cameras : Frame(c)

Spec == Init /\ [][Next]_vars

-----------------------------------------------------------------------------
(* A track is confirmed only while its last Required identifications all   *)
(* named the student it carries: neither a link, a lost frame, a reopened  *)
(* track nor an id used again shortens the way to "confirmed"              *)
(* (record_identity).                                                      *)
ConfirmedByAgreement ==
    \A c \in Cameras : \A i \in DOMAIN tracks[c] :
        tracks[c][i].status = "confirmed" =>
            evidence[<<c, i>>] = [n \in 1 .. Required |-> tracks[c][i].identity]

(* A student is reported without being identified again only if the track  *)
(* was in every frame of its camera since it was confirmed, and never fell *)
(* below the drop ratio of the quality it was confirmed with               *)
(* (needs_identification, add_observation and update together).            *)
CarriedIsSteady ==
    \A m \in matches : m.how = "carried" =>
        LET low == lowest[<<m.camera, m.id>>] IN
        low > 0 /\ ~Dropped(low, tracks[m.camera][m.id].floor)

(* An identity that came over a link is not handed on by another link: the *)
(* student a track inherits was confirmed by faces, on another camera.     *)
LinksAreConfirmed ==
    \A m \in matches : m.how = "linked" =>
        /\ m.source[1] # m.camera
        /\ [camera |-> m.source[1], id |-> m.source[2], student |-> m.student] \in vouched

(* The best frame of a track is never worse than the one it was confirmed  *)
(* with, so the quality test of needs_identification cannot fail: it is    *)
(* the test in add_observation, on the newest frame, that reopens a track. *)
BestFrameOutlivesDrop ==
    \A c \in Cameras : \A i \in DOMAIN tracks[c] : ~Reopens(tracks[c][i])
=============================================================================
