------------------------ MODULE TrackLifecycleProofs ------------------------
(***************************************************************************)
(* Theorems about TrackLifecycle, for any cameras, track ids, students,    *)
(* qualities and frames, any tracker and any recogniser.                   *)
(***************************************************************************)
EXTENDS TrackLifecycle, TLAPS

-----------------------------------------------------------------------------
(* The inductive invariant, first of one track of camera c.                *)

Stamp(c, i, x) == [camera |-> c, id |-> i, student |-> x]

(* consistent_matches is backed by as many of the last identifications.    *)
Agreed(t, e) ==
    /\ t.agreeing <= Len(e)
    /\ \A n \in 1 .. Len(e) : n > Len(e) - t.agreeing => e[n] = t.identity
    /\ t.identity = Nobody => t.agreeing = 0

(* A confirmed track has agreement, a floor it never fell below, and was   *)
(* vouched for.                                                            *)
Earned(t, low) == t.agreeing = Required /\ t.floor > 0 /\ low > 0 /\ ~Dropped(low, t.floor)

Good(c, i, t, e, low, v) ==
    /\ t \in Track
    /\ Agreed(t, e)
    /\ t.floor <= t.best
    /\ t.status = "confirmed" => Earned(t, low) /\ Stamp(c, i, t.identity) \in v

Histories ==
    /\ evidence \in [Cameras \X TrackIds -> Seq(Students)]
    /\ \A ci \in Cameras \X TrackIds : Len(evidence[ci]) <= Required
    /\ lowest \in [Cameras \X TrackIds -> Qualities \cup {0}]
    /\ vouched \subseteq [camera : Cameras, id : TrackIds, student : Students]

TracksOK ==
    /\ DOMAIN tracks = Cameras
    /\ \A c \in Cameras : DOMAIN tracks[c] \subseteq TrackIds
    /\ \A c \in Cameras : \A i \in DOMAIN tracks[c] :
          Good(c, i, tracks[c][i], evidence[<<c, i>>], lowest[<<c, i>>], vouched)

TrackInv == TypeOK /\ Histories /\ TracksOK /\ candidates \subseteq vouched

-----------------------------------------------------------------------------
(* Lemmas about Track and its methods.                                     *)

LEMMA Ranges ==
    /\ Qualities \subseteq Nat /\ 0 \notin Qualities /\ Required \in Nat /\ Required >= 1
    /\ DropPercent \in Nat /\ DropPercent <= 100 /\ MaxLost \in Nat /\ MaxLost >= 1
BY MaxLostAssumption, QualitiesAssumption, RequiredAssumption, DropPercentAssumption

LEMMA Fields ==
    ASSUME NEW t \in Track
    PROVE  /\ t.identity \in Students \cup {Nobody} /\ t.agreeing \in Nat /\ t.agreeing <= Required
           /\ t.best \in Qualities \cup {0} /\ t.best \in Nat
           /\ t.floor \in Qualities \cup {0} /\ t.floor \in Nat
           /\ t.missed \in 0 .. MaxLost /\ t.forced \in BOOLEAN /\ t.person \in BOOLEAN
<1>1. /\ t.identity \in Students \cup {Nobody} /\ t.agreeing \in 0 .. Required
      /\ t.best \in Qualities \cup {0} /\ t.floor \in Qualities \cup {0}
      /\ t.missed \in 0 .. MaxLost /\ t.forced \in BOOLEAN /\ t.person \in BOOLEAN
  BY DEF Track
<1>2. Qualities \cup {0} \subseteq Nat
  BY Ranges
<1>3. t.agreeing \in Nat /\ t.agreeing <= Required
  BY <1>1, Ranges
<1> QED
  BY <1>1, <1>2, <1>3

LEMMA HigherIsMaximum ==
    ASSUME NEW p \in Nat, NEW q \in Nat
    PROVE  Higher(p, q) \in {p, q} /\ p <= Higher(p, q) /\ q <= Higher(p, q)
BY DEF Higher

LEMMA NoDropAboveFloor ==
    ASSUME NEW best \in Nat, NEW floor \in Nat, floor <= best
    PROVE  ~Dropped(best, floor)
<1>1. DropPercent * floor <= 100 * floor
  BY Ranges
<1>2. 100 * floor <= 100 * best
  OBVIOUS
<1>3. DropPercent * floor \in Nat
  BY Ranges
<1> QED
  BY <1>1, <1>2, <1>3 DEF Dropped

LEMMA NewTrackIsGood ==
    ASSUME NEW c, NEW i, NEW e \in Seq(Students), NEW low, NEW v
    PROVE  Good(c, i, NewTrack, e, low, v)
<1>1. NewTrack \in Track
  BY Ranges DEF NewTrack, Track
<1>2. Agreed(NewTrack, e)
  BY DEF Agreed, NewTrack
<1> QED
  BY <1>1, <1>2 DEF Good, NewTrack

(* add_observation: what remains confirmed did not fall below its floor.   *)
LEMMA ObserveKeeps ==
    ASSUME NEW c, NEW i, NEW t, NEW e \in Seq(Students), NEW low \in Qualities \cup {0}, NEW v,
           NEW q \in Qualities, Good(c, i, t, e, low, v)
    PROVE  /\ Good(c, i, Observe(t, q), e, IF q < low THEN q ELSE low, v)
           /\ Observe(t, q).best > 0
           /\ Observe(t, q).status = "confirmed" => t.status = "confirmed"
<1> DEFINE drop == t.status = "confirmed" /\ t.floor > 0 /\ Dropped(q, t.floor)
           u == Observe(t, q)
<1>1. t \in Track
  BY DEF Good
<1>2. /\ u.identity = t.identity /\ u.agreeing = t.agreeing /\ u.floor = t.floor
      /\ u.best = Higher(t.best, q)
      /\ u.status = IF t.status = "confirmed" /\ ~drop THEN "confirmed" ELSE "active"
  BY <1>1 DEF Observe, BestFrame, Track
<1>3. u.best \in Qualities /\ u.best > 0 /\ u.floor <= u.best
  <2>1. q \in Nat /\ q > 0 /\ t.floor <= t.best
    BY Ranges DEF Good
  <2>2. t.best \in Qualities \cup {0} /\ t.best \in Nat /\ t.floor \in Nat
    BY <1>1, Fields
  <2>3. Higher(t.best, q) \in {t.best, q} /\ t.best <= Higher(t.best, q) /\ q <= Higher(t.best, q)
    BY <2>1, <2>2, HigherIsMaximum
  <2> QED BY <1>2, <2>1, <2>2, <2>3
<1>4. u \in Track
  <2>1. u = [t EXCEPT !.missed = 0, !.best = u.best, !.forced = t.forced \/ drop, !.status = u.status]
    BY <1>1 DEF Observe, Track
  <2>2. (t.forced \/ drop) \in BOOLEAN /\ u.status \in {"confirmed", "active"} /\ 0 \in 0 .. MaxLost
    BY <1>2, Ranges
  <2> QED BY <1>1, <1>3, <2>1, <2>2 DEF Track
<1>5. Agreed(u, e)
  BY <1>2 DEF Good, Agreed
<1>6. ASSUME u.status = "confirmed"
      PROVE  Earned(u, IF q < low THEN q ELSE low) /\ Stamp(c, i, u.identity) \in v
  <2>1. t.status = "confirmed" /\ ~drop
    BY <1>2, <1>6
  <2>2. Earned(t, low) /\ Stamp(c, i, t.identity) \in v
    BY <2>1 DEF Good
  <2>3. q > 0
    BY Ranges
  <2> QED BY <1>2, <2>1, <2>2, <2>3 DEF Earned
<1> QED
  BY <1>2, <1>3, <1>4, <1>5, <1>6 DEF Good

LEMMA ExtendIsBounded ==
    ASSUME NEW e \in Seq(Students), Len(e) <= Required, NEW x \in Students
    PROVE  /\ Extend(e, x) \in Seq(Students)
           /\ Len(Extend(e, x)) = IF Len(e) = Required THEN Required ELSE Len(e) + 1
           /\ \A n \in 1 .. Len(Extend(e, x)) :
                 Extend(e, x)[n] = IF n = Len(Extend(e, x)) THEN x
                                   ELSE e[n + Len(e) + 1 - Len(Extend(e, x))]
<1>1. Append(e, x) \in Seq(Students) /\ Len(Append(e, x)) = Len(e) + 1
  OBVIOUS
<1>2. Required \in Nat /\ Required >= 1
  BY Ranges
<1>3. CASE Len(e) = Required
  <2>1. Extend(e, x) = Tail(Append(e, x))
    BY <1>1, <1>2, <1>3 DEF Extend
  <2>2. Extend(e, x) \in Seq(Students) /\ Len(Extend(e, x)) = Len(e)
    BY <1>1, <1>2, <1>3, <2>1
  <2>3. \A n \in 1 .. Len(e) : Extend(e, x)[n] = Append(e, x)[n + 1]
    BY <1>1, <1>2, <1>3, <2>1
  <2>4. \A n \in 1 .. Len(e) : Append(e, x)[n + 1] = IF n = Len(e) THEN x ELSE e[n + 1]
    BY <1>1
  <2>5. \A n \in 1 .. Len(e) : n + Len(e) + 1 - Len(e) = n + 1
    OBVIOUS
  <2> QED BY <1>2, <1>3, <2>2, <2>3, <2>4, <2>5
<1>4. CASE Len(e) # Required
  <2>1. Extend(e, x) = Append(e, x)
    BY <1>1, <1>2, <1>4 DEF Extend
  <2> QED BY <1>1, <1>2, <1>4, <2>1
<1> QED
  BY <1>3, <1>4

(* record_identity: the track's agreement is that of its evidence, and     *)
(* becoming confirmed sets the floor to the best frame.                    *)
LEMMA RecordKeeps ==
    ASSUME NEW c, NEW i, NEW t, NEW e \in Seq(Students), Len(e) <= Required,
           NEW low, NEW v, NEW w, NEW new, NEW x \in Students,
           Good(c, i, t, e, low, v), t.best > 0, v \subseteq w,
           Record(t, x).status = "confirmed" => new = Record(t, x).best /\ Stamp(c, i, x) \in w
    PROVE  Good(c, i, Record(t, x), Extend(e, x), new, w) /\ Record(t, x).identity = x
<1> DEFINE u == Record(t, x)
           n == Agreeing(t, x)
           f == Extend(e, x)
<1>1. t \in Track /\ Agreed(t, e) /\ t.floor <= t.best
  BY DEF Good
<1>2. n \in 1 .. Required /\ (n = 1 \/ (t.identity = x /\ n <= t.agreeing + 1))
  BY <1>1, Ranges DEF Agreeing, Track
<1>3. /\ u.identity = x /\ u.agreeing = n /\ u.best = t.best
      /\ u.floor = IF n >= Required THEN Higher(t.floor, t.best) ELSE t.floor
      /\ u.status \in {"new", "active", "confirmed", "lost"}
      /\ n >= Required <=> u.status = "confirmed"
  <2>1. t.status = "confirmed" => t.agreeing = Required
    BY DEF Good, Earned
  <2>2. t.status = "confirmed" /\ t.identity = x => n >= Required
    BY <1>1, <2>1, Ranges DEF Agreeing, Track
  <2>3. t.status = "confirmed" => t.identity # Nobody
    BY <1>1, <2>1, Ranges DEF Agreed
  <2> QED BY <1>1, <2>2, <2>3 DEF Record, Track
<1>4. /\ u.floor <= u.best /\ u.floor \in Qualities \cup {0}
      /\ n >= Required => u.floor = t.best
  <2>1. t.best \in Qualities \cup {0} /\ t.floor \in Qualities \cup {0} /\ t.best \in Nat /\ t.floor \in Nat
    BY <1>1, Fields
  <2>2. Higher(t.floor, t.best) = t.best
    BY <1>1, <2>1 DEF Higher
  <2> QED BY <1>1, <1>3, <2>1, <2>2
<1>5. u \in Track
  <2>1. u = [t EXCEPT !.identity = x, !.agreeing = n, !.forced = u.forced, !.status = u.status,
                      !.floor = u.floor]
    BY <1>1 DEF Record, Track
  <2>2. u.forced \in BOOLEAN
    BY <1>1 DEF Record, Track
  <2>3. n \in 0 .. Required
    BY <1>2, Ranges
  <2>4. u.status \in {"new", "active", "confirmed", "lost"}
    BY <1>3
  <2> HIDE DEF u, n
  <2> QED BY <1>1, <1>4, <2>1, <2>2, <2>3, <2>4 DEF Track
<1>6. Agreed(u, f)
  <2>1. /\ f \in Seq(Students) /\ Len(f) = IF Len(e) = Required THEN Required ELSE Len(e) + 1
        /\ \A k \in 1 .. Len(f) :
              f[k] = IF k = Len(f) THEN x ELSE e[k + Len(e) + 1 - Len(f)]
    BY ExtendIsBounded
  <2>2. Len(e) \in Nat /\ Len(f) \in Nat /\ t.agreeing \in Nat
    BY <1>1, <2>1 DEF Track
  <2>3. n <= Len(f)
    BY <1>1, <1>2, <2>1, <2>2, Ranges DEF Agreed
  <2>4. ASSUME NEW k \in 1 .. Len(f), k > Len(f) - n
        PROVE  f[k] = x
    <3>1. CASE k = Len(f)
      BY <2>1, <3>1
    <3>2. CASE k # Len(f)
      <4>1. t.identity = x /\ n <= t.agreeing + 1
        BY <1>2, <2>2, <2>4, <3>2
      <4>2. f[k] = e[k + Len(e) + 1 - Len(f)]
        BY <2>1, <3>2
      <4>3. k + Len(e) + 1 - Len(f) \in 1 .. Len(e)
        BY <2>1, <2>2, <3>2, Ranges
      <4>4. k + Len(e) + 1 - Len(f) > Len(e) - t.agreeing
        BY <1>2, <2>2, <2>4, <4>1
      <4> QED BY <1>1, <4>1, <4>2, <4>3, <4>4 DEF Agreed
    <3> QED BY <3>1, <3>2
  <2>5. x # Nobody
    BY NobodyAssumption
  <2> QED BY <1>3, <2>3, <2>4, <2>5 DEF Agreed
<1>7. ASSUME u.status = "confirmed"
      PROVE  Earned(u, new) /\ Stamp(c, i, x) \in w
  <2>1. n = Required /\ u.floor = t.best /\ new = t.best
    BY <1>2, <1>3, <1>4, <1>7, Ranges
  <2>2. t.best \in Nat
    BY <1>1, Fields
  <2> QED BY <1>3, <1>7, <2>1, <2>2, NoDropAboveFloor DEF Earned
<1> QED
  BY <1>3, <1>4, <1>5, <1>6, <1>7 DEF Good

LEMMA RecordedIsTrack ==
    ASSUME NEW c, NEW i, NEW t, NEW e \in Seq(Students), Len(e) <= Required,
           NEW low, NEW v, NEW x \in Students, Good(c, i, t, e, low, v), t.best > 0
    PROVE  Record(t, x) \in Track /\ Record(t, x).identity = x
<1> DEFINE w == v \cup {Stamp(c, i, x)}
<1>1. v \subseteq w /\ Stamp(c, i, x) \in w
  OBVIOUS
<1> HIDE DEF w
<1>2. Good(c, i, Record(t, x), Extend(e, x), Record(t, x).best, w) /\ Record(t, x).identity = x
  BY <1>1, RecordKeeps
<1> QED
  BY <1>2 DEF Good

(* needs_identification: its quality test cannot fail, so identification   *)
(* records a student or leaves the track alone.                            *)
LEMMA IdentifyRecords ==
    ASSUME NEW c, NEW i, NEW t, NEW e, NEW low, NEW v, NEW x, Good(c, i, t, e, low, v)
    PROVE  /\ ~Reopens(t)
           /\ Identify(t, x) = IF NeedsIdentification(t) /\ x # Nobody THEN Record(t, x) ELSE t
<1>1. t.best \in Nat /\ t.floor \in Nat /\ t.floor <= t.best
  BY Fields DEF Good
<1>2. ~Reopens(t)
  BY <1>1, NoDropAboveFloor DEF Reopens
<1> QED
  BY <1>2 DEF Identify

(* A person crop that embeds.                                              *)
LEMMA PersonKeeps ==
    ASSUME NEW c, NEW i, NEW t, NEW e, NEW low, NEW v, NEW p \in BOOLEAN, Good(c, i, t, e, low, v)
    PROVE  /\ Good(c, i, [t EXCEPT !.person = @ \/ p], e, low, v)
           /\ [t EXCEPT !.person = @ \/ p].identity = t.identity
           /\ [t EXCEPT !.person = @ \/ p].status = t.status
           /\ [t EXCEPT !.person = @ \/ p].floor = t.floor
           /\ [t EXCEPT !.person = @ \/ p].best = t.best
<1> DEFINE u == [t EXCEPT !.person = @ \/ p]
<1>1. t \in Track
  BY DEF Good
<1>2. /\ u.identity = t.identity /\ u.status = t.status /\ u.floor = t.floor
      /\ u.best = t.best /\ u.agreeing = t.agreeing
  BY <1>1 DEF Track
<1>3. u \in Track
  BY <1>1 DEF Track
<1> HIDE DEF u
<1> QED
  BY <1>2, <1>3 DEF Good, Agreed, Earned, u

(* A link names a track nobody had named.                                  *)
LEMMA LinkKeeps ==
    ASSUME NEW c, NEW i, NEW t, NEW e \in Seq(Students), NEW low, NEW v, NEW x \in Students,
           Good(c, i, t, e, low, v), t.identity = Nobody
    PROVE  Good(c, i, [t EXCEPT !.identity = x, !.forced = FALSE], e, low, v)
<1> DEFINE u == [t EXCEPT !.identity = x, !.forced = FALSE]
<1>1. t \in Track /\ t.agreeing = 0
  BY DEF Good, Agreed
<1>2. t.status # "confirmed"
  BY <1>1, Ranges DEF Good, Earned
<1>3. /\ u.identity = x /\ u.status = t.status /\ u.floor = t.floor
      /\ u.best = t.best /\ u.agreeing = 0
  BY <1>1 DEF Track
<1>4. u \in Track
  BY <1>1 DEF Track
<1>5. Agreed(u, e)
  BY <1>3, NobodyAssumption DEF Agreed
<1> HIDE DEF u
<1> QED
  BY <1>2, <1>3, <1>4, <1>5 DEF Good, u

(* update, for a track the frame did not show.                             *)
LEMMA LostKeeps ==
    ASSUME NEW c, NEW i, NEW t, NEW e, NEW low, NEW new, NEW v, Good(c, i, t, e, low, v), Kept(t)
    PROVE  Good(c, i, Lost(t), e, new, v)
<1> DEFINE u == Lost(t)
<1>1. t \in Track
  BY DEF Good
<1>2. t.missed + 1 \in 0 .. MaxLost
  BY <1>1, Ranges DEF Kept, Track
<1>3. /\ u.identity = t.identity /\ u.status = "lost" /\ u.floor = t.floor
      /\ u.best = t.best /\ u.agreeing = t.agreeing
  BY <1>1 DEF Track, Lost
<1>4. u \in Track
  BY <1>1, <1>2 DEF Track, Lost
<1> HIDE DEF u
<1> QED
  BY <1>3, <1>4 DEF Good, Agreed, u

(* A larger set of stamps vouches as well.                                 *)
LEMMA MoreStamps ==
    ASSUME NEW c, NEW i, NEW t, NEW e, NEW low, NEW v, NEW w, Good(c, i, t, e, low, v), v \subseteq w
    PROVE  Good(c, i, t, e, low, w)
BY DEF Good

-----------------------------------------------------------------------------
(* A frame.                                                                *)

LEMMA SeenIsGood ==
    ASSUME TrackInv, NEW c \in Cameras, NEW ids \in SUBSET TrackIds,
           NEW quality \in [ids -> Qualities], NEW i \in ids
    PROVE  LET low == lowest[<<c, i>>]
               q == quality[i]
               t == Seen(c, quality)[i] IN
           /\ Good(c, i, t, evidence[<<c, i>>], IF q < low THEN q ELSE low, vouched)
           /\ t.best > 0
<1>1. <<c, i>> \in Cameras \X TrackIds
  OBVIOUS
<1>2. /\ evidence[<<c, i>>] \in Seq(Students) /\ lowest[<<c, i>>] \in Qualities \cup {0}
      /\ quality[i] \in Qualities
  BY <1>1 DEF TrackInv, Histories
<1>3. Good(c, i, IF i \in DOMAIN tracks[c] THEN tracks[c][i] ELSE NewTrack,
           evidence[<<c, i>>], lowest[<<c, i>>], vouched)
  BY <1>2, NewTrackIsGood DEF TrackInv, TracksOK
<1>4. Seen(c, quality)[i]
         = Observe(IF i \in DOMAIN tracks[c] THEN tracks[c][i] ELSE NewTrack, quality[i])
  BY DEF Seen
<1> QED
  BY <1>2, <1>3, <1>4, ObserveKeeps

LEMMA FrameKeeps ==
    ASSUME TrackInv, NEW c \in Cameras, NEW remembered \in SUBSET candidates, NEW quality,
           quality \in [DOMAIN quality -> Qualities], DOMAIN quality \subseteq TrackIds,
           NEW reached \in SUBSET DOMAIN quality, NEW who \in [reached -> Students \cup {Nobody}],
           NEW embedded \in SUBSET reached, NEW stale \in SUBSET Unseen(c, quality),
           frames < MaxFrames, frames' = frames + 1,
           Process(c, quality, who, reached, embedded, stale, remembered)
    PROVE  TrackInv' /\ CarriedIsSteady' /\ LinksAreConfirmed'
<1> DEFINE ids == DOMAIN quality
           seen == Seen(c, quality)
           asked == {i \in reached : NeedsIdentification(seen[i])}
           named == {i \in asked : who[i] # Nobody}
           carried == reached \ asked
           recorded == [i \in ids |->
               IF i \in reached THEN Identify(seen[i], who[i]) ELSE seen[i]]
           unresolved == {i \in ids : reached = ids /\ recorded[i].identity = Nobody}
           withPerson == [i \in ids |->
               [recorded[i] EXCEPT !.person = @ \/ (i \in embedded
                                     /\ i \in named \cup carried \cup unresolved)]]
           registered == {i \in named \cup carried : Registrable(withPerson[i])}
           missed == Missed(c, quality)
           alive == [d \in Cameras |->
               {i \in IF d = c THEN DOMAIN missed \cup ids ELSE DOMAIN tracks[d] :
                   <<d, i>> \notin stale}]
           linked(link) == {i \in unresolved : withPerson[i].person /\ link[i] # Nobody}
           after(link) == [i \in ids |->
               IF i \in linked(link)
               THEN [withPerson[i] EXCEPT !.identity = link[i].student, !.forced = FALSE]
               ELSE withPerson[i]]
           down(i) == IF quality[i] < lowest[<<c, i>>] THEN quality[i] ELSE lowest[<<c, i>>]
<1>1. PICK link \in [unresolved -> Linkable(c, remembered) \cup {Nobody}] :
        /\ tracks' = [d \in Cameras |-> [i \in alive[d] |->
              IF d # c THEN tracks[d][i] ELSE IF i \in ids THEN after(link)[i] ELSE missed[i]]]
        /\ candidates' =
              {k \in remembered : k.camera # c \/ k.id \notin registered}
                \cup {[camera |-> c, id |-> i, student |-> after(link)[i].identity] : i \in registered}
        /\ matches' =
              {[camera |-> c, id |-> i, student |-> after(link)[i].identity,
                how |-> IF i \in carried THEN "carried"
                        ELSE IF i \in named THEN "identified" ELSE "linked",
                source |-> IF i \in linked(link) THEN <<link[i].camera, link[i].id>> ELSE <<c, i>>]
                  : i \in IF reached = ids THEN carried \cup named \cup linked(link) ELSE {}}
        /\ evidence' = [ci \in Cameras \X TrackIds |->
              IF ci[2] \notin alive[ci[1]] THEN <<>>
              ELSE IF ci[1] = c /\ ci[2] \in named THEN Extend(evidence[ci], who[ci[2]])
              ELSE evidence[ci]]
        /\ lowest' = [ci \in Cameras \X TrackIds |->
              IF ci[2] \notin alive[ci[1]] THEN 0
              ELSE IF ci[1] # c THEN lowest[ci]
              ELSE IF ci[2] \notin ids THEN 0
              ELSE IF ci[2] \in named /\ after(link)[ci[2]].status = "confirmed"
                   THEN after(link)[ci[2]].best
              ELSE IF quality[ci[2]] < lowest[ci] THEN quality[ci[2]] ELSE lowest[ci]]
        /\ vouched' = vouched \cup
              {[camera |-> c, id |-> i, student |-> after(link)[i].identity]
                  : i \in {j \in named : after(link)[j].status = "confirmed"}}
  BY Zenon DEF Process
<1>2. /\ reached \subseteq ids /\ asked \subseteq reached /\ named \subseteq asked
      /\ carried \subseteq reached /\ carried \cap named = {} /\ ids \subseteq TrackIds
      /\ named \subseteq ids /\ carried \subseteq ids /\ unresolved \subseteq ids
      /\ \A i \in named : who[i] \in Students /\ who[i] # Nobody
  OBVIOUS
<1>3. /\ vouched \subseteq vouched' /\ candidates \subseteq vouched
      /\ remembered \subseteq [camera : Cameras, id : TrackIds, student : Students]
  BY <1>1 DEF TrackInv, TypeOK
<1>4. ASSUME NEW i \in ids
      PROVE  /\ Good(c, i, seen[i], evidence[<<c, i>>], down(i), vouched)
             /\ seen[i].best > 0 /\ ~Reopens(seen[i])
             /\ recorded[i] = IF i \in named THEN Record(seen[i], who[i]) ELSE seen[i]
  <2>1. Good(c, i, seen[i], evidence[<<c, i>>], down(i), vouched) /\ seen[i].best > 0
    BY SeenIsGood
  <2>2. /\ ~Reopens(seen[i])
        /\ Identify(seen[i], who[i])
              = IF NeedsIdentification(seen[i]) /\ who[i] # Nobody THEN Record(seen[i], who[i]) ELSE seen[i]
    BY <2>1, IdentifyRecords
  <2>3. recorded[i] = IF i \in reached THEN Identify(seen[i], who[i]) ELSE seen[i]
    OBVIOUS
  <2>4. i \in named <=> i \in reached /\ NeedsIdentification(seen[i]) /\ who[i] # Nobody
    OBVIOUS
  <2> QED BY <2>1, <2>2, <2>3, <2>4
<1>5. ASSUME NEW i \in carried
      PROVE  /\ recorded[i] = seen[i] /\ seen[i].status = "confirmed" /\ seen[i].identity \in Students
  <2>1. i \in ids /\ i \notin named
    BY <1>2
  <2>2. ~Doubtful(seen[i])
    BY DEF NeedsIdentification
  <2>3. seen[i] \in Track
    BY <1>4, <2>1 DEF Good
  <2> QED BY <1>4, <2>1, <2>2, <2>3, Fields DEF Doubtful
<1>6. ASSUME NEW i \in named
      PROVE  recorded[i].identity = who[i] /\ recorded[i] \in Track
  <2>1. i \in ids /\ who[i] \in Students
    BY <1>2
  <2>2. <<c, i>> \in Cameras \X TrackIds
    BY <1>2, <2>1
  <2>3. evidence[<<c, i>>] \in Seq(Students) /\ Len(evidence[<<c, i>>]) <= Required
    BY <2>2 DEF TrackInv, Histories
  <2>4. Good(c, i, seen[i], evidence[<<c, i>>], down(i), vouched) /\ seen[i].best > 0
    BY <1>4, <2>1
  <2>5. Record(seen[i], who[i]) \in Track /\ Record(seen[i], who[i]).identity = who[i]
    <3> HIDE DEF seen, down, named
    <3> QED BY <2>1, <2>3, <2>4, RecordedIsTrack
  <2> QED BY <1>4, <2>1, <2>5
<1>7. ASSUME NEW i \in ids
      PROVE  /\ recorded[i] \in Track
             /\ withPerson[i].identity = recorded[i].identity
             /\ withPerson[i].status = recorded[i].status
             /\ withPerson[i].best = recorded[i].best
             /\ withPerson[i].floor = recorded[i].floor
  <2>1. recorded[i] \in Track
    BY <1>4, <1>6 DEF Good
  <2> HIDE DEF recorded, unresolved, named, carried
  <2> QED BY <2>1 DEF Track
<1>8. /\ unresolved \cap named = {} /\ unresolved \cap carried = {}
      /\ linked(link) \subseteq unresolved
      /\ \A i \in ids : i \notin linked(link) => after(link)[i] = withPerson[i]
  <2>1. ASSUME NEW i \in named PROVE i \notin unresolved
    BY <1>2, <1>6
  <2>2. ASSUME NEW i \in carried PROVE i \notin unresolved
    BY <1>5, NobodyAssumption, ZenonT(60)
  <2> QED BY <2>1, <2>2
<1>9. \A i \in ids : i \in alive[c]
  BY DEF Unseen
<1>10. ASSUME NEW i \in ids
       PROVE  /\ evidence'[<<c, i>>] = IF i \in named THEN Extend(evidence[<<c, i>>], who[i])
                                       ELSE evidence[<<c, i>>]
              /\ lowest'[<<c, i>>] = IF i \in named /\ after(link)[i].status = "confirmed"
                                     THEN after(link)[i].best ELSE down(i)
  <2>1. <<c, i>> \in Cameras \X TrackIds /\ i \in alive[c]
    BY <1>2, <1>9
  <2> HIDE DEF alive, named, after
  <2> QED BY <1>1, <2>1
<1>11. ASSUME NEW i \in ids
       PROVE  Good(c, i, after(link)[i], evidence'[<<c, i>>], lowest'[<<c, i>>], vouched')
  <2> DEFINE p == i \in embedded /\ i \in named \cup carried \cup unresolved
             e == evidence[<<c, i>>]
             eNew == evidence'[<<c, i>>]
             lNew == lowest'[<<c, i>>]
  <2>1. withPerson[i] = [recorded[i] EXCEPT !.person = @ \/ p] /\ p \in BOOLEAN
    OBVIOUS
  <2>2. e \in Seq(Students) /\ Len(e) <= Required
    <3>1. <<c, i>> \in Cameras \X TrackIds
      BY <1>2
    <3> QED BY <3>1 DEF TrackInv, Histories
  <2>3. Good(c, i, seen[i], e, down(i), vouched) /\ Good(c, i, seen[i], e, down(i), vouched')
        /\ seen[i].best > 0
    <3>1. Good(c, i, seen[i], e, down(i), vouched) /\ seen[i].best > 0
      BY <1>4
    <3> HIDE DEF seen, down, e
    <3> QED BY <1>3, <3>1, MoreStamps
  <2>4. CASE i \in named
    <3>1. /\ recorded[i] = Record(seen[i], who[i]) /\ eNew = Extend(e, who[i])
          /\ after(link)[i] = withPerson[i]
          /\ lNew = IF after(link)[i].status = "confirmed" THEN after(link)[i].best ELSE down(i)
      <4>1. i \notin linked(link)
        BY <1>8, <2>4
      <4>2. recorded[i] = Record(seen[i], who[i])
        BY <1>4, <2>4
      <4>3. after(link)[i] = withPerson[i]
        BY <1>8, <4>1
      <4> HIDE DEF named, after, linked, down
      <4> QED BY <1>10, <2>4, <4>2, <4>3
    <3>2. recorded[i].status = "confirmed" =>
             lNew = recorded[i].best /\ Stamp(c, i, who[i]) \in vouched'
      <4>1. after(link)[i].status = recorded[i].status /\ after(link)[i].best = recorded[i].best
            /\ after(link)[i].identity = who[i]
        <5>1. /\ withPerson[i].status = recorded[i].status /\ withPerson[i].best = recorded[i].best
              /\ withPerson[i].identity = recorded[i].identity
          BY <1>7
        <5>2. recorded[i].identity = who[i]
          BY <1>6, <2>4
        <5> HIDE DEF withPerson, recorded, after
        <5> QED BY <3>1, <5>1, <5>2
      <4>2. after(link)[i].status = "confirmed" =>
               [camera |-> c, id |-> i, student |-> after(link)[i].identity] \in vouched'
        <5> HIDE DEF after, named
        <5> QED BY <1>1, <2>4
      <4> HIDE DEF after, recorded
      <4> QED BY <3>1, <4>1, <4>2 DEF Stamp
    <3>3. Good(c, i, recorded[i], eNew, lNew, vouched')
      <4>1. who[i] \in Students
        BY <1>2, <2>4
      <4> HIDE DEF seen, recorded, down, e, eNew, lNew, named
      <4> QED BY <1>3, <2>2, <2>3, <3>1, <3>2, <4>1, RecordKeeps
    <3> HIDE DEF recorded, withPerson, after, p
    <3> QED BY <2>1, <3>1, <3>3, PersonKeeps
  <2>5. CASE i \notin named
    <3>1. recorded[i] = seen[i] /\ eNew = e /\ lNew = down(i)
      <4>1. recorded[i] = seen[i]
        BY <1>4, <2>5
      <4> HIDE DEF named, after, down, recorded, seen
      <4> QED BY <1>10, <2>5, <4>1
    <3>2. Good(c, i, withPerson[i], e, down(i), vouched') /\ withPerson[i].identity = seen[i].identity
      <4>1. Good(c, i, recorded[i], e, down(i), vouched')
        <5> HIDE DEF seen, recorded, down, e
        <5> QED BY <2>3, <3>1
      <4>2. withPerson[i].identity = recorded[i].identity
        BY <1>7
      <4> HIDE DEF recorded, withPerson, p, e, down, seen
      <4> QED BY <2>1, <3>1, <4>1, <4>2, PersonKeeps
    <3>3. CASE i \in linked(link)
      <4>1. link[i] \in remembered /\ link[i].student \in Students
        BY <1>3, <3>3, NobodyAssumption DEF Linkable
      <4>2. after(link)[i] = [withPerson[i] EXCEPT !.identity = link[i].student, !.forced = FALSE]
        BY <3>3
      <4>3. withPerson[i].identity = Nobody
        <5>1. recorded[i].identity = Nobody
          BY <3>3
        <5> HIDE DEF recorded, withPerson
        <5> QED BY <1>7, <5>1
      <4>4. Good(c, i, [withPerson[i] EXCEPT !.identity = link[i].student, !.forced = FALSE],
                 e, down(i), vouched')
        <5>1. Good(c, i, withPerson[i], e, down(i), vouched')
          BY <3>2
        <5> DEFINE t == withPerson[i]
                   x == link[i].student
        <5>2. t.identity = Nobody /\ Good(c, i, t, e, down(i), vouched') /\ x \in Students
          BY <4>1, <4>3, <5>1
        <5> HIDE DEF e, down, t, x
        <5>3. Good(c, i, [t EXCEPT !.identity = x, !.forced = FALSE], e, down(i), vouched')
          BY <2>2, <5>2, LinkKeeps
        <5> QED BY <5>3 DEF t, x
      <4> HIDE DEF withPerson, after, e, down
      <4> QED BY <3>1, <4>2, <4>4
    <3>4. CASE i \notin linked(link)
      <4>1. after(link)[i] = withPerson[i]
        BY <1>8, <3>4
      <4> HIDE DEF withPerson, after, e, down
      <4> QED BY <3>1, <3>2, <4>1
    <3> QED BY <3>3, <3>4
  <2> QED BY <2>4, <2>5
<1>12. ASSUME NEW d \in Cameras, NEW i \in alive[d], d # c \/ i \notin ids
       PROVE  /\ i \in TrackIds /\ i \in DOMAIN tracks[d]
              /\ tracks'[d][i] = IF d = c THEN Lost(tracks[c][i]) ELSE tracks[d][i]
              /\ Good(d, i, tracks'[d][i], evidence'[<<d, i>>], lowest'[<<d, i>>], vouched')
  <2>1. IF d = c THEN i \in DOMAIN missed ELSE i \in DOMAIN tracks[d]
    BY <1>12
  <2>2. /\ i \in DOMAIN tracks[d]
        /\ d = c => Kept(tracks[c][i]) /\ missed[i] = Lost(tracks[c][i])
    BY <2>1 DEF Missed
  <2>3. i \in TrackIds /\ Good(d, i, tracks[d][i], evidence[<<d, i>>], lowest[<<d, i>>], vouched)
    BY <2>2 DEF TrackInv, TracksOK
  <2>4. Good(d, i, tracks[d][i], evidence[<<d, i>>], lowest[<<d, i>>], vouched')
    BY <1>3, <2>3, MoreStamps
  <2>5. tracks'[d][i] = IF d = c THEN Lost(tracks[c][i]) ELSE tracks[d][i]
    <3> HIDE DEF alive, missed, after
    <3> QED BY <1>1, <1>12, <2>2
  <2>6. evidence'[<<d, i>>] = evidence[<<d, i>>] /\ (d # c => lowest'[<<d, i>>] = lowest[<<d, i>>])
    <3>1. <<d, i>> \in Cameras \X TrackIds /\ <<d, i>>[1] = d /\ <<d, i>>[2] = i
      BY <2>3
    <3>2. d # c \/ i \notin named
      BY <1>2, <1>12
    <3> HIDE DEF alive, missed, after, named
    <3> QED BY <1>1, <1>12, <3>1, <3>2
  <2> QED BY <2>2, <2>3, <2>4, <2>5, <2>6, LostKeeps
<1>13. /\ DOMAIN tracks' = Cameras
       /\ \A d \in Cameras : DOMAIN tracks'[d] = alive[d]
       /\ \A i \in ids : tracks'[c][i] = after(link)[i]
  <2> HIDE DEF alive, missed, after
  <2> QED BY <1>1, <1>9
<1>14. TracksOK'
  <2>1. ASSUME NEW d \in Cameras, NEW i \in DOMAIN tracks'[d]
        PROVE  i \in TrackIds
               /\ Good(d, i, tracks'[d][i], evidence'[<<d, i>>], lowest'[<<d, i>>], vouched')
    <3>1. i \in alive[d]
      BY <1>13
    <3>2. CASE d = c /\ i \in ids
      <4> HIDE DEF after
      <4> QED BY <1>2, <1>11, <1>13, <3>2
    <3>3. CASE d # c \/ i \notin ids
      <4> HIDE DEF alive
      <4> QED BY <1>12, <3>1, <3>3
    <3> QED BY <3>2, <3>3
  <2> QED BY <1>13, <2>1 DEF TracksOK
<1>15. \A i \in named \cup carried :
          /\ i \in ids /\ i \notin linked(link) /\ after(link)[i] = withPerson[i]
          /\ after(link)[i].identity \in Students
          /\ after(link)[i].status = recorded[i].status
          /\ after(link)[i].floor = recorded[i].floor
  <2> TAKE i \in named \cup carried
  <2>1. i \in ids /\ i \notin linked(link)
    BY <1>2, <1>8
  <2>2. after(link)[i] = withPerson[i]
    BY <1>8, <2>1
  <2>3. recorded[i].identity \in Students
    BY <1>2, <1>5, <1>6
  <2> HIDE DEF recorded, withPerson, after, linked, named, carried
  <2> QED BY <1>7, <2>1, <2>2, <2>3
<1>16. \A i \in named \cup carried :
          after(link)[i].status = "confirmed" => Stamp(c, i, after(link)[i].identity) \in vouched'
  <2> HIDE DEF after, named, carried
  <2> QED BY <1>11, <1>15 DEF Good
<1>17. ASSUME NEW i \in linked(link)
       PROVE  /\ i \in ids /\ link[i] \in remembered /\ link[i].camera # c
              /\ link[i].camera \in Cameras /\ link[i].id \in TrackIds
              /\ link[i].student \in Students
              /\ link[i] = [camera |-> link[i].camera, id |-> link[i].id, student |-> link[i].student]
              /\ after(link)[i].identity = link[i].student
  <2>1. i \in unresolved /\ i \in ids /\ link[i] # Nobody
    BY <1>17
  <2>2. link[i] \in Linkable(c, remembered)
    <3> HIDE DEF unresolved
    <3> QED BY <2>1
  <2>3. link[i] \in remembered /\ link[i].camera # c
    BY <2>2 DEF Linkable
  <2>4. after(link)[i] = [withPerson[i] EXCEPT !.identity = link[i].student, !.forced = FALSE]
    BY <1>17, <2>1
  <2>5. withPerson[i] \in Track
    <3>1. recorded[i] \in Track
      BY <1>7, <2>1
    <3>2. withPerson[i] = [recorded[i] EXCEPT !.person = @ \/
              (i \in embedded /\ i \in named \cup carried \cup unresolved)]
      BY <2>1
    <3> HIDE DEF recorded, withPerson
    <3> QED BY <3>1, <3>2 DEF Track
  <2> HIDE DEF withPerson, after
  <2> QED BY <1>3, <2>1, <2>3, <2>4, <2>5 DEF Track
<1>18. Histories'
  <2>1. ASSUME NEW ci \in Cameras \X TrackIds
        PROVE  evidence'[ci] \in Seq(Students) /\ Len(evidence'[ci]) <= Required
               /\ lowest'[ci] \in Qualities \cup {0}
    <3>1. /\ evidence[ci] \in Seq(Students) /\ Len(evidence[ci]) <= Required
          /\ lowest[ci] \in Qualities \cup {0}
      BY DEF TrackInv, Histories
    <3>2. CASE ci[2] \notin alive[ci[1]]
      <4>1. evidence'[ci] = <<>> /\ lowest'[ci] = 0
        <5> HIDE DEF alive, named, after
        <5> QED BY <1>1, <3>2
      <4> QED BY <4>1, Ranges
    <3>3. CASE ci[2] \in alive[ci[1]] /\ ci[1] # c
      <4>1. evidence'[ci] = evidence[ci] /\ lowest'[ci] = lowest[ci]
        <5> HIDE DEF alive, named, after
        <5> QED BY <1>1, <3>3
      <4> QED BY <3>1, <4>1
    <3>4. CASE ci[2] \in alive[ci[1]] /\ ci[1] = c
      <4>1. evidence'[ci] = IF ci[2] \in named THEN Extend(evidence[ci], who[ci[2]]) ELSE evidence[ci]
        <5> HIDE DEF alive, named, after
        <5> QED BY <1>1, <3>4
      <4>2. ci[2] \in named => who[ci[2]] \in Students
        BY <1>2
      <4>3. evidence'[ci] \in Seq(Students) /\ Len(evidence'[ci]) <= Required
        <5> HIDE DEF named
        <5> QED BY <3>1, <4>1, <4>2, ExtendIsBounded, Ranges
      <4>4. lowest'[ci] \in Qualities \cup {0}
        <5>1. CASE ci[2] \notin ids
          <6>1. lowest'[ci] = 0
            <7> HIDE DEF alive, named, after
            <7> QED BY <1>1, <3>4, <5>1
          <6> QED BY <6>1
        <5>2. CASE ci[2] \in ids
          <6>1. after(link)[ci[2]] \in Track /\ quality[ci[2]] \in Qualities
            <7>1. Good(c, ci[2], after(link)[ci[2]], evidence'[<<c, ci[2]>>], lowest'[<<c, ci[2]>>], vouched')
              <8> HIDE DEF after
              <8> QED BY <1>11, <5>2
            <7> HIDE DEF after
            <7> QED BY <5>2, <7>1 DEF Good
          <6>2. after(link)[ci[2]].best \in Qualities \cup {0}
            <7> HIDE DEF after
            <7> QED BY <6>1, Fields
          <6>3. lowest'[ci] \in {after(link)[ci[2]].best, quality[ci[2]], lowest[ci]}
            <7> HIDE DEF alive, named, after
            <7> QED BY <1>1, <3>4, <5>2
          <6> HIDE DEF after
          <6> QED BY <3>1, <6>1, <6>2, <6>3
        <5> QED BY <5>1, <5>2
      <4> QED BY <4>3, <4>4
    <3> QED BY <3>2, <3>3, <3>4
  <2>2. vouched' \subseteq [camera : Cameras, id : TrackIds, student : Students]
    <3>1. \A i \in named : i \in TrackIds /\ after(link)[i].identity \in Students
      <4> HIDE DEF after, named, carried, linked, recorded, withPerson
      <4> QED BY <1>2, <1>15
    <3> HIDE DEF after, named
    <3>2. ASSUME NEW v \in vouched'
          PROVE  v \in vouched \/ \E i \in named : v = [camera |-> c, id |-> i, student |-> after(link)[i].identity]
      BY <1>1
    <3>3. vouched \subseteq [camera : Cameras, id : TrackIds, student : Students]
      BY DEF TrackInv, TypeOK
    <3>4. \A i \in named : [camera |-> c, id |-> i, student |-> after(link)[i].identity]
                             \in [camera : Cameras, id : TrackIds, student : Students]
      BY <3>1
    <3> QED BY <3>2, <3>3, <3>4
  <2>3. /\ evidence' = [ci \in Cameras \X TrackIds |-> evidence'[ci]]
        /\ lowest' = [ci \in Cameras \X TrackIds |-> lowest'[ci]]
    <3> HIDE DEF alive, named, after
    <3> QED BY <1>1
  <2> QED BY <2>1, <2>2, <2>3 DEF Histories
<1>19. candidates' \subseteq vouched'
  <2>1. ASSUME NEW i \in registered
        PROVE  [camera |-> c, id |-> i, student |-> after(link)[i].identity] \in vouched'
    <3>1. i \in named \cup carried /\ after(link)[i].status = "confirmed"
      <4>1. i \in named \cup carried /\ withPerson[i].status = "confirmed"
        BY DEF Registrable
      <4>2. after(link)[i] = withPerson[i]
        <5> HIDE DEF after, named, carried, linked, recorded, withPerson
        <5> QED BY <1>15, <4>1
      <4> HIDE DEF after, named, carried, linked, recorded, withPerson
      <4> QED BY <4>1, <4>2
    <3> HIDE DEF after, named, carried, registered
    <3> QED BY <1>16, <3>1 DEF Stamp
  <2>2. remembered \subseteq vouched'
    BY <1>3
  <2> HIDE DEF after, registered
  <2> QED BY <1>1, <2>1, <2>2
<1>20. ASSUME NEW m \in matches'
       PROVE  \E i \in carried \cup named \cup linked(link) :
                 m = [camera |-> c, id |-> i, student |-> after(link)[i].identity,
                      how |-> IF i \in carried THEN "carried"
                              ELSE IF i \in named THEN "identified" ELSE "linked",
                      source |-> IF i \in linked(link) THEN <<link[i].camera, link[i].id>>
                                 ELSE <<c, i>>]
  <2> HIDE DEF carried, named, linked, after
  <2> QED BY <1>1, <1>20
<1>21. TypeOK'
  <2>1. frames' \in 0 .. MaxFrames
    BY MaxFramesAssumption DEF TrackInv, TypeOK
  <2>2. \A d \in Cameras : DOMAIN tracks'[d] \subseteq TrackIds
                           /\ \A i \in DOMAIN tracks'[d] : tracks'[d][i] \in Track
    BY <1>14 DEF TracksOK, Good
  <2>3. candidates' \subseteq [camera : Cameras, id : TrackIds, student : Students]
    BY <1>18, <1>19 DEF Histories
  <2>4. ASSUME NEW m \in matches'
        PROVE  m \in [camera : Cameras, id : TrackIds, student : Students,
                      how : {"carried", "identified", "linked"}, source : Cameras \X TrackIds]
    <3>1. PICK i \in carried \cup named \cup linked(link) :
             m = [camera |-> c, id |-> i, student |-> after(link)[i].identity,
                  how |-> IF i \in carried THEN "carried"
                          ELSE IF i \in named THEN "identified" ELSE "linked",
                  source |-> IF i \in linked(link) THEN <<link[i].camera, link[i].id>>
                             ELSE <<c, i>>]
      <4> HIDE DEF carried, named, linked, after
      <4> QED BY <1>20
    <3>2. i \in TrackIds /\ after(link)[i].identity \in Students
      <4> HIDE DEF carried, named, linked, after, recorded, withPerson
      <4> QED BY <1>2, <1>15, <1>17
    <3>3. i \in linked(link) => link[i].camera \in Cameras /\ link[i].id \in TrackIds
      <4> HIDE DEF carried, named, linked, after
      <4> QED BY <1>17
    <3> HIDE DEF carried, named, linked, after
    <3> QED BY <3>1, <3>2, <3>3
  <2> QED BY <1>14, <1>18, <2>1, <2>2, <2>3, <2>4 DEF TypeOK, TracksOK, Histories
<1>22. CarriedIsSteady'
  <2>1. ASSUME NEW m \in matches', m.how = "carried"
        PROVE  lowest'[<<m.camera, m.id>>] > 0
               /\ ~Dropped(lowest'[<<m.camera, m.id>>], tracks'[m.camera][m.id].floor)
    <3>a. PICK i \in carried \cup named \cup linked(link) :
             m = [camera |-> c, id |-> i, student |-> after(link)[i].identity,
                  how |-> IF i \in carried THEN "carried"
                          ELSE IF i \in named THEN "identified" ELSE "linked",
                  source |-> IF i \in linked(link) THEN <<link[i].camera, link[i].id>>
                             ELSE <<c, i>>]
      <4> HIDE DEF carried, named, linked, after
      <4> QED BY <1>20, <2>1
    <3>b. /\ m.camera = c /\ m.id = i /\ m.student = after(link)[i].identity
          /\ m.how = IF i \in carried THEN "carried"
                     ELSE IF i \in named THEN "identified" ELSE "linked"
          /\ m.source = IF i \in linked(link) THEN <<link[i].camera, link[i].id>> ELSE <<c, i>>
      <4> HIDE DEF carried, named, linked, after
      <4> QED BY <3>a
    <3>1. i \in carried /\ m.camera = c /\ m.id = i
      <4> HIDE DEF carried, named, linked, after
      <4> QED BY <2>1, <3>b
    <3>2. i \in ids /\ after(link)[i].status = "confirmed"
      <4>1. recorded[i].status = "confirmed"
        <5>1. recorded[i] = seen[i] /\ seen[i].status = "confirmed"
          BY <1>5, <3>1
        <5> HIDE DEF recorded, seen
        <5> QED BY <5>1
      <4> HIDE DEF carried, named, linked, after, recorded, withPerson
      <4> QED BY <1>15, <3>1, <4>1
    <3>3. Earned(after(link)[i], lowest'[<<c, i>>])
      <4> HIDE DEF after
      <4> QED BY <1>11, <3>2 DEF Good
    <3>4. tracks'[c][i] = after(link)[i]
      <4> HIDE DEF after
      <4> QED BY <1>13, <3>2
    <3> HIDE DEF after
    <3> QED BY <3>1, <3>3, <3>4 DEF Earned
  <2> QED BY <2>1 DEF CarriedIsSteady, Dropped
<1>23. LinksAreConfirmed'
  <2>1. ASSUME NEW m \in matches', m.how = "linked"
        PROVE  /\ m.source[1] # m.camera
               /\ [camera |-> m.source[1], id |-> m.source[2], student |-> m.student] \in vouched'
    <3>a. PICK i \in carried \cup named \cup linked(link) :
             m = [camera |-> c, id |-> i, student |-> after(link)[i].identity,
                  how |-> IF i \in carried THEN "carried"
                          ELSE IF i \in named THEN "identified" ELSE "linked",
                  source |-> IF i \in linked(link) THEN <<link[i].camera, link[i].id>>
                             ELSE <<c, i>>]
      <4> HIDE DEF carried, named, linked, after
      <4> QED BY <1>20, <2>1
    <3>b. /\ m.camera = c /\ m.id = i /\ m.student = after(link)[i].identity
          /\ m.how = IF i \in carried THEN "carried"
                     ELSE IF i \in named THEN "identified" ELSE "linked"
          /\ m.source = IF i \in linked(link) THEN <<link[i].camera, link[i].id>> ELSE <<c, i>>
      <4> HIDE DEF carried, named, linked, after
      <4> QED BY <3>a
    <3>1. /\ i \in linked(link) /\ m.camera = c /\ m.student = after(link)[i].identity
          /\ m.source = <<link[i].camera, link[i].id>>
      <4> HIDE DEF carried, named, linked, after
      <4> QED BY <2>1, <3>a, <3>b
    <3>2. /\ link[i] \in remembered /\ link[i].camera # c
          /\ link[i] = [camera |-> link[i].camera, id |-> link[i].id, student |-> link[i].student]
          /\ after(link)[i].identity = link[i].student
      <4> HIDE DEF linked, after
      <4> QED BY <1>17, <3>1
    <3>3. link[i] \in vouched'
      BY <1>3, <3>2
    <3> HIDE DEF linked, after
    <3>4. m.source[1] = link[i].camera /\ m.source[2] = link[i].id /\ m.student = link[i].student
      BY <3>1, <3>2
    <3>5. [camera |-> m.source[1], id |-> m.source[2], student |-> m.student] = link[i]
      BY <3>2, <3>4
    <3>6. m.source[1] # m.camera
      BY <3>1, <3>2, <3>4
    <3> QED BY <3>3, <3>5, <3>6
  <2> QED BY <2>1 DEF LinksAreConfirmed
<1> QED
  BY <1>14, <1>18, <1>19, <1>21, <1>22, <1>23 DEF TrackInv

-----------------------------------------------------------------------------
(* The theorems.                                                           *)

Steady == TrackInv /\ CarriedIsSteady /\ LinksAreConfirmed

LEMMA InitSteady == Init => Steady
<1> SUFFICES ASSUME Init PROVE Steady
  OBVIOUS
<1>1. TypeOK
  BY MaxFramesAssumption DEF Init, TypeOK
<1>2. Histories
  BY Ranges DEF Init, Histories
<1>3. TracksOK
  BY DEF Init, TracksOK
<1> QED
  BY <1>1, <1>2, <1>3 DEF Init, Steady, TrackInv, CarriedIsSteady, LinksAreConfirmed

LEMMA NextSteady == Steady /\ [Next]_vars => Steady'
<1> SUFFICES ASSUME Steady, [Next]_vars PROVE Steady'
  OBVIOUS
<1>1. ASSUME NEW c \in Cameras, Frame(c)
      PROVE  Steady'
  <2>a. PICK ids \in SUBSET TrackIds, remembered \in SUBSET candidates :
           \E quality \in [ids -> Qualities], reached \in SUBSET ids :
              \E who \in [reached -> Students \cup {Nobody}],
                 embedded \in SUBSET reached, stale \in SUBSET Unseen(c, quality) :
                 Process(c, quality, who, reached, embedded, stale, remembered)
    BY <1>1, Zenon DEF Frame
  <2>b. PICK quality \in [ids -> Qualities], reached \in SUBSET ids :
           \E who \in [reached -> Students \cup {Nobody}],
              embedded \in SUBSET reached, stale \in SUBSET Unseen(c, quality) :
              Process(c, quality, who, reached, embedded, stale, remembered)
    BY <2>a, Zenon
  <2>1. PICK who \in [reached -> Students \cup {Nobody}],
             embedded \in SUBSET reached, stale \in SUBSET Unseen(c, quality) :
           Process(c, quality, who, reached, embedded, stale, remembered)
    BY <2>b, Zenon
  <2>2. frames < MaxFrames /\ frames' = frames + 1
    BY <1>1 DEF Frame
  <2>3. DOMAIN quality = ids
    OBVIOUS
  <2>4. /\ quality \in [DOMAIN quality -> Qualities] /\ DOMAIN quality \subseteq TrackIds
        /\ reached \in SUBSET DOMAIN quality
    BY <2>3
  <2> QED BY <2>1, <2>2, <2>4, FrameKeeps DEF Steady
<1>2. CASE UNCHANGED vars
  BY <1>2 DEF vars, Steady, TrackInv, TypeOK, Histories, TracksOK, CarriedIsSteady, LinksAreConfirmed
<1> QED
  BY <1>1, <1>2 DEF Next

LEMMA AlwaysSteady == Spec => []Steady
BY InitSteady, NextSteady, PTL DEF Spec

(* Type correctness (Track, and what a worker keeps of its cameras).       *)
THEOREM TypeCorrect == Spec => []TypeOK
<1>1. Steady => TypeOK
  BY DEF Steady, TrackInv
<1> QED
  BY <1>1, AlwaysSteady, PTL

(* A track is confirmed only by Required agreeing identifications in a row *)
(* (record_identity), whatever the tracker and the linker do.              *)
THEOREM ConfirmedNeedsAgreement == Spec => []ConfirmedByAgreement
<1>1. ASSUME Steady, NEW c \in Cameras, NEW i \in DOMAIN tracks[c],
             tracks[c][i].status = "confirmed"
      PROVE  evidence[<<c, i>>] = [n \in 1 .. Required |-> tracks[c][i].identity]
  <2> DEFINE e == evidence[<<c, i>>]
             t == tracks[c][i]
  <2>1. <<c, i>> \in Cameras \X TrackIds
    BY <1>1 DEF Steady, TrackInv, TracksOK
  <2>2. e \in Seq(Students) /\ Len(e) <= Required
    BY <1>1, <2>1 DEF Steady, TrackInv, Histories
  <2>3. Agreed(t, e) /\ t.agreeing = Required
    BY <1>1 DEF Steady, TrackInv, TracksOK, Good, Earned
  <2>4. Len(e) = Required
    BY <2>2, <2>3, Ranges DEF Agreed
  <2>5. \A n \in 1 .. Required : e[n] = t.identity
    BY <2>3, <2>4, Ranges DEF Agreed
  <2>6. e = [n \in 1 .. Required |-> e[n]]
    BY <2>2, <2>4
  <2> HIDE DEF e, t
  <2>7. e = [n \in 1 .. Required |-> t.identity]
    BY <2>5, <2>6
  <2> QED BY <2>7 DEF e, t
<1>2. Steady => ConfirmedByAgreement
  BY <1>1 DEF ConfirmedByAgreement
<1> QED
  BY <1>2, AlwaysSteady, PTL

(* A student is reported without being identified again only from a track  *)
(* that was in every frame since it was confirmed and stayed above the     *)
(* drop ratio (needs_identification, add_observation and update).          *)
THEOREM CarriedStaysSteady == Spec => []CarriedIsSteady
<1>1. Steady => CarriedIsSteady
  BY DEF Steady
<1> QED
  BY <1>1, AlwaysSteady, PTL

(* A link hands on only identities confirmed by faces of another camera    *)
(* (register_confirmed_track and find_linked_identity).                    *)
THEOREM LinksNeedConfirmation == Spec => []LinksAreConfirmed
<1>1. Steady => LinksAreConfirmed
  BY DEF Steady
<1> QED
  BY <1>1, AlwaysSteady, PTL

(* The quality test of needs_identification never fails: the best frame of *)
(* a track stays at least as good as the floor it was confirmed with.      *)
THEOREM BestFrameIsNeverBelowFloor == Spec => []BestFrameOutlivesDrop
<1>1. Steady => BestFrameOutlivesDrop
  <2>1. ASSUME Steady, NEW c \in Cameras, NEW i \in DOMAIN tracks[c]
        PROVE  ~Reopens(tracks[c][i])
    <3>1. tracks[c][i] \in Track /\ tracks[c][i].floor <= tracks[c][i].best
      BY <2>1 DEF Steady, TrackInv, TracksOK, Good
    <3> QED BY <3>1, Fields, NoDropAboveFloor DEF Reopens
  <2> QED BY <2>1 DEF BestFrameOutlivesDrop
<1> QED
  BY <1>1, AlwaysSteady, PTL
=============================================================================
