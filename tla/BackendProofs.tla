--------------------------- MODULE BackendProofs ----------------------------
(***************************************************************************)
(* Theorems about what surrounds recognition in the API processes: the     *)
(* system settings, the capture signals, the ingest gate and the live      *)
(* feed, for any clients, devices, uploads and values of the bounds.       *)
(***************************************************************************)
EXTENDS Backend, UserSessionsProofs, NumberFacts, SequenceTheorems
-----------------------------------------------------------------------------
(* The file has the contents that it is recorded to have had last.         *)
FileInv ==
    /\ now \in 0 .. MaxTime
    /\ stamp \in 0 .. now \cup {NoFile}
    /\ held = [t \in 0 .. MaxTime |-> held[t]]
    /\ stamp # NoFile => settings \in held[stamp]

(* No pipeline knows a time that is yet to come to the file: gates kept    *)
(* for an earlier time will be found stale as soon as the file changes.    *)
Past(tick) == tick # NoFile => stamp # NoFile /\ tick <= stamp

ReaderInv ==
    /\ cache = [p \in Pipelines |-> cache[p]] /\ text = [p \in Pipelines |-> text[p]]
    /\ cachedAt \in [Pipelines -> 0 .. NoFile] /\ seen \in [Pipelines -> 0 .. NoFile]
    /\ \A p \in Pipelines :
          /\ Past(cachedAt[p]) /\ Past(seen[p])
          /\ text[p] # Unread /\ seen[p] # NoFile /\ seen[p] = stamp => text[p] \in held[stamp]

GatesInv == FileInv /\ ReaderInv /\ GatesFollowFile

LEMMA TimeIsBounded == MaxTime \in Nat /\ NoFile = MaxTime + 1 /\ NoFile \in Nat
BY SettingsAssumption DEF NoFile

LEMMA GatesInvInit == SettingsInit => GatesInv
<1> SUFFICES ASSUME SettingsInit
             PROVE  GatesInv
  OBVIOUS
<1>1. /\ now = 0 /\ stamp = NoFile /\ held = [t \in 0 .. MaxTime |-> {}]
      /\ cache = [p \in Pipelines |-> <<>>] /\ cachedAt = [p \in Pipelines |-> NoFile]
      /\ seen = [p \in Pipelines |-> NoFile] /\ text = [p \in Pipelines |-> Unread]
  BY DEF SettingsInit
<1>2. FileInv
  BY <1>1, TimeIsBounded DEF FileInv
<1>3. ReaderInv
  BY <1>1, TimeIsBounded DEF ReaderInv, Past
<1>4. GatesFollowFile
  BY <1>1 DEF GatesFollowFile
<1> QED
  BY <1>2, <1>3, <1>4 DEF GatesInv

(* Steps that touch neither the file nor a pipeline.                       *)
LEMMA ElsewhereKeeps ==
    ASSUME GatesInv, UNCHANGED <<settings, stamp, held, now, reading>>
    PROVE  GatesInv'
BY DEF GatesInv, FileInv, ReaderInv, Past, GatesFollowFile, reading

LEMMA TickKeeps ==
    ASSUME GatesInv, Tick
    PROVE  GatesInv'
<1> USE DEF GatesInv
<1>1. now < MaxTime /\ now' = now + 1 /\ UNCHANGED <<settings, stamp, held, reading>>
  BY DEF Tick, files
<1>2. FileInv'
  BY <1>1, TimeIsBounded DEF FileInv
<1> QED
  BY <1>1, <1>2 DEF ReaderInv, Past, GatesFollowFile, reading

(* A write: gates kept for the present tick stay those of one of the       *)
(* contents of that tick, and all others are stale from now on.            *)
LEMMA HoldsKeeps ==
    ASSUME GatesInv, NEW content, Holds(content), UNCHANGED <<now, reading>>
    PROVE  GatesInv'
<1> USE DEF GatesInv
<1>1. /\ settings' = content /\ stamp' = now
      /\ held' = [held EXCEPT ![now] = @ \cup {content}]
      /\ UNCHANGED <<now, cache, cachedAt, seen, text>>
  BY DEF Holds, reading
<1>2. now \in 0 .. MaxTime /\ now # NoFile /\ now \in Nat
  BY TimeIsBounded DEF FileInv
<1>3. held' = [t \in 0 .. MaxTime |-> IF t = now THEN held[now] \cup {content} ELSE held[t]]
  BY <1>1, <1>2 DEF FileInv
<1>4. held'[now] = held[now] \cup {content}
  BY <1>2, <1>3
<1>5. FileInv'
  <2>1. held' = [t \in 0 .. MaxTime |-> held'[t]]
    BY <1>3
  <2>2. stamp' \in 0 .. now' /\ settings' \in held'[stamp']
    BY <1>1, <1>2, <1>4
  <2> QED BY <1>1, <1>2, <2>1, <2>2 DEF FileInv
<1>6. ASSUME NEW tick \in 0 .. NoFile, tick # NoFile, Past(tick)
      PROVE  tick <= now /\ (tick = now => stamp = now)
  <2>1. stamp \in 0 .. now /\ tick <= stamp
    BY <1>6 DEF Past, FileInv
  <2> QED BY <1>2, <2>1, TimeIsBounded
<1>7. ReaderInv'
  <2>1. ASSUME NEW p \in Pipelines
        PROVE  Past(cachedAt[p])' /\ Past(seen[p])'
    BY <1>1, <1>2, <1>6 DEF ReaderInv, Past
  <2>2. ASSUME NEW p \in Pipelines, text[p] # Unread, seen[p] # NoFile, seen[p] = now
        PROVE  text[p] \in held'[now]
    <3>1. stamp = now
      BY <1>6, <2>2 DEF ReaderInv
    <3> QED BY <1>4, <2>2, <3>1 DEF ReaderInv
  <2> QED BY <1>1, <2>1, <2>2 DEF ReaderInv
<1>8. GatesFollowFile'
  <2>1. SUFFICES ASSUME NEW p \in Pipelines, cachedAt[p] # NoFile, cachedAt[p] = now
                 PROVE  \E c \in held'[now] : cache[p] = GatesOf(c)
    BY <1>1 DEF GatesFollowFile
  <2>2. stamp = now
    BY <1>6, <2>1 DEF ReaderInv
  <2>3. \E c \in held[now] : cache[p] = GatesOf(c)
    BY <2>1, <2>2 DEF GatesFollowFile
  <2> QED BY <1>4, <2>3
<1> QED
  BY <1>5, <1>7, <1>8
-----------------------------------------------------------------------------
LEMMA StatKeeps ==
    ASSUME GatesInv, NEW p \in Pipelines, Stat(p)
    PROVE  GatesInv'
<1> USE DEF GatesInv
<1>1. /\ text[p] = Unread /\ stamp # NoFile /\ seen' = [seen EXCEPT ![p] = stamp]
      /\ UNCHANGED <<settings, stamp, held, now, cache, cachedAt, text>>
  BY DEF Stat, files
<1>2. stamp \in 0 .. NoFile
  BY TimeIsBounded DEF FileInv
<1>3. ReaderInv'
  BY <1>1, <1>2, TimeIsBounded DEF ReaderInv, Past
<1> QED
  BY <1>1, <1>3 DEF FileInv, GatesFollowFile

LEMMA ReadFileKeeps ==
    ASSUME GatesInv, NEW p \in Pipelines, ReadFile(p)
    PROVE  GatesInv'
<1> USE DEF GatesInv
<1>1. /\ text' = [text EXCEPT ![p] = settings]
      /\ UNCHANGED <<settings, stamp, held, now, cache, cachedAt, seen>>
  BY DEF ReadFile, files
<1>2. text' = [q \in Pipelines |-> IF q = p THEN settings ELSE text[q]]
  BY <1>1 DEF ReaderInv
<1>3. ReaderInv'
  BY <1>1, <1>2 DEF ReaderInv, FileInv, Past
<1> QED
  BY <1>1, <1>3 DEF FileInv, GatesFollowFile

LEMMA KeepKeeps ==
    ASSUME GatesInv, NEW p \in Pipelines, Keep(p)
    PROVE  GatesInv'
<1> USE DEF GatesInv
<1>1. /\ text[p] # Unread
      /\ cache' = [cache EXCEPT ![p] = GatesOf(text[p])]
      /\ cachedAt' = [cachedAt EXCEPT ![p] = seen[p]]
      /\ seen' = [seen EXCEPT ![p] = NoFile] /\ text' = [text EXCEPT ![p] = Unread]
      /\ UNCHANGED <<settings, stamp, held, now>>
  BY DEF Keep, files
<1>2. /\ cache' = [q \in Pipelines |-> IF q = p THEN GatesOf(text[p]) ELSE cache[q]]
      /\ text' = [q \in Pipelines |-> IF q = p THEN Unread ELSE text[q]]
      /\ cachedAt' = [q \in Pipelines |-> IF q = p THEN seen[p] ELSE cachedAt[q]]
      /\ seen' = [q \in Pipelines |-> IF q = p THEN NoFile ELSE seen[q]]
  BY <1>1 DEF ReaderInv
<1>3. ReaderInv'
  <2>1. cachedAt' \in [Pipelines -> 0 .. NoFile] /\ seen' \in [Pipelines -> 0 .. NoFile]
    BY <1>2, TimeIsBounded DEF ReaderInv
  <2>2. \A q \in Pipelines : Past(cachedAt[q])' /\ Past(seen[q])'
    BY <1>1, <1>2 DEF ReaderInv, Past
  <2> QED BY <1>1, <1>2, <2>1, <2>2 DEF ReaderInv
<1>4. GatesFollowFile'
  <2>1. ASSUME NEW q \in Pipelines, q # p, cachedAt'[q] # NoFile, cachedAt'[q] = stamp
        PROVE  \E c \in held[stamp] : cache'[q] = GatesOf(c)
    BY <1>2, <2>1 DEF GatesFollowFile
  <2>2. ASSUME seen[p] # NoFile, seen[p] = stamp
        PROVE  text[p] \in held[stamp]
    BY <1>1, <2>2 DEF ReaderInv
  <2> QED BY <1>1, <1>2, <2>1, <2>2 DEF GatesFollowFile
<1> QED
  BY <1>1, <1>3, <1>4 DEF FileInv

LEMMA GatesInvNext == GatesInv /\ [SettingsNext]_settingsVars => GatesInv'
<1> SUFFICES ASSUME GatesInv, [SettingsNext]_settingsVars
             PROVE  GatesInv'
  OBVIOUS
<1>1. ASSUME NEW q \in Processes, EmptySettings(q)
      PROVE  GatesInv'
  BY <1>1, HoldsKeeps DEF EmptySettings
<1>2. ASSUME NEW q \in Processes, WriteSettings(q)
      PROVE  GatesInv'
  BY <1>2, HoldsKeeps DEF WriteSettings
<1>3. ASSUME NEW content \in HandEdits, EditByHand(content)
      PROVE  GatesInv'
  BY <1>3, HoldsKeeps DEF EditByHand
<1>4. ASSUME NEW q \in Processes,
             Number(q) \/ AppendRevision(q) \/ EmptyHistory(q) \/ WriteHistory(q) \/ Respond(q) \/ CutShort(q)
      PROVE  GatesInv'
  <2>1. UNCHANGED <<settings, stamp, held, now, reading>>
    BY <1>4 DEF Number, AppendRevision, EmptyHistory, WriteHistory, Respond, CutShort, files
  <2> QED BY <2>1, ElsewhereKeeps
<1>5. ASSUME NEW q \in Processes, NEW u \in Updates, StartUpdate(q, u)
      PROVE  GatesInv'
  BY <1>5, ElsewhereKeeps DEF StartUpdate, StartsRequest, files
<1>6. ASSUME NEW q \in Processes, NEW i \in 1 .. Shown, StartRollback(q, i)
      PROVE  GatesInv'
  BY <1>6, ElsewhereKeeps DEF StartRollback, StartsRequest, files
<1>7. CASE UNCHANGED settingsVars
  BY <1>7, ElsewhereKeeps DEF settingsVars, reading
<1> QED
  BY <1>1, <1>2, <1>3, <1>4, <1>5, <1>6, <1>7, TickKeeps, StatKeeps, ReadFileKeeps, KeepKeeps
  DEF SettingsNext

(* get_runtime_gates never goes on using gates under the present           *)
(* modification time of the settings file that are not those of a content  *)
(* it had at that time, whatever is written while it reads.                *)
THEOREM GatesAreCurrent == SettingsSpec => []GatesFollowFile
<1>1. GatesInv => GatesFollowFile
  BY DEF GatesInv
<1> QED
  BY <1>1, GatesInvInit, GatesInvNext, PTL DEF SettingsSpec
-----------------------------------------------------------------------------
(* The history of revisions. A sequence of revisions with numbers; one     *)
(* that ends with the revision of a snapshot, numbered above all others.   *)
Numbered(h) ==
    /\ Len(h) \in Nat /\ h = [i \in 1 .. Len(h) |-> h[i]]
    /\ \A i \in 1 .. Len(h) : h[i].id \in Nat

EndsWith(h, snapshot) ==
    /\ Len(h) # 0
    /\ h[Len(h)].snapshot = snapshot
    /\ \A i \in 1 .. Len(h) - 1 : h[i].id < h[Len(h)].id

ServingFields == {"step", "snapshot", "id", "past", "alone", "spoilt"}
ServingSteps == {"empty", "write", "number", "append", "clear", "save", "audit"}

Serves(s) ==
    /\ s = [f \in ServingFields |-> s[f]]
    /\ s.step \in ServingSteps /\ s.id \in Nat /\ s.alone \in BOOLEAN /\ s.spoilt \in BOOLEAN
    /\ Numbered(s.past)

(* What a request that nothing overlapped has reached at each of its steps.*)
Reached(s) ==
    /\ ~s.spoilt
    /\ s.step \in {"empty", "write"} => s.id = 0 \/ s.id = NextId(history)
    /\ s.step \notin {"empty", "write"} => settings = s.snapshot
    /\ s.step = "append" => s.id = NextId(history)
    /\ s.step \in {"clear", "save"} => EndsWith(s.past, s.snapshot)
    /\ s.step = "audit" => EndsWith(history, s.snapshot)

AloneInv ==
    \A p \in Processes : serving[p] # NoRequest /\ serving[p].alone =>
        Reached(serving[p]) /\ \A q \in Processes \ {p} : serving[q] = NoRequest

RevisionInv ==
    /\ Numbered(history)
    /\ serving = [p \in Processes |-> serving[p]]
    /\ \A p \in Processes : serving[p] = NoRequest \/ Serves(serving[p])
    /\ AloneInv
    /\ settled => Idle /\ (requests > 0 => EndsWith(history, settings))

LEMMA NumberedIsSeq ==
    ASSUME NEW h, Numbered(h)
    PROVE  h \in Seq({h[i] : i \in 1 .. Len(h)}) /\ DOMAIN h = 1 .. Len(h)
<1>1. h = [i \in 1 .. Len(h) |-> h[i]] /\ Len(h) \in Nat
  BY DEF Numbered
<1>2. h \in [1 .. Len(h) -> {h[i] : i \in 1 .. Len(h)}]
  BY <1>1
<1> QED
  BY <1>1, <1>2

LEMMA NoRevisions == Numbered(<<>>)
BY DEF Numbered

LEMMA NextIdAbove ==
    ASSUME NEW h, Numbered(h)
    PROVE  NextId(h) \in Nat \ {0} /\ \A i \in 1 .. Len(h) : h[i].id < NextId(h)
<1> DEFINE ids == [i \in 1 .. Len(h) |-> h[i].id]
           S == {0} \cup {h[i].id : i \in DOMAIN h}
<1>1. Len(h) \in Nat /\ DOMAIN h = 1 .. Len(h) /\ \A i \in 1 .. Len(h) : h[i].id \in Nat
  BY NumberedIsSeq DEF Numbered
<1>2. \A i \in 1 .. Len(h) : ids[i] = h[i].id
  OBVIOUS
<1>3. {ids[i] : i \in 1 .. Len(h)} = {h[i].id : i \in DOMAIN h}
  BY <1>1, <1>2
<1> HIDE DEF ids
<1>4. IsFiniteSet({ids[i] : i \in 1 .. Len(h)}) /\ {ids[i] : i \in 1 .. Len(h)} \subseteq Nat
  BY <1>1, <1>2, BoundedValues
<1>5. IsFiniteSet({h[i].id : i \in DOMAIN h}) /\ {h[i].id : i \in DOMAIN h} \subseteq Nat
  BY <1>3, <1>4
<1>6. S = {h[i].id : i \in DOMAIN h} \cup {0}
  OBVIOUS
<1>7. IsFiniteSet(S) /\ S # {} /\ S \subseteq Nat
  BY <1>5, <1>6, FS_AddElement
<1>8. \A i \in 1 .. Len(h) : h[i].id \in S
  BY <1>1
<1>9. NextId(h) = Max(S) + 1
  BY DEF NextId
<1> HIDE DEF S
<1>10. PICK x \in S : \A y \in S : y <= x
  BY <1>7, NatGreatest
<1>11. \A y \in S : x >= y
  BY <1>7, <1>10
<1>12. Max(S) \in S /\ \A y \in S : Max(S) >= y
  BY <1>10, <1>11 DEF Max
<1>13. Max(S) \in Nat
  BY <1>7, <1>12
<1>14. \A i \in 1 .. Len(h) : h[i].id <= Max(S) /\ h[i].id \in Nat
  BY <1>1, <1>8, <1>12, <1>13
<1> QED
  BY <1>9, <1>13, <1>14

LEMMA AppendedElements ==
    ASSUME NEW h, Numbered(h), NEW rev
    PROVE  /\ Len(Append(h, rev)) = Len(h) + 1
           /\ Append(h, rev) = [i \in 1 .. Len(h) + 1 |-> Append(h, rev)[i]]
           /\ \A i \in 1 .. Len(h) : Append(h, rev)[i] = h[i]
           /\ Append(h, rev)[Len(h) + 1] = rev
<1> DEFINE S == {h[i] : i \in 1 .. Len(h)} \cup {rev}
           g == Append(h, rev)
<1>1. h \in Seq(S) /\ rev \in S
  <2>1. h \in Seq({h[i] : i \in 1 .. Len(h)})
    BY NumberedIsSeq
  <2> QED BY <2>1, SeqMonotonic
<1> HIDE DEF S
<1>2. /\ g \in Seq(S) /\ Len(g) = Len(h) + 1
      /\ \A i \in 1 .. Len(h) : g[i] = h[i]
      /\ g[Len(h) + 1] = rev
  BY <1>1, AppendProperties
<1> HIDE DEF g
<1>3. g = [i \in 1 .. Len(h) + 1 |-> g[i]]
  BY <1>2, LenProperties
<1> QED
  BY <1>2, <1>3 DEF g

LEMMA NumberedAppend ==
    ASSUME NEW h, Numbered(h), NEW rev, rev.id \in Nat
    PROVE  Numbered(Append(h, rev))
<1> DEFINE g == Append(h, rev)
<1>1. /\ Len(g) = Len(h) + 1 /\ g = [i \in 1 .. Len(h) + 1 |-> g[i]]
      /\ \A i \in 1 .. Len(h) : g[i] = h[i]
      /\ g[Len(h) + 1] = rev
  BY AppendedElements
<1> HIDE DEF g
<1>2. Len(h) \in Nat /\ \A i \in 1 .. Len(h) : h[i].id \in Nat
  BY DEF Numbered
<1>3. \A i \in 1 .. Len(h) + 1 : i \in 1 .. Len(h) \/ i = Len(h) + 1
  BY <1>2
<1>4. \A i \in 1 .. Len(h) + 1 : g[i].id \in Nat
  BY <1>1, <1>2, <1>3
<1>5. Numbered(g)
  BY <1>1, <1>2, <1>4 DEF Numbered
<1> QED
  BY <1>5 DEF g

LEMMA AppendedRevision ==
    ASSUME NEW h, Numbered(h), NEW rev, rev.id = NextId(h)
    PROVE  EndsWith(Append(h, rev), rev.snapshot)
<1> DEFINE g == Append(h, rev)
<1>1. /\ Len(g) = Len(h) + 1
      /\ \A i \in 1 .. Len(h) : g[i] = h[i]
      /\ g[Len(h) + 1] = rev
  BY AppendedElements
<1> HIDE DEF g
<1>2. Len(h) \in Nat /\ \A i \in 1 .. Len(h) : h[i].id < NextId(h)
  BY NextIdAbove DEF Numbered
<1>3. EndsWith(g, rev.snapshot)
  BY <1>1, <1>2 DEF EndsWith
<1> QED
  BY <1>3 DEF g

(* Dropping the oldest revisions.                                          *)
LEMMA LatestRevisions ==
    ASSUME NEW h, Numbered(h)
    PROVE  /\ Numbered(Latest(h))
           /\ \A snapshot : EndsWith(h, snapshot) => EndsWith(Latest(h), snapshot)
<1> DEFINE n == Len(h)
           m == IF n > Shown THEN n - Shown + 1 ELSE 1
           S == {h[i] : i \in 1 .. Len(h)}
           g == SubSeq(h, m, n)
<1>1. n \in Nat /\ Shown \in Nat \ {0} /\ \A i \in 1 .. n : h[i].id \in Nat
  BY SettingsAssumption DEF Numbered
<1>2. m \in Nat \ {0} /\ m <= n + 1 /\ (n # 0 => m <= n)
  BY <1>1
<1>3. Latest(h) = g
  BY DEF Latest
<1> HIDE DEF m
<1>4. \A i \in m .. n : h[i] \in S
  BY <1>1, <1>2
<1> HIDE DEF n, S
<1>5. /\ g \in Seq(S)
      /\ Len(g) = IF m <= n THEN n - m + 1 ELSE 0
      /\ \A i \in 1 .. n - m + 1 : g[i] = h[m + i - 1]
  <2>1. m \in Int /\ n \in Int
    BY <1>1, <1>2
  <2> QED BY <1>4, <2>1, SubSeqProperties
<1> HIDE DEF g
<1>6. Len(g) = n - m + 1 /\ Len(g) \in Nat
  BY <1>1, <1>2, <1>5
<1>7. g = [i \in 1 .. Len(g) |-> g[i]]
  BY <1>5, LenProperties
<1>8. ASSUME NEW i \in 1 .. Len(g)
      PROVE  g[i] = h[m + i - 1] /\ m + i - 1 \in 1 .. n /\ (i < Len(g) => m + i - 1 \in 1 .. n - 1)
  BY <1>1, <1>2, <1>5, <1>6
<1>9. \A i \in 1 .. Len(g) : g[i].id \in Nat
  BY <1>1, <1>8
<1>10. Numbered(g)
  BY <1>6, <1>7, <1>9 DEF Numbered
<1>11. ASSUME NEW snapshot, EndsWith(h, snapshot)
      PROVE  EndsWith(g, snapshot)
  <2>1. n # 0 /\ h[n].snapshot = snapshot /\ \A i \in 1 .. n - 1 : h[i].id < h[n].id
    BY <1>11 DEF EndsWith, n
  <2>2. Len(g) \in 1 .. Len(g) /\ m + Len(g) - 1 = n
    BY <1>1, <1>2, <1>6, <2>1
  <2>3. g[Len(g)] = h[n]
    BY <1>8, <2>2
  <2>4. ASSUME NEW i \in 1 .. Len(g) - 1
        PROVE  g[i].id < g[Len(g)].id
    <3>1. i \in 1 .. Len(g) /\ i < Len(g)
      BY <1>6
    <3>2. g[i] = h[m + i - 1] /\ m + i - 1 \in 1 .. n - 1
      BY <1>8, <3>1
    <3> QED BY <2>1, <2>3, <3>2
  <2> QED BY <1>6, <2>1, <2>2, <2>3, <2>4 DEF EndsWith
<1> QED
  BY <1>3, <1>10, <1>11

LEMMA RevisionInvInit == SettingsInit => RevisionInv
<1> SUFFICES ASSUME SettingsInit
             PROVE  RevisionInv
  OBVIOUS
<1>1. /\ history = <<>> /\ serving = [p \in Processes |-> NoRequest] /\ requests = 0
  BY DEF SettingsInit, Garbage
<1>2. Idle /\ AloneInv
  BY <1>1 DEF Idle, AloneInv
<1> QED
  BY <1>1, <1>2, NoRevisions DEF RevisionInv

LEMMA ServingIsBusy ==
    ASSUME NEW s, Serves(s)
    PROVE  s # NoRequest
BY DEF Serves, ServingSteps, NoRequest

(* A request goes on. Another that was alone there cannot be, and the last *)
(* one has not settled, as this one is under way.                          *)
LEMMA RequestGoesOn ==
    ASSUME RevisionInv, NEW p \in Processes, serving[p] # NoRequest,
           serving' = [q \in Processes |-> serving'[q]],
           Serves(serving[p])', (serving[p].alone)' = serving[p].alone,
           serving[p].alone => Reached(serving[p])',
           \A q \in Processes \ {p} :
              /\ serving[q] = NoRequest => serving'[q] = NoRequest
              /\ serving[q] # NoRequest => Serves(serving[q])' /\ (serving[q].alone)' = serving[q].alone,
           Numbered(history)', settled' = settled
    PROVE  RevisionInv'
<1>1. ~settled
  BY DEF RevisionInv, Idle
<1>2. \A q \in Processes : serving'[q] = NoRequest \/ Serves(serving[q])'
  BY DEF RevisionInv
<1>3. AloneInv'
  <2>1. SUFFICES ASSUME NEW q \in Processes, serving'[q] # NoRequest, serving'[q].alone
                 PROVE  Reached(serving[q])' /\ \A r \in Processes \ {q} : serving'[r] = NoRequest
    BY DEF AloneInv
  <2>2. serving[q] # NoRequest /\ serving[q].alone
    BY <2>1
  <2>3. \A r \in Processes \ {q} : serving[r] = NoRequest
    BY <2>2 DEF RevisionInv, AloneInv
  <2>4. q = p
    BY <2>3
  <2> QED BY <2>2, <2>3, <2>4
<1> QED
  BY <1>1, <1>2, <1>3 DEF RevisionInv

LEMMA EmptySettingsRevises ==
    ASSUME RevisionInv, NEW p \in Processes, EmptySettings(p)
    PROVE  RevisionInv'
<1> DEFINE s == [serving[p] EXCEPT !.step = "write"]
<1>1. /\ serving[p].step = "empty" /\ serving' = [serving EXCEPT ![p].step = "write"]
      /\ history' = history /\ settled' = settled
  BY DEF EmptySettings
<1>2. Serves(serving[p])
  BY <1>1 DEF RevisionInv, NoRequest
<1>3. serving' = [q \in Processes |-> IF q = p THEN s ELSE serving[q]]
  BY <1>1 DEF RevisionInv
<1>4. Serves(s) /\ s.step = "write" /\ s.id = serving[p].id
      /\ s.alone = serving[p].alone /\ s.spoilt = serving[p].spoilt
  BY <1>2 DEF Serves, ServingFields, ServingSteps
<1> HIDE DEF s
<1>5. serving'[p] = s /\ \A q \in Processes \ {p} : serving'[q] = serving[q]
  BY <1>3
<1>6. Serves(serving[p])' /\ \A q \in Processes \ {p} : Serves(serving[q]) <=> Serves(serving[q])'
  BY <1>4, <1>5 DEF Serves, Numbered
<1>7. serving[p].alone => Reached(serving[p])'
  <2>1. SUFFICES ASSUME serving[p].alone
                 PROVE  Reached(serving[p])'
    OBVIOUS
  <2>2. Reached(serving[p])
    BY <1>2, <2>1, ServingIsBusy DEF RevisionInv, AloneInv
  <2> QED BY <1>1, <1>4, <1>5, <2>2 DEF Reached, NextId
<1> QED
  BY <1>1, <1>2, <1>3, <1>4, <1>5, <1>6, <1>7, ServingIsBusy, RequestGoesOn DEF RevisionInv, Numbered

(* A write to the file spoils those of others that are at the same step.   *)
LEMMA WrittenBy ==
    ASSUME RevisionInv, NEW p \in Processes, serving[p] # NoRequest,
           NEW next \in ServingSteps, serving' = Written(p, next)
    PROVE  /\ serving' = [q \in Processes |-> serving'[q]]
           /\ Serves(serving[p])'
           /\ serving'[p].step = next /\ serving'[p].id = serving[p].id
           /\ serving'[p].snapshot = serving[p].snapshot
           /\ serving'[p].alone = serving[p].alone /\ serving'[p].spoilt = FALSE
           /\ \A q \in Processes \ {p} :
                 /\ serving[q] = NoRequest => serving'[q] = NoRequest
                 /\ serving[q] # NoRequest => Serves(serving[q])' /\ serving'[q].alone = serving[q].alone
<1> DEFINE s == [[serving[p] EXCEPT !.step = next] EXCEPT !.spoilt = FALSE]
           Spoilt(q) == [serving[q] EXCEPT !.spoilt = TRUE]
<1>1. Serves(serving[p]) /\ serving[p].step # "idle"
  BY DEF RevisionInv, Serves, ServingSteps
<1>2. serving' = [q \in Processes |->
            IF q = p THEN s ELSE IF serving[q].step = serving[p].step THEN Spoilt(q) ELSE serving[q]]
  BY DEF Written
<1>3. Serves(s) /\ s.step = next /\ s.id = serving[p].id /\ s.snapshot = serving[p].snapshot
      /\ s.alone = serving[p].alone /\ s.spoilt = FALSE
  BY <1>1 DEF Serves, ServingFields, ServingSteps
<1>4. \A q \in Processes : serving[q] # NoRequest =>
          Serves(serving[q]) /\ Serves(Spoilt(q)) /\ Spoilt(q).alone = serving[q].alone
  <2>1. SUFFICES ASSUME NEW q \in Processes, serving[q] # NoRequest
                 PROVE  Serves(serving[q]) /\ Serves(Spoilt(q)) /\ Spoilt(q).alone = serving[q].alone
    OBVIOUS
  <2>2. Serves(serving[q])
    BY <2>1 DEF RevisionInv
  <2> QED BY <2>2 DEF Serves, ServingFields, ServingSteps
<1>5. \A q \in Processes : serving[q] = NoRequest => serving[q].step # serving[p].step
  BY <1>1 DEF NoRequest
<1> HIDE DEF s, Spoilt
<1>6. serving'[p] = s /\ serving' = [q \in Processes |-> serving'[q]]
  BY <1>2
<1>7. \A q \in Processes \ {p} : serving'[q] = serving[q] \/ (serving[q] # NoRequest /\ serving'[q] = Spoilt(q))
  BY <1>2, <1>5
<1>8. Serves(serving[p])'
  BY <1>3, <1>6 DEF Serves, Numbered
<1>9. ASSUME NEW q \in Processes \ {p}, serving[q] # NoRequest
      PROVE  Serves(serving[q])' /\ serving'[q].alone = serving[q].alone
  <2>1. Serves(serving'[q]) /\ serving'[q].alone = serving[q].alone
    BY <1>4, <1>7, <1>9
  <2> QED BY <2>1 DEF Serves, Numbered
<1> QED
  BY <1>3, <1>6, <1>7, <1>8, <1>9

LEMMA WriteSettingsRevises ==
    ASSUME RevisionInv, NEW p \in Processes, WriteSettings(p)
    PROVE  RevisionInv'
<1> DEFINE next == IF serving[p].id = 0 THEN "number" ELSE "append"
<1>1. /\ serving[p].step = "write" /\ serving' = Written(p, next)
      /\ settings' = serving[p].snapshot \/ (serving[p].spoilt /\ settings' = Garbage)
      /\ history' = history /\ settled' = settled
  BY DEF WriteSettings, Holds
<1>2. next \in ServingSteps /\ serving[p] # NoRequest
  BY <1>1 DEF ServingSteps, NoRequest
<1>3. /\ serving' = [q \in Processes |-> serving'[q]]
      /\ Serves(serving[p])'
      /\ serving'[p].step = next /\ serving'[p].id = serving[p].id
      /\ serving'[p].snapshot = serving[p].snapshot
      /\ serving'[p].alone = serving[p].alone /\ serving'[p].spoilt = FALSE
      /\ \A q \in Processes \ {p} :
            /\ serving[q] = NoRequest => serving'[q] = NoRequest
            /\ serving[q] # NoRequest => Serves(serving[q])' /\ serving'[q].alone = serving[q].alone
  BY <1>1, <1>2, WrittenBy
<1>4. serving[p].alone => Reached(serving[p])'
  <2>1. SUFFICES ASSUME serving[p].alone
                 PROVE  Reached(serving[p])'
    OBVIOUS
  <2>2. Reached(serving[p])
    BY <1>2, <2>1 DEF RevisionInv, AloneInv
  <2>3. settings' = serving[p].snapshot /\ serving[p].id \in {0, NextId(history)}
    BY <1>1, <2>2 DEF Reached
  <2>4. serving'[p].step = "append" => serving'[p].id = NextId(history)
    BY <1>3, <2>3
  <2> QED BY <1>1, <1>3, <2>3, <2>4, SMTT(40) DEF Reached, NextId
<1> HIDE DEF next
<1>5. Numbered(history)'
  BY <1>1 DEF RevisionInv, Numbered
<1> QED
  BY <1>1, <1>2, <1>3, <1>4, <1>5, RequestGoesOn

LEMMA NumberRevises ==
    ASSUME RevisionInv, NEW p \in Processes, Number(p)
    PROVE  RevisionInv'
<1> DEFINE s == [[serving[p] EXCEPT !.step = "append"] EXCEPT !.id = NextId(history)]
<1>1. /\ serving[p].step = "number"
      /\ serving' = [serving EXCEPT ![p].step = "append", ![p].id = NextId(history)]
      /\ UNCHANGED <<settings, history, settled>>
  BY DEF Number, files
<1>2. Serves(serving[p]) /\ serving[p] # NoRequest
  BY <1>1 DEF RevisionInv, NoRequest
<1>3. serving' = [q \in Processes |-> IF q = p THEN s ELSE serving[q]]
  BY <1>1 DEF RevisionInv
<1>4. NextId(history) \in Nat
  BY NextIdAbove DEF RevisionInv
<1>5. Serves(s) /\ s.step = "append" /\ s.id = NextId(history) /\ s.snapshot = serving[p].snapshot
      /\ s.alone = serving[p].alone /\ s.spoilt = serving[p].spoilt
  BY <1>2, <1>4 DEF Serves, ServingFields, ServingSteps
<1> HIDE DEF s
<1>6. serving'[p] = s /\ \A q \in Processes \ {p} : serving'[q] = serving[q]
  BY <1>3
<1>7. Serves(serving[p])' /\ \A q \in Processes \ {p} : Serves(serving[q]) <=> Serves(serving[q])'
  BY <1>5, <1>6 DEF Serves, Numbered
<1>8. serving[p].alone => Reached(serving[p])'
  <2>1. SUFFICES ASSUME serving[p].alone
                 PROVE  Reached(serving[p])'
    OBVIOUS
  <2>2. Reached(serving[p])
    BY <1>2, <2>1 DEF RevisionInv, AloneInv
  <2> QED BY <1>1, <1>5, <1>6, <2>2 DEF Reached, NextId
<1> QED
  BY <1>1, <1>2, <1>3, <1>5, <1>6, <1>7, <1>8, RequestGoesOn DEF RevisionInv, Numbered

(* The revision gets the number that is next to those in the history.      *)
LEMMA AppendRevisionRevises ==
    ASSUME RevisionInv, NEW p \in Processes, AppendRevision(p)
    PROVE  RevisionInv'
<1> DEFINE rev == [id |-> serving[p].id, snapshot |-> serving[p].snapshot]
           s == [[serving[p] EXCEPT !.step = "clear"] EXCEPT !.past = Append(history, rev)]
<1>1. /\ serving[p].step = "append"
      /\ serving' = [serving EXCEPT ![p].step = "clear", ![p].past = Append(history, rev)]
      /\ UNCHANGED <<settings, history, settled>>
  BY DEF AppendRevision, files
<1>2. Serves(serving[p]) /\ serving[p] # NoRequest
  BY <1>1 DEF RevisionInv, NoRequest
<1>3. serving' = [q \in Processes |-> IF q = p THEN s ELSE serving[q]]
  BY <1>1 DEF RevisionInv
<1>4. rev.id \in Nat /\ rev.snapshot = serving[p].snapshot /\ rev.id = serving[p].id
  BY <1>2 DEF Serves
<1> HIDE DEF rev
<1>5. Numbered(Append(history, rev))
  BY <1>4, NumberedAppend DEF RevisionInv
<1>6. Serves(s) /\ s.step = "clear" /\ s.past = Append(history, rev) /\ s.snapshot = serving[p].snapshot
      /\ s.alone = serving[p].alone /\ s.spoilt = serving[p].spoilt
  BY <1>2, <1>5 DEF Serves, ServingFields, ServingSteps
<1> HIDE DEF s
<1>7. serving'[p] = s /\ \A q \in Processes \ {p} : serving'[q] = serving[q]
  BY <1>3
<1>8. Serves(serving[p])' /\ \A q \in Processes \ {p} : Serves(serving[q]) <=> Serves(serving[q])'
  BY <1>6, <1>7 DEF Serves, Numbered
<1>9. serving[p].alone => Reached(serving[p])'
  <2>1. SUFFICES ASSUME serving[p].alone
                 PROVE  Reached(serving[p])'
    OBVIOUS
  <2>2. Reached(serving[p])
    BY <1>2, <2>1 DEF RevisionInv, AloneInv
  <2>3. rev.id = NextId(history)
    BY <1>1, <1>4, <2>2 DEF Reached
  <2>4. EndsWith(s.past, s.snapshot)
    BY <1>4, <1>6, <2>3, AppendedRevision DEF RevisionInv
  <2>5. EndsWith(serving[p].past, serving[p].snapshot)'
    BY <1>7, <2>4 DEF EndsWith
  <2> QED BY <1>1, <1>6, <1>7, <2>2, <2>5 DEF Reached
<1> QED
  BY <1>1, <1>2, <1>3, <1>6, <1>7, <1>8, <1>9, RequestGoesOn DEF RevisionInv, Numbered

LEMMA EmptyHistoryRevises ==
    ASSUME RevisionInv, NEW p \in Processes, EmptyHistory(p)
    PROVE  RevisionInv'
<1> DEFINE s == [serving[p] EXCEPT !.step = "save"]
<1>1. /\ serving[p].step = "clear" /\ serving' = [serving EXCEPT ![p].step = "save"]
      /\ history' = <<>> /\ UNCHANGED <<settings, settled>>
  BY DEF EmptyHistory, Garbage
<1>2. Serves(serving[p]) /\ serving[p] # NoRequest
  BY <1>1 DEF RevisionInv, NoRequest
<1>3. serving' = [q \in Processes |-> IF q = p THEN s ELSE serving[q]]
  BY <1>1 DEF RevisionInv
<1>4. Serves(s) /\ s.step = "save" /\ s.past = serving[p].past /\ s.snapshot = serving[p].snapshot
      /\ s.alone = serving[p].alone /\ s.spoilt = serving[p].spoilt
  BY <1>2 DEF Serves, ServingFields, ServingSteps
<1> HIDE DEF s
<1>5. serving'[p] = s /\ \A q \in Processes \ {p} : serving'[q] = serving[q]
  BY <1>3
<1>6. Serves(serving[p])' /\ \A q \in Processes \ {p} : Serves(serving[q]) <=> Serves(serving[q])'
  BY <1>4, <1>5 DEF Serves, Numbered
<1>7. serving[p].alone => Reached(serving[p])'
  <2>1. SUFFICES ASSUME serving[p].alone
                 PROVE  Reached(serving[p])'
    OBVIOUS
  <2>2. Reached(serving[p])
    BY <1>2, <2>1 DEF RevisionInv, AloneInv
  <2>3. EndsWith(serving[p].past, serving[p].snapshot)'
    BY <1>1, <1>4, <1>5, <2>2 DEF Reached, EndsWith
  <2> QED BY <1>1, <1>4, <1>5, <2>2, <2>3 DEF Reached
<1>8. Numbered(history)'
  BY <1>1, NoRevisions DEF Numbered
<1> QED
  BY <1>1, <1>2, <1>3, <1>4, <1>5, <1>6, <1>7, <1>8, RequestGoesOn DEF RevisionInv

LEMMA WriteHistoryRevises ==
    ASSUME RevisionInv, NEW p \in Processes, WriteHistory(p)
    PROVE  RevisionInv'
<1>1. /\ serving[p].step = "save" /\ serving' = Written(p, "audit")
      /\ history' = Latest(serving[p].past) \/ (serving[p].spoilt /\ history' = <<>>)
      /\ UNCHANGED <<settings, settled>>
  BY DEF WriteHistory, Garbage
<1>2. "audit" \in ServingSteps /\ serving[p] # NoRequest /\ Serves(serving[p])
  BY <1>1 DEF ServingSteps, NoRequest, RevisionInv
<1>3. /\ serving' = [q \in Processes |-> serving'[q]]
      /\ Serves(serving[p])'
      /\ serving'[p].step = "audit" /\ serving'[p].snapshot = serving[p].snapshot
      /\ serving'[p].alone = serving[p].alone /\ serving'[p].spoilt = FALSE
      /\ \A q \in Processes \ {p} :
            /\ serving[q] = NoRequest => serving'[q] = NoRequest
            /\ serving[q] # NoRequest => Serves(serving[q])' /\ serving'[q].alone = serving[q].alone
  BY <1>1, <1>2, WrittenBy
<1>4. Numbered(serving[p].past)
  BY <1>2 DEF Serves
<1>5. Numbered(history)'
  <2>1. Numbered(Latest(serving[p].past)) /\ Numbered(<<>>)
    BY <1>4, LatestRevisions, NoRevisions
  <2> QED BY <1>1, <2>1 DEF Numbered
<1>6. serving[p].alone => Reached(serving[p])'
  <2>1. SUFFICES ASSUME serving[p].alone
                 PROVE  Reached(serving[p])'
    OBVIOUS
  <2>2. Reached(serving[p])
    BY <1>2, <2>1 DEF RevisionInv, AloneInv
  <2>3. EndsWith(serving[p].past, serving[p].snapshot) /\ ~serving[p].spoilt
        /\ settings = serving[p].snapshot
    BY <1>1, <2>2 DEF Reached
  <2>4. EndsWith(Latest(serving[p].past), serving[p].snapshot)
    BY <1>4, <2>3, LatestRevisions
  <2>5. EndsWith(history, serving[p].snapshot)'
    BY <1>1, <1>3, <2>3, <2>4 DEF EndsWith
  <2> QED BY <1>1, <1>3, <2>3, <2>5 DEF Reached
<1> QED
  BY <1>1, <1>2, <1>3, <1>5, <1>6, RequestGoesOn

(* A request ends or is cut short: what it reached stays.                  *)
LEMMA RequestEnds ==
    ASSUME RevisionInv, NEW p \in Processes, Respond(p) \/ CutShort(p)
    PROVE  RevisionInv'
<1>1. /\ serving[p] # NoRequest /\ serving' = [serving EXCEPT ![p] = NoRequest]
      /\ UNCHANGED <<settings, history, requests>>
      /\ settled' = settled \/ (serving[p].step = "audit" /\ settled' = serving[p].alone)
  BY DEF Respond, CutShort, files, NoRequest
<1>2. serving' = [q \in Processes |-> IF q = p THEN NoRequest ELSE serving[q]]
  BY <1>1 DEF RevisionInv
<1>3. ~settled
  BY <1>1 DEF RevisionInv, Idle
<1>4. \A q \in Processes : serving'[q] = NoRequest \/ Serves(serving[q])'
  <2>1. SUFFICES ASSUME NEW q \in Processes, q # p
                 PROVE  serving'[q] = NoRequest \/ Serves(serving[q])'
    BY <1>2
  <2>2. serving'[q] = serving[q] /\ (serving[q] = NoRequest \/ Serves(serving[q]))
    BY <1>2, <2>1 DEF RevisionInv
  <2> QED BY <2>2 DEF Serves, Numbered
<1>5. AloneInv'
  <2>1. SUFFICES ASSUME NEW q \in Processes, serving'[q] # NoRequest, serving'[q].alone
                 PROVE  Reached(serving[q])' /\ \A r \in Processes \ {q} : serving'[r] = NoRequest
    BY DEF AloneInv
  <2>2. q # p /\ serving[q] = serving'[q]
    BY <1>2, <2>1
  <2>3. serving[p] = NoRequest
    BY <2>1, <2>2 DEF RevisionInv, AloneInv
  <2> QED BY <1>1, <2>3
<1>6. settled' => Idle' /\ EndsWith(history, settings)'
  <2>1. SUFFICES ASSUME settled'
                 PROVE  Idle' /\ EndsWith(history, settings)'
    OBVIOUS
  <2>2. serving[p].step = "audit" /\ serving[p].alone
    BY <1>1, <1>3, <2>1
  <2>3. Reached(serving[p]) /\ \A q \in Processes \ {p} : serving[q] = NoRequest
    BY <1>1, <2>2 DEF RevisionInv, AloneInv
  <2>4. EndsWith(history, settings)
    BY <2>2, <2>3 DEF Reached
  <2>5. Idle'
    BY <1>2, <2>3 DEF Idle
  <2> QED BY <1>1, <2>4, <2>5 DEF EndsWith
<1>7. Numbered(history)'
  BY <1>1 DEF RevisionInv, Numbered
<1> QED
  BY <1>2, <1>4, <1>5, <1>6, <1>7 DEF RevisionInv

(* A request arrives: it is alone if no other is under way, and no other   *)
(* is alone any more.                                                      *)
LEMMA RequestArrives ==
    ASSUME RevisionInv, NEW p \in Processes, NEW snapshot, NEW id \in Nat, id = 0 \/ id = NextId(history),
           StartsRequest(p, snapshot, id)
    PROVE  RevisionInv'
<1> DEFINE s == [step |-> "empty", snapshot |-> snapshot, id |-> id, past |-> <<>>,
                 alone |-> Idle, spoilt |-> FALSE]
           Joined(q) == [serving[q] EXCEPT !.alone = FALSE]
<1>1. /\ serving[p] = NoRequest /\ ~settled' /\ UNCHANGED <<settings, history>>
      /\ serving' = [q \in Processes |-> IF q = p THEN s
                        ELSE IF serving[q] # NoRequest THEN Joined(q) ELSE NoRequest]
  BY DEF StartsRequest, files
<1>2. Idle \in BOOLEAN
  BY DEF Idle
<1>3. Serves(s) /\ s.step = "empty" /\ s.id = id /\ s.alone = Idle /\ s.spoilt = FALSE
  BY <1>2, NoRevisions DEF Serves, ServingFields, ServingSteps
<1>4. \A q \in Processes : serving[q] # NoRequest => Serves(Joined(q)) /\ Joined(q).alone = FALSE
  <2>1. SUFFICES ASSUME NEW q \in Processes, serving[q] # NoRequest
                 PROVE  Serves(Joined(q)) /\ Joined(q).alone = FALSE
    OBVIOUS
  <2>2. Serves(serving[q])
    BY <2>1 DEF RevisionInv
  <2> QED BY <2>2 DEF Serves, ServingFields, ServingSteps
<1> HIDE DEF s, Joined
<1>5. serving'[p] = s /\ \A q \in Processes \ {p} :
          serving'[q] = NoRequest \/ (serving[q] # NoRequest /\ serving'[q] = Joined(q))
  BY <1>1
<1>6. \A q \in Processes : serving'[q] = NoRequest \/ Serves(serving[q])'
  <2>1. \A q \in Processes : serving'[q] = NoRequest \/ Serves(serving'[q])
    BY <1>3, <1>4, <1>5
  <2> QED BY <2>1 DEF Serves, Numbered
<1>7. AloneInv'
  <2>1. SUFFICES ASSUME NEW q \in Processes, serving'[q] # NoRequest, serving'[q].alone
                 PROVE  Reached(serving[q])' /\ \A r \in Processes \ {q} : serving'[r] = NoRequest
    BY DEF AloneInv
  <2>2. q = p
    BY <1>4, <1>5, <2>1
  <2>3. Idle
    BY <1>3, <1>5, <2>1, <2>2
  <2>4. \A r \in Processes \ {p} : serving'[r] = NoRequest
    BY <1>5, <2>3 DEF Idle
  <2>5. Reached(serving[p])'
    BY <1>1, <1>3, <1>5 DEF Reached, NextId
  <2> QED BY <2>2, <2>4, <2>5
<1>8. Numbered(history)' /\ serving' = [q \in Processes |-> serving'[q]]
  BY <1>1 DEF RevisionInv, Numbered
<1> QED
  BY <1>1, <1>6, <1>7, <1>8 DEF RevisionInv

LEMMA StartRevises ==
    ASSUME RevisionInv, NEW p \in Processes,
           (\E u \in Updates : StartUpdate(p, u)) \/ (\E i \in 1 .. Shown : StartRollback(p, i))
    PROVE  RevisionInv'
<1>1. ASSUME NEW u \in Updates, StartUpdate(p, u)
      PROVE  RevisionInv'
  BY <1>1, RequestArrives DEF StartUpdate
<1>2. ASSUME NEW i \in 1 .. Shown, StartRollback(p, i)
      PROVE  RevisionInv'
  <2>1. NextId(history) \in Nat
    BY NextIdAbove DEF RevisionInv
  <2> QED BY <1>2, <2>1, RequestArrives DEF StartRollback
<1> QED
  BY <1>1, <1>2

LEMMA EditRevises ==
    ASSUME RevisionInv, NEW content \in HandEdits, EditByHand(content)
    PROVE  RevisionInv'
<1>1. ~settled' /\ Idle /\ serving' = serving /\ history' = history
  BY DEF EditByHand
<1>2. AloneInv'
  BY <1>1 DEF AloneInv, Idle
<1>3. Numbered(history)'
  BY <1>1 DEF RevisionInv, Numbered
<1>4. \A q \in Processes : serving'[q] = NoRequest
  BY <1>1 DEF Idle
<1> QED
  BY <1>1, <1>2, <1>3, <1>4 DEF RevisionInv

LEMMA SettingsStay ==
    ASSUME RevisionInv, UNCHANGED <<settings, history, serving, requests, settled>>
    PROVE  RevisionInv'
<1>1. AloneInv'
  BY ZenonT(60) DEF RevisionInv, AloneInv, Reached, NextId, EndsWith
<1>2. (settled => Idle /\ (requests > 0 => EndsWith(history, settings)))'
  BY DEF RevisionInv, Idle, EndsWith
<1>3. \A p \in Processes : (serving[p] = NoRequest \/ Serves(serving[p]))'
  BY DEF RevisionInv, Serves, Numbered
<1> QED
  BY <1>1, <1>2, <1>3 DEF RevisionInv, Numbered

LEMMA RevisionInvNext == RevisionInv /\ [SettingsNext]_settingsVars => RevisionInv'
<1> SUFFICES ASSUME RevisionInv, [SettingsNext]_settingsVars
             PROVE  RevisionInv'
  OBVIOUS
<1>1. ASSUME NEW p \in Processes,
             EmptySettings(p) \/ WriteSettings(p) \/ Number(p) \/ AppendRevision(p) \/ EmptyHistory(p)
      PROVE  RevisionInv'
  BY <1>1, EmptySettingsRevises, WriteSettingsRevises, NumberRevises, AppendRevisionRevises,
     EmptyHistoryRevises
<1>2. ASSUME NEW p \in Processes, WriteHistory(p)
      PROVE  RevisionInv'
  BY <1>2, WriteHistoryRevises
<1>3. ASSUME NEW p \in Processes, Respond(p) \/ CutShort(p)
      PROVE  RevisionInv'
  BY <1>3, RequestEnds
<1>4. ASSUME NEW p \in Processes,
             (\E u \in Updates : StartUpdate(p, u)) \/ (\E i \in 1 .. Shown : StartRollback(p, i))
      PROVE  RevisionInv'
  BY <1>4, StartRevises
<1>5. ASSUME NEW content \in HandEdits, EditByHand(content)
      PROVE  RevisionInv'
  BY <1>5, EditRevises
<1>6. ASSUME NEW p \in Pipelines, Stat(p) \/ ReadFile(p) \/ Keep(p)
      PROVE  RevisionInv'
  BY <1>6, SettingsStay DEF Stat, ReadFile, Keep, files
<1>7. CASE Tick \/ UNCHANGED settingsVars
  BY <1>7, SettingsStay DEF Tick, files, settingsVars
<1> QED
  BY <1>1, <1>2, <1>3, <1>4, <1>5, <1>6, <1>7 DEF SettingsNext

(* After a PATCH or a rollback of the settings that no other request       *)
(* overlapped, the file holds the snapshot of the last revision, numbered  *)
(* above all others, whatever mixture of requests, broken off or not, left *)
(* the files as they were before.                                          *)
THEOREM RevisionsAreInForce == SettingsSpec => []LastRevisionInForce
<1>1. RevisionInv => LastRevisionInForce
  <2>1. SUFFICES ASSUME RevisionInv, settled, requests > 0
                 PROVE  /\ history # <<>>
                        /\ settings = history[Len(history)].snapshot
                        /\ \A i \in 1 .. Len(history) - 1 : history[i].id < history[Len(history)].id
    BY DEF LastRevisionInForce
  <2>2. EndsWith(history, settings) /\ Len(<<>>) = 0
    BY <2>1 DEF RevisionInv
  <2> QED BY <2>2 DEF EndsWith
<1> QED
  BY <1>1, RevisionInvInit, RevisionInvNext, PTL DEF SettingsSpec

-----------------------------------------------------------------------------
(* The manager's tables: a device's entry is a connection of its own.      *)
ActiveInv ==
    /\ socket \in [Sockets -> {"new", "open", "lost", "ended"}]
    /\ inRoom \in [Rooms -> SUBSET Devices]
    /\ \A d \in DOMAIN active : d \in Devices /\ active[d] \in Sockets /\ Owner[active[d]] = d

(* A connection that never shared its device is open and registered.       *)
SoleInv ==
    /\ sole \subseteq Sockets
    /\ \A s \in sole :
          /\ socket[s] = "open"
          /\ Owner[s] \in DOMAIN active /\ active[Owner[s]] = s
          /\ Owner[s] \in inRoom[Room[Owner[s]]]
    /\ \A s \in sole, t \in Sockets : t # s /\ Owner[t] = Owner[s] => socket[t] \in {"new", "ended"}

JobFields == {"step", "begun", "classes", "targets", "at", "sent", "owed"}

JobInv ==
    /\ job.step \in {"none", "nonce", "send"}
    /\ job.step # "none" =>
          /\ job = [f \in JobFields |-> job[f]]
          /\ job.at \subseteq Sockets
    /\ job.step = "nonce" => job.at = {}

(* While a capture is sent, a connection it is owed to existed when it     *)
(* began, and has been sent it, is being sent it, or belongs to a device   *)
(* still on the list.                                                      *)
OwedInv ==
    job.step = "send" =>
        /\ \A s \in job.owed : s \in Sockets /\ socket[s] # "new"
        /\ \A s \in sole, t \in job.at : Owner[t] = Owner[s] => t = s
        /\ \A s \in job.owed \cap sole : s \in job.sent \/ s \in job.at \/ Owner[s] \in job.targets

CaptureInv == ActiveInv /\ SoleInv /\ JobInv /\ OwedInv

LEMMA RoomsOfDevices == \A s \in Sockets : Owner[s] \in Devices /\ Room[Owner[s]] \in Rooms
BY CapturesAssumption DEF Rooms

LEMMA CaptureInvInit == CapturesInit => CaptureInv
<1> SUFFICES ASSUME CapturesInit
             PROVE  CaptureInv
  OBVIOUS
<1>1. DOMAIN active = {} /\ sole = {} /\ job = NoJob
  BY DEF CapturesInit
<1>2. socket \in [Sockets -> {"new"}] /\ inRoom \in [Rooms -> SUBSET Devices]
  BY DEF CapturesInit
<1> QED
  BY <1>1, <1>2 DEF CaptureInv, ActiveInv, SoleInv, JobInv, OwedInv, NoJob

(* Steps that leave the connections alone only have to look after the job. *)
LEMMA TablesKept ==
    ASSUME CaptureInv, UNCHANGED connections, sole' \subseteq sole
    PROVE  ActiveInv' /\ SoleInv'
BY DEF CaptureInv, ActiveInv, SoleInv, connections

LEMMA ConnectKeeps ==
    ASSUME CaptureInv, NEW s \in Sockets, Connect(s)
    PROVE  CaptureInv'
<1> DEFINE d == Owner[s]
           others == {t \in Sockets \ {s} : Owner[t] = d}
<1> USE DEF CaptureInv
<1>1. /\ socket[s] = "new" /\ socket' = [socket EXCEPT ![s] = "open"]
      /\ active' = [e \in DOMAIN active \cup {d} |-> IF e = d THEN s ELSE active[e]]
      /\ inRoom' = [inRoom EXCEPT ![Room[d]] = @ \cup {d}]
      /\ job' = job
      /\ sole' = IF ~Sending(d) /\ \A t \in others : socket[t] \in {"new", "ended"}
                 THEN sole \cup {s} ELSE sole \ others
  BY DEF Connect
<1>2. d \in Devices /\ Room[d] \in Rooms
  BY RoomsOfDevices
<1>3. ActiveInv'
  BY <1>1, <1>2 DEF ActiveInv
<1>4. s \notin sole /\ sole' \subseteq (sole \ others) \cup {s}
  <2>1. \A t \in sole : socket[t] = "open"
    BY DEF SoleInv
  <2> QED BY <1>1, <2>1 DEF SoleInv
<1>5. SoleInv'
  <2>1. ASSUME NEW t \in sole'
        PROVE  /\ socket'[t] = "open" /\ Owner[t] \in DOMAIN active' /\ active'[Owner[t]] = t
               /\ Owner[t] \in inRoom'[Room[Owner[t]]]
    <3>1. CASE t = s
      BY <3>1, <1>1, <1>2 DEF ActiveInv
    <3>2. CASE t \in sole \ others /\ t # s
      <4>1. t \in Sockets /\ Owner[t] # d
        BY <3>2 DEF SoleInv
      <4>2. Owner[t] \in Devices /\ Room[Owner[t]] \in Rooms
        BY <4>1, RoomsOfDevices
      <4>3. socket[t] = "open" /\ Owner[t] \in DOMAIN active /\ active[Owner[t]] = t
            /\ Owner[t] \in inRoom[Room[Owner[t]]]
        BY <3>2 DEF SoleInv
      <4>4. Owner[t] \in inRoom'[Room[Owner[t]]]
        BY <1>1, <1>2, <4>2, <4>3 DEF ActiveInv
      <4> QED BY <1>1, <3>2, <4>1, <4>3, <4>4 DEF ActiveInv
    <3> QED BY <1>4, <2>1, <3>1, <3>2
  <2>2. ASSUME NEW t \in sole', NEW u \in Sockets, u # t, Owner[u] = Owner[t]
        PROVE  socket'[u] \in {"new", "ended"}
    <3>1. CASE t = s
      <4>1. s \notin sole \ others
        BY <1>4
      <4>2. \A v \in others : socket[v] \in {"new", "ended"}
        BY <1>1, <1>4, <2>2, <3>1
      <4> QED BY <1>1, <2>2, <3>1, <4>2 DEF ActiveInv
    <3>2. CASE t \in sole \ others /\ t # s
      <4>1. t \in Sockets /\ Owner[t] # d
        BY <3>2 DEF SoleInv
      <4>2. u # s /\ socket[u] \in {"new", "ended"}
        BY <2>2, <3>2, <4>1 DEF SoleInv
      <4> QED BY <1>1, <4>2 DEF ActiveInv
    <3> QED BY <1>4, <2>2, <3>1, <3>2
  <2> QED BY <1>4, <2>1, <2>2 DEF SoleInv
<1>6. OwedInv'
  <2>1. SUFFICES ASSUME job.step = "send"
                 PROVE  OwedInv'
    BY <1>1 DEF OwedInv
  <2>2. s \in sole' => \A t \in job.at : Owner[t] # d
    BY <1>1, <1>4, <2>1 DEF Sending
  <2>3. s \notin job.owed
    BY <1>1, <2>1 DEF OwedInv
  <2>4. \A t \in job.owed : socket'[t] # "new"
    BY <1>1, <2>1 DEF OwedInv, ActiveInv
  <2> QED BY <1>1, <1>4, <2>1, <2>2, <2>3, <2>4 DEF OwedInv
<1> QED BY <1>1, <1>3, <1>5, <1>6 DEF JobInv

LEMMA LoseKeeps ==
    ASSUME CaptureInv, NEW s \in Sockets, Lose(s)
    PROVE  CaptureInv'
<1> USE DEF CaptureInv
<1>1. /\ socket[s] = "open" /\ socket' = [socket EXCEPT ![s] = "lost"] /\ sole' = sole \ {s}
      /\ UNCHANGED <<active, inRoom, job>>
  BY DEF Lose
<1>2. ActiveInv'
  BY <1>1 DEF ActiveInv
<1>3. SoleInv'
  BY <1>1 DEF SoleInv, ActiveInv
<1>4. OwedInv'
  BY <1>1 DEF OwedInv, ActiveInv
<1> QED BY <1>1, <1>2, <1>3, <1>4 DEF JobInv

(* A socket that is removed takes the entry of its device along, which is  *)
(* that of no connection that never shared its device.                     *)
LEMMA RemovedKeeps ==
    ASSUME ActiveInv, SoleInv, NEW s \in Sockets, socket[s] # "open", Removed(Owner[s]),
           \A t \in sole : Owner[t] # Owner[s],
           socket' = socket \/ socket' = [socket EXCEPT ![s] = "ended"], sole' = sole
    PROVE  ActiveInv' /\ SoleInv'
<1> DEFINE d == Owner[s]
<1>1. /\ active' = [e \in DOMAIN active \ {d} |-> active[e]]
      /\ inRoom' = [inRoom EXCEPT ![Room[d]] = @ \ {d}]
  BY DEF Removed
<1>2. d \in Devices /\ Room[d] \in Rooms
  BY RoomsOfDevices
<1>3. \A t \in Sockets \ {s} : socket'[t] = socket[t]
  BY DEF ActiveInv
<1>4. socket' \in [Sockets -> {"new", "open", "lost", "ended"}] /\ socket'[s] \in {socket[s], "ended"}
  BY DEF ActiveInv
<1>5. ActiveInv'
  BY <1>1, <1>2, <1>4 DEF ActiveInv
<1>6. ASSUME NEW t \in sole'
      PROVE  /\ socket'[t] = "open" /\ Owner[t] \in DOMAIN active' /\ active'[Owner[t]] = t
             /\ Owner[t] \in inRoom'[Room[Owner[t]]]
  <2>1. t \in sole /\ t \in Sockets /\ t # s /\ Owner[t] # d
    BY DEF SoleInv
  <2>2. Owner[t] \in Devices /\ Room[Owner[t]] \in Rooms
    BY <2>1, RoomsOfDevices
  <2>3. Owner[t] \in inRoom[Room[Owner[t]]] /\ socket[t] = "open"
        /\ Owner[t] \in DOMAIN active /\ active[Owner[t]] = t
    BY <2>1 DEF SoleInv
  <2>4. Owner[t] \in inRoom'[Room[Owner[t]]]
    BY <1>1, <1>2, <2>1, <2>2, <2>3 DEF ActiveInv
  <2> QED BY <1>1, <1>3, <2>1, <2>3, <2>4
<1>7. ASSUME NEW t \in sole', NEW u \in Sockets, u # t, Owner[u] = Owner[t]
      PROVE  socket'[u] \in {"new", "ended"}
  <2>1. u # s
    BY <1>7
  <2> QED BY <1>3, <1>7, <2>1 DEF SoleInv
<1> QED BY <1>5, <1>6, <1>7 DEF SoleInv

LEMMA DisconnectKeeps ==
    ASSUME CaptureInv, NEW s \in Sockets, Disconnect(s)
    PROVE  CaptureInv'
<1> USE DEF CaptureInv
<1>1. /\ socket[s] = "lost" /\ socket' = [socket EXCEPT ![s] = "ended"]
      /\ Removed(Owner[s]) /\ UNCHANGED <<job, sole>>
  BY DEF Disconnect
<1>2. \A t \in sole : Owner[t] # Owner[s]
  BY <1>1 DEF SoleInv
<1>3. ActiveInv' /\ SoleInv'
  BY <1>1, <1>2, RemovedKeeps
<1>4. OwedInv'
  BY <1>1 DEF OwedInv, ActiveInv
<1> QED BY <1>1, <1>3, <1>4 DEF JobInv

LEMMA SendRaisesKeeps ==
    ASSUME CaptureInv, NEW s \in Sockets, SendRaises(s)
    PROVE  CaptureInv'
<1> USE DEF CaptureInv
<1>1. /\ job.step = "send" /\ job.at = {s} /\ socket[s] # "open"
      /\ job' = [job EXCEPT !.at = {}] /\ Removed(Owner[s]) /\ UNCHANGED <<socket, sole>>
  BY DEF SendRaises, Nobody
<1>2. s \notin sole
  BY <1>1 DEF SoleInv
<1>3. \A t \in sole : Owner[t] # Owner[s]
  BY <1>1, <1>2 DEF OwedInv
<1>4. ActiveInv' /\ SoleInv'
  BY <1>1, <1>3, RemovedKeeps
<1>5. job' = [f \in JobFields |-> IF f = "at" THEN {} ELSE job[f]]
  BY <1>1 DEF JobInv, JobFields
<1>6. /\ job'.step = "send" /\ job'.at = {} /\ job'.owed = job.owed /\ job'.sent = job.sent
      /\ job'.targets = job.targets
  BY <1>1, <1>5 DEF JobFields
<1>7. OwedInv'
  BY <1>1, <1>2, <1>6 DEF OwedInv
<1>8. JobInv'
  BY <1>5, <1>6 DEF JobInv
<1> QED BY <1>4, <1>7, <1>8

LEMMA SentKeeps ==
    ASSUME CaptureInv, NEW s \in Sockets, Sent(s)
    PROVE  CaptureInv'
<1> USE DEF CaptureInv
<1>1. /\ job.step = "send" /\ job.at = {s}
      /\ job' = [job EXCEPT !.at = {}, !.sent = @ \cup {s}] /\ UNCHANGED <<connections, sole>>
  BY DEF Sent, Nobody
<1>2. job' = [f \in JobFields |-> IF f = "at" THEN {} ELSE IF f = "sent" THEN job.sent \cup {s} ELSE job[f]]
  BY <1>1 DEF JobInv, JobFields
<1>3. /\ job'.step = "send" /\ job'.at = {} /\ job'.owed = job.owed /\ job'.sent = job.sent \cup {s}
      /\ job'.targets = job.targets
  BY <1>1, <1>2 DEF JobFields
<1>4. OwedInv'
  BY <1>1, <1>3 DEF OwedInv, connections
<1>5. JobInv'
  BY <1>2, <1>3 DEF JobInv
<1> QED BY <1>1, <1>4, <1>5, TablesKept

LEMMA PickKeeps ==
    ASSUME CaptureInv, NEW d \in Devices, Pick(d)
    PROVE  CaptureInv'
<1> USE DEF CaptureInv
<1> DEFINE at == IF d \in DOMAIN active THEN {active[d]} ELSE {}
<1>1. /\ job.step = "send" /\ job.at = {} /\ UNCHANGED <<connections, sole>>
      /\ job' = [job EXCEPT !.targets = @ \ {d}, !.at = at]
  BY DEF Pick, Nobody
<1>2. job' = [f \in JobFields |-> IF f = "at" THEN at ELSE IF f = "targets" THEN job.targets \ {d} ELSE job[f]]
  BY <1>1 DEF JobInv, JobFields
<1>3. /\ job'.step = "send" /\ job'.at = at /\ job'.owed = job.owed /\ job'.sent = job.sent
      /\ job'.targets = job.targets \ {d}
  BY <1>1, <1>2 DEF JobFields
<1>4. at \subseteq Sockets /\ \A t \in at : Owner[t] = d
  BY DEF ActiveInv
<1>5. \A s \in sole : Owner[s] = d => at = {s}
  BY DEF SoleInv
<1>6. OwedInv'
  <2>1. \A s \in sole, t \in at : Owner[t] = Owner[s] => t = s
    BY <1>4, <1>5
  <2>2. \A s \in job.owed \cap sole : s \in job.sent \/ Owner[s] \in job.targets
    BY <1>1 DEF OwedInv
  <2>3. \A s \in job.owed : s \in Sockets /\ socket[s] # "new"
    BY <1>1 DEF OwedInv
  <2> QED BY <1>1, <1>3, <1>5, <2>1, <2>2, <2>3 DEF OwedInv, connections
<1>7. JobInv'
  BY <1>2, <1>3, <1>4 DEF JobInv
<1> QED BY <1>1, <1>6, <1>7, TablesKept
-----------------------------------------------------------------------------
LEMMA StoreNonceKeeps ==
    ASSUME CaptureInv, StoreCaptureNonce
    PROVE  CaptureInv'
<1> USE DEF CaptureInv
<1> DEFINE room == Head(job.classes).room
           owed == {s \in sole : Room[Owner[s]] = room}
<1>1. /\ job.step = "nonce" /\ UNCHANGED <<connections, sole>>
      /\ job' = [job EXCEPT !.step = "send", !.targets = inRoom[room], !.sent = {}, !.owed = owed]
  BY DEF StoreCaptureNonce
<1>2. job' = [f \in JobFields |-> IF f = "step" THEN "send" ELSE IF f = "targets" THEN inRoom[room]
                ELSE IF f = "sent" THEN {} ELSE IF f = "owed" THEN owed ELSE job[f]]
  BY <1>1 DEF JobInv, JobFields
<1>3. job'.step = "send" /\ job'.at = job.at /\ job'.owed = owed /\ job'.targets = inRoom[room]
  BY <1>2 DEF JobFields
<1>4. job.at = {}
  BY <1>1 DEF JobInv
<1>5. \A s \in owed : s \in Sockets /\ socket[s] # "new" /\ Owner[s] \in inRoom[room]
  BY DEF SoleInv
<1>6. OwedInv'
  BY <1>1, <1>3, <1>4, <1>5 DEF OwedInv, connections
<1>7. JobInv'
  BY <1>2, <1>3, <1>4 DEF JobInv
<1> QED BY <1>1, <1>6, <1>7, TablesKept

LEMMA HeartbeatKeeps ==
    ASSUME CaptureInv, Heartbeat
    PROVE  CaptureInv'
<1> USE DEF CaptureInv
<1>1. UNCHANGED <<connections, sole>>
  BY DEF Heartbeat
<1>2. PICK order : job' = IF (minute % 60) % Interval # 0 \/ order = <<>> THEN NoJob
                 ELSE [step |-> "nonce", begun |-> minute, classes |-> order, targets |-> {},
                       at |-> Nobody, sent |-> {}, owed |-> {}]
  BY DEF Heartbeat
<1>3. JobInv' /\ OwedInv'
  <2>1. CASE job' = NoJob
    BY <2>1 DEF JobInv, OwedInv, NoJob
  <2>2. CASE job' # NoJob
    BY <1>2, <2>2 DEF JobInv, OwedInv, JobFields, Nobody
  <2> QED BY <2>1, <2>2
<1> QED BY <1>1, <1>3, TablesKept

LEMMA NextClassKeeps ==
    ASSUME CaptureInv, NextClass
    PROVE  CaptureInv'
<1> USE DEF CaptureInv
<1>1. UNCHANGED <<connections, sole>> /\ job.step = "send" /\ job.at = {}
      /\ (job' = NoJob \/ job' = [job EXCEPT !.step = "nonce", !.classes = Tail(@)])
  BY DEF NextClass, RoomDone, Nobody
<1>2. JobInv' /\ OwedInv'
  <2>1. CASE job' = NoJob
    BY <2>1 DEF JobInv, OwedInv, NoJob
  <2>2. CASE job' = [job EXCEPT !.step = "nonce", !.classes = Tail(@)]
    <3>1. job' = [f \in JobFields |-> IF f = "step" THEN "nonce"
                    ELSE IF f = "classes" THEN Tail(job.classes) ELSE job[f]]
      BY <1>1, <2>2 DEF JobInv, JobFields
    <3> QED BY <1>1, <3>1 DEF JobInv, OwedInv, JobFields
  <2> QED BY <1>1, <2>1, <2>2
<1> QED BY <1>1, <1>2, TablesKept

LEMMA CaptureInvNext == CaptureInv /\ [CapturesNext]_captureVars => CaptureInv'
<1> SUFFICES ASSUME CaptureInv, [CapturesNext]_captureVars
             PROVE  CaptureInv'
  OBVIOUS
<1>1. CASE SkipRun \/ Minute \/ UNCHANGED captureVars
  <2>1. UNCHANGED <<connections, job, sole>>
    BY <1>1 DEF SkipRun, Minute, captureVars, connections
  <2> QED BY <2>1, TablesKept DEF CaptureInv, JobInv, OwedInv, connections
<1>2. CASE JobFails
  <2>1. job' = NoJob /\ UNCHANGED <<connections, sole>>
    BY <1>2 DEF JobFails
  <2> QED BY <2>1, TablesKept DEF CaptureInv, JobInv, OwedInv, NoJob
<1> QED
  BY <1>1, <1>2, HeartbeatKeeps, StoreNonceKeeps, NextClassKeeps, ConnectKeeps, LoseKeeps,
     DisconnectKeeps, SentKeeps, SendRaisesKeeps, PickKeeps DEF CapturesNext

(* A connected device in the room of a class gets the capture signal of    *)
(* send_capture, whatever the sockets of other devices do meanwhile, if    *)
(* its connection stays open and never shared its device with another.     *)
THEOREM CapturesArrive == CapturesSpec => []CaptureReachesDevices
<1>1. CaptureInv => CaptureReachesDevices
  BY DEF CaptureInv, OwedInv, CaptureReachesDevices, RoomDone, Nobody
<1> QED
  BY <1>1, CaptureInvInit, CaptureInvNext, PTL DEF CapturesSpec

-----------------------------------------------------------------------------
(* The ingest gate. The times and tables of Redis, and what the slots of   *)
(* requests hold.                                                          *)
Jobs == [step : {"limit", "count", "check", "nonce", "dispatch"}, upload : Uploads,
         raced : BOOLEAN, stored : Nat]

IngestTypes ==
    /\ time \in Nat
    /\ counter \in [Keys -> [count : Nat, until : Nat]]
    /\ nonces \in [NonceKeys -> Nat]
    /\ request \in [Requests -> {Free} \cup Jobs]

Dispatching(r) == request[r].step = "dispatch"

(* What was accepted with a nonce lies in the past, and Redis keeps the    *)
(* nonce for at least its life from then on.                               *)
NonceInv ==
    /\ \A q \in queued :
          /\ q.upload \in Uploads /\ q.stored \in 0 .. time
          /\ q.stored + NonceLife <= nonces[NonceKey(q.upload)]
    /\ \A r \in Requests : Dispatching(r) =>
          /\ request[r].stored <= time
          /\ request[r].stored + NonceLife <= nonces[NonceKey(request[r].upload)]

LifeApart(s, t) == s - t >= NonceLife \/ t - s >= NonceLife

(* Accepted uploads with one nonce are a life apart, those on their way to *)
(* the broker included.                                                    *)
ApartInv ==
    /\ \A r \in Requests : Dispatching(r) =>
          /\ \A s \in Requests \ {r} :
                Dispatching(s) /\ NonceKey(request[s].upload) = NonceKey(request[r].upload) =>
                    LifeApart(request[r].stored, request[s].stored)
          /\ \A q \in queued : NonceKey(q.upload) = NonceKey(request[r].upload) =>
                    LifeApart(request[r].stored, q.stored)
    /\ UploadsDispatchedOnce

(* Requests that passed the limit for a key from a time on.                *)
PassedSince(k, from) == {b \in allowed : b.key = k /\ b.at >= from}
CountsFor(r, k) == request[r].step = "count" /\ Key(request[r].upload) = k
CountsAlone(r, k) == CountsFor(r, k) /\ ~request[r].raced

(* The counter lives on for a window after each of them, and until then    *)
(* counts it and all later ones.                                           *)
CounterInv ==
    /\ IsFiniteSet(allowed)
    /\ \A b \in allowed : b.key \in Keys /\ b.at \in 0 .. time
    /\ \A b \in allowed : b.at + Window <= counter[b.key].until
    /\ \A b \in allowed : time < b.at + Window =>
          Cardinality(PassedSince(b.key, b.at)) <= counter[b.key].count

(* Of the requests about to raise a counter one at most read it alone, and *)
(* for that one there is still room in every window that is open.          *)
RoomInv ==
    /\ \A k \in Keys : \A r, s \in Requests : CountsAlone(r, k) /\ CountsAlone(s, k) => r = s
    /\ \A r \in Requests, b \in allowed : CountsAlone(r, b.key) /\ time < b.at + Window =>
          Cardinality(PassedSince(b.key, b.at)) < Limits[b.key[1]]

GateInv == IngestTypes /\ NonceInv /\ ApartInv /\ CounterInv /\ RoomInv /\ LimitPerWindow

LEMMA KeysOfUploads ==
    ASSUME NEW u \in Uploads
    PROVE  /\ Key(u) \in Keys /\ NonceKey(u) \in NonceKeys
           /\ Key(u)[1] = u.kind /\ Limits[Key(u)[1]] \in Nat \ {0}
BY IngestAssumption DEF Key, Keys, NonceKey, NonceKeys

LEMMA IngestBounds == Window \in Nat \ {0} /\ NonceLife \in Nat \ {0}
BY IngestAssumption

(* A slot that works on an upload holds a whole record.                    *)
LEMMA BusySlots ==
    ASSUME IngestTypes, NEW r \in Requests, request[r].step # "free"
    PROVE  request[r] \in Jobs
BY DEF IngestTypes, Free

LEMMA GoesOn ==
    ASSUME IngestTypes, NEW r \in Requests, request[r].step # "free",
           NEW step \in {"limit", "count", "check", "nonce", "dispatch"}, Goes(r, step)
    PROVE  /\ request' \in [Requests -> {Free} \cup Jobs]
           /\ request'[r] = [request[r] EXCEPT !.step = step]
           /\ request'[r].step = step /\ request'[r].upload = request[r].upload
           /\ request'[r].raced = request[r].raced /\ request'[r].stored = request[r].stored
           /\ \A s \in Requests \ {r} : request'[s] = request[s]
<1>1. request[r] \in Jobs
  BY BusySlots
<1>2. request' = [s \in Requests |-> IF s = r THEN [request[r] EXCEPT !.step = step] ELSE request[s]]
  BY DEF Goes, IngestTypes
<1>3. [request[r] EXCEPT !.step = step] \in Jobs
  BY <1>1 DEF Jobs
<1>4. request' \in [Requests -> {Free} \cup Jobs]
  BY <1>2, <1>3 DEF IngestTypes
<1> QED
  BY <1>1, <1>2, <1>4 DEF Jobs

LEMMA EndsThere ==
    ASSUME IngestTypes, NEW r \in Requests, Ends(r)
    PROVE  /\ request' \in [Requests -> {Free} \cup Jobs]
           /\ request'[r].step = "free"
           /\ \A s \in Requests \ {r} : request'[s] = request[s]
<1>1. request' = [s \in Requests |-> IF s = r THEN Free ELSE request[s]]
  BY DEF Ends, IngestTypes
<1> QED
  BY <1>1 DEF IngestTypes, Free

-----------------------------------------------------------------------------
(* Steps that accept nothing with a nonce and put nothing on the queue.    *)
LEMMA NothingAccepted ==
    ASSUME IngestTypes, IngestTypes', NonceInv, ApartInv, time' >= time, queued' = queued,
           \A n \in NonceKeys : nonces'[n] >= nonces[n],
           \A r \in Requests : Dispatching(r)' => request'[r] = request[r]
    PROVE  NonceInv' /\ ApartInv'
<1>1. \A r \in Requests : Dispatching(r)' => Dispatching(r) /\ request'[r] = request[r]
                                             /\ request[r] \in Jobs
  BY BusySlots DEF Dispatching
<1>2. time \in Nat /\ time' \in Nat /\ NonceLife \in Nat
      /\ \A n \in NonceKeys : nonces[n] \in Nat /\ nonces'[n] \in Nat
  BY IngestBounds DEF IngestTypes
<1>3. NonceInv'
  <2>1. ASSUME NEW q \in queued
        PROVE  q.upload \in Uploads /\ q.stored \in 0 .. time'
               /\ q.stored + NonceLife <= nonces'[NonceKey(q.upload)]
    <3>1. q.upload \in Uploads /\ q.stored \in 0 .. time
          /\ q.stored + NonceLife <= nonces[NonceKey(q.upload)]
      BY DEF NonceInv
    <3>2. NonceKey(q.upload) \in NonceKeys
      BY <3>1, KeysOfUploads
    <3> QED BY <1>2, <3>1, <3>2
  <2>2. ASSUME NEW r \in Requests, Dispatching(r)'
        PROVE  request'[r].stored <= time'
               /\ request'[r].stored + NonceLife <= nonces'[NonceKey(request'[r].upload)]
    <3>1. Dispatching(r) /\ request'[r] = request[r] /\ request[r] \in Jobs
      BY <1>1, <2>2
    <3>2. NonceKey(request[r].upload) \in NonceKeys /\ request[r].stored \in Nat
      BY <3>1, KeysOfUploads DEF Jobs
    <3>3. request[r].stored <= time /\ request[r].stored + NonceLife <= nonces[NonceKey(request[r].upload)]
      BY <3>1 DEF NonceInv
    <3> QED BY <1>2, <3>1, <3>2, <3>3
  <2> QED BY <2>1, <2>2 DEF NonceInv
<1>4. ApartInv'
  <2>1. UploadsDispatchedOnce'
    BY DEF ApartInv, UploadsDispatchedOnce
  <2>2. ASSUME NEW r \in Requests, Dispatching(r)'
        PROVE  /\ \A s \in Requests \ {r} :
                     Dispatching(s)' /\ NonceKey(request'[s].upload) = NonceKey(request'[r].upload) =>
                        LifeApart(request'[r].stored, request'[s].stored)
               /\ \A q \in queued : NonceKey(q.upload) = NonceKey(request'[r].upload) =>
                        LifeApart(request'[r].stored, q.stored)
    BY <1>1, <2>2 DEF ApartInv
  <2> QED BY <2>1, <2>2 DEF ApartInv
<1> QED
  BY <1>3, <1>4

(* store_nonce finds no nonce: whatever was accepted with it before was    *)
(* so at least a life ago.                                                 *)
LEMMA NonceAccepted ==
    ASSUME IngestTypes, IngestTypes', NonceInv, ApartInv, NEW r \in Requests, request[r].step = "nonce",
           ~Live(nonces[NonceKey(request[r].upload)]), Stored(NonceKey(request[r].upload)),
           request' = [request EXCEPT ![r].step = "dispatch", ![r].stored = time],
           time' = time, queued' = queued
    PROVE  NonceInv' /\ ApartInv'
<1> DEFINE n == NonceKey(request[r].upload)
<1>1. request[r] \in Jobs /\ request[r].upload \in Uploads /\ n \in NonceKeys
  BY BusySlots, KeysOfUploads DEF Jobs
<1>2. /\ request'[r].step = "dispatch" /\ request'[r].stored = time
      /\ request'[r].upload = request[r].upload
      /\ \A s \in Requests \ {r} : request'[s] = request[s]
  <2>1. request' = [s \in Requests |-> IF s = r THEN [[request[r] EXCEPT !.step = "dispatch"] EXCEPT !.stored = time]
                                       ELSE request[s]]
    BY DEF IngestTypes
  <2> QED BY <1>1, <2>1 DEF Jobs
<1>3. nonces[n] <= time /\ nonces'[n] = time + NonceLife
      /\ \A m \in NonceKeys \ {n} : nonces'[m] = nonces[m]
  BY <1>1, IngestBounds DEF Live, Stored, IngestTypes
<1>4. time \in Nat /\ NonceLife \in Nat /\ \A m \in NonceKeys : nonces[m] \in Nat /\ nonces'[m] \in Nat
  BY IngestBounds DEF IngestTypes
<1> HIDE DEF n
<1>5. \A m \in NonceKeys : nonces'[m] >= nonces[m]
  BY <1>3, <1>4
<1>6. \A s \in Requests \ {r} : Dispatching(s)' =>
          /\ Dispatching(s) /\ request'[s] = request[s]
          /\ request[s].stored \in 0 .. time /\ NonceKey(request[s].upload) \in NonceKeys
          /\ request[s].stored + NonceLife <= nonces[NonceKey(request[s].upload)]
  <2>1. ASSUME NEW s \in Requests \ {r}, Dispatching(s)'
        PROVE  Dispatching(s) /\ request'[s] = request[s] /\ request[s] \in Jobs
    BY <1>2, <2>1, BusySlots DEF Dispatching
  <2>2. ASSUME NEW s \in Requests \ {r}, Dispatching(s)'
        PROVE  request[s].stored \in 0 .. time /\ NonceKey(request[s].upload) \in NonceKeys
    BY <1>4, <2>1, <2>2, KeysOfUploads DEF NonceInv, Jobs
  <2> QED BY <2>1, <2>2 DEF NonceInv
<1>7. \A q \in queued :
          /\ q.upload \in Uploads /\ q.stored \in 0 .. time /\ NonceKey(q.upload) \in NonceKeys
          /\ q.stored + NonceLife <= nonces[NonceKey(q.upload)]
  BY KeysOfUploads DEF NonceInv
<1>8. NonceInv'
  <2>1. ASSUME NEW q \in queued'
        PROVE  /\ q.upload \in Uploads /\ q.stored \in 0 .. time'
               /\ q.stored + NonceLife <= nonces'[NonceKey(q.upload)]
    BY <1>4, <1>5, <1>7
  <2>2. ASSUME NEW s \in Requests, Dispatching(s)'
        PROVE  request'[s].stored <= time'
               /\ request'[s].stored + NonceLife <= nonces'[NonceKey(request'[s].upload)]
    <3>1. CASE s = r
      BY <1>2, <1>3, <1>4, <3>1 DEF n
    <3>2. CASE s # r
      <4>1. /\ request'[s] = request[s]
            /\ request[s].stored \in 0 .. time /\ NonceKey(request[s].upload) \in NonceKeys
            /\ request[s].stored + NonceLife <= nonces[NonceKey(request[s].upload)]
        BY <1>6, <2>2, <3>2
      <4>2. request[s].stored + NonceLife <= nonces'[NonceKey(request[s].upload)]
        BY <1>4, <1>5, <4>1
      <4>3. request[s].stored <= time'
        BY <1>4, <4>1
      <4> QED BY <4>1, <4>2, <4>3
    <3> QED BY <3>1, <3>2
  <2> QED BY <2>1, <2>2 DEF NonceInv
<1>9. \A s \in Requests \ {r} : Dispatching(s)' /\ NonceKey(request'[s].upload) = n =>
          time - request'[s].stored >= NonceLife
  <2>1. ASSUME NEW s \in Requests \ {r}, Dispatching(s)', NonceKey(request'[s].upload) = n
        PROVE  time - request'[s].stored >= NonceLife
    <3>1. /\ request'[s] = request[s] /\ request[s].stored \in 0 .. time
          /\ request[s].stored + NonceLife <= nonces[n] /\ n \in NonceKeys
      BY <1>6, <2>1
    <3>2. nonces[n] \in Nat
      BY <1>4, <3>1
    <3> QED BY <1>3, <1>4, <3>1, <3>2
  <2> QED BY <2>1
<1>10. \A q \in queued : NonceKey(q.upload) = n => time - q.stored >= NonceLife
  BY <1>3, <1>4, <1>7
<1>11. ApartInv'
  <2>1. UploadsDispatchedOnce'
    BY DEF ApartInv, UploadsDispatchedOnce
  <2>2. ASSUME NEW s \in Requests, Dispatching(s)', NEW t \in Requests \ {s}, Dispatching(t)',
               NonceKey(request'[t].upload) = NonceKey(request'[s].upload)
        PROVE  LifeApart(request'[s].stored, request'[t].stored)
    <3>1. CASE s # r /\ t # r
      <4>1. Dispatching(s) /\ request'[s] = request[s] /\ Dispatching(t) /\ request'[t] = request[t]
        BY <1>6, <2>2, <3>1
      <4> QED BY <2>2, <4>1 DEF ApartInv
    <3>2. CASE s = r
      BY <1>2, <1>9, <2>2, <3>2 DEF LifeApart, n
    <3>3. CASE t = r
      BY <1>2, <1>9, <2>2, <3>3 DEF LifeApart, n
    <3> QED BY <3>1, <3>2, <3>3
  <2>3. ASSUME NEW s \in Requests, Dispatching(s)', NEW q \in queued',
               NonceKey(q.upload) = NonceKey(request'[s].upload)
        PROVE  LifeApart(request'[s].stored, q.stored)
    <3>1. CASE s # r
      <4>1. Dispatching(s) /\ request'[s] = request[s]
        BY <1>6, <2>3, <3>1
      <4> QED BY <2>3, <4>1 DEF ApartInv
    <3>2. CASE s = r
      BY <1>2, <1>10, <2>3, <3>2 DEF LifeApart, n
    <3> QED BY <3>1, <3>2
  <2> QED BY <2>1, <2>2, <2>3 DEF ApartInv
<1> QED
  BY <1>8, <1>11

(* The broker takes an upload.                                             *)
LEMMA UploadQueued ==
    ASSUME IngestTypes, IngestTypes', NonceInv, ApartInv, NEW r \in Requests, Dispatching(r),
           Queued(r), Ends(r), time' = time, nonces' = nonces
    PROVE  NonceInv' /\ ApartInv'
<1>0. PICK copies \in 1 .. 1 + PublishRetries :
         queued' = queued \cup {[upload |-> request[r].upload, stored |-> request[r].stored,
                                number |-> Cardinality(queued), copies |-> copies]}
  BY DEF Queued
<1> DEFINE new == [upload |-> request[r].upload, stored |-> request[r].stored,
                   number |-> Cardinality(queued), copies |-> copies]
<1>1. queued' = queued \cup {new}
  BY <1>0
<1>2. new.upload = request[r].upload /\ new.stored = request[r].stored
  OBVIOUS
<1>3. request[r] \in Jobs
  BY BusySlots DEF Dispatching
<1> HIDE DEF new
<1>4. \A s \in Requests : Dispatching(s)' => s # r /\ Dispatching(s) /\ request'[s] = request[s]
  BY EndsThere DEF Dispatching
<1>5. new.upload \in Uploads /\ new.stored \in 0 .. time
      /\ new.stored + NonceLife <= nonces[NonceKey(new.upload)]
  BY <1>2, <1>3 DEF NonceInv, Jobs, IngestTypes
<1>6. NonceInv'
  BY <1>1, <1>4, <1>5 DEF NonceInv
<1>7. ApartInv'
  <2>1. ASSUME NEW q \in queued, NonceKey(q.upload) = NonceKey(new.upload)
        PROVE  LifeApart(new.stored, q.stored)
    BY <1>2, <2>1 DEF ApartInv
  <2>2. UploadsDispatchedOnce'
    <3>1. ASSUME NEW a \in queued', NEW b \in queued', a # b, NonceKey(a.upload) = NonceKey(b.upload)
          PROVE  LifeApart(a.stored, b.stored)
      <4>1. CASE a \in queued /\ b \in queued
        BY <3>1, <4>1 DEF ApartInv, UploadsDispatchedOnce, LifeApart
      <4>2. CASE a = new
        BY <1>1, <2>1, <3>1, <4>2
      <4>3. CASE b = new
        BY <1>1, <2>1, <3>1, <4>3 DEF LifeApart
      <4> QED BY <1>1, <4>1, <4>2, <4>3
    <3> QED BY <3>1 DEF UploadsDispatchedOnce, LifeApart
  <2>3. ASSUME NEW s \in Requests, Dispatching(s)'
        PROVE  /\ \A t \in Requests \ {s} :
                     Dispatching(t)' /\ NonceKey(request'[t].upload) = NonceKey(request'[s].upload) =>
                        LifeApart(request'[s].stored, request'[t].stored)
               /\ \A q \in queued' : NonceKey(q.upload) = NonceKey(request'[s].upload) =>
                        LifeApart(request'[s].stored, q.stored)
    <3>1. \A t \in Requests \ {s} :
             Dispatching(t)' /\ NonceKey(request'[t].upload) = NonceKey(request'[s].upload) =>
                LifeApart(request'[s].stored, request'[t].stored)
      BY <1>4, <2>3 DEF ApartInv
    <3>2. ASSUME NEW q \in queued, NonceKey(q.upload) = NonceKey(request'[s].upload)
          PROVE  LifeApart(request'[s].stored, q.stored)
      BY <1>4, <2>3, <3>2 DEF ApartInv
    <3>3. NonceKey(new.upload) = NonceKey(request'[s].upload) => LifeApart(request'[s].stored, new.stored)
      BY <1>2, <1>4, <2>3 DEF ApartInv
    <3> QED BY <1>1, <3>1, <3>2, <3>3
  <2> QED BY <2>2, <2>3 DEF ApartInv
<1> QED
  BY <1>6, <1>7

-----------------------------------------------------------------------------
(* Counting requests that passed the limit.                                *)
LEMMA PassedIsFinite ==
    ASSUME CounterInv, NEW k, NEW from
    PROVE  IsFiniteSet(PassedSince(k, from)) /\ Cardinality(PassedSince(k, from)) \in Nat
BY FS_Subset, FS_CardinalityType DEF CounterInv, PassedSince

LEMMA PassedCounts ==
    ASSUME CounterInv, NEW b \in allowed, time < b.at + Window
    PROVE  Cardinality(PassedSince(b.key, b.at)) <= counter[b.key].count
BY DEF CounterInv

(* A new entry is one more at the most.                                    *)
LEMMA OneMorePassed ==
    ASSUME CounterInv, NEW new, allowed' = allowed \cup {new}, NEW k, NEW from
    PROVE  /\ IsFiniteSet(allowed') /\ IsFiniteSet(PassedSince(k, from)')
           /\ new.key # k => PassedSince(k, from)' = PassedSince(k, from)
           /\ PassedSince(k, from)' \subseteq PassedSince(k, from) \cup {new}
           /\ Cardinality(PassedSince(k, from)') <= Cardinality(PassedSince(k, from)) + 1
<1>1. IsFiniteSet(allowed')
  BY FS_AddElement DEF CounterInv
<1>2. IsFiniteSet(PassedSince(k, from)')
  BY <1>1, FS_Subset DEF PassedSince
<1>3. PassedSince(k, from)' \subseteq PassedSince(k, from) \cup {new}
      /\ (new.key # k => PassedSince(k, from)' = PassedSince(k, from))
  BY DEF PassedSince
<1>4. IsFiniteSet(PassedSince(k, from)) /\ Cardinality(PassedSince(k, from)) \in Nat
  BY PassedIsFinite
<1>5. /\ IsFiniteSet(PassedSince(k, from) \cup {new})
      /\ Cardinality(PassedSince(k, from) \cup {new}) <= Cardinality(PassedSince(k, from)) + 1
  <2>1. /\ IsFiniteSet(PassedSince(k, from) \cup {new})
        /\ \/ Cardinality(PassedSince(k, from) \cup {new}) = Cardinality(PassedSince(k, from))
           \/ Cardinality(PassedSince(k, from) \cup {new}) = Cardinality(PassedSince(k, from)) + 1
    BY <1>4, FS_AddElement
  <2> QED BY <1>4, <2>1
<1>6. /\ Cardinality(PassedSince(k, from)') <= Cardinality(PassedSince(k, from) \cup {new})
      /\ Cardinality(PassedSince(k, from)') \in Nat
      /\ Cardinality(PassedSince(k, from) \cup {new}) \in Nat
  BY <1>2, <1>3, <1>5, FS_Subset, FS_CardinalityType
<1>7. Cardinality(PassedSince(k, from)') <= Cardinality(PassedSince(k, from)) + 1
  BY <1>4, <1>5, <1>6
<1> QED
  BY <1>1, <1>2, <1>3, <1>7

(* Of one entry after another of the same key the second is behind fewer.  *)
LEMMA PassedShrinks ==
    ASSUME CounterInv, NEW k, NEW from \in Nat, NEW to \in Nat, from <= to
    PROVE  Cardinality(PassedSince(k, to)) <= Cardinality(PassedSince(k, from))
<1>1. \A b \in allowed : b.at \in Nat
  BY DEF CounterInv
<1>2. PassedSince(k, to) \subseteq PassedSince(k, from)
  BY <1>1 DEF PassedSince
<1> QED
  BY <1>2, PassedIsFinite, FS_Subset

(* Steps of Redis and the slots that let no request pass the limit.        *)
LEMMA NobodyPasses ==
    ASSUME IngestTypes, IngestTypes', CounterInv, RoomInv, LimitPerWindow, time' >= time,
           allowed' = allowed, counter' = counter,
           \A r \in Requests, k \in Keys : CountsAlone(r, k)' => CountsAlone(r, k)
    PROVE  CounterInv' /\ RoomInv' /\ LimitPerWindow'
<1>1. time \in Nat /\ time' \in Nat /\ Window \in Nat
      /\ \A b \in allowed : b.at \in Nat /\ b.key \in Keys /\ b.at <= time
  BY IngestBounds DEF IngestTypes, CounterInv
<1>2. \A k, from : PassedSince(k, from)' = PassedSince(k, from)
  BY DEF PassedSince
<1>3. \A b \in allowed : time' < b.at + Window => time < b.at + Window
  BY <1>1
<1>4. CounterInv'
  <2>1. \A b \in allowed' : b.key \in Keys /\ b.at \in 0 .. time'
    BY <1>1
  <2>2. \A b \in allowed' : time' < b.at + Window => Cardinality(PassedSince(b.key, b.at)') <= counter'[b.key].count
    BY <1>2, <1>3, PassedCounts
  <2>3. IsFiniteSet(allowed') /\ \A b \in allowed' : b.at + Window <= counter'[b.key].until
    BY DEF CounterInv
  <2> QED BY <2>1, <2>2, <2>3 DEF CounterInv
<1>5. RoomInv'
  <2>1. \A k \in Keys : \A r, s \in Requests : CountsAlone(r, k)' /\ CountsAlone(s, k)' => r = s
    BY DEF RoomInv
  <2>2. ASSUME NEW r \in Requests, NEW b \in allowed', CountsAlone(r, b.key)', time' < b.at + Window
        PROVE  Cardinality(PassedSince(b.key, b.at)') < Limits[b.key[1]]
    <3>1. CountsAlone(r, b.key) /\ time < b.at + Window
      BY <1>1, <1>3, <2>2
    <3> QED BY <1>2, <3>1 DEF RoomInv
  <2> QED BY <2>1, <2>2 DEF RoomInv
<1>6. LimitPerWindow'
  BY DEF LimitPerWindow
<1> QED
  BY <1>4, <1>5, <1>6

(* ReadCounter finds the counter under the limit: what it counts is all    *)
(* that passed in a window that is still open.                             *)
LEMMA CounterRead ==
    ASSUME IngestTypes, IngestTypes', CounterInv, RoomInv, LimitPerWindow,
           time' = time, allowed' = allowed, counter' = counter,
           NEW r \in Requests, request[r].step # "free",
           Count(Key(request[r].upload)) < Limits[request[r].upload.kind],
           request' = [request EXCEPT ![r].step = "count", ![r].raced = Counting(Key(request[r].upload)) # {}]
    PROVE  CounterInv' /\ RoomInv' /\ LimitPerWindow'
<1> DEFINE k == Key(request[r].upload)
<1>1. request[r] \in Jobs /\ request[r].upload \in Uploads /\ k \in Keys
      /\ k[1] = request[r].upload.kind /\ Limits[k[1]] \in Nat
  <2>1. request[r] \in Jobs /\ request[r].upload \in Uploads
    BY BusySlots DEF Jobs
  <2> QED BY <2>1, KeysOfUploads
<1>2. /\ request'[r].step = "count" /\ request'[r].upload = request[r].upload
      /\ request'[r].raced = (Counting(k) # {})
      /\ \A s \in Requests \ {r} : request'[s] = request[s]
  <2>1. request' = [s \in Requests |->
            IF s = r THEN [[request[r] EXCEPT !.step = "count"] EXCEPT !.raced = Counting(k) # {}]
            ELSE request[s]]
    BY DEF IngestTypes
  <2>2. request'[r] = [[request[r] EXCEPT !.step = "count"] EXCEPT !.raced = Counting(k) # {}]
    BY <2>1
  <2>5. request[r] = [f \in {"step", "upload", "raced", "stored"} |-> request[r][f]]
    BY <1>1 DEF Jobs
  <2> HIDE DEF k
  <2>6. request'[r] = [f \in {"step", "upload", "raced", "stored"} |->
            IF f = "raced" THEN Counting(k) # {} ELSE IF f = "step" THEN "count" ELSE request[r][f]]
    BY <2>2, <2>5
  <2>3. request'[r].step = "count" /\ request'[r].upload = request[r].upload
    BY <2>6
  <2>4. request'[r].raced = (Counting(k) # {})
    BY <2>6
  <2> QED BY <2>1, <2>3, <2>4
<1>3. \A s \in Requests, l \in Keys : CountsAlone(s, l)' =>
          CountsAlone(s, l) \/ (s = r /\ l = k /\ Counting(k) = {})
  BY <1>2 DEF CountsAlone, CountsFor
<1> HIDE DEF k
<1>4. Counting(k) = {} => \A s \in Requests : ~CountsFor(s, k)
  BY DEF Counting, CountsFor
<1>5. \A l, from : PassedSince(l, from)' = PassedSince(l, from)
  BY DEF PassedSince
<1>6. CounterInv'
  BY <1>5 DEF CounterInv
<1>7. RoomInv'
  <2>1. ASSUME NEW l \in Keys, NEW s \in Requests, NEW t \in Requests,
               CountsAlone(s, l)', CountsAlone(t, l)'
        PROVE  s = t
    <3>1. CASE CountsAlone(s, l) /\ CountsAlone(t, l)
      BY <3>1 DEF RoomInv
    <3>2. CASE l = k /\ Counting(k) = {}
      <4>1. s = r /\ t = r
        BY <1>3, <1>4, <2>1, <3>2 DEF CountsAlone
      <4> QED BY <4>1
    <3> QED BY <1>3, <2>1, <3>1, <3>2
  <2>2. ASSUME NEW s \in Requests, NEW b \in allowed, CountsAlone(s, b.key)', time < b.at + Window
        PROVE  Cardinality(PassedSince(b.key, b.at)') < Limits[b.key[1]]
    <3>1. b.key \in Keys
      BY DEF CounterInv
    <3>2. CASE CountsAlone(s, b.key)
      BY <1>5, <2>2, <3>2 DEF RoomInv
    <3>3. CASE b.key = k
      <4>1. counter[k].until \in Nat /\ counter[k].count \in Nat /\ b.at \in Nat /\ time \in Nat
        BY <1>1 DEF IngestTypes, CounterInv
      <4>2. b.at + Window <= counter[k].until /\ Cardinality(PassedSince(k, b.at)) <= counter[k].count
        BY <2>2, <3>3, PassedCounts DEF CounterInv
      <4>3. Count(k) = counter[k].count
        BY <2>2, <4>1, <4>2, IngestBounds DEF Count, Live
      <4>4. Count(k) < Limits[k[1]]
        BY <1>1 DEF k
      <4>5. Cardinality(PassedSince(k, b.at)) \in Nat
        BY PassedIsFinite
      <4>6. Cardinality(PassedSince(k, b.at)) < Limits[k[1]]
        BY <1>1, <4>1, <4>2, <4>3, <4>4, <4>5
      <4> QED BY <1>5, <3>3, <4>6
    <3> QED BY <1>3, <2>2, <3>1, <3>2, <3>3
  <2> QED BY <2>1, <2>2 DEF RoomInv
<1>8. LimitPerWindow'
  BY DEF LimitPerWindow
<1> QED
  BY <1>6, <1>7, <1>8

(* The counter is raised and given a new end.                              *)
LEMMA CounterRaised ==
    ASSUME IngestTypes, CounterInv, NEW k \in Keys, Counted(k)
    PROVE  /\ counter'[k].until = time + Window /\ counter'[k].count = Count(k) + 1
           /\ Count(k) \in Nat
           /\ \A l \in Keys \ {k} : counter'[l] = counter[l]
           /\ \A b \in allowed : b.at + Window <= counter'[b.key].until
           /\ \A b \in allowed : b.key = k /\ time < b.at + Window =>
                 Cardinality(PassedSince(k, b.at)) <= Count(k)
<1>1. counter' = [l \in Keys |-> IF l = k THEN [count |-> Count(k) + 1, until |-> time + Window]
                                 ELSE counter[l]]
  BY DEF Counted, IngestTypes
<1>2. counter[k].until \in Nat /\ counter[k].count \in Nat /\ time \in Nat /\ Window \in Nat
  BY IngestBounds DEF IngestTypes
<1>3. Count(k) \in Nat
  BY <1>2 DEF Count
<1>4. counter'[k].until = time + Window /\ counter'[k].count = Count(k) + 1
      /\ \A l \in Keys \ {k} : counter'[l] = counter[l]
  BY <1>1
<1>5. ASSUME NEW b \in allowed
      PROVE  b.at + Window <= counter'[b.key].until
  <2>1. b.key \in Keys /\ b.at \in 0 .. time /\ b.at + Window <= counter[b.key].until
    BY DEF CounterInv
  <2> QED BY <1>2, <1>4, <2>1
<1>6. ASSUME NEW b \in allowed, b.key = k, time < b.at + Window
      PROVE  Cardinality(PassedSince(k, b.at)) <= Count(k)
  <2>1. b.at + Window <= counter[k].until /\ b.at \in 0 .. time
    BY <1>6 DEF CounterInv
  <2>2. Count(k) = counter[k].count
    BY <1>2, <1>6, <2>1 DEF Count, Live
  <2> QED BY <1>6, <2>2, PassedCounts
<1> QED
  BY <1>3, <1>4, <1>5, <1>6

(* It is raised by a request that does not count as having passed alone.   *)
LEMMA RaisedOnly ==
    ASSUME IngestTypes, IngestTypes', CounterInv, RoomInv, LimitPerWindow,
           NEW k \in Keys, Counted(k), time' = time, allowed' = allowed,
           \A r \in Requests, l \in Keys : CountsAlone(r, l)' => CountsAlone(r, l)
    PROVE  CounterInv' /\ RoomInv' /\ LimitPerWindow'
<1>1. \A l, from : PassedSince(l, from)' = PassedSince(l, from)
  BY DEF PassedSince
<1>2. CounterInv'
  <2>1. ASSUME NEW b \in allowed, time < b.at + Window
        PROVE  Cardinality(PassedSince(b.key, b.at)') <= counter'[b.key].count
    <3>1. b.key \in Keys
      BY DEF CounterInv
    <3>2. CASE b.key = k
      <4>1. Cardinality(PassedSince(k, b.at)) \in Nat
        BY PassedIsFinite
      <4> QED BY <1>1, <2>1, <3>2, <4>1, CounterRaised
    <3>3. CASE b.key # k
      BY <1>1, <2>1, <3>1, <3>3, CounterRaised, PassedCounts
    <3> QED BY <3>2, <3>3
  <2>2. \A b \in allowed : b.at + Window <= counter'[b.key].until
    BY CounterRaised
  <2>3. IsFiniteSet(allowed) /\ \A b \in allowed : b.key \in Keys /\ b.at \in 0 .. time
    BY DEF CounterInv
  <2> QED BY <2>1, <2>2, <2>3 DEF CounterInv
<1>3. RoomInv'
  <2>1. \A b \in allowed : b.key \in Keys
    BY DEF CounterInv
  <2> QED BY <1>1, <2>1 DEF RoomInv
<1>4. LimitPerWindow'
  BY DEF LimitPerWindow
<1> QED
  BY <1>2, <1>3, <1>4

(* It is raised by a request that read it alone: nobody else passed in the *)
(* meantime, so there is still room for it in every window.                *)
LEMMA RaisedAlone ==
    ASSUME IngestTypes, IngestTypes', CounterInv, RoomInv, LimitPerWindow,
           NEW r \in Requests, NEW k \in Keys, CountsAlone(r, k), Limits[k[1]] \in Nat \ {0}, Counted(k), time' = time,
           NEW new, new.key = k, new.at = time, allowed' = allowed \cup {new},
           \A s \in Requests, l \in Keys : CountsAlone(s, l)' => s # r /\ CountsAlone(s, l)
    PROVE  CounterInv' /\ RoomInv' /\ LimitPerWindow'
<1>1. time \in Nat /\ Window \in Nat \ {0}
  BY IngestBounds DEF IngestTypes
<1>2. \A l, from : /\ IsFiniteSet(allowed') /\ IsFiniteSet(PassedSince(l, from)')
                   /\ l # k => PassedSince(l, from)' = PassedSince(l, from)
                   /\ Cardinality(PassedSince(l, from)') <= Cardinality(PassedSince(l, from)) + 1
                   /\ PassedSince(l, from)' \subseteq PassedSince(l, from) \cup {new}
  <2> TAKE l, from
  <2>1. /\ IsFiniteSet(allowed') /\ IsFiniteSet(PassedSince(l, from)')
        /\ new.key # l => PassedSince(l, from)' = PassedSince(l, from)
        /\ PassedSince(l, from)' \subseteq PassedSince(l, from) \cup {new}
        /\ Cardinality(PassedSince(l, from)') <= Cardinality(PassedSince(l, from)) + 1
    BY OneMorePassed
  <2> QED BY <2>1
<1>3. \A l, from : /\ Cardinality(PassedSince(l, from)') \in Nat
                   /\ Cardinality(PassedSince(l, from)) \in Nat
  BY <1>2, PassedIsFinite, FS_CardinalityType
<1>4. \A b \in allowed : b.key \in Keys /\ b.at \in Nat /\ b.at <= time
  BY <1>1 DEF CounterInv
<1>5. \A b \in allowed : b.key = k /\ time < b.at + Window =>
          /\ Cardinality(PassedSince(k, b.at)) < Limits[k[1]]
          /\ Cardinality(PassedSince(k, b.at)) <= Count(k)
  BY CounterRaised DEF RoomInv
(* Behind the new entry there are those of the same time, if any.          *)
<1>6. /\ Cardinality(PassedSince(k, time)') <= Limits[k[1]]
      /\ Cardinality(PassedSince(k, time)') <= Count(k) + 1
  <2>1. CASE PassedSince(k, time) = {}
    <3>1. PassedSince(k, time)' \subseteq {new}
      BY <1>2, <2>1
    <3>2. Cardinality(PassedSince(k, time)') <= 1
      <4>1. IsFiniteSet({new}) /\ Cardinality({new}) = 1
        BY FS_Singleton
      <4>2. Cardinality(PassedSince(k, time)') <= Cardinality({new})
        BY <3>1, <4>1, FS_Subset
      <4> QED BY <4>1, <4>2
    <3>3. Count(k) \in Nat
      BY CounterRaised
    <3> QED BY <1>3, <3>2, <3>3
  <2>2. CASE PassedSince(k, time) # {}
    <3>1. PICK b \in allowed : b.key = k /\ b.at >= time
      BY <2>2 DEF PassedSince
    <3>2. b.at = time
      BY <1>1, <1>4, <3>1
    <3>3. /\ Cardinality(PassedSince(k, time)) < Limits[k[1]]
          /\ Cardinality(PassedSince(k, time)) <= Count(k)
      BY <1>1, <1>5, <3>1, <3>2
    <3>4. Cardinality(PassedSince(k, time)') <= Cardinality(PassedSince(k, time)) + 1
      BY <1>2
    <3>5. Count(k) \in Nat
      BY CounterRaised
    <3> QED BY <1>3, <3>3, <3>4, <3>5
  <2> QED BY <2>1, <2>2
<1>7. ASSUME NEW b \in allowed', time < b.at + Window
      PROVE  /\ Cardinality(PassedSince(b.key, b.at)') <= counter'[b.key].count
             /\ b.key = k => Cardinality(PassedSince(b.key, b.at)') <= Limits[k[1]]
  <2>1. counter'[k].count = Count(k) + 1 /\ Count(k) \in Nat
        /\ \A l \in Keys \ {k} : counter'[l] = counter[l]
    BY CounterRaised
  <2>2. CASE b = new
    BY <1>6, <2>1, <2>2
  <2>3. CASE b \in allowed /\ b.key = k
    <3>1. Cardinality(PassedSince(k, b.at)') <= Cardinality(PassedSince(k, b.at)) + 1
          /\ Cardinality(PassedSince(k, b.at)') \in Nat /\ Cardinality(PassedSince(k, b.at)) \in Nat
      BY <1>2, <1>3
    <3>2. Cardinality(PassedSince(k, b.at)) < Limits[k[1]]
          /\ Cardinality(PassedSince(k, b.at)) <= Count(k)
      BY <1>5, <1>7, <2>3
    <3> QED BY <2>1, <2>3, <3>1, <3>2
  <2>4. CASE b \in allowed /\ b.key # k
    <3>1. Cardinality(PassedSince(b.key, b.at)) <= counter[b.key].count
      BY <1>7, <2>4, PassedCounts
    <3> QED BY <1>2, <1>4, <2>1, <2>4, <3>1
  <2> QED BY <2>2, <2>3, <2>4
<1>8. CounterInv'
  <2>1. \A b \in allowed' : b.key \in Keys /\ b.at \in 0 .. time
    BY <1>1, <1>4
  <2>2. \A b \in allowed' : b.at + Window <= counter'[b.key].until
    BY <1>1, CounterRaised
  <2> QED BY <1>2, <1>7, <2>1, <2>2 DEF CounterInv
<1>9. RoomInv'
  <2>1. \A s \in Requests : ~CountsAlone(s, k)'
    BY DEF RoomInv
  <2>2. ASSUME NEW s \in Requests, NEW b \in allowed', CountsAlone(s, b.key)', time < b.at + Window
        PROVE  Cardinality(PassedSince(b.key, b.at)') < Limits[b.key[1]]
    <3>1. b \in allowed /\ b.key # k /\ b.key \in Keys
      BY <1>4, <2>1, <2>2
    <3> QED BY <1>2, <2>2, <3>1 DEF RoomInv
  <2>3. \A l \in Keys : \A s, t \in Requests : CountsAlone(s, l)' /\ CountsAlone(t, l)' => s = t
    BY DEF RoomInv
  <2> QED BY <2>2, <2>3 DEF RoomInv
<1>10. LimitPerWindow'
  <2>1. SUFFICES ASSUME NEW a \in allowed'
                 PROVE  Cardinality({b \in allowed' : b.key = a.key /\ b.at \in a.at .. a.at + Window - 1})
                            <= Limits[a.key[1]]
    BY DEF LimitPerWindow
  <2> DEFINE Within == {b \in allowed' : b.key = a.key /\ b.at \in a.at .. a.at + Window - 1}
  <2>2. CASE time < a.at + Window /\ a.key = k
    <3>1. Within \subseteq PassedSince(k, a.at)'
      BY <1>1, <1>4, <2>2 DEF PassedSince
    <3>2. Cardinality(Within) <= Cardinality(PassedSince(k, a.at)') /\ Cardinality(Within) \in Nat
      BY <1>2, <3>1, FS_Subset, FS_CardinalityType
    <3>3. Cardinality(PassedSince(k, a.at)') <= Limits[k[1]]
      BY <1>7, <2>2
    <3> QED BY <1>3, <2>2, <3>2, <3>3
  <2>3. CASE ~(time < a.at + Window /\ a.key = k)
    <3>1. a \in allowed /\ new \notin Within
      BY <1>1, <1>4, <2>3
    <3>2. Within = {b \in allowed : b.key = a.key /\ b.at \in a.at .. a.at + Window - 1}
      BY <3>1
    <3> QED BY <3>1, <3>2 DEF LimitPerWindow
  <2> QED BY <2>2, <2>3
<1> QED
  BY <1>8, <1>9, <1>10

-----------------------------------------------------------------------------
LEMMA GateInvInit == IngestInit => GateInv
<1> SUFFICES ASSUME IngestInit
             PROVE  GateInv
  OBVIOUS
<1>1. time = 0 /\ queued = {} /\ allowed = {}
      /\ counter = [k \in Keys |-> [count |-> 0, until |-> 0]]
      /\ nonces = [n \in NonceKeys |-> 0] /\ request = [r \in Requests |-> Free]
  BY DEF IngestInit
<1>2. \A r \in Requests : request[r].step = "free"
  BY <1>1 DEF Free
<1>3. IngestTypes
  BY <1>1 DEF IngestTypes
<1>4. NonceInv /\ ApartInv
  BY <1>1, <1>2 DEF NonceInv, ApartInv, Dispatching, UploadsDispatchedOnce
<1>5. CounterInv /\ RoomInv /\ LimitPerWindow
  BY <1>1, <1>2, FS_EmptySet DEF CounterInv, RoomInv, CountsAlone, CountsFor, LimitPerWindow
<1> QED
  BY <1>3, <1>4, <1>5 DEF GateInv

(* The types of the tables and the slots.                                  *)
LEMMA RedisTypes ==
    ASSUME IngestTypes
    PROVE  /\ \A k \in Keys : Counted(k) => counter' \in [Keys -> [count : Nat, until : Nat]]
           /\ \A n : Stored(n) => nonces' \in [NonceKeys -> Nat]
<1>1. time \in Nat /\ Window \in Nat /\ NonceLife \in Nat
  BY IngestBounds DEF IngestTypes
<1>2. ASSUME NEW k \in Keys, Counted(k)
      PROVE  counter' \in [Keys -> [count : Nat, until : Nat]]
  <2>1. Count(k) \in Nat
    BY DEF Count, IngestTypes
  <2>2. [count |-> Count(k) + 1, until |-> time + Window] \in [count : Nat, until : Nat]
    BY <1>1, <2>1
  <2> QED BY <1>2, <2>2 DEF Counted, IngestTypes
<1>3. ASSUME NEW n, Stored(n)
      PROVE  nonces' \in [NonceKeys -> Nat]
  <2>1. nonces' = [m \in NonceKeys |-> IF m = n THEN time + NonceLife ELSE nonces[m]]
    BY <1>3 DEF Stored, IngestTypes
  <2>2. time + NonceLife \in Nat /\ \A m \in NonceKeys : nonces[m] \in Nat
    BY <1>1 DEF IngestTypes
  <2> QED BY <2>1, <2>2
<1> QED
  BY <1>2, <1>3

LEMMA ReceiveUploadKeeps ==
    ASSUME GateInv, NEW r \in Requests, NEW u \in Uploads, ReceiveUpload(r, u)
    PROVE  GateInv'
<1> DEFINE new == [step |-> "limit", upload |-> u, raced |-> FALSE, stored |-> 0]
<1>1. request' = [request EXCEPT ![r] = new] /\ UNCHANGED <<time, counter, nonces, queued, allowed>>
  BY DEF ReceiveUpload, redis
<1>2. new \in Jobs /\ new.step = "limit"
  BY DEF Jobs
<1> HIDE DEF new
<1>3. request' = [s \in Requests |-> IF s = r THEN new ELSE request[s]]
  BY <1>1 DEF GateInv, IngestTypes
<1>4. IngestTypes'
  BY <1>1, <1>2, <1>3 DEF GateInv, IngestTypes
<1>5. \A s \in Requests : Dispatching(s)' => request'[s] = request[s]
  BY <1>2, <1>3 DEF Dispatching
<1>6. \A s \in Requests, k \in Keys : CountsAlone(s, k)' => CountsAlone(s, k)
  BY <1>2, <1>3 DEF CountsAlone, CountsFor
<1>7. \A n \in NonceKeys : nonces'[n] >= nonces[n]
  BY <1>1 DEF GateInv, IngestTypes
<1>8. time' >= time
  BY <1>1 DEF GateInv, IngestTypes
<1>9. NonceInv' /\ ApartInv'
  BY <1>1, <1>4, <1>5, <1>7, <1>8, NothingAccepted DEF GateInv
<1>10. CounterInv' /\ RoomInv' /\ LimitPerWindow'
  BY <1>1, <1>4, <1>6, <1>8, NobodyPasses DEF GateInv
<1> QED
  BY <1>4, <1>9, <1>10 DEF GateInv

(* A slot goes on or ends, and nothing else happens.                       *)
LEMMA SlotMoves ==
    ASSUME GateInv, NEW r \in Requests, request[r].step # "free",
           Ends(r) \/ Goes(r, "check") \/ Goes(r, "nonce"), UNCHANGED <<time, counter, nonces, queued, allowed>>
    PROVE  GateInv'
<1>1. /\ request' \in [Requests -> {Free} \cup Jobs]
      /\ request'[r].step \in {"free", "check", "nonce"}
      /\ \A s \in Requests \ {r} : request'[s] = request[s]
  BY EndsThere, GoesOn DEF GateInv
<1>2. IngestTypes'
  BY <1>1 DEF GateInv, IngestTypes
<1>3. \A s \in Requests : Dispatching(s)' => request'[s] = request[s]
  BY <1>1 DEF Dispatching
<1>4. \A s \in Requests, k \in Keys : CountsAlone(s, k)' => CountsAlone(s, k)
  BY <1>1 DEF CountsAlone, CountsFor
<1>5. time' >= time /\ \A n \in NonceKeys : nonces'[n] >= nonces[n]
  BY DEF GateInv, IngestTypes
<1>6. NonceInv' /\ ApartInv'
  BY <1>2, <1>3, <1>5, NothingAccepted DEF GateInv
<1>7. CounterInv' /\ RoomInv' /\ LimitPerWindow'
  BY <1>2, <1>4, <1>5, NobodyPasses DEF GateInv
<1> QED
  BY <1>2, <1>6, <1>7 DEF GateInv

LEMMA ReadCounterKeeps ==
    ASSUME GateInv, NEW r \in Requests, ReadCounter(r)
    PROVE  GateInv'
<1>1. request[r].step = "limit" /\ UNCHANGED <<time, counter, nonces, queued, allowed>>
  BY DEF ReadCounter, redis
<1>2. CASE Count(Key(request[r].upload)) >= Limits[request[r].upload.kind]
  BY <1>1, <1>2, SlotMoves DEF ReadCounter
<1>3. CASE ~(Count(Key(request[r].upload)) >= Limits[request[r].upload.kind])
  <2> DEFINE raced == Counting(Key(request[r].upload)) # {}
  <2>1. request' = [request EXCEPT ![r].step = "count", ![r].raced = raced]
    BY <1>3 DEF ReadCounter
  <2>2. request[r] \in Jobs
    BY <1>1, BusySlots DEF GateInv
  <2>3. Count(Key(request[r].upload)) < Limits[request[r].upload.kind]
    <3>1. Key(request[r].upload) \in Keys /\ Limits[request[r].upload.kind] \in Nat
      BY <2>2, KeysOfUploads, IngestAssumption DEF Jobs
    <3>2. Count(Key(request[r].upload)) \in Nat
      BY <3>1 DEF Count, GateInv, IngestTypes
    <3> QED BY <1>3, <3>1, <3>2
  <2>4. request' = [s \in Requests |-> IF s = r THEN [[request[r] EXCEPT !.step = "count"] EXCEPT !.raced = raced]
                                       ELSE request[s]]
    BY <2>1 DEF GateInv, IngestTypes
  <2>5. raced \in BOOLEAN
    OBVIOUS
  <2> HIDE DEF raced
  <2>6. /\ [[request[r] EXCEPT !.step = "count"] EXCEPT !.raced = raced] \in Jobs
        /\ [[request[r] EXCEPT !.step = "count"] EXCEPT !.raced = raced].step = "count"
    BY <2>2, <2>5 DEF Jobs
  <2>7. IngestTypes'
    BY <1>1, <2>4, <2>6 DEF GateInv, IngestTypes
  <2>8. \A s \in Requests : Dispatching(s)' => request'[s] = request[s]
    BY <2>4, <2>6 DEF Dispatching
  <2>9. time' >= time /\ \A n \in NonceKeys : nonces'[n] >= nonces[n]
    BY <1>1 DEF GateInv, IngestTypes
  <2>10. NonceInv' /\ ApartInv'
    BY <1>1, <2>7, <2>8, <2>9, NothingAccepted DEF GateInv
  <2>11. CounterInv' /\ RoomInv' /\ LimitPerWindow'
    BY <1>1, <2>1, <2>3, <2>7, CounterRead DEF GateInv, raced
  <2> QED BY <2>7, <2>10, <2>11 DEF GateInv
<1> QED
  BY <1>2, <1>3

LEMMA IncrementCounterKeeps ==
    ASSUME GateInv, NEW r \in Requests, IncrementCounter(r)
    PROVE  GateInv'
<1> DEFINE k == Key(request[r].upload)
           new == [key |-> k, at |-> time, number |-> Cardinality(allowed)]
<1>1. /\ request[r].step = "count" /\ Counted(k) /\ Goes(r, "check")
      /\ allowed' = (IF request[r].raced THEN allowed ELSE allowed \cup {new})
      /\ UNCHANGED <<time, nonces, queued>>
  BY DEF IncrementCounter
<1>2. request[r] \in Jobs /\ k \in Keys /\ Limits[k[1]] \in Nat \ {0}
  BY <1>1, BusySlots, KeysOfUploads DEF GateInv, Jobs
<1>3. CountsFor(r, k) /\ new.key = k /\ new.at = time
  BY <1>1 DEF CountsFor
<1> HIDE DEF k, new
<1>4. /\ request' \in [Requests -> {Free} \cup Jobs] /\ request'[r].step = "check"
      /\ \A s \in Requests \ {r} : request'[s] = request[s]
  BY <1>1, GoesOn DEF GateInv
<1>5. counter' \in [Keys -> [count : Nat, until : Nat]]
  BY <1>1, <1>2, RedisTypes DEF GateInv
<1>6. IngestTypes'
  BY <1>1, <1>4, <1>5 DEF GateInv, IngestTypes
<1>7. \A s \in Requests : Dispatching(s)' => request'[s] = request[s]
  BY <1>4 DEF Dispatching
<1>8. \A s \in Requests, l \in Keys : CountsAlone(s, l)' => s # r /\ CountsAlone(s, l)
  BY <1>4 DEF CountsAlone, CountsFor
<1>9. time' >= time /\ \A n \in NonceKeys : nonces'[n] >= nonces[n]
  BY <1>1 DEF GateInv, IngestTypes
<1>10. NonceInv' /\ ApartInv'
  BY <1>1, <1>6, <1>7, <1>9, NothingAccepted DEF GateInv
<1>11. CounterInv' /\ RoomInv' /\ LimitPerWindow'
  <2>1. CASE request[r].raced
    <3>1. allowed' = allowed
      BY <1>1, <2>1
    <3> QED BY <1>1, <1>2, <1>6, <1>8, <3>1, RaisedOnly DEF GateInv
  <2>2. CASE ~request[r].raced
    <3>1. allowed' = allowed \cup {new} /\ CountsAlone(r, k)
      BY <1>1, <1>3, <2>2 DEF CountsAlone
    <3> QED BY <1>1, <1>2, <1>3, <1>6, <1>8, <3>1, RaisedAlone DEF GateInv
  <2> QED BY <2>1, <2>2
<1> QED
  BY <1>6, <1>10, <1>11 DEF GateInv

LEMMA GateNonceKeeps ==
    ASSUME GateInv, NEW r \in Requests, StoreNonce(r)
    PROVE  GateInv'
<1> DEFINE n == NonceKey(request[r].upload)
<1>1. request[r].step = "nonce" /\ UNCHANGED <<time, counter, queued, allowed>>
  BY DEF StoreNonce
<1>2. CASE time < nonces[n]
  BY <1>1, <1>2, SlotMoves DEF StoreNonce, Live
<1>3. CASE ~(time < nonces[n])
  <2>1. Stored(n) /\ request' = [request EXCEPT ![r].step = "dispatch", ![r].stored = time]
    BY <1>3 DEF StoreNonce, Live
  <2>2. request[r] \in Jobs /\ time \in Nat
    BY <1>1, BusySlots DEF GateInv, IngestTypes
  <2>3. request' = [s \in Requests |-> IF s = r THEN [[request[r] EXCEPT !.step = "dispatch"] EXCEPT !.stored = time]
                                       ELSE request[s]]
    BY <2>1 DEF GateInv, IngestTypes
  <2>4. /\ [[request[r] EXCEPT !.step = "dispatch"] EXCEPT !.stored = time] \in Jobs
        /\ [[request[r] EXCEPT !.step = "dispatch"] EXCEPT !.stored = time].step = "dispatch"
    BY <2>2 DEF Jobs
  <2>5. nonces' \in [NonceKeys -> Nat]
    BY <2>1, RedisTypes DEF GateInv
  <2>6. IngestTypes'
    BY <1>1, <2>3, <2>4, <2>5 DEF GateInv, IngestTypes
  <2>7. NonceInv' /\ ApartInv'
    BY <1>1, <1>3, <2>1, <2>6, NonceAccepted DEF GateInv, Live
  <2>8. \A s \in Requests, k \in Keys : CountsAlone(s, k)' => CountsAlone(s, k)
    BY <2>3, <2>4 DEF CountsAlone, CountsFor
  <2>9. time' >= time
    BY <1>1, <2>2
  <2>10. CounterInv' /\ RoomInv' /\ LimitPerWindow'
    BY <1>1, <2>6, <2>8, <2>9, NobodyPasses DEF GateInv
  <2> QED BY <2>6, <2>7, <2>10 DEF GateInv
<1> QED
  BY <1>2, <1>3

LEMMA FailsKeeps ==
    ASSUME GateInv, NEW r \in Requests, Fails(r)
    PROVE  GateInv'
<1> DEFINE n == NonceKey(request[r].upload)
           k == Key(request[r].upload)
<1>1. /\ request[r].step # "free" /\ Ends(r)
      /\ nonces' = nonces \/ (~Live(nonces[n]) /\ Stored(n))
      /\ counter' = counter \/ Counted(k)
      /\ UNCHANGED <<time, queued, allowed>>
  BY DEF Fails
<1>2. request[r] \in Jobs /\ n \in NonceKeys /\ k \in Keys
  BY <1>1, BusySlots, KeysOfUploads DEF GateInv, Jobs
<1> HIDE DEF n, k
<1>3. /\ request' \in [Requests -> {Free} \cup Jobs] /\ request'[r].step = "free"
      /\ \A s \in Requests \ {r} : request'[s] = request[s]
  BY <1>1, EndsThere DEF GateInv
<1>4. nonces' \in [NonceKeys -> Nat] /\ counter' \in [Keys -> [count : Nat, until : Nat]]
  <2>1. nonces \in [NonceKeys -> Nat] /\ counter \in [Keys -> [count : Nat, until : Nat]]
    BY DEF GateInv, IngestTypes
  <2>2. Stored(n) => nonces' \in [NonceKeys -> Nat]
    BY RedisTypes DEF GateInv
  <2>3. Counted(k) => counter' \in [Keys -> [count : Nat, until : Nat]]
    BY <1>2, RedisTypes DEF GateInv
  <2> QED BY <1>1, <2>1, <2>2, <2>3
<1>5. IngestTypes'
  BY <1>1, <1>3, <1>4 DEF GateInv, IngestTypes
<1>6. \A s \in Requests : Dispatching(s)' => request'[s] = request[s]
  BY <1>3 DEF Dispatching
<1>7. \A s \in Requests, l \in Keys : CountsAlone(s, l)' => CountsAlone(s, l)
  BY <1>3 DEF CountsAlone, CountsFor
<1>8. time' >= time
  BY <1>1 DEF GateInv, IngestTypes
<1>9. \A m \in NonceKeys : nonces'[m] >= nonces[m]
  <2>1. time \in Nat /\ NonceLife \in Nat /\ nonces \in [NonceKeys -> Nat]
    BY IngestBounds DEF GateInv, IngestTypes
  <2>2. CASE nonces' = nonces
    BY <2>1, <2>2
  <2>3. CASE ~Live(nonces[n]) /\ Stored(n)
    <3>1. nonces[n] <= time /\ nonces' = [nonces EXCEPT ![n] = time + NonceLife]
      BY <1>2, <2>1, <2>3 DEF Live, Stored
    <3> QED BY <1>2, <2>1, <3>1
  <2> QED BY <1>1, <2>2, <2>3
<1>10. NonceInv' /\ ApartInv'
  BY <1>1, <1>5, <1>6, <1>8, <1>9, NothingAccepted DEF GateInv
<1>11. CounterInv' /\ RoomInv' /\ LimitPerWindow'
  <2>1. CASE counter' = counter
    BY <1>1, <1>5, <1>7, <1>8, <2>1, NobodyPasses DEF GateInv
  <2>2. CASE Counted(k)
    BY <1>1, <1>2, <1>5, <1>7, <2>2, RaisedOnly DEF GateInv
  <2> QED BY <1>1, <2>1, <2>2
<1> QED
  BY <1>5, <1>10, <1>11 DEF GateInv

(* send_task returns, or raises with the message sent or not.              *)
LEMMA DispatchKeeps ==
    ASSUME GateInv, NEW r \in Requests, SendTask(r) \/ SendTaskFails(r)
    PROVE  GateInv'
<1>1. /\ request[r].step = "dispatch" /\ Ends(r)
      /\ Queued(r) \/ queued' = queued
      /\ UNCHANGED <<time, counter, nonces, allowed>>
  BY DEF SendTask, SendTaskFails, redis
<1>2. CASE queued' = queued
  BY <1>1, <1>2, SlotMoves
<1>3. CASE Queued(r)
  <2>1. /\ request' \in [Requests -> {Free} \cup Jobs] /\ request'[r].step = "free"
        /\ \A s \in Requests \ {r} : request'[s] = request[s]
    BY <1>1, EndsThere DEF GateInv
  <2>2. IngestTypes'
    BY <1>1, <2>1 DEF GateInv, IngestTypes
  <2>3. NonceInv' /\ ApartInv'
    BY <1>1, <1>3, <2>2, UploadQueued DEF GateInv, Dispatching
  <2>4. \A s \in Requests, k \in Keys : CountsAlone(s, k)' => CountsAlone(s, k)
    BY <2>1 DEF CountsAlone, CountsFor
  <2>5. time' >= time
    BY <1>1 DEF GateInv, IngestTypes
  <2>6. CounterInv' /\ RoomInv' /\ LimitPerWindow'
    BY <1>1, <2>2, <2>4, <2>5, NobodyPasses DEF GateInv
  <2> QED BY <2>2, <2>3, <2>6 DEF GateInv
<1> QED
  BY <1>1, <1>2, <1>3

LEMMA PassKeeps ==
    ASSUME GateInv, Pass \/ UNCHANGED ingestVars
    PROVE  GateInv'
<1>1. /\ time' = time + 1 \/ time' = time
      /\ UNCHANGED <<counter, nonces, request, queued, allowed>>
  BY DEF Pass, redis, ingestVars
<1>2. IngestTypes'
  BY <1>1 DEF GateInv, IngestTypes
<1>3. time' >= time /\ \A n \in NonceKeys : nonces'[n] >= nonces[n]
  BY <1>1 DEF GateInv, IngestTypes
<1>4. \A s \in Requests, k \in Keys : CountsAlone(s, k)' => CountsAlone(s, k)
  BY <1>1 DEF CountsAlone, CountsFor
<1>5. NonceInv' /\ ApartInv'
  BY <1>1, <1>2, <1>3, NothingAccepted DEF GateInv
<1>6. CounterInv' /\ RoomInv' /\ LimitPerWindow'
  BY <1>1, <1>2, <1>3, <1>4, NobodyPasses DEF GateInv
<1> QED
  BY <1>2, <1>5, <1>6 DEF GateInv

LEMMA GateInvNext == GateInv /\ [IngestNext]_ingestVars => GateInv'
<1> SUFFICES ASSUME GateInv, [IngestNext]_ingestVars
             PROVE  GateInv'
  OBVIOUS
<1>1. ASSUME NEW r \in Requests, Check(r)
      PROVE  GateInv'
  <2>1. /\ request[r].step = "check" /\ UNCHANGED <<time, counter, nonces, queued, allowed>>
        /\ Ends(r) \/ Goes(r, "nonce")
    BY <1>1 DEF Check, redis
  <2> QED BY <2>1, SlotMoves
<1>2. ASSUME NEW r \in Requests, ReadCounter(r) \/ IncrementCounter(r)
      PROVE  GateInv'
  BY <1>2, ReadCounterKeeps, IncrementCounterKeeps
<1>6. ASSUME NEW r \in Requests, StoreNonce(r)
      PROVE  GateInv'
  BY <1>6, GateNonceKeeps
<1>7. ASSUME NEW r \in Requests, Fails(r)
      PROVE  GateInv'
  BY <1>7, FailsKeeps
<1>3. ASSUME NEW r \in Requests, SendTask(r) \/ SendTaskFails(r)
      PROVE  GateInv'
  BY <1>3, DispatchKeeps
<1>4. ASSUME NEW r \in Requests, NEW u \in Uploads, ReceiveUpload(r, u)
      PROVE  GateInv'
  BY <1>4, ReceiveUploadKeeps
<1>5. CASE Pass \/ UNCHANGED ingestVars
  BY <1>5, PassKeeps
<1> QED
  BY <1>1, <1>2, <1>3, <1>4, <1>5, <1>6, <1>7 DEF IngestNext

(* The nonces and counters in Redis keep what they promise, with any       *)
(* number of requests side by side and after errors at any call: no nonce  *)
(* is dispatched twice within its life, and no window holds more requests  *)
(* than the limit besides those that read the counter together.            *)
THEOREM GateHoldsAlways == IngestSpec => []GateHolds
<1>1. GateInv => GateHolds
  BY DEF GateInv, ApartInv, GateHolds
<1> QED
  BY <1>1, GateInvInit, GateInvNext, PTL DEF IngestSpec

-----------------------------------------------------------------------------
(* The live feed.                                                          *)
RoundFields == {"topic", "audience", "todo", "at", "dead", "mixed", "own"}

FeedTypes ==
    /\ log \in Seq(Topics) /\ handed \in 0 .. Len(log)
    /\ bridge \in {"listening", "sending", "ended"}
    /\ queue \in [Streams -> Seq(Nat)] /\ got \in [Streams \cup Dashboards -> Seq(Nat)]
    /\ stream \in [Streams -> {"new", "waiting", "open", "gone", "leaked"}]
    /\ dashboard \in [Dashboards -> {"new", "open", "lost", "gone"}]
    /\ subscribers \in [Topics -> SUBSET Dashboards]
    /\ since \in [Streams -> Nat]
    /\ round = [f \in RoundFields |-> round[f]] /\ round.audience \subseteq Dashboards

(* The numbers a stream was sent since it came: its events and no others,  *)
(* each once and in order.                                                 *)
Sees(sent, s) ==
    /\ Range(sent) = {e \in since[s] + 1 .. handed : log[e] = Watches[s]}
    /\ \A i, j \in DOMAIN sent : i < j => sent[i] < sent[j]

Attends(s) == stream[s] \in {"waiting", "open"}

StreamInv ==
    \A s \in Streams :
        /\ stream[s] = "new" => got[s] = <<>> /\ queue[s] = <<>>
        /\ Attends(s) /\ s \notin dropped => since[s] <= handed /\ Sees(got[s] \o queue[s], s)

(* Who is in no round yet has no socket; and a round that nobody disturbed *)
(* owes the event only to dashboards that it will still get to.            *)
Received(d) == handed \in Range(got[d])

RoundInv ==
    /\ \A t \in Topics : \A d \in subscribers[t] : dashboard[d] # "new"
    /\ \A d \in round.audience : dashboard[d] # "new"
    /\ bridge # "sending" => round.at = {}
    /\ bridge = "sending" /\ ~round.mixed =>
          /\ round.topic \in Topics /\ round.own /\ subscribers[round.topic] = round.audience
          /\ \A d \in round.audience : dashboard[d] = "open" => d \in round.todo \/ d \in round.at \/ Received(d)
    /\ bridge = "listening" /\ ~round.mixed =>
          \A d \in round.audience : dashboard[d] = "open" => Received(d)

FeedInv == FeedTypes /\ StreamInv /\ RoundInv

LEMMA SentOneMore ==
    ASSUME NEW g \in Seq(Nat), NEW q \in Seq(Nat), NEW e \in Nat
    PROVE  \E m \in Nat :
              /\ DOMAIN (g \o q) = 1 .. m /\ DOMAIN (g \o Append(q, e)) = 1 .. m + 1
              /\ \A i \in 1 .. m : (g \o Append(q, e))[i] = (g \o q)[i]
              /\ (g \o Append(q, e))[m + 1] = e
<1> DEFINE r == Append(q, e)
<1>1. r \in Seq(Nat) /\ Len(r) = Len(q) + 1 /\ (\A i \in 1 .. Len(q) : r[i] = q[i]) /\ r[Len(q) + 1] = e
      /\ Len(g) \in Nat /\ Len(q) \in Nat
  BY AppendProperties
<1> HIDE DEF r
<1>2. /\ g \o q \in Seq(Nat) /\ Len(g \o q) = Len(g) + Len(q)
      /\ \A i \in 1 .. Len(g) + Len(q) : (g \o q)[i] = IF i <= Len(g) THEN g[i] ELSE q[i - Len(g)]
  BY ConcatProperties
<1>3. /\ g \o r \in Seq(Nat) /\ Len(g \o r) = Len(g) + Len(r)
      /\ \A i \in 1 .. Len(g) + Len(r) : (g \o r)[i] = IF i <= Len(g) THEN g[i] ELSE r[i - Len(g)]
  BY <1>1, ConcatProperties
<1>4. DOMAIN (g \o q) = 1 .. Len(g) + Len(q) /\ DOMAIN (g \o r) = 1 .. Len(g) + Len(q) + 1
  BY <1>1, <1>2, <1>3, LenProperties
<1>5. \A i \in 1 .. Len(g) + Len(q) : (g \o r)[i] = (g \o q)[i]
  <2>1. ASSUME NEW i \in 1 .. Len(g) + Len(q)
        PROVE  (g \o r)[i] = (g \o q)[i]
    <3>1. i \in 1 .. Len(g) + Len(r) /\ (i <= Len(g) \/ i - Len(g) \in 1 .. Len(q))
      BY <1>1
    <3> QED BY <1>1, <1>2, <1>3, <3>1
  <2> QED BY <2>1
<1>6. (g \o r)[Len(g) + Len(q) + 1] = e
  BY <1>1, <1>3
<1>7. Len(g) + Len(q) \in Nat
  BY <1>1
<1> QED
  BY <1>4, <1>5, <1>6, <1>7 DEF r

LEMMA TakenFromQueue ==
    ASSUME NEW g \in Seq(Nat), NEW q \in Seq(Nat), q # <<>>
    PROVE  /\ Append(g, Head(q)) \in Seq(Nat) /\ Tail(q) \in Seq(Nat)
           /\ Append(g, Head(q)) \o Tail(q) = g \o q
<1> DEFINE h == Append(g, Head(q))
           t == Tail(q)
<1>1. Len(q) \in Nat \ {0} /\ Head(q) \in Nat /\ Head(q) = q[1] /\ t \in Seq(Nat)
      /\ Len(t) = Len(q) - 1 /\ \A i \in 1 .. Len(t) : t[i] = q[i + 1]
  BY HeadTailProperties
<1>2. h \in Seq(Nat) /\ Len(h) = Len(g) + 1 /\ (\A i \in 1 .. Len(g) : h[i] = g[i]) /\ h[Len(g) + 1] = q[1]
      /\ Len(g) \in Nat
  BY <1>1, AppendProperties
<1> HIDE DEF h, t
<1>3. /\ g \o q \in Seq(Nat) /\ Len(g \o q) = Len(g) + Len(q)
      /\ \A i \in 1 .. Len(g) + Len(q) : (g \o q)[i] = IF i <= Len(g) THEN g[i] ELSE q[i - Len(g)]
  BY ConcatProperties
<1>4. /\ h \o t \in Seq(Nat) /\ Len(h \o t) = Len(h) + Len(t)
      /\ \A i \in 1 .. Len(h) + Len(t) : (h \o t)[i] = IF i <= Len(h) THEN h[i] ELSE t[i - Len(h)]
  BY <1>1, <1>2, ConcatProperties, ZenonT(60)
<1>5. ASSUME NEW i \in 1 .. Len(g) + Len(q)
      PROVE  (h \o t)[i] = (g \o q)[i]
  <2>1. i \in 1 .. Len(h) + Len(t)
    BY <1>1, <1>2
  <2>2. CASE i <= Len(g)
    BY <1>2, <1>3, <1>4, <2>1, <2>2
  <2>3. CASE i = Len(g) + 1
    <3>1. (h \o t)[i] = q[1]
      BY <1>2, <1>4, <2>1, <2>3
    <3>2. (g \o q)[i] = q[1]
      BY <1>2, <1>3, <2>3
    <3> QED BY <3>1, <3>2
  <2>4. CASE i > Len(g) + 1
    <3>1. i - Len(h) \in 1 .. Len(t) /\ (i - Len(h)) + 1 = i - Len(g)
      BY <1>1, <1>2, <2>4
    <3>2. (h \o t)[i] = t[i - Len(h)]
      BY <1>2, <1>4, <2>1, <2>4, SMTT(40)
    <3>3. (g \o q)[i] = q[i - Len(g)]
      BY <1>2, <1>3, <2>4
    <3>4. t[i - Len(h)] = q[(i - Len(h)) + 1]
      BY <1>1, <3>1
    <3> QED BY <3>1, <3>2, <3>3, <3>4
  <2>5. i <= Len(g) \/ i = Len(g) + 1 \/ i > Len(g) + 1
    BY <1>1, <1>2
  <2> QED BY <2>2, <2>3, <2>4, <2>5
<1>6. Len(h \o t) = Len(g) + Len(q) /\ Len(g \o q) = Len(g) + Len(q)
  BY <1>1, <1>2, <1>3, <1>4
<1>7. \A i \in 1 .. Len(h \o t) : (h \o t)[i] = (g \o q)[i]
  BY <1>5, <1>6
<1>8. h \o t = g \o q
  <2>1. h \o t \in Seq(Nat) /\ g \o q \in Seq(Nat) /\ Len(h \o t) = Len(g \o q)
    BY <1>3, <1>4, <1>6
  <2> HIDE DEF h, t
  <2> QED BY <1>7, <2>1, SeqEqual
<1> QED
  BY <1>1, <1>2, <1>8 DEF h, t

LEMMA ReceivedIn ==
    ASSUME NEW g \in Seq(Nat), NEW e \in Nat
    PROVE  Append(g, e) \in Seq(Nat) /\ Range(Append(g, e)) = Range(g) \cup {e}
<1> DEFINE h == Append(g, e)
<1>1. h \in Seq(Nat) /\ Len(h) = Len(g) + 1 /\ (\A i \in 1 .. Len(g) : h[i] = g[i]) /\ h[Len(g) + 1] = e
      /\ Len(g) \in Nat
  BY AppendProperties
<1> HIDE DEF h
<1>2. DOMAIN h = 1 .. Len(g) + 1 /\ DOMAIN g = 1 .. Len(g)
  BY <1>1, LenProperties
<1>3. 1 .. Len(g) + 1 = (1 .. Len(g)) \cup {Len(g) + 1}
  BY <1>1
<1>4. Range(h) = Range(g) \cup {e}
  BY <1>1, <1>2, <1>3 DEF Range
<1> QED
  BY <1>1, <1>4 DEF h

(* What a listener was sent stays right when nothing it watches happens,   *)
(* and when the event handed on goes to the end of its queue.              *)
LEMMA StillSees ==
    ASSUME NEW s \in Streams, since \in [Streams -> Nat], Sees(got[s] \o queue[s], s),
           (got[s] \o queue[s])' = got[s] \o queue[s], since'[s] = since[s], handed \in Nat,
           handed' = handed \/ (handed' = handed + 1 /\ log'[handed'] # Watches[s]),
           \A e \in 1 .. handed : log'[e] = log[e]
    PROVE  Sees(got[s] \o queue[s], s)'
<1> DEFINE sent == got[s] \o queue[s]
           n == since[s]
<1>1. n \in Nat
  OBVIOUS
<1>2. sent' = sent /\ n' = n
  OBVIOUS
<1> HIDE DEF n
<1>3. {e \in n + 1 .. handed' : log'[e] = Watches[s]} = {e \in n + 1 .. handed : log[e] = Watches[s]}
  <2>1. ASSUME NEW e, e \in n + 1 .. handed'
        PROVE  log'[e] = Watches[s] => e \in n + 1 .. handed /\ log[e] = Watches[s]
    BY <1>1, <2>1
  <2>2. ASSUME NEW e, e \in n + 1 .. handed
        PROVE  e \in n + 1 .. handed' /\ log'[e] = log[e]
    BY <1>1, <2>2
  <2> QED BY <2>1, <2>2
<1> HIDE DEF sent
<1>4. Sees(sent, s) => Sees(sent, s)'
  BY <1>2, <1>3 DEF Sees, n, Range
<1> QED
  BY <1>4 DEF sent

LEMMA SeesTheNext ==
    ASSUME NEW s \in Streams, since \in [Streams -> Nat], since[s] <= handed,
           got[s] \in Seq(Nat), queue[s] \in Seq(Nat), Sees(got[s] \o queue[s], s),
           UNCHANGED <<log, since>>, got'[s] = got[s], handed \in Nat, handed' = handed + 1,
           log[handed'] = Watches[s], queue'[s] = Append(queue[s], handed')
    PROVE  Sees(got[s] \o queue[s], s)'
<1> DEFINE old == got[s] \o queue[s]
           new == got[s] \o Append(queue[s], handed')
           n == since[s]
<1>1. n \in Nat /\ n' = n /\ handed' \in Nat /\ n <= handed
  OBVIOUS
<1>2. PICK m \in Nat :
         /\ DOMAIN old = 1 .. m /\ DOMAIN new = 1 .. m + 1
         /\ \A i \in 1 .. m : new[i] = old[i]
         /\ new[m + 1] = handed'
  BY <1>1, SentOneMore
<1>3. (got[s] \o queue[s])' = new
  OBVIOUS
<1>4. Range(old) = {e \in n + 1 .. handed : log[e] = Watches[s]} /\ \A i, j \in DOMAIN old : i < j => old[i] < old[j]
  BY DEF Sees
<1> HIDE DEF old, new, n
<1>5. Range(new) = Range(old) \cup {handed'}
  <2>1. 1 .. m + 1 = (1 .. m) \cup {m + 1}
    BY <1>2
  <2>2. Range(new) = {new[i] : i \in 1 .. m} \cup {new[m + 1]}
    BY <1>2, <2>1 DEF Range
  <2>3. Range(old) = {old[i] : i \in 1 .. m}
    BY <1>2 DEF Range
  <2> QED BY <1>2, <2>2, <2>3, SMTT(40)
<1>6. {e \in n + 1 .. handed' : log[e] = Watches[s]} = {e \in n + 1 .. handed : log[e] = Watches[s]} \cup {handed'}
  <2>1. n + 1 .. handed' = (n + 1 .. handed) \cup {handed'}
    BY <1>1
  <2> QED BY <2>1
<1>7. \A i \in 1 .. m : old[i] \in Int /\ old[i] < handed'
  <2>1. \A i \in 1 .. m : old[i] \in Range(old)
    BY <1>2 DEF Range
  <2> QED BY <1>1, <1>4, <2>1
<1>8. ASSUME NEW i \in DOMAIN new, NEW j \in DOMAIN new, i < j
      PROVE  new[i] < new[j]
  <2>1. i \in 1 .. m /\ (j \in 1 .. m \/ j = m + 1)
    BY <1>2, <1>8
  <2> QED BY <1>2, <1>4, <1>7, <1>8, <2>1
<1>9. Range(new) = {e \in n + 1 .. handed' : log[e] = Watches[s]}
  BY <1>4, <1>5, <1>6
<1>10. Range((got[s] \o queue[s])') = {e \in since'[s] + 1 .. handed' : log'[e] = Watches[s]}
  BY <1>1, <1>3, <1>9 DEF n
<1>11. \A i, j \in DOMAIN (got[s] \o queue[s])' : i < j => (got[s] \o queue[s])'[i] < (got[s] \o queue[s])'[j]
  BY <1>3, <1>8
<1> QED
  BY <1>10, <1>11 DEF Sees, Range

LEMMA FeedInvInit == FeedInit => FeedInv
<1> SUFFICES ASSUME FeedInit PROVE FeedInv
  OBVIOUS
<1>1. FeedTypes
  <2>1. log \in Seq(Topics) /\ Len(log) = 0 /\ handed = 0
    BY EmptySeq DEF FeedInit
  <2>2. queue \in [Streams -> Seq(Nat)] /\ got \in [Streams \cup Dashboards -> Seq(Nat)]
    BY EmptySeq DEF FeedInit
  <2>3. round = [f \in RoundFields |-> round[f]] /\ round.audience \subseteq Dashboards
    BY DEF FeedInit, RoundFields
  <2> QED BY <2>1, <2>2, <2>3 DEF FeedInit, FeedTypes
<1>2. StreamInv
  BY DEF FeedInit, StreamInv, Attends
<1>3. RoundInv
  BY DEF FeedInit, RoundInv
<1> QED
  BY <1>1, <1>2, <1>3 DEF FeedInv

(* A step that leaves the streams and what is said to them alone.          *)
LEMMA StreamsUntouched ==
    ASSUME FeedTypes, StreamInv, UNCHANGED <<handed, queue, stream, since, dropped>>,
           \A s \in Streams : got'[s] = got[s], \A e \in 1 .. handed : log'[e] = log[e]
    PROVE  StreamInv'
<1> SUFFICES ASSUME NEW s \in Streams
             PROVE  /\ stream'[s] = "new" => got'[s] = <<>> /\ queue'[s] = <<>>
                    /\ Attends(s)' /\ s \notin dropped' => since'[s] <= handed' /\ Sees(got[s] \o queue[s], s)'
  BY DEF StreamInv, Attends
<1>1. stream'[s] = "new" => got'[s] = <<>> /\ queue'[s] = <<>>
  BY DEF StreamInv
<1>2. ASSUME Attends(s)', s \notin dropped'
      PROVE  since'[s] <= handed' /\ Sees(got[s] \o queue[s], s)'
  <2>1. since[s] <= handed /\ Sees(got[s] \o queue[s], s)
    BY <1>2 DEF StreamInv, Attends
  <2>2. (got[s] \o queue[s])' = got[s] \o queue[s]
    OBVIOUS
  <2>3. handed \in Nat /\ since \in [Streams -> Nat]
    BY LenProperties DEF FeedTypes
  <2> QED BY <2>1, <2>2, <2>3, StillSees
<1> QED
  BY <1>1, <1>2

LEMMA PublishKeeps == \A t \in Topics : FeedInv /\ Publish(t) => FeedInv'
<1> SUFFICES ASSUME NEW t \in Topics, FeedInv, Publish(t) PROVE FeedInv'
  OBVIOUS
<1>1. log \in Seq(Topics) /\ handed \in 0 .. Len(log) /\ Len(log) \in Nat
  BY LenProperties DEF FeedInv, FeedTypes
<1>2. log' \in Seq(Topics) /\ Len(log') = Len(log) + 1 /\ \A e \in 1 .. Len(log) : log'[e] = log[e]
  BY <1>1, AppendProperties DEF Publish
<1>3. \A e \in 1 .. handed : log'[e] = log[e]
  BY <1>1, <1>2
<1>4. FeedTypes'
  <2>1. handed' \in 0 .. Len(log') /\ log' \in Seq(Topics)
    BY <1>1, <1>2 DEF Publish
  <2> QED BY <2>1 DEF FeedInv, FeedTypes, Publish
<1>5. StreamInv'
  BY <1>3, StreamsUntouched DEF FeedInv, Publish
<1>6. RoundInv'
  BY DEF FeedInv, RoundInv, Received, Publish
<1> QED
  BY <1>4, <1>5, <1>6 DEF FeedInv

LEMMA BridgeFailsKeeps == FeedInv /\ BridgeFails => FeedInv'
<1> SUFFICES ASSUME FeedInv, BridgeFails PROVE FeedInv'
  OBVIOUS
<1>1. FeedTypes'
  BY DEF FeedInv, FeedTypes, BridgeFails
<1>2. StreamInv'
  BY StreamsUntouched DEF FeedInv, BridgeFails
<1>3. RoundInv'
  BY DEF FeedInv, RoundInv, Received, BridgeFails
<1> QED
  BY <1>1, <1>2, <1>3 DEF FeedInv

LEMMA SendNextKeeps == \A d \in Dashboards : FeedInv /\ SendNext(d) => FeedInv'
<1> SUFFICES ASSUME NEW d \in Dashboards, FeedInv, SendNext(d) PROVE FeedInv'
  OBVIOUS
<1>1. /\ round' = [f \in RoundFields |-> round'[f]]
      /\ round'.at = {d} /\ round'.todo = round.todo \ {d} /\ round'.audience = round.audience
      /\ round'.topic = round.topic /\ round'.mixed = round.mixed /\ round'.own = round.own
  BY DEF FeedInv, FeedTypes, SendNext, RoundFields
<1>2. FeedTypes'
  BY <1>1 DEF FeedInv, FeedTypes, SendNext
<1>3. StreamInv'
  BY StreamsUntouched DEF FeedInv, SendNext
<1>4. RoundInv'
  BY <1>1 DEF FeedInv, RoundInv, Received, SendNext
<1> QED
  BY <1>2, <1>3, <1>4 DEF FeedInv

LEMMA EventSendRaisesKeeps == \A d \in Dashboards : FeedInv /\ EventSendRaises(d) => FeedInv'
<1> SUFFICES ASSUME NEW d \in Dashboards, FeedInv, EventSendRaises(d) PROVE FeedInv'
  OBVIOUS
<1>1. /\ round' = [f \in RoundFields |-> round'[f]]
      /\ round'.at = {} /\ round'.todo = round.todo /\ round'.audience = round.audience
      /\ round'.topic = round.topic /\ round'.mixed = round.mixed /\ round'.own = round.own
  BY DEF FeedInv, FeedTypes, EventSendRaises, RoundFields
<1>2. FeedTypes'
  BY <1>1 DEF FeedInv, FeedTypes, EventSendRaises
<1>3. StreamInv'
  BY StreamsUntouched DEF FeedInv, EventSendRaises
<1>4. RoundInv'
  BY <1>1 DEF FeedInv, RoundInv, Received, EventSendRaises
<1> QED
  BY <1>2, <1>3, <1>4 DEF FeedInv

LEMMA EventSentKeeps == \A d \in Dashboards : FeedInv /\ EventSent(d) => FeedInv'
<1> SUFFICES ASSUME NEW d \in Dashboards, FeedInv, EventSent(d) PROVE FeedInv'
  OBVIOUS
<1>1. /\ round' = [f \in RoundFields |-> round'[f]]
      /\ round.at = {d} /\ round'.at = {} /\ round'.todo = round.todo /\ round'.audience = round.audience
      /\ round'.topic = round.topic /\ round'.mixed = round.mixed /\ round'.own = round.own
  BY DEF FeedInv, FeedTypes, EventSent, RoundFields
<1>2. handed \in Nat /\ got \in [Streams \cup Dashboards -> Seq(Nat)]
  BY LenProperties DEF FeedInv, FeedTypes
<1>3. Append(got[d], handed) \in Seq(Nat) /\ handed \in Range(Append(got[d], handed))
  BY <1>2, ReceivedIn
<1>4. got' \in [Streams \cup Dashboards -> Seq(Nat)] /\ (dashboard[d] = "open" => handed \in Range(got'[d]))
      /\ \A c \in Streams \cup Dashboards : c # d => got'[c] = got[c]
  BY <1>2, <1>3 DEF EventSent
<1>5. FeedTypes'
  BY <1>1, <1>4 DEF FeedInv, FeedTypes, EventSent
<1>6. \A s \in Streams : got'[s] = got[s]
  BY <1>4, FeedAssumption
<1>7. StreamInv'
  BY <1>6, StreamsUntouched DEF FeedInv, EventSent
<1>8. \A c \in Dashboards : dashboard[c] = "open" /\ (c = d \/ Received(c)) => Received(c)'
  BY <1>4 DEF Received, EventSent
<1>9. RoundInv'
  BY <1>1, <1>8 DEF FeedInv, FeedTypes, RoundInv, EventSent
<1> QED
  BY <1>5, <1>7, <1>9 DEF FeedInv

LEMMA RoundFailsKeeps == FeedInv /\ RoundFails => FeedInv'
<1> SUFFICES ASSUME FeedInv, RoundFails PROVE FeedInv'
  OBVIOUS
<1>1. FeedTypes'
  BY DEF FeedInv, FeedTypes, RoundFails
<1>2. StreamInv'
  BY StreamsUntouched DEF FeedInv, RoundFails
<1>3. round.mixed
  BY DEF FeedInv, RoundInv, RoundFails, SameSize
<1>4. RoundInv'
  BY <1>3 DEF FeedInv, RoundInv, Received, RoundFails
<1> QED
  BY <1>1, <1>2, <1>4 DEF FeedInv

LEMMA FinishRoundKeeps == FeedInv /\ FinishRound => FeedInv'
<1> SUFFICES ASSUME FeedInv, FinishRound PROVE FeedInv'
  OBVIOUS
<1>1. subscribers' \in [Topics -> SUBSET Dashboards] /\ \A t \in Topics : subscribers'[t] \subseteq subscribers[t]
  BY DEF FeedInv, FeedTypes, FinishRound
<1>2. FeedTypes'
  BY <1>1 DEF FeedInv, FeedTypes, FinishRound
<1>3. StreamInv'
  BY StreamsUntouched DEF FeedInv, FinishRound
<1>4. RoundInv'
  BY <1>1 DEF FeedInv, RoundInv, Received, FinishRound
<1> QED
  BY <1>2, <1>3, <1>4 DEF FeedInv

LEMMA OpenStreamKeeps == \A s \in Streams : FeedInv /\ OpenStream(s) => FeedInv'
<1> SUFFICES ASSUME NEW s \in Streams, FeedInv, OpenStream(s) PROVE FeedInv'
  OBVIOUS
<1>1. /\ stream \in [Streams -> {"new", "waiting", "open", "gone", "leaked"}] /\ stream[s] = "new"
      /\ stream' = [stream EXCEPT ![s] = "waiting"] /\ since' = [since EXCEPT ![s] = handed]
      /\ since \in [Streams -> Nat] /\ handed \in Nat
  BY LenProperties DEF FeedInv, FeedTypes, OpenStream
<1>2. FeedTypes'
  BY <1>1 DEF FeedInv, FeedTypes, OpenStream
<1>3. ASSUME NEW r \in Streams, r # s
      PROVE  /\ stream'[r] = "new" => got'[r] = <<>> /\ queue'[r] = <<>>
             /\ Attends(r)' /\ r \notin dropped' => since'[r] <= handed' /\ Sees(got[r] \o queue[r], r)'
  <2>1. stream'[r] = stream[r] /\ since'[r] = since[r]
    BY <1>1, <1>3
  <2>2. stream'[r] = "new" => got'[r] = <<>> /\ queue'[r] = <<>>
    BY <2>1 DEF FeedInv, StreamInv, OpenStream
  <2>3. ASSUME Attends(r)', r \notin dropped'
        PROVE  since'[r] <= handed' /\ Sees(got[r] \o queue[r], r)'
    <3>1. since[r] <= handed /\ Sees(got[r] \o queue[r], r)
      BY <2>1, <2>3 DEF FeedInv, StreamInv, Attends, OpenStream
    <3>2. UNCHANGED <<got, queue, log, handed>>
      BY DEF OpenStream
    <3> QED BY <1>1, <2>1, <3>1, <3>2, StillSees
  <2> QED BY <2>2, <2>3
<1>4. since'[s] <= handed' /\ Sees(got[s] \o queue[s], s)' /\ stream'[s] # "new"
  <2>1. got'[s] = <<>> /\ queue'[s] = <<>>
    BY <1>1 DEF FeedInv, StreamInv, OpenStream
  <2>2. DOMAIN (got'[s] \o queue'[s]) = {}
    <3>1. <<>> \in Seq(Nat) /\ Len(<<>>) = 0
      BY EmptySeq
    <3>2. <<>> \o <<>> \in Seq(Nat) /\ Len(<<>> \o <<>>) = 0
      BY <3>1, ConcatProperties
    <3>3. DOMAIN (<<>> \o <<>>) = 1 .. 0
      BY <3>2, LenProperties
    <3> QED BY <2>1, <3>3
  <2>3. since'[s] = handed /\ handed' = handed
    BY <1>1 DEF OpenStream
  <2> QED BY <1>1, <2>2, <2>3 DEF Sees, Range
<1>5. StreamInv'
  BY <1>3, <1>4 DEF StreamInv, Attends
<1>6. RoundInv'
  BY DEF FeedInv, RoundInv, Received, OpenStream
<1> QED
  BY <1>2, <1>5, <1>6 DEF FeedInv

LEMMA StartStreamKeeps == \A s \in Streams : FeedInv /\ StartStream(s) => FeedInv'
<1> SUFFICES ASSUME NEW s \in Streams, FeedInv, StartStream(s) PROVE FeedInv'
  OBVIOUS
<1>1. /\ stream' \in [Streams -> {"new", "waiting", "open", "gone", "leaked"}]
      /\ \A r \in Streams : (Attends(r)' => Attends(r)) /\ (stream'[r] = "new" => stream[r] = "new")
  BY DEF FeedInv, FeedTypes, StartStream, Attends
<1>2. FeedTypes'
  BY <1>1 DEF FeedInv, FeedTypes, StartStream
<1>3. UNCHANGED <<got, queue, log, handed, since, dropped>>
  BY DEF StartStream
<1>4. ASSUME NEW r \in Streams, Sees(got[r] \o queue[r], r)
      PROVE  Sees(got[r] \o queue[r], r)'
  <2>1. handed \in Nat /\ since \in [Streams -> Nat]
    BY LenProperties DEF FeedInv, FeedTypes
  <2> QED BY <1>3, <1>4, <2>1, StillSees
<1>5. StreamInv'
  BY <1>1, <1>3, <1>4 DEF FeedInv, StreamInv
<1>6. RoundInv'
  BY DEF FeedInv, RoundInv, Received, StartStream
<1> QED
  BY <1>2, <1>5, <1>6 DEF FeedInv

LEMMA ReceiveKeeps == \A s \in Streams : FeedInv /\ Receive(s) => FeedInv'
<1> SUFFICES ASSUME NEW s \in Streams, FeedInv, Receive(s) PROVE FeedInv'
  OBVIOUS
<1> DEFINE g == got[s]
           q == queue[s]
<1>1. g \in Seq(Nat) /\ q \in Seq(Nat) /\ q # <<>> /\ s \notin Dashboards
      /\ queue \in [Streams -> Seq(Nat)] /\ got \in [Streams \cup Dashboards -> Seq(Nat)]
  BY FeedAssumption DEF FeedInv, FeedTypes, Receive
<1>2. Append(g, Head(q)) \in Seq(Nat) /\ Tail(q) \in Seq(Nat) /\ Append(g, Head(q)) \o Tail(q) = g \o q
  BY <1>1, TakenFromQueue
<1>3. /\ queue' \in [Streams -> Seq(Nat)] /\ got' \in [Streams \cup Dashboards -> Seq(Nat)]
      /\ got'[s] = Append(g, Head(q)) /\ queue'[s] = Tail(q)
      /\ \A r \in Streams : r # s => got'[r] = got[r] /\ queue'[r] = queue[r]
      /\ \A d \in Dashboards : got'[d] = got[d]
  BY <1>1, <1>2 DEF Receive
<1> HIDE DEF g, q
<1>4. FeedTypes'
  BY <1>3 DEF FeedInv, FeedTypes, Receive
<1>5. ASSUME NEW r \in Streams
      PROVE  got'[r] \o queue'[r] = got[r] \o queue[r]
  BY <1>2, <1>3 DEF g, q
<1>6. UNCHANGED <<log, handed, since, dropped, stream>> /\ stream[s] = "open"
  BY DEF Receive
<1>7. ASSUME NEW r \in Streams, Sees(got[r] \o queue[r], r)
      PROVE  Sees(got[r] \o queue[r], r)'
  <2>1. handed \in Nat /\ since \in [Streams -> Nat]
    BY LenProperties DEF FeedInv, FeedTypes
  <2> QED BY <1>5, <1>6, <1>7, <2>1, StillSees
<1>8. ASSUME NEW r \in Streams, stream'[r] = "new"
      PROVE  got'[r] = <<>> /\ queue'[r] = <<>>
  BY <1>3, <1>6, <1>8 DEF FeedInv, StreamInv
<1>9. StreamInv'
  BY <1>6, <1>7, <1>8 DEF FeedInv, StreamInv, Attends
<1>10. \A d \in Dashboards : Received(d)' <=> Received(d)
  BY <1>3, <1>6 DEF Received, Range
<1>11. RoundInv'
  BY <1>10 DEF FeedInv, FeedTypes, RoundInv, Receive
<1> QED
  BY <1>4, <1>9, <1>11 DEF FeedInv

LEMMA CloseStreamKeeps == \A s \in Streams : FeedInv /\ CloseStream(s) => FeedInv'
<1> SUFFICES ASSUME NEW s \in Streams, FeedInv, CloseStream(s) PROVE FeedInv'
  OBVIOUS
<1>1. /\ stream' \in [Streams -> {"new", "waiting", "open", "gone", "leaked"}]
      /\ stream'[s] = "gone" /\ queue' \in [Streams -> Seq(Nat)]
      /\ \A r \in Streams : r # s => stream'[r] = stream[r] /\ queue'[r] = queue[r]
  BY EmptySeq DEF FeedInv, FeedTypes, CloseStream
<1>2. FeedTypes'
  BY <1>1 DEF FeedInv, FeedTypes, CloseStream
<1>3. UNCHANGED <<got, log, handed, since, dropped>>
  BY DEF CloseStream
<1>4. ASSUME NEW r \in Streams, r # s, Sees(got[r] \o queue[r], r)
      PROVE  Sees(got[r] \o queue[r], r)'
  <2>1. handed \in Nat /\ since \in [Streams -> Nat]
    BY LenProperties DEF FeedInv, FeedTypes
  <2> QED BY <1>1, <1>3, <1>4, <2>1, StillSees
<1>5. StreamInv'
  BY <1>1, <1>3, <1>4 DEF FeedInv, StreamInv, Attends
<1>6. RoundInv'
  BY DEF FeedInv, RoundInv, Received, CloseStream
<1> QED
  BY <1>2, <1>5, <1>6 DEF FeedInv

LEMMA EventDispatchKeeps == FeedInv /\ Dispatch => FeedInv'
<1> SUFFICES ASSUME FeedInv, Dispatch PROVE FeedInv'
  OBVIOUS
<1> DEFINE topic == log[handed + 1]
           full == {s \in Streams : Len(queue[s]) = QueueSize}
           watching == {s \in Subscribed : Watches[s] = topic}
           audience == IF topic = "alerts" THEN {} ELSE subscribers[topic]
<1>1. /\ log \in Seq(Topics) /\ Len(log) \in Nat /\ handed \in Nat /\ handed < Len(log)
      /\ queue \in [Streams -> Seq(Nat)] /\ got \in [Streams \cup Dashboards -> Seq(Nat)]
      /\ since \in [Streams -> Nat] /\ subscribers \in [Topics -> SUBSET Dashboards]
  BY LenProperties DEF FeedInv, FeedTypes, Dispatch
<1>2. topic \in Topics
  <2>1. handed + 1 \in 1 .. Len(log)
    BY <1>1
  <2> QED BY <1>1, <2>1, ElementOfSeq
<1>3. audience \subseteq Dashboards /\ (audience # {} => audience = subscribers[topic])
  BY <1>1, <1>2
<1>4. /\ handed' = handed + 1
      /\ queue' = [s \in Streams |-> IF s \in watching \ full THEN Append(queue[s], handed + 1) ELSE queue[s]]
      /\ dropped' = dropped \cup (watching \cap full)
      /\ bridge' = IF audience = {} THEN "listening" ELSE "sending"
      /\ round' = [topic |-> topic, audience |-> audience, todo |-> audience, at |-> {},
                   dead |-> {}, mixed |-> FALSE, own |-> TRUE]
      /\ UNCHANGED <<log, stream, dashboard, subscribers, got, since>>
  BY DEF Dispatch
<1>5. \A s \in Streams : Attends(s) /\ Watches[s] = topic => s \in watching
  BY DEF Attends, Subscribed
<1>6. \A s \in watching : stream[s] # "new" /\ Watches[s] = topic
  BY DEF Subscribed
<1> HIDE DEF full, watching, audience
<1>7. FeedTypes'
  <2>1. queue' \in [Streams -> Seq(Nat)]
    <3>1. \A s \in Streams : Append(queue[s], handed + 1) \in Seq(Nat)
      BY <1>1, AppendProperties
    <3> QED BY <1>1, <1>4, <3>1
  <2>2. round' = [f \in RoundFields |-> round'[f]] /\ round'.audience \subseteq Dashboards
    BY <1>3, <1>4 DEF RoundFields
  <2> QED BY <1>1, <1>4, <2>1, <2>2 DEF FeedInv, FeedTypes
<1>8. ASSUME NEW s \in Streams
      PROVE  /\ stream'[s] = "new" => got'[s] = <<>> /\ queue'[s] = <<>>
             /\ Attends(s)' /\ s \notin dropped' => since'[s] <= handed' /\ Sees(got[s] \o queue[s], s)'
  <2>1. stream'[s] = "new" => got'[s] = <<>> /\ queue'[s] = <<>>
    BY <1>4, <1>6 DEF FeedInv, StreamInv
  <2>2. ASSUME Attends(s)', s \notin dropped'
        PROVE  since'[s] <= handed' /\ Sees(got[s] \o queue[s], s)'
    <3>1. Attends(s) /\ since[s] <= handed /\ Sees(got[s] \o queue[s], s)
      BY <1>4, <2>2 DEF FeedInv, StreamInv, Attends
    <3>2. since'[s] <= handed'
      BY <1>1, <1>4, <3>1
    <3>3. CASE Watches[s] = topic
      <4>1. s \in watching \ full
        BY <1>4, <1>5, <2>2, <3>1, <3>3
      <4>2. queue'[s] = Append(queue[s], handed')
        BY <1>4, <4>1
      <4>3. got[s] \in Seq(Nat) /\ queue[s] \in Seq(Nat) /\ got'[s] = got[s] /\ log[handed'] = Watches[s]
        BY <1>1, <1>4, <3>3
      <4>4. Sees(got[s] \o queue[s], s)'
        BY <1>1, <1>4, <3>1, <4>2, <4>3, SeesTheNext
      <4> QED BY <3>2, <4>4
    <3>4. CASE Watches[s] # topic
      <4>1. (got[s] \o queue[s])' = got[s] \o queue[s]
        BY <1>4, <1>6, <3>4
      <4>2. handed' = handed + 1 /\ log'[handed'] # Watches[s] /\ since'[s] = since[s]
            /\ \A e \in 1 .. handed : log'[e] = log[e]
        BY <1>4, <3>4
      <4>3. Sees(got[s] \o queue[s], s)'
        BY <1>1, <3>1, <4>1, <4>2, StillSees
      <4> QED BY <3>2, <4>3
    <3> QED BY <3>3, <3>4
  <2> QED BY <2>1, <2>2
<1>9. StreamInv'
  BY <1>8 DEF StreamInv, Attends
<1>10. RoundInv'
  <2>1. /\ round'.topic = topic /\ round'.audience = audience /\ round'.todo = audience
        /\ round'.at = {} /\ ~round'.mixed /\ round'.own
    BY <1>4
  <2>2. /\ \A t \in Topics : \A d \in subscribers[t] : dashboard[d] # "new"
        /\ \A d \in audience : dashboard[d] # "new"
    BY <1>2, <1>3 DEF FeedInv, RoundInv
  <2>3. CASE audience = {}
    BY <1>4, <2>1, <2>2, <2>3 DEF RoundInv
  <2>4. CASE audience # {}
    BY <1>2, <1>3, <1>4, <2>1, <2>2, <2>4 DEF RoundInv
  <2> QED BY <2>3, <2>4
<1> QED
  BY <1>7, <1>9, <1>10 DEF FeedInv

(* What a change of the sockets does to the broadcast under way.           *)
LEMMA MixedRound ==
    ASSUME FeedInv, NEW topic, NEW members, Mixes(topic, members)
    PROVE  /\ round' = [f \in RoundFields |-> round'[f]]
           /\ round'.audience = round.audience /\ round'.at = round.at /\ round'.topic = round.topic
           /\ round' = round \/ (round'.mixed /\ bridge = "sending")
           /\ bridge = "sending" /\ round.topic = topic => round'.mixed
<1>1. CASE bridge # "sending" \/ round.topic # topic
  BY <1>1 DEF FeedInv, FeedTypes, Mixes
<1>2. CASE ~(bridge # "sending" \/ round.topic # topic)
  <2>1. PICK rest \in SUBSET members : round' = [round EXCEPT !.mixed = TRUE, !.todo = rest, !.own = @ /\ members # {}]
    BY <1>2 DEF Mixes
  <2> QED BY <1>2, <2>1 DEF FeedInv, FeedTypes, RoundFields
<1> QED
  BY <1>1, <1>2

LEMMA JoinKeeps == \A d \in Dashboards : FeedInv /\ Join(d) => FeedInv'
<1> SUFFICES ASSUME NEW d \in Dashboards, FeedInv, Join(d) PROVE FeedInv'
  OBVIOUS
<1>1. /\ round' = [f \in RoundFields |-> round'[f]]
      /\ round'.audience = round.audience /\ round'.at = round.at /\ round'.topic = round.topic
      /\ round' = round \/ (round'.mixed /\ bridge = "sending")
      /\ bridge = "sending" /\ round.topic = Watches[d] => round'.mixed
  BY MixedRound DEF Join
<1>2. /\ Watches[d] \in Topics /\ dashboard[d] = "new"
      /\ dashboard' \in [Dashboards -> {"new", "open", "lost", "gone"}] /\ dashboard'[d] = "open"
      /\ subscribers' \in [Topics -> SUBSET Dashboards]
      /\ \A c \in Dashboards : c # d => dashboard'[c] = dashboard[c]
      /\ \A t \in Topics : t # Watches[d] => subscribers'[t] = subscribers[t]
      /\ \A t \in Topics : subscribers'[t] \subseteq subscribers[t] \cup {d}
  BY FeedAssumption DEF FeedInv, FeedTypes, Join
<1>3. UNCHANGED <<log, handed, bridge, queue, stream, got, since, dropped>>
  BY DEF Join
<1>4. FeedTypes'
  BY <1>1, <1>2, <1>3 DEF FeedInv, FeedTypes
<1>5. StreamInv'
  BY <1>3, StreamsUntouched DEF FeedInv
<1>6. d \notin round.audience
  BY <1>2 DEF FeedInv, RoundInv
<1>7. /\ \A t \in Topics : \A c \in subscribers'[t] : dashboard'[c] # "new"
      /\ \A c \in round'.audience : dashboard'[c] = dashboard[c]
  <2>1. ASSUME NEW t \in Topics, NEW c \in subscribers'[t]
        PROVE  dashboard'[c] # "new"
    <3>1. c = d \/ (c # d /\ c \in subscribers[t] /\ c \in Dashboards)
      BY <1>2, <2>1 DEF FeedInv, FeedTypes
    <3> QED BY <1>2, <3>1 DEF FeedInv, RoundInv
  <2>2. \A c \in round'.audience : dashboard'[c] = dashboard[c]
    BY <1>1, <1>2, <1>6 DEF FeedInv, FeedTypes
  <2> QED BY <2>1, <2>2
<1>8. RoundInv'
  BY <1>1, <1>2, <1>3, <1>7 DEF FeedInv, RoundInv, Received
<1> QED
  BY <1>4, <1>5, <1>8 DEF FeedInv

LEMMA LoseDashboardKeeps == \A d \in Dashboards : FeedInv /\ LoseDashboard(d) => FeedInv'
<1> SUFFICES ASSUME NEW d \in Dashboards, FeedInv, LoseDashboard(d) PROVE FeedInv'
  OBVIOUS
<1>1. FeedTypes'
  BY DEF FeedInv, FeedTypes, LoseDashboard
<1>2. StreamInv'
  BY StreamsUntouched DEF FeedInv, LoseDashboard
<1>3. dashboard'[d] = "lost" /\ \A c \in Dashboards : c # d => dashboard'[c] = dashboard[c]
  BY DEF FeedInv, FeedTypes, LoseDashboard
<1>4. RoundInv'
  BY <1>3, ZenonT(60) DEF FeedInv, FeedTypes, RoundInv, Received, LoseDashboard
<1> QED
  BY <1>1, <1>2, <1>4 DEF FeedInv

LEMMA LeaveKeeps == \A d \in Dashboards : FeedInv /\ Leave(d) => FeedInv'
<1> SUFFICES ASSUME NEW d \in Dashboards, FeedInv, Leave(d) PROVE FeedInv'
  OBVIOUS
<1>1. /\ round' = [f \in RoundFields |-> round'[f]]
      /\ round'.audience = round.audience /\ round'.at = round.at /\ round'.topic = round.topic
      /\ round' = round \/ (round'.mixed /\ bridge = "sending")
      /\ d \in subscribers[Watches[d]] /\ bridge = "sending" /\ round.topic = Watches[d] => round'.mixed
  BY MixedRound DEF Leave, FeedInv, FeedTypes
<1>2. /\ Watches[d] \in Topics /\ dashboard'[d] = "gone"
      /\ dashboard' \in [Dashboards -> {"new", "open", "lost", "gone"}]
      /\ \A c \in Dashboards : c # d => dashboard'[c] = dashboard[c]
  BY FeedAssumption DEF FeedInv, FeedTypes, Leave
<1>8. /\ subscribers' \in [Topics -> SUBSET Dashboards]
      /\ \A t \in Topics : subscribers'[t] \subseteq subscribers[t]
  BY <1>2 DEF FeedInv, FeedTypes, Leave
<1>9. \A t \in Topics : t # Watches[d] \/ d \notin subscribers[t] => subscribers'[t] = subscribers[t]
  <2>1. subscribers \in [Topics -> SUBSET Dashboards]
        /\ subscribers' = [subscribers EXCEPT ![Watches[d]] = @ \ {d}]
    BY DEF FeedInv, FeedTypes, Leave
  <2> QED BY <1>2, <2>1
<1>3. UNCHANGED <<log, handed, bridge, queue, stream, got, since, dropped>>
  BY DEF Leave
<1>4. FeedTypes'
  BY <1>1, <1>2, <1>3, <1>8 DEF FeedInv, FeedTypes
<1>5. StreamInv'
  BY <1>3, StreamsUntouched DEF FeedInv
<1>6. \A c \in Dashboards : (dashboard'[c] = "open" => dashboard[c] = "open") /\ (dashboard'[c] = "new" => dashboard[c] = "new")
  BY <1>2
<1>7. RoundInv'
  <2>1. \A t \in Topics : \A c \in subscribers'[t] : dashboard'[c] # "new"
    BY <1>6, <1>8 DEF FeedInv, FeedTypes, RoundInv
  <2>2. \A c \in round'.audience : dashboard'[c] # "new"
    BY <1>1, <1>6 DEF FeedInv, FeedTypes, RoundInv
  <2>3. \A c \in Dashboards : Received(c)' <=> Received(c)
    BY <1>3 DEF Received
  <2>4. bridge' # "sending" => round'.at = {}
    BY <1>1, <1>3 DEF FeedInv, RoundInv
  <2>5. CASE round'.mixed
    BY <2>1, <2>2, <2>4, <2>5 DEF RoundInv
  <2>6. CASE ~round'.mixed
    <3>1. round' = round
      BY <1>1, <2>6
    <3>2. \A c \in round.audience : c \in Dashboards
      BY DEF FeedInv, FeedTypes
    <3>3. bridge' = "sending" => round.topic \in Topics /\ round.own
      BY <1>3, <2>6, <3>1 DEF FeedInv, RoundInv
    <3>4. bridge' = "sending" => subscribers'[round.topic] = round.audience
      BY <1>1, <1>3, <1>9, <2>6, <3>1, <3>3 DEF FeedInv, RoundInv
    <3>5. bridge' = "sending" =>
             \A c \in round.audience : dashboard'[c] = "open" => c \in round.todo \/ c \in round.at \/ Received(c)'
      BY <1>3, <1>6, <2>3, <2>6, <3>1, <3>2 DEF FeedInv, RoundInv
    <3>6. bridge' = "listening" => \A c \in round.audience : dashboard'[c] = "open" => Received(c)'
      BY <1>3, <1>6, <2>3, <2>6, <3>1, <3>2 DEF FeedInv, RoundInv
    <3> QED BY <2>1, <2>2, <2>4, <3>1, <3>3, <3>4, <3>5, <3>6 DEF RoundInv
  <2> QED BY <2>5, <2>6
<1> QED
  BY <1>4, <1>5, <1>7 DEF FeedInv

LEMMA FeedInvNext == FeedInv /\ [FeedNext]_feedVars => FeedInv'
<1> SUFFICES ASSUME FeedInv, [FeedNext]_feedVars PROVE FeedInv'
  OBVIOUS
<1>1. CASE BridgeFails \/ Dispatch \/ RoundFails \/ FinishRound
  BY <1>1, BridgeFailsKeeps, EventDispatchKeeps, RoundFailsKeeps, FinishRoundKeeps
<1>2. CASE \E t \in Topics : Publish(t)
  BY <1>2, PublishKeeps
<1>3. ASSUME NEW s \in Streams, OpenStream(s) \/ StartStream(s) \/ Receive(s) \/ CloseStream(s)
      PROVE  FeedInv'
  BY <1>3, OpenStreamKeeps, StartStreamKeeps, ReceiveKeeps, CloseStreamKeeps
<1>4. ASSUME NEW d \in Dashboards,
             SendNext(d) \/ EventSendRaises(d) \/ EventSent(d) \/ Join(d) \/ LoseDashboard(d) \/ Leave(d)
      PROVE  FeedInv'
  BY <1>4, SendNextKeeps, EventSendRaisesKeeps, EventSentKeeps, JoinKeeps, LoseDashboardKeeps, LeaveKeeps
<1>5. CASE UNCHANGED feedVars
  <2>1. FeedTypes'
    BY <1>5 DEF FeedInv, FeedTypes, feedVars
  <2>2. StreamInv'
    BY <1>5, StreamsUntouched DEF FeedInv, feedVars
  <2>3. RoundInv'
    BY <1>5 DEF FeedInv, RoundInv, Received, feedVars
  <2> QED BY <2>1, <2>2, <2>3 DEF FeedInv
<1> QED
  BY <1>1, <1>2, <1>3, <1>4, <1>5 DEF FeedNext

(* Every stream that keeps up has exactly the events of its topic that the *)
(* bridge read since it came, in order and once, and every dashboard of an *)
(* undisturbed round has the event: SSEBroadcaster.publish and             *)
(* WebSocketManager.broadcast, for any clients, topics and queue size.     *)
THEOREM ListenersReached == FeedSpec => []FeedReachesListeners
<1>1. FeedInv => FeedReachesListeners
  <2> SUFFICES ASSUME FeedInv PROVE FeedReachesListeners
    OBVIOUS
  <2>1. ASSUME NEW s \in {r \in Streams : stream[r] \in {"waiting", "open"}} \ dropped
        PROVE  Sees(got[s] \o queue[s], s)
    BY <2>1 DEF FeedInv, StreamInv, Attends
  <2> QED BY <2>1 DEF FeedInv, RoundInv, Received, Sees, FeedReachesListeners
<1> QED
  BY <1>1, FeedInvInit, FeedInvNext, PTL DEF FeedSpec

-----------------------------------------------------------------------------
(* Types of the gate's tables. A counter never counts more requests than   *)
(* were sent: each one that may still count has been sent as well.         *)
Pending == {r \in Requests : request[r].step \in {"limit", "count"}}

SpentInv ==
    /\ time <= LastTime /\ sends \in 0 .. MaxSends /\ IsFiniteSet(Pending)
    /\ \A k \in Keys : counter[k].count + Cardinality(Pending) <= sends /\ counter[k].until <= LastTime + Window
    /\ \A n \in NonceKeys : nonces[n] <= LastTime + NonceLife

(* A pending request goes on to the check or ends; what it added to the    *)
(* counter it no longer will.                                              *)
LEMMA OneIsSpent ==
    ASSUME IngestTypes, SpentInv, NEW r \in Pending, Pending' = Pending \ {r},
           NEW k \in Keys, counter' = counter \/ Counted(k),
           NEW n \in NonceKeys, nonces' = nonces \/ Stored(n), UNCHANGED <<time, sends>>
    PROVE  SpentInv'
<1>1. /\ IsFiniteSet(Pending') /\ Cardinality(Pending') = Cardinality(Pending) - 1
      /\ Cardinality(Pending) \in Nat
  BY FS_RemoveElement, FS_CardinalityType DEF SpentInv
<1>2. time \in Nat /\ sends \in Nat /\ LastTime \in Nat /\ Window \in Nat /\ NonceLife \in Nat
  BY IngestAssumption DEF IngestTypes, SpentInv
<1>3. ASSUME NEW j \in Keys
      PROVE  counter'[j].count <= counter[j].count + 1 /\ counter'[j].count \in Nat /\ counter[j].count \in Nat
             /\ counter'[j].until <= LastTime + Window
  <2>1. counter[j].count \in Nat /\ counter[j].until \in Nat /\ counter[j].until <= LastTime + Window
    BY DEF IngestTypes, SpentInv
  <2>2. CASE counter' = counter
    BY <2>1, <2>2
  <2>3. CASE Counted(k)
    <3>1. counter' = [i \in Keys |-> IF i = k THEN [count |-> Count(k) + 1, until |-> time + Window] ELSE counter[i]]
      BY <2>3 DEF Counted, IngestTypes
    <3>2. Count(k) \in Nat /\ Count(k) <= counter[k].count
      BY DEF Count, IngestTypes
    <3>3. CASE j = k
      <4>1. counter'[j].count = Count(k) + 1 /\ counter'[j].until = time + Window
        BY <3>1, <3>3
      <4> QED BY <1>2, <2>1, <3>2, <3>3, <4>1 DEF SpentInv
    <3>4. CASE j # k
      BY <2>1, <3>1, <3>4
    <3> QED BY <3>3, <3>4
  <2> QED BY <2>2, <2>3
<1>4. ASSUME NEW m \in NonceKeys
      PROVE  nonces'[m] <= LastTime + NonceLife
  <2>1. CASE nonces' = nonces
    BY <2>1 DEF SpentInv
  <2>2. CASE Stored(n)
    <3>1. nonces' = [i \in NonceKeys |-> IF i = n THEN time + NonceLife ELSE nonces[i]]
      BY <2>2 DEF Stored, IngestTypes
    <3> QED BY <1>2, <3>1 DEF SpentInv
  <2> QED BY <2>1, <2>2
<1>5. ASSUME NEW j \in Keys
      PROVE  counter'[j].count + Cardinality(Pending') <= sends'
  <2>1. counter[j].count + Cardinality(Pending) <= sends
    BY DEF SpentInv
  <2> QED BY <1>1, <1>2, <1>3, <2>1
<1>6. sends' \in 0 .. MaxSends /\ time' <= LastTime
  BY DEF SpentInv
<1> QED
  BY <1>1, <1>3, <1>4, <1>5, <1>6 DEF SpentInv

(* Steps of requests that no longer count, and time.                       *)
LEMMA NothingIsSpent ==
    ASSUME IngestTypes, SpentInv, Pending' = Pending, UNCHANGED <<counter, sends>>,
           time' <= LastTime, NEW n \in NonceKeys, nonces' = nonces \/ (time' = time /\ Stored(n))
    PROVE  SpentInv'
<1>1. time \in Nat /\ LastTime \in Nat /\ NonceLife \in Nat
  BY IngestAssumption DEF IngestTypes
<1>2. ASSUME NEW m \in NonceKeys
      PROVE  nonces'[m] <= LastTime + NonceLife
  <2>1. CASE nonces' = nonces
    BY <2>1 DEF SpentInv
  <2>2. CASE Stored(n)
    <3>1. nonces' = [i \in NonceKeys |-> IF i = n THEN time + NonceLife ELSE nonces[i]]
      BY <2>2 DEF Stored, IngestTypes
    <3> QED BY <1>1, <3>1 DEF SpentInv
  <2> QED BY <2>1, <2>2
<1> QED
  BY <1>2 DEF SpentInv

LEMMA SpentInvNext == GateInv /\ SpentInv /\ [IngestNext]_ingestVars => SpentInv'
<1> SUFFICES ASSUME GateInv, SpentInv, [IngestNext]_ingestVars
             PROVE  SpentInv'
  OBVIOUS
<1>1. IngestTypes /\ time \in Nat /\ LastTime \in Nat /\ time <= LastTime
  BY IngestAssumption DEF GateInv, IngestTypes, SpentInv
<1>2. ASSUME NEW r \in Requests, request[r].step # "free"
      PROVE  Key(request[r].upload) \in Keys /\ NonceKey(request[r].upload) \in NonceKeys
  BY <1>1, <1>2, BusySlots, KeysOfUploads DEF Jobs
<1>3. ASSUME NEW r \in Requests, request[r].step # "free",
             \A s \in Requests \ {r} : request'[s] = request[s],
             request'[r].step \notin {"limit", "count"}
      PROVE  Pending' = Pending \ {r}
  BY <1>3 DEF Pending
<1>4. ASSUME NEW r \in Requests, NEW u \in Uploads, ReceiveUpload(r, u)
      PROVE  SpentInv'
  <2>1. request[r] = Free /\ request' = [s \in Requests |->
            IF s = r THEN [step |-> "limit", upload |-> u, raced |-> FALSE, stored |-> 0] ELSE request[s]]
        /\ sends < MaxSends /\ sends' = sends + 1 /\ UNCHANGED <<time, counter, nonces>>
    BY <1>1, <1>4 DEF ReceiveUpload, IngestTypes, redis
  <2>2. r \notin Pending /\ Pending' = Pending \cup {r}
    BY <2>1 DEF Pending, Free
  <2>3. IsFiniteSet(Pending') /\ Cardinality(Pending') = Cardinality(Pending) + 1 /\ Cardinality(Pending) \in Nat
    BY <2>2, FS_AddElement, FS_CardinalityType DEF SpentInv
  <2>4. sends' \in 0 .. MaxSends /\ sends \in Nat
    BY <2>1, IngestAssumption DEF SpentInv
  <2>5. ASSUME NEW j \in Keys
        PROVE  counter'[j].count + Cardinality(Pending') <= sends' /\ counter'[j].until <= LastTime + Window
    <3>1. counter[j].count \in Nat /\ counter[j].count + Cardinality(Pending) <= sends
      BY <1>1 DEF IngestTypes, SpentInv
    <3>2. counter'[j] = counter[j]
      BY <2>1
    <3> QED BY <2>1, <2>3, <2>4, <3>1, <3>2 DEF SpentInv
  <2> QED BY <2>1, <2>3, <2>4, <2>5 DEF SpentInv
<1>5. ASSUME NEW r \in Requests, ReadCounter(r)
      PROVE  SpentInv'
  <2>1. request[r].step = "limit" /\ r \in Pending /\ UNCHANGED <<time, sends, counter, nonces>>
    BY <1>5 DEF ReadCounter, redis, Pending
  <2>2. CASE Ends(r)
    <3>1. Pending' = Pending \ {r}
      BY <1>1, <1>3, <2>1, <2>2, EndsThere
    <3> QED BY <1>1, <1>2, <2>1, <3>1, OneIsSpent
  <2>3. CASE ~Ends(r)
    <3> DEFINE raced == Counting(Key(request[r].upload)) # {}
    <3>1. request' = [request EXCEPT ![r].step = "count", ![r].raced = raced]
      BY <1>5, <2>3 DEF ReadCounter
    <3>2. request[r] \in Jobs /\ DOMAIN request = Requests
      BY <1>1, <2>1, BusySlots DEF IngestTypes
    <3> HIDE DEF raced
    <3>3. request'[r].step = "count" /\ \A s \in Requests \ {r} : request'[s] = request[s]
      BY <3>1, <3>2 DEF Jobs
    <3>4. Pending' = Pending
      BY <2>1, <3>3 DEF Pending
    <3> QED BY <1>1, <1>2, <2>1, <3>4, NothingIsSpent
  <2> QED BY <2>2, <2>3
<1>6. ASSUME NEW r \in Requests, IncrementCounter(r)
      PROVE  SpentInv'
  <2>1. request[r].step = "count" /\ r \in Pending /\ UNCHANGED <<time, sends, nonces>>
        /\ Counted(Key(request[r].upload)) /\ Goes(r, "check")
    BY <1>6 DEF IncrementCounter, Pending
  <2>2. Pending' = Pending \ {r}
    BY <1>1, <1>3, <2>1, GoesOn
  <2> QED BY <1>1, <1>2, <2>1, <2>2, OneIsSpent
<1>7. ASSUME NEW r \in Requests, Fails(r)
      PROVE  SpentInv'
  <2> DEFINE k == Key(request[r].upload)
             n == NonceKey(request[r].upload)
  <2>1. /\ request[r].step \in {"limit", "count", "nonce"} /\ Ends(r) /\ UNCHANGED <<time, sends>>
        /\ nonces' = nonces \/ Stored(n)
        /\ counter' = counter \/ (request[r].step = "count" /\ Counted(k))
    BY <1>7 DEF Fails
  <2>2. k \in Keys /\ n \in NonceKeys
    BY <1>2, <2>1
  <2> HIDE DEF k, n
  <2>3. Pending' = Pending \ {r}
    BY <1>1, <1>3, <2>1, EndsThere
  <2>4. CASE request[r].step = "nonce"
    <3>1. Pending' = Pending
      BY <2>3, <2>4 DEF Pending
    <3> QED BY <1>1, <2>1, <2>2, <2>4, <3>1, NothingIsSpent
  <2>5. CASE request[r].step # "nonce"
    <3>1. r \in Pending
      BY <2>1, <2>5 DEF Pending
    <3> QED BY <1>1, <2>1, <2>2, <2>3, <3>1, OneIsSpent
  <2> QED BY <2>4, <2>5
<1>8. ASSUME NEW r \in Requests, Check(r) \/ StoreNonce(r) \/ SendTask(r) \/ SendTaskFails(r)
      PROVE  SpentInv'
  <2> DEFINE n == NonceKey(request[r].upload)
  <2>1. /\ request[r].step \in {"check", "nonce", "dispatch"} /\ UNCHANGED <<time, sends, counter>>
        /\ nonces' = nonces \/ Stored(n)
    BY <1>8 DEF Check, StoreNonce, SendTask, SendTaskFails, redis
  <2>2. n \in NonceKeys
    BY <1>2, <2>1
  <2>3. request'[r].step \notin {"limit", "count"} /\ \A s \in Requests \ {r} : request'[s] = request[s]
    <3>1. CASE Ends(r)
      BY <1>1, <3>1, EndsThere
    <3>2. CASE Goes(r, "nonce")
      BY <1>1, <2>1, <3>2, GoesOn
    <3>3. CASE request' = [request EXCEPT ![r].step = "dispatch", ![r].stored = time]
      <4>1. request[r] \in Jobs /\ DOMAIN request = Requests
        BY <1>1, <2>1, BusySlots DEF IngestTypes
      <4> QED BY <3>3, <4>1 DEF Jobs
    <3> QED BY <1>8, <3>1, <3>2, <3>3 DEF Check, StoreNonce, SendTask, SendTaskFails
  <2> HIDE DEF n
  <2>4. Pending' = Pending
    BY <2>1, <2>3 DEF Pending
  <2> QED BY <1>1, <2>1, <2>2, <2>4, NothingIsSpent
<1>9. CASE Pass \/ UNCHANGED ingestVars
  <2>1. /\ UNCHANGED <<sends, counter, nonces, request>> /\ time' <= LastTime
    BY <1>1, <1>9 DEF Pass, redis, ingestVars
  <2>2. Pending' = Pending
    BY <2>1 DEF Pending
  <2> QED BY <2>1, <2>2 DEF SpentInv
<1> QED
  BY <1>4, <1>5, <1>6, <1>7, <1>8, <1>9 DEF IngestNext

(* Times, counters, nonces and requests keep their types and bounds: Redis *)
(* never counts more requests for a key than were sent.                    *)
THEOREM IngestKeepsTypes == IngestSpec => []IngestTypeOK
<1>1. IngestInit => GateInv /\ SpentInv
  <2> SUFFICES ASSUME IngestInit PROVE SpentInv
    BY GateInvInit
  <2>1. Pending = {}
    BY DEF IngestInit, Pending, Free
  <2>2. IsFiniteSet(Pending) /\ Cardinality(Pending) = 0
    BY <2>1, FS_EmptySet
  <2> QED BY <2>2, IngestAssumption DEF IngestInit, SpentInv
<1>2. GateInv /\ SpentInv /\ [IngestNext]_ingestVars => GateInv' /\ SpentInv'
  BY GateInvNext, SpentInvNext
<1>3. ASSUME GateInv, SpentInv PROVE IngestTypeOK
  <2>1. /\ time \in Nat /\ counter \in [Keys -> [count : Nat, until : Nat]]
        /\ nonces \in [NonceKeys -> Nat] /\ request \in [Requests -> {Free} \cup Jobs]
    BY <1>3 DEF GateInv, IngestTypes
  <2>2. Cardinality(Pending) \in Nat
    BY <1>3, FS_CardinalityType DEF SpentInv
  <2>3. \A k \in Keys : counter[k].count \in 0 .. MaxSends /\ counter[k].until \in 0 .. LastTime + Window
    BY <1>3, <2>1, <2>2, IngestAssumption DEF SpentInv
  <2>4. nonces \in [NonceKeys -> 0 .. LastTime + NonceLife]
    BY <1>3, <2>1, IngestAssumption DEF SpentInv
  <2>5. \A r \in Requests : request[r].step \in {"free", "limit", "count", "check", "nonce", "dispatch"}
    BY <2>1 DEF Free, Jobs
  <2>6. time \in 0 .. LastTime /\ sends \in 0 .. MaxSends
    BY <1>3, <2>1, IngestAssumption DEF SpentInv
  <2> QED BY <2>3, <2>4, <2>5, <2>6 DEF IngestTypeOK
<1> QED
  BY <1>1, <1>2, <1>3, PTL DEF IngestSpec

-----------------------------------------------------------------------------
(* Bounds of the feed: queues stay within their maximum, sockets are       *)
(* registered under the topic they watch, and broadcasts go to dashboards. *)
InBroadcast == round.todo \cup round.at \cup round.dead

FeedBounds ==
    /\ \A s \in Streams : Len(queue[s]) <= QueueSize
    /\ \A t \in Topics : \A d \in subscribers[t] : Watches[d] = t
    /\ InBroadcast \subseteq Dashboards /\ dropped \subseteq Streams

LEMMA BoundsStay ==
    ASSUME FeedInv, FeedBounds,
           queue' = queue \/ \A s \in Streams : Len(queue'[s]) <= QueueSize,
           subscribers' = subscribers \/ \A t \in Topics : subscribers'[t] \subseteq subscribers[t] \cup {d \in Dashboards : Watches[d] = t},
           round' = round \/ InBroadcast' \subseteq Dashboards,
           dropped' \subseteq Streams
    PROVE  FeedBounds'
BY DEF FeedBounds, InBroadcast

LEMMA MixedBroadcast ==
    ASSUME FeedInv, FeedBounds, NEW topic, NEW members \in SUBSET Dashboards, Mixes(topic, members)
    PROVE  round' = round \/ InBroadcast' \subseteq Dashboards
<1>1. CASE bridge # "sending" \/ round.topic # topic
  BY <1>1 DEF Mixes
<1>2. CASE ~(bridge # "sending" \/ round.topic # topic)
  <2>1. PICK rest \in SUBSET members : round' = [round EXCEPT !.mixed = TRUE, !.todo = rest, !.own = @ /\ members # {}]
    BY <1>2 DEF Mixes
  <2>2. round'.todo = rest /\ round'.at = round.at /\ round'.dead = round.dead
    BY <2>1 DEF FeedInv, FeedTypes, RoundFields
  <2> QED BY <2>2 DEF FeedBounds, InBroadcast
<1> QED
  BY <1>1, <1>2

LEMMA FeedBoundsNext == FeedInv /\ FeedBounds /\ [FeedNext]_feedVars => FeedBounds'
<1> SUFFICES ASSUME FeedInv, FeedBounds, [FeedNext]_feedVars
             PROVE  FeedBounds'
  OBVIOUS
<1>1. /\ queue \in [Streams -> Seq(Nat)] /\ subscribers \in [Topics -> SUBSET Dashboards]
      /\ round = [f \in RoundFields |-> round[f]] /\ InBroadcast \subseteq Dashboards
      /\ dropped \subseteq Streams /\ \A s \in Streams : Len(queue[s]) \in Nat /\ Len(queue[s]) <= QueueSize
  BY LenProperties DEF FeedInv, FeedTypes, FeedBounds
<1>2. CASE Dispatch
  <2> DEFINE topic == log[handed + 1]
             full == {s \in Streams : Len(queue[s]) = QueueSize}
             watching == {s \in Subscribed : Watches[s] = topic}
             audience == IF topic = "alerts" THEN {} ELSE subscribers[topic]
  <2>1. /\ handed' = handed + 1 /\ handed < Len(log)
        /\ queue' = [s \in Streams |-> IF s \in watching \ full THEN Append(queue[s], handed + 1) ELSE queue[s]]
        /\ dropped' = dropped \cup (watching \cap full)
        /\ round' = [topic |-> topic, audience |-> audience, todo |-> audience, at |-> {},
                     dead |-> {}, mixed |-> FALSE, own |-> TRUE]
        /\ UNCHANGED subscribers
    BY <1>2 DEF Dispatch
  <2>2. log \in Seq(Topics) /\ handed + 1 \in 1 .. Len(log)
    BY <2>1, LenProperties DEF FeedInv, FeedTypes
  <2>3. audience \subseteq Dashboards
    <3>1. topic \in Topics
      BY <2>2, ElementOfSeq
    <3> QED BY <1>1, <3>1
  <2>4. InBroadcast' \subseteq Dashboards
    <3> HIDE DEF audience, topic
    <3> QED BY <2>1, <2>3 DEF InBroadcast
  <2>5. watching \subseteq Streams
    BY DEF Subscribed
  <2>6. ASSUME NEW s \in Streams
        PROVE  Len(queue'[s]) <= QueueSize
    <3>1. CASE s \in watching \ full
      <4>1. Len(queue[s]) # QueueSize /\ queue[s] \in Seq(Nat) /\ handed + 1 \in Nat
        BY <1>1, <2>2, <3>1
      <4>2. Len(Append(queue[s], handed + 1)) = Len(queue[s]) + 1
        BY <4>1, AppendProperties
      <4> QED BY <1>1, <2>1, <3>1, <4>1, <4>2, FeedAssumption
    <3>2. CASE s \notin watching \ full
      <4> HIDE DEF watching, full
      <4> QED BY <1>1, <2>1, <3>2
    <3> QED BY <3>1, <3>2
  <2> HIDE DEF watching, full, audience, topic
  <2> QED BY <1>1, <2>1, <2>4, <2>5, <2>6, BoundsStay
<1>3. ASSUME NEW s \in Streams, Receive(s) \/ CloseStream(s)
      PROVE  FeedBounds'
  <2>1. queue' = [queue EXCEPT ![s] = <<>>] \/ (queue[s] # <<>> /\ queue' = [queue EXCEPT ![s] = Tail(@)])
    BY <1>3 DEF Receive, CloseStream
  <2>2. Len(<<>>) = 0 /\ QueueSize \in Nat
    BY FeedAssumption, EmptySeq
  <2>3. queue[s] # <<>> => Len(Tail(queue[s])) = Len(queue[s]) - 1
    BY <1>1, HeadTailProperties
  <2>4. ASSUME NEW r \in Streams
        PROVE  Len(queue'[r]) <= QueueSize
    <3>1. CASE r # s
      BY <1>1, <2>1, <3>1
    <3>2. CASE r = s
      <4>1. queue'[r] = <<>> \/ (queue[s] # <<>> /\ queue'[r] = Tail(queue[s]))
        BY <1>1, <2>1, <3>2
      <4> QED BY <1>1, <2>2, <2>3, <4>1
    <3> QED BY <3>1, <3>2
  <2>5. UNCHANGED <<subscribers, round, dropped>>
    BY <1>3 DEF Receive, CloseStream
  <2> QED BY <1>1, <2>4, <2>5, BoundsStay
<1>4. ASSUME NEW d \in Dashboards, SendNext(d) \/ EventSendRaises(d) \/ EventSent(d)
      PROVE  FeedBounds'
  <2>1. UNCHANGED <<queue, subscribers, dropped>>
    BY <1>4 DEF SendNext, EventSendRaises, EventSent
  <2>2. InBroadcast' \subseteq Dashboards
    <3>1. CASE SendNext(d)
      <4>1. round'.at = {d} /\ round'.todo = round.todo \ {d} /\ round'.dead = round.dead
        BY <1>1, <3>1 DEF SendNext, RoundFields
      <4> QED BY <1>1, <4>1 DEF InBroadcast
    <3>2. CASE EventSendRaises(d)
      <4>1. round'.at = {} /\ round'.todo = round.todo /\ round'.dead = round.dead \cup {d}
        BY <1>1, <3>2 DEF EventSendRaises, RoundFields
      <4> QED BY <1>1, <4>1 DEF InBroadcast
    <3>3. CASE EventSent(d)
      <4>1. round'.at = {} /\ round'.todo = round.todo /\ round'.dead = round.dead
        BY <1>1, <3>3 DEF EventSent, RoundFields
      <4> QED BY <1>1, <4>1 DEF InBroadcast
    <3> QED BY <1>4, <3>1, <3>2, <3>3
  <2> QED BY <1>1, <2>1, <2>2, BoundsStay
<1>5. ASSUME NEW d \in Dashboards, Join(d) \/ Leave(d)
      PROVE  FeedBounds'
  <2>1. /\ \A t \in Topics : subscribers'[t] \subseteq subscribers[t] \cup {c \in Dashboards : Watches[c] = t}
        /\ subscribers'[Watches[d]] \in SUBSET Dashboards
    <3>1. \/ subscribers' = [subscribers EXCEPT ![Watches[d]] = @ \cup {d}]
          \/ subscribers' = [subscribers EXCEPT ![Watches[d]] = @ \ {d}]
      BY <1>5 DEF Join, Leave
    <3>2. Watches[d] \in Topics
      BY FeedAssumption
    <3> QED BY <1>1, <3>1, <3>2
  <2>2. round' = round \/ InBroadcast' \subseteq Dashboards
    BY <1>5, <2>1, MixedBroadcast DEF Join, Leave
  <2>3. UNCHANGED <<queue, dropped>>
    BY <1>5 DEF Join, Leave
  <2> QED BY <1>1, <2>1, <2>2, <2>3, BoundsStay
<1>6. CASE FinishRound
  <2>1. \A t \in Topics : subscribers'[t] \subseteq subscribers[t]
    BY <1>1, <1>6 DEF FinishRound
  <2>2. UNCHANGED <<queue, round, dropped>>
    BY <1>6 DEF FinishRound
  <2> QED BY <1>1, <2>1, <2>2, BoundsStay
<1>7. ASSUME UNCHANGED <<queue, subscribers, round, dropped>>
      PROVE  FeedBounds'
  BY <1>1, <1>7, BoundsStay
<1>8. CASE BridgeFails \/ RoundFails \/ (\E t \in Topics : Publish(t)) \/ UNCHANGED feedVars
  BY <1>7, <1>8 DEF BridgeFails, RoundFails, Publish, feedVars
<1>9. ASSUME NEW s \in Streams, OpenStream(s) \/ StartStream(s)
      PROVE  FeedBounds'
  BY <1>7, <1>9 DEF OpenStream, StartStream
<1>10. ASSUME NEW d \in Dashboards, LoseDashboard(d)
       PROVE  FeedBounds'
  BY <1>7, <1>10 DEF LoseDashboard
<1> QED
  BY <1>2, <1>3, <1>4, <1>5, <1>6, <1>8, <1>9, <1>10 DEF FeedNext

(* The feed keeps its types and bounds: no queue is above its maximum, and *)
(* a socket is registered under the topic it watches and no other.         *)
THEOREM FeedKeepsTypes == FeedSpec => []FeedTypeOK
<1>1. FeedInit => FeedInv /\ FeedBounds
  BY FeedInvInit, FeedAssumption DEF FeedInit, FeedBounds, InBroadcast
<1>2. FeedInv /\ FeedBounds /\ [FeedNext]_feedVars => FeedInv' /\ FeedBounds'
  BY FeedInvNext, FeedBoundsNext
<1>3. ASSUME FeedInv, FeedBounds PROVE FeedTypeOK
  BY <1>3 DEF FeedTypeOK, FeedInv, FeedTypes, FeedBounds, InBroadcast
<1> QED
  BY <1>1, <1>2, <1>3, PTL DEF FeedSpec

-----------------------------------------------------------------------------
(* The clock and the scheduler, and rooms that hold their own devices.     *)
ClockInv ==
    /\ started \in Nat /\ minute \in started .. Horizon /\ nextRun \in started .. Horizon + Interval
    /\ job.step # "none" => job.begun \in 0 .. Horizon
    /\ missed \subseteq 0 .. Horizon

RoomsInv == \A r \in Rooms : \A d \in inRoom[r] : Room[d] = r

LEMMA ClockBounds == Horizon \in Nat /\ Interval \in Nat \ {0} /\ Starts \subseteq 0 .. Horizon
BY CapturesAssumption

LEMMA RoomsNext == CaptureInv /\ RoomsInv /\ [CapturesNext]_captureVars => RoomsInv'
<1> SUFFICES ASSUME CaptureInv, RoomsInv, [CapturesNext]_captureVars
             PROVE  RoomsInv'
  OBVIOUS
<1>1. inRoom \in [Rooms -> SUBSET Devices]
  BY DEF CaptureInv, ActiveInv
<1>2. CASE UNCHANGED inRoom
  BY <1>2 DEF RoomsInv
<1>3. ASSUME NEW s \in Sockets,
             inRoom' = [inRoom EXCEPT ![Room[Owner[s]]] = @ \cup {Owner[s]}]
             \/ inRoom' = [inRoom EXCEPT ![Room[Owner[s]]] = @ \ {Owner[s]}]
      PROVE  RoomsInv'
  BY <1>1, <1>3 DEF RoomsInv
<1>4. \/ UNCHANGED inRoom
      \/ \E s \in Sockets : \/ inRoom' = [inRoom EXCEPT ![Room[Owner[s]]] = @ \cup {Owner[s]}]
                            \/ inRoom' = [inRoom EXCEPT ![Room[Owner[s]]] = @ \ {Owner[s]}]
  <2>1. ASSUME NEW s \in Sockets, Connect(s)
        PROVE  inRoom' = [inRoom EXCEPT ![Room[Owner[s]]] = @ \cup {Owner[s]}]
    BY <2>1 DEF Connect
  <2>2. ASSUME NEW s \in Sockets, Disconnect(s) \/ SendRaises(s)
        PROVE  inRoom' = [inRoom EXCEPT ![Room[Owner[s]]] = @ \ {Owner[s]}]
    BY <2>2 DEF Disconnect, SendRaises, Removed
  <2>3. ASSUME NEW s \in Sockets, Lose(s) \/ Sent(s)
        PROVE  UNCHANGED inRoom
    BY <2>3 DEF Lose, Sent, connections
  <2>4. ASSUME NEW d \in Devices, Pick(d)
        PROVE  UNCHANGED inRoom
    BY <2>4 DEF Pick, connections
  <2>5. CASE Heartbeat \/ SkipRun \/ StoreCaptureNonce \/ JobFails \/ NextClass \/ Minute \/ UNCHANGED captureVars
    BY <2>5 DEF Heartbeat, SkipRun, StoreCaptureNonce, JobFails, NextClass, Minute, captureVars, connections
  <2> QED BY <2>1, <2>2, <2>3, <2>4, <2>5 DEF CapturesNext
<1> QED
  BY <1>2, <1>3, <1>4

LEMMA ClockNext == CaptureInv /\ ClockInv /\ [CapturesNext]_captureVars => ClockInv'
<1> SUFFICES ASSUME CaptureInv, ClockInv, [CapturesNext]_captureVars
             PROVE  ClockInv'
  OBVIOUS
<1>1. minute \in 0 .. Horizon /\ started \in Nat /\ nextRun \in Nat
  BY ClockBounds DEF ClockInv
<1>2. ASSUME UNCHANGED <<clock, missed>>, job' = job \/ job'.step = "none" \/ (job.step # "none" /\ job'.begun = job.begun)
      PROVE  ClockInv'
  BY <1>2 DEF ClockInv, clock
<1>3. CASE Heartbeat
  <2>1. minute = nextRun /\ nextRun' = nextRun + Interval /\ UNCHANGED <<started, minute, missed>>
    BY <1>3 DEF Heartbeat
  <2>2. nextRun' \in started .. Horizon + Interval
    BY <1>1, <2>1, ClockBounds DEF ClockInv
  <2>3. job'.step = "none" \/ job'.begun = minute
    <3>1. PICK order : job' = IF (minute % 60) % Interval # 0 \/ order = <<>> THEN NoJob
                 ELSE [step |-> "nonce", begun |-> minute, classes |-> order, targets |-> {},
                       at |-> Nobody, sent |-> {}, owed |-> {}]
      BY <1>3 DEF Heartbeat
    <3> QED BY <3>1 DEF NoJob
  <2> QED BY <1>1, <2>1, <2>2, <2>3 DEF ClockInv
<1>4. CASE SkipRun
  <2>1. minute = nextRun /\ nextRun' = nextRun + Interval /\ missed' = missed \cup {minute}
        /\ UNCHANGED <<started, minute, job>>
    BY <1>4 DEF SkipRun
  <2> QED BY <1>1, <2>1, ClockBounds DEF ClockInv
<1>5. CASE Minute
  BY <1>1, <1>5, ClockBounds DEF Minute, ClockInv
<1>6. CASE JobFails
  BY <1>6 DEF JobFails, ClockInv, NoJob, clock
<1>7. ASSUME NEW s \in Sockets, Connect(s) \/ Lose(s) \/ Disconnect(s)
      PROVE  ClockInv'
  <2>1. UNCHANGED <<clock, missed, job>>
    BY <1>7 DEF Connect, Lose, Disconnect
  <2> QED BY <1>2, <2>1
<1>8. CASE job.step # "none" /\ job'.begun = job.begun /\ UNCHANGED <<clock, missed>>
  BY <1>2, <1>8
<1>9. ASSUME NEW s \in Sockets, Sent(s) \/ SendRaises(s)
      PROVE  ClockInv'
  <2>1. job.step = "send" /\ UNCHANGED <<clock, missed>>
        /\ (job' = [job EXCEPT !.at = {}, !.sent = @ \cup {s}] \/ job' = [job EXCEPT !.at = {}])
    BY <1>9 DEF Sent, SendRaises, Nobody
  <2>2. job'.begun = job.begun
    BY <2>1 DEF CaptureInv, JobInv, JobFields
  <2> QED BY <1>8, <2>1, <2>2
<1>10. ASSUME NEW d \in Devices, Pick(d)
       PROVE  ClockInv'
  <2> DEFINE at == IF d \in DOMAIN active THEN {active[d]} ELSE Nobody
  <2>1. job.step = "send" /\ UNCHANGED <<clock, missed>>
        /\ job' = [job EXCEPT !.targets = @ \ {d}, !.at = at]
    BY <1>10 DEF Pick
  <2> HIDE DEF at
  <2>2. job'.begun = job.begun
    BY <2>1 DEF CaptureInv, JobInv, JobFields
  <2> QED BY <1>8, <2>1, <2>2
<1>11. CASE StoreCaptureNonce
  <2> DEFINE room == Head(job.classes).room
             owed == {s \in sole : Room[Owner[s]] = room}
  <2>1. job.step = "nonce" /\ UNCHANGED <<clock, missed>>
        /\ job' = [job EXCEPT !.step = "send", !.targets = inRoom[room], !.sent = {}, !.owed = owed]
    BY <1>11 DEF StoreCaptureNonce
  <2> HIDE DEF owed, room
  <2>2. job'.begun = job.begun
    BY <2>1 DEF CaptureInv, JobInv, JobFields
  <2> QED BY <1>8, <2>1, <2>2
<1>12. CASE NextClass
  <2>1. job.step = "send" /\ UNCHANGED <<clock, missed>>
        /\ (job' = NoJob \/ job' = [job EXCEPT !.step = "nonce", !.classes = Tail(@)])
    BY <1>12 DEF NextClass, RoomDone
  <2>2. CASE job' = NoJob
    BY <1>2, <2>1, <2>2 DEF NoJob
  <2>3. CASE job' = [job EXCEPT !.step = "nonce", !.classes = Tail(@)]
    <3>1. job'.begun = job.begun
      BY <2>1, <2>3 DEF CaptureInv, JobInv, JobFields
    <3> QED BY <1>8, <2>1, <3>1
  <2> QED BY <2>1, <2>2, <2>3
<1>13. CASE UNCHANGED captureVars
  BY <1>2, <1>13 DEF captureVars, clock
<1> QED
  BY <1>3, <1>4, <1>5, <1>6, <1>7, <1>9, <1>10, <1>11, <1>12, <1>13 DEF CapturesNext

(* The clock, the tables of connections and the job keep their types: a    *)
(* device is registered in its own room and with a connection of its own,  *)
(* and no run is planned further ahead than an interval.                   *)
THEOREM CapturesKeepTypes == CapturesSpec => []CapturesTypeOK
<1>1. CapturesInit => CaptureInv /\ ClockInv /\ RoomsInv
  <2> SUFFICES ASSUME CapturesInit PROVE ClockInv /\ RoomsInv
    BY CaptureInvInit
  <2> QED BY ClockBounds DEF CapturesInit, ClockInv, RoomsInv, NoJob
<1>2. CaptureInv /\ ClockInv /\ RoomsInv /\ [CapturesNext]_captureVars => CaptureInv' /\ ClockInv' /\ RoomsInv'
  BY CaptureInvNext, ClockNext, RoomsNext
<1>3. ASSUME CaptureInv, ClockInv, RoomsInv PROVE CapturesTypeOK
  BY <1>3 DEF CapturesTypeOK, CaptureInv, ActiveInv, SoleInv, JobInv, ClockInv, RoomsInv
<1> QED
  BY <1>1, <1>2, <1>3, PTL DEF CapturesSpec

-----------------------------------------------------------------------------
(* Types of the settings. Files hold numbers and nulls under keys that are *)
(* known, and every revision has thresholds in order, as a PATCH that would*)
(* bring them out of order is refused; a file edited by hand may not.      *)
IsFile(f) == DOMAIN f \subseteq Range(GateKeys) /\ f \in [DOMAIN f -> Nat \cup {Null}]
IsSnapshot(s) == s \in [ApiKeys -> Nat \cup {Null}] /\ Valid(s)
AreSnapshots(h) == \A i \in 1 .. Len(h) : IsSnapshot(h[i].snapshot)

FilesInv ==
    /\ IsFile(settings) /\ AreSnapshots(history) /\ Len(history) <= Shown
    /\ \A p \in Processes : serving[p] # NoRequest =>
          IsSnapshot(serving[p].snapshot) /\ AreSnapshots(serving[p].past)

OrderedInv ==
    \A p \in Pipelines :
        /\ text[p] # Unread => IsFile(text[p])
        /\ cache[p] # <<>> =>
              cache[p].relaxed <= cache[p].strict /\ cache[p].lvrelaxed <= cache[p].lvstrict

LEMMA KeysOfGates ==
    Range(GateKeys) = {"ann", "strict", "relaxed", "lvstrict", "lvrelaxed", "margin", "quality", "weight"}
BY DEF Range, GateKeys

LEMMA EmptyFile == IsFile(<<>>) /\ AreSnapshots(<<>>)
<1>1. DOMAIN <<>> = {} /\ Len(<<>>) = 0
  OBVIOUS
<1>2. <<>> = [k \in {} |-> k]
  OBVIOUS
<1>3. <<>> \in [{} -> Nat \cup {Null}]
  BY <1>2
<1> QED
  BY <1>1, <1>3 DEF IsFile, AreSnapshots

LEMMA SnapshotIsFile ==
    ASSUME NEW s, IsSnapshot(s)
    PROVE  IsFile(s)
<1>1. s \in [ApiKeys -> Nat \cup {Null}] /\ DOMAIN s = ApiKeys
  BY DEF IsSnapshot
<1> QED
  BY <1>1, KeysOfGates DEF IsFile, ApiKeys

(* Gates in use: whatever the file holds, thresholds that are null or out  *)
(* of order do not reach the pipeline.                                     *)
LEMMA ThresholdsInOrder ==
    ASSUME NEW f, IsFile(f)
    PROVE  GatesOf(f).relaxed <= GatesOf(f).strict /\ GatesOf(f).lvrelaxed <= GatesOf(f).lvstrict
<1> DEFINE m == Merged(f)
<1>1. m = [k \in Range(GateKeys) |-> m[k]]
  BY DEF Merged
<1>2. ASSUME NEW k \in {"strict", "relaxed", "lvstrict", "lvrelaxed"}
      PROVE  m[k] \in Nat
  <2>1. k \in Range(GateKeys) /\ k # "ann" /\ k # "weight" /\ k \in ApiKeys
    BY <1>2, KeysOfGates DEF ApiKeys
  <2>2. Defaults[k] \in Nat
    BY <2>1, SettingsAssumption
  <2>3. CASE k \in DOMAIN f /\ \E i \in DOMAIN GateKeys : GateKeys[i] = k
               /\ \A j \in 1 .. i : GateKeys[j] \in DOMAIN f => f[GateKeys[j]] # Null
    <3>1. m[k] = f[k]
      BY <2>1, <2>3 DEF Merged
    <3>2. PICK i \in DOMAIN GateKeys : GateKeys[i] = k
               /\ \A j \in 1 .. i : GateKeys[j] \in DOMAIN f => f[GateKeys[j]] # Null
      BY <2>3
    <3>3. i \in 1 .. i
      BY <3>2 DEF GateKeys
    <3>4. f[k] # Null /\ f[k] \in Nat \cup {Null}
      BY <2>3, <3>2, <3>3 DEF IsFile
    <3> QED BY <3>1, <3>4
  <2>4. CASE ~(k \in DOMAIN f /\ \E i \in DOMAIN GateKeys : GateKeys[i] = k
               /\ \A j \in 1 .. i : GateKeys[j] \in DOMAIN f => f[GateKeys[j]] # Null)
    <3>1. m[k] = Defaults[k]
      BY <2>1, <2>4 DEF Merged, Unset
    <3> QED BY <2>2, <3>1
  <2> QED BY <2>3, <2>4
<1> HIDE DEF m
<1>3. GatesOf(f) = [m EXCEPT !.relaxed = Min({m.relaxed, m.strict}),
                            !.lvrelaxed = Min({m.lvrelaxed, m.lvstrict})]
  BY <1>1, KeysOfGates DEF GatesOf, m
<1>4. /\ GatesOf(f).strict = m.strict /\ GatesOf(f).relaxed = Min({m.relaxed, m.strict})
      /\ GatesOf(f).lvstrict = m.lvstrict /\ GatesOf(f).lvrelaxed = Min({m.lvrelaxed, m.lvstrict})
  BY <1>1, <1>3, KeysOfGates
<1>5. ASSUME NEW a \in Nat, NEW b \in Nat
      PROVE  Min({a, b}) <= b
  <2>1. \E x \in {a, b} : \A y \in {a, b} : x <= y
    OBVIOUS
  <2> QED BY <2>1 DEF Min
<1>6. m.relaxed \in Nat /\ m.strict \in Nat /\ m.lvrelaxed \in Nat /\ m.lvstrict \in Nat
  BY <1>2
<1>7. Min({m.relaxed, m.strict}) <= m.strict /\ Min({m.lvrelaxed, m.lvstrict}) <= m.lvstrict
  BY <1>5, <1>6
<1> QED
  BY <1>4, <1>7

LEMMA FullWeight ==
    ASSUME NEW s \in [ApiKeys -> Nat \cup {Null}], Valid(s)
    PROVE  IsSnapshot([s EXCEPT !.weight = Defaults.weight])
<1> DEFINE t == [s EXCEPT !.weight = Defaults.weight]
<1>1. Defaults.weight \in Nat /\ Defaults.weight > 0 /\ "weight" \in ApiKeys
  BY SettingsAssumption DEF ApiKeys
<1>2. t \in [ApiKeys -> Nat \cup {Null}] /\ t.weight = Defaults.weight
  BY <1>1
<1>3. \A k \in {"strict", "relaxed", "lvstrict", "lvrelaxed"} : t[k] = s[k]
  BY DEF ApiKeys
<1> HIDE DEF t
<1>4. t.weight # Null
  BY <1>1, <1>2, SettingsAssumption
<1>5. Valid(t)
  BY <1>1, <1>2, <1>3, <1>4 DEF Valid
<1> QED
  BY <1>2, <1>5 DEF IsSnapshot, t

LEMMA NextSnapshot ==
    ASSUME NEW u \in Updates, IsFile(settings)
    PROVE  [k \in ApiKeys |-> IF k \in DOMAIN u THEN u[k] ELSE Loaded(settings)[k]]
              \in [ApiKeys -> Nat \cup {Null}]
<1>1. u \in [DOMAIN u -> Nat \cup {Null}] /\ Defaults \in [ApiKeys -> Nat]
  BY SettingsAssumption
<1>2. Loaded(settings) \in [ApiKeys -> Nat \cup {Null}]
  BY <1>1 DEF Loaded, IsFile
<1> QED
  BY <1>1, <1>2

LEMMA LatestSnapshots ==
    ASSUME NEW h, Numbered(h), AreSnapshots(h)
    PROVE  AreSnapshots(Latest(h)) /\ Len(Latest(h)) <= Shown
<1> DEFINE n == Len(h)
           m == IF n > Shown THEN n - Shown + 1 ELSE 1
           S == {h[i] : i \in 1 .. Len(h)}
           g == SubSeq(h, m, n)
<1>1. n \in Nat /\ Shown \in Nat \ {0}
  BY SettingsAssumption DEF Numbered
<1>2. m \in Nat \ {0} /\ m <= n + 1 /\ n - m + 1 <= Shown
  BY <1>1
<1>3. Latest(h) = g /\ \A x \in S : IsSnapshot(x.snapshot)
  BY DEF Latest, AreSnapshots
<1> HIDE DEF m
<1>4. \A i \in m .. n : h[i] \in S
  BY <1>1, <1>2
<1> HIDE DEF n, S
<1>5. g \in Seq(S) /\ Len(g) = IF m <= n THEN n - m + 1 ELSE 0
  <2>1. m \in Int /\ n \in Int
    BY <1>1, <1>2
  <2> QED BY <1>4, <2>1, SubSeqProperties
<1> HIDE DEF g
<1>6. \A i \in 1 .. Len(g) : g[i] \in S
  BY <1>5, ElementOfSeq
<1>7. Len(g) <= Shown
  BY <1>1, <1>2, <1>5
<1> QED
  BY <1>3, <1>6, <1>7 DEF AreSnapshots

LEMMA AppendedSnapshots ==
    ASSUME NEW h, Numbered(h), AreSnapshots(h), NEW rev, IsSnapshot(rev.snapshot)
    PROVE  AreSnapshots(Append(h, rev))
<1> DEFINE g == Append(h, rev)
<1>1. /\ Len(g) = Len(h) + 1
      /\ \A i \in 1 .. Len(h) : g[i] = h[i]
      /\ g[Len(h) + 1] = rev
  BY AppendedElements
<1> HIDE DEF g
<1>2. Len(h) \in Nat
  BY DEF Numbered
<1>3. \A i \in 1 .. Len(h) + 1 : i \in 1 .. Len(h) \/ i = Len(h) + 1
  BY <1>2
<1>4. AreSnapshots(g)
  BY <1>1, <1>3 DEF AreSnapshots
<1> QED
  BY <1>4 DEF g

(* A step of one request, which changes at most the history: what it and   *)
(* the others are about to write stays in order.                           *)
LEMMA FilesGoOn ==
    ASSUME FilesInv, IsFile(settings)',
           AreSnapshots(history'), Len(history') <= Shown,
           \A q \in Processes : serving'[q] # NoRequest =>
              IsSnapshot(serving'[q].snapshot) /\ AreSnapshots(serving'[q].past)
    PROVE  FilesInv'
BY DEF FilesInv, AreSnapshots, IsSnapshot, Valid

LEMMA RequestKeepsFiles ==
    ASSUME RevisionInv, FilesInv, NEW p \in Processes,
           EmptySettings(p) \/ Number(p) \/ AppendRevision(p) \/ EmptyHistory(p) \/ Respond(p) \/ CutShort(p)
    PROVE  FilesInv'
<1>1. serving[p] # NoRequest
  BY DEF EmptySettings, Number, AppendRevision, EmptyHistory, Respond, CutShort, NoRequest
<1>2. Serves(serving[p]) /\ IsSnapshot(serving[p].snapshot) /\ AreSnapshots(serving[p].past)
  BY <1>1 DEF RevisionInv, FilesInv
<1>3. AreSnapshots(Append(history, [id |-> serving[p].id, snapshot |-> serving[p].snapshot]))
  BY <1>2, AppendedSnapshots DEF RevisionInv, FilesInv
<1> DEFINE g == Append(history, [id |-> serving[p].id, snapshot |-> serving[p].snapshot])
<1>4. AreSnapshots(g)
  BY <1>3
<1>5. serving' = [serving EXCEPT ![p] = serving'[p]] /\ serving = [q \in Processes |-> serving[q]]
  BY DEF RevisionInv, EmptySettings, Number, AppendRevision, EmptyHistory, Respond, CutShort
<1>6. \A q \in Processes : q # p => serving'[q] = serving[q]
  BY <1>5
<1>7. serving'[p] = NoRequest \/ (serving'[p].snapshot = serving[p].snapshot
          /\ (serving'[p].past = serving[p].past \/ serving'[p].past = g))
  <2>1. CASE EmptySettings(p)
    <3>1. serving'[p] = [serving[p] EXCEPT !.step = "write"]
      BY <1>5, <2>1 DEF EmptySettings
    <3> QED BY <1>2, <3>1 DEF Serves, ServingFields
  <2>2. CASE Number(p)
    <3>1. serving'[p] = [[serving[p] EXCEPT !.step = "append"] EXCEPT !.id = NextId(history)]
      BY <1>5, <2>2 DEF Number
    <3> QED BY <1>2, <3>1 DEF Serves, ServingFields
  <2>3. CASE AppendRevision(p)
    <3>1. serving'[p] = [[serving[p] EXCEPT !.step = "clear"] EXCEPT !.past = g]
      BY <1>5, <2>3 DEF AppendRevision
    <3> HIDE DEF g
    <3> QED BY <1>2, <3>1 DEF Serves, ServingFields
  <2>4. CASE EmptyHistory(p)
    <3>1. serving'[p] = [serving[p] EXCEPT !.step = "save"]
      BY <1>5, <2>4 DEF EmptyHistory
    <3> QED BY <1>2, <3>1 DEF Serves, ServingFields
  <2>5. CASE Respond(p) \/ CutShort(p)
    BY <1>5, <2>5 DEF Respond, CutShort
  <2> QED BY <2>1, <2>2, <2>3, <2>4, <2>5
<1> HIDE DEF g
<1>8. \A q \in Processes : serving'[q] # NoRequest =>
          IsSnapshot(serving'[q].snapshot) /\ AreSnapshots(serving'[q].past)
  BY <1>2, <1>4, <1>6, <1>7 DEF FilesInv
<1>9. (settings' = settings \/ settings' = <<>>) /\ (history' = history \/ history' = <<>>)
  BY DEF EmptySettings, Number, AppendRevision, EmptyHistory, Respond, CutShort, files, Holds, Garbage
<1>10. IsFile(settings) /\ IsFile(<<>>) /\ AreSnapshots(<<>>) /\ Len(<<>>) <= Shown
  <2>1. Len(<<>>) = 0 /\ Shown \in Nat
    BY SettingsAssumption
  <2> QED BY <2>1, EmptyFile DEF FilesInv
<1>11. IsFile(settings) /\ IsFile(settings)'
  BY <1>9, <1>10 DEF IsFile
<1>12. AreSnapshots(history') /\ Len(history') <= Shown
  BY <1>9, <1>10 DEF FilesInv
<1> QED
  BY <1>8, <1>11, <1>12, FilesGoOn

(* A write of the settings or of the history, of the whole of it or broken.*)
LEMMA WriteKeepsFiles ==
    ASSUME RevisionInv, FilesInv, NEW p \in Processes, WriteSettings(p) \/ WriteHistory(p)
    PROVE  FilesInv'
<1>1. serving[p] # NoRequest
  BY DEF WriteSettings, WriteHistory, NoRequest
<1>2. Serves(serving[p]) /\ IsSnapshot(serving[p].snapshot) /\ AreSnapshots(serving[p].past)
  BY <1>1 DEF RevisionInv, FilesInv
<1>3. PICK next \in ServingSteps : serving' = Written(p, next)
  BY DEF WriteSettings, WriteHistory, ServingSteps
<1>4. \A q \in Processes : serving[q] = NoRequest => serving'[q] = NoRequest
  BY <1>1, <1>3, WrittenBy
<1>5. ASSUME NEW q \in Processes, serving[q] # NoRequest
      PROVE  serving'[q].snapshot = serving[q].snapshot /\ serving'[q].past = serving[q].past
  <2>1. Serves(serving[q])
    BY <1>5 DEF RevisionInv
  <2>2. \/ serving'[q] = [[serving[q] EXCEPT !.step = next] EXCEPT !.spoilt = FALSE]
        \/ serving'[q] = [serving[q] EXCEPT !.spoilt = TRUE]
        \/ serving'[q] = serving[q]
    BY <1>3 DEF Written
  <2> QED BY <2>1, <2>2 DEF Serves, ServingFields
<1>6. \A q \in Processes : serving'[q] # NoRequest =>
          IsSnapshot(serving'[q].snapshot) /\ AreSnapshots(serving'[q].past)
  BY <1>4, <1>5 DEF FilesInv
<1>7. /\ settings' = settings \/ settings' = <<>> \/ settings' = serving[p].snapshot
      /\ history' = history \/ history' = <<>> \/ history' = Latest(serving[p].past)
  BY DEF WriteSettings, WriteHistory, Holds, Garbage
<1>8. IsFile(settings) /\ IsFile(<<>>) /\ IsFile(serving[p].snapshot)
  BY <1>2, EmptyFile, SnapshotIsFile DEF FilesInv
<1>9. /\ AreSnapshots(history) /\ Len(history) <= Shown
      /\ AreSnapshots(<<>>) /\ Len(<<>>) <= Shown
      /\ AreSnapshots(Latest(serving[p].past)) /\ Len(Latest(serving[p].past)) <= Shown
  <2>1. Len(<<>>) = 0 /\ Shown \in Nat
    BY SettingsAssumption
  <2> QED BY <1>2, <2>1, EmptyFile, LatestSnapshots DEF FilesInv, Serves
<1>10. IsFile(settings)'
  BY <1>7, <1>8 DEF IsFile
<1> QED
  BY <1>6, <1>7, <1>9, <1>10, FilesGoOn

LEMMA RequestStartsInOrder ==
    ASSUME RevisionInv, FilesInv, NEW p \in Processes, NEW snapshot, IsSnapshot(snapshot), NEW id,
           StartsRequest(p, snapshot, id)
    PROVE  FilesInv'
<1> DEFINE s == [step |-> "empty", snapshot |-> snapshot, id |-> id, past |-> <<>>,
                 alone |-> Idle, spoilt |-> FALSE]
           Joined(q) == [serving[q] EXCEPT !.alone = FALSE]
<1>1. /\ settings' = settings /\ history' = history
      /\ serving' = [q \in Processes |-> IF q = p THEN s
                        ELSE IF serving[q] # NoRequest THEN Joined(q) ELSE NoRequest]
  BY DEF StartsRequest, files
<1>2. s.snapshot = snapshot /\ s.past = <<>>
  OBVIOUS
<1>3. ASSUME NEW q \in Processes, serving[q] # NoRequest
      PROVE  Joined(q).snapshot = serving[q].snapshot /\ Joined(q).past = serving[q].past
  BY <1>3 DEF RevisionInv, Serves, ServingFields
<1> HIDE DEF s, Joined
<1>4. ASSUME NEW q \in Processes, serving'[q] # NoRequest
      PROVE  IsSnapshot(serving'[q].snapshot) /\ AreSnapshots(serving'[q].past)
  <2>1. CASE q = p
    BY <1>1, <1>2, <2>1, EmptyFile
  <2>2. CASE q # p
    <3>1. serving[q] # NoRequest /\ serving'[q] = Joined(q)
      BY <1>1, <1>4, <2>2
    <3> QED BY <1>3, <3>1 DEF FilesInv
  <2> QED BY <2>1, <2>2
<1>5. IsFile(settings)' /\ AreSnapshots(history') /\ Len(history') <= Shown
  BY <1>1 DEF FilesInv, IsFile
<1> QED
  BY <1>4, <1>5, FilesGoOn

LEMMA FilesNext == RevisionInv /\ FilesInv /\ [SettingsNext]_settingsVars => FilesInv'
<1> SUFFICES ASSUME RevisionInv, FilesInv, [SettingsNext]_settingsVars
             PROVE  FilesInv'
  OBVIOUS
<1>1. ASSUME NEW p \in Processes, NEW u \in Updates, StartUpdate(p, u)
      PROVE  FilesInv'
  <2> DEFINE current == [k \in ApiKeys |-> IF k \in DOMAIN u THEN u[k] ELSE Loaded(settings)[k]]
  <2>1. current \in [ApiKeys -> Nat \cup {Null}]
    BY NextSnapshot DEF FilesInv
  <2>2. Valid(current) /\ StartsRequest(p, [current EXCEPT !.weight = Defaults.weight], 0)
    BY <1>1 DEF StartUpdate
  <2> HIDE DEF current
  <2>3. IsSnapshot([current EXCEPT !.weight = Defaults.weight])
    BY <2>1, <2>2, FullWeight
  <2> QED BY <2>2, <2>3, RequestStartsInOrder
<1>2. ASSUME NEW p \in Processes, NEW i \in 1 .. Shown, StartRollback(p, i)
      PROVE  FilesInv'
  <2>1. i \in DOMAIN history /\ StartsRequest(p, history[i].snapshot, NextId(history))
    BY <1>2 DEF StartRollback
  <2>2. i \in 1 .. Len(history)
    BY <2>1, NumberedIsSeq DEF RevisionInv
  <2>3. IsSnapshot(history[i].snapshot)
    BY <2>2 DEF FilesInv, AreSnapshots
  <2> QED BY <2>1, <2>3, RequestStartsInOrder
<1>3. ASSUME NEW content \in HandEdits, EditByHand(content)
      PROVE  FilesInv'
  <2>1. settings' = content /\ UNCHANGED <<history, serving>>
    BY <1>3 DEF EditByHand, Holds
  <2>2. IsFile(content)
    BY SettingsAssumption DEF IsFile
  <2>3. IsFile(settings)'
    BY <2>1, <2>2 DEF IsFile
  <2> QED BY <2>1, <2>3, FilesGoOn DEF FilesInv
<1>4. ASSUME UNCHANGED <<settings, history, serving>>
      PROVE  FilesInv'
  <2>1. IsFile(settings)'
    BY <1>4 DEF FilesInv, IsFile
  <2> QED BY <1>4, <2>1, FilesGoOn DEF FilesInv
<1>5. ASSUME NEW p \in Pipelines, Stat(p) \/ ReadFile(p) \/ Keep(p)
      PROVE  FilesInv'
  BY <1>4, <1>5 DEF Stat, ReadFile, Keep, files
<1>6. CASE Tick \/ UNCHANGED settingsVars
  BY <1>4, <1>6 DEF Tick, files, settingsVars
<1> QED
  BY <1>1, <1>2, <1>3, <1>5, <1>6, RequestKeepsFiles, WriteKeepsFiles DEF SettingsNext

LEMMA OrderedNext == GatesInv /\ FilesInv /\ OrderedInv /\ [SettingsNext]_settingsVars => OrderedInv'
<1> SUFFICES ASSUME GatesInv, FilesInv, OrderedInv, [SettingsNext]_settingsVars
             PROVE  OrderedInv'
  OBVIOUS
<1>1. ASSUME UNCHANGED <<cache, text>>
      PROVE  OrderedInv'
  BY <1>1 DEF OrderedInv, IsFile
<1>2. /\ cache = [p \in Pipelines |-> cache[p]] /\ text = [p \in Pipelines |-> text[p]]
  BY DEF GatesInv, ReaderInv
<1>3. ASSUME NEW p \in Pipelines, ReadFile(p)
      PROVE  OrderedInv'
  <2>1. text' = [q \in Pipelines |-> IF q = p THEN settings ELSE text[q]] /\ cache' = cache
    BY <1>2, <1>3 DEF ReadFile
  <2>2. \A q \in Pipelines : text'[q] # Unread => IsFile(text'[q])
    BY <2>1 DEF FilesInv, OrderedInv
  <2> QED BY <2>1, <2>2 DEF OrderedInv, IsFile
<1>4. ASSUME NEW p \in Pipelines, Keep(p)
      PROVE  OrderedInv'
  <2>1. /\ text[p] # Unread
        /\ text' = [q \in Pipelines |-> IF q = p THEN Unread ELSE text[q]]
        /\ cache' = [q \in Pipelines |-> IF q = p THEN GatesOf(text[p]) ELSE cache[q]]
    BY <1>2, <1>4 DEF Keep
  <2>2. /\ GatesOf(text[p]).relaxed <= GatesOf(text[p]).strict
        /\ GatesOf(text[p]).lvrelaxed <= GatesOf(text[p]).lvstrict
    BY <2>1, ThresholdsInOrder DEF OrderedInv
  <2>3. \A q \in Pipelines : cache'[q] # <<>> =>
           cache'[q].relaxed <= cache'[q].strict /\ cache'[q].lvrelaxed <= cache'[q].lvstrict
    BY <2>1, <2>2 DEF OrderedInv
  <2>4. \A q \in Pipelines : text'[q] # Unread => IsFile(text'[q])
    BY <2>1 DEF OrderedInv
  <2> QED BY <2>3, <2>4 DEF OrderedInv, IsFile
<1>5. ASSUME NEW p \in Processes,
             \/ EmptySettings(p) \/ WriteSettings(p) \/ Number(p) \/ AppendRevision(p)
             \/ EmptyHistory(p) \/ WriteHistory(p) \/ Respond(p) \/ CutShort(p)
      PROVE  OrderedInv'
  BY <1>1, <1>5 DEF EmptySettings, WriteSettings, Number, AppendRevision, EmptyHistory, WriteHistory,
     Respond, CutShort, reading
<1>6. ASSUME NEW p \in Processes,
             (\E u \in Updates : StartUpdate(p, u)) \/ (\E i \in 1 .. Shown : StartRollback(p, i))
      PROVE  OrderedInv'
  BY <1>1, <1>6 DEF StartUpdate, StartRollback, StartsRequest, reading
<1>7. ASSUME \/ \E p \in Pipelines : Stat(p)
             \/ \E content \in HandEdits : EditByHand(content)
             \/ Tick \/ UNCHANGED settingsVars
      PROVE  OrderedInv'
  BY <1>1, <1>7 DEF Stat, EditByHand, Tick, reading, settingsVars
<1> QED
  BY <1>3, <1>4, <1>5, <1>6, <1>7 DEF SettingsNext

(* Type correctness of the settings: whatever is patched, rolled back,     *)
(* broken off or edited by hand, no revision and no gates in use have a    *)
(* relaxed threshold above the strict one, and the history keeps to its    *)
(* length.                                                                 *)
THEOREM SettingsKeepTypes == SettingsSpec => []SettingsTypeOK
<1> DEFINE B == requests \in 0 .. MaxRequests
           I == GatesInv /\ RevisionInv /\ FilesInv /\ OrderedInv /\ B
<1>1. SettingsInit => I
  <2> SUFFICES ASSUME SettingsInit
               PROVE  FilesInv /\ OrderedInv /\ B
    BY GatesInvInit, RevisionInvInit
  <2>1. /\ settings = <<>> /\ history = <<>> /\ serving = [p \in Processes |-> NoRequest] /\ requests = 0
        /\ cache = [p \in Pipelines |-> <<>>] /\ text = [p \in Pipelines |-> Unread]
    BY DEF SettingsInit, Garbage
  <2>2. Len(<<>>) = 0 /\ Shown \in Nat /\ MaxRequests \in Nat
    BY SettingsAssumption
  <2>3. FilesInv
    BY <2>1, <2>2, EmptyFile DEF FilesInv
  <2>4. OrderedInv /\ B
    BY <2>1, <2>2 DEF OrderedInv
  <2> QED BY <2>3, <2>4
<1>2. B /\ [SettingsNext]_settingsVars => B'
  <2> SUFFICES ASSUME B, [SettingsNext]_settingsVars
               PROVE  B'
    OBVIOUS
  <2>1. requests' = requests \/ (requests < MaxRequests /\ requests' = requests + 1)
    BY DEF SettingsNext, EmptySettings, WriteSettings, Number, AppendRevision, EmptyHistory, WriteHistory,
       Respond, CutShort, StartUpdate, StartRollback, StartsRequest, EditByHand, Tick, Stat, ReadFile, Keep,
       settingsVars
  <2> QED BY <2>1, SettingsAssumption
<1>3. I => SettingsTypeOK
  <2> SUFFICES ASSUME I
               PROVE  SettingsTypeOK
    OBVIOUS
  <2>1. DOMAIN settings \subseteq Range(GateKeys) /\ Len(history) <= Shown
    BY DEF FilesInv, IsFile
  <2>2. \A i \in DOMAIN history : Valid(history[i].snapshot)
    BY NumberedIsSeq DEF RevisionInv, FilesInv, AreSnapshots, IsSnapshot
  <2>3. now \in 0 .. MaxTime /\ stamp \in 0 .. NoFile
    BY TimeIsBounded DEF GatesInv, FileInv
  <2>4. \A p \in Pipelines : cachedAt[p] \in 0 .. NoFile /\ seen[p] \in 0 .. NoFile
          /\ (cache[p] # <<>> => /\ cache[p].relaxed <= cache[p].strict
                                 /\ cache[p].lvrelaxed <= cache[p].lvstrict)
    BY DEF GatesInv, ReaderInv, OrderedInv
  <2> QED BY <2>1, <2>2, <2>3, <2>4 DEF SettingsTypeOK
<1>4. I /\ [SettingsNext]_settingsVars => I'
  BY <1>2, GatesInvNext, RevisionInvNext, FilesNext, OrderedNext
<1> QED
  BY <1>1, <1>3, <1>4, PTL DEF SettingsSpec

-----------------------------------------------------------------------------
(* The parts together: each behaves as it does alone.                      *)
LEMMA PartsBehave ==
    Spec => SettingsSpec /\ FeedSpec /\ CapturesSpec /\ IngestSpec /\ SessionsSpec
<1>1. Init => SettingsInit /\ FeedInit /\ CapturesInit /\ IngestInit /\ SessionsInit
  BY DEF Init
<1>2. [Next]_<<backendVars, part>> =>
          /\ [SettingsNext]_settingsVars /\ [FeedNext]_feedVars /\ [CapturesNext]_captureVars
          /\ [IngestNext]_ingestVars /\ [SessionsNext]_sessionVars
  BY DEF Next, backendVars
<1> QED
  BY <1>1, <1>2, PTL DEF Spec, SettingsSpec, FeedSpec, CapturesSpec, IngestSpec, SessionsSpec

(* Type correctness of the parts together: gates in use are in order,      *)
(* queues, histories and counters keep to their limits, devices stay in    *)
(* their rooms, and tokens name accounts that exist.                       *)
THEOREM BackendKeepsTypes == Spec => []TypeOK
<1>1. Spec => []SettingsTypeOK /\ []FeedTypeOK /\ []CapturesTypeOK /\ []IngestTypeOK /\ []SessionsTypeOK
  BY PartsBehave, SettingsKeepTypes, FeedKeepsTypes, CapturesKeepTypes, IngestKeepsTypes, SessionsKeepTypes
<1>2. SettingsTypeOK /\ FeedTypeOK /\ CapturesTypeOK /\ IngestTypeOK /\ SessionsTypeOK => TypeOK
  BY DEF TypeOK
<1> QED
  BY <1>1, <1>2, PTL

(* What the parts promise they promise together.                           *)
THEOREM BackendKeepsPromises ==
    Spec => [](/\ GatesFollowFile /\ LastRevisionInForce /\ FeedReachesListeners
               /\ CaptureReachesDevices /\ GateHolds /\ SessionsEndAndDoNotFork)
<1>1. Spec => /\ []GatesFollowFile /\ []LastRevisionInForce /\ []FeedReachesListeners
              /\ []CaptureReachesDevices /\ []GateHolds /\ []SessionsEndAndDoNotFork
  BY PartsBehave, GatesAreCurrent, RevisionsAreInForce, ListenersReached, CapturesArrive, GateHoldsAlways,
     SessionsEnd
<1> QED
  BY <1>1, PTL
=============================================================================
