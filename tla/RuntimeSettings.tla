--------------------------- MODULE RuntimeSettings ---------------------------
(***************************************************************************)
(* The system settings: administrators' requests, served by several API    *)
(* processes, rewrite a settings file and a history of revisions, and the  *)
(* recognition pipelines of all processes follow the file by its           *)
(* modification time. Nothing locks the files, and rewriting one empties   *)
(* it first. No other request of the same process runs between the reads   *)
(* and writes of one, so a process stands for the request it serves.       *)
(***************************************************************************)
EXTENDS Naturals, Sequences, FiniteSets, FiniteSetsExt, Functions, TLC

CONSTANTS
    Processes, Pipelines, \* API processes; pipelines that read the gates
    Defaults,             \* _default_system_settings
    OwnWeight,            \* the pipelines' default of lvface_weight
    Updates,              \* what a PATCH may set: records of some settings
    HandEdits,            \* files an operator may write
    Shown,                \* _save_settings_history keeps that many revisions
    Null,                 \* the JSON null, which every setting may be given
    MaxRequests, MaxTime  \* bounds: requests and edits; ticks of file times

(* The settings the pipeline reads, in the order in which it reads them;   *)
(* ann stands for those that the API neither sets nor knows.               *)
GateKeys == <<"ann", "strict", "relaxed", "lvstrict", "lvrelaxed", "margin", "quality", "weight">>
ApiKeys == {"strict", "relaxed", "lvstrict", "lvrelaxed", "margin", "quality", "weight"}

ASSUME SettingsAssumption ==
    /\ Defaults \in [ApiKeys -> Nat] /\ Defaults.weight > 0 /\ OwnWeight \in Nat
    /\ Defaults.relaxed <= Defaults.strict /\ Defaults.lvrelaxed <= Defaults.lvstrict
    /\ \A u \in Updates : DOMAIN u \subseteq ApiKeys /\ u \in [DOMAIN u -> Nat \cup {Null}]
    /\ \A f \in HandEdits : DOMAIN f \subseteq Range(GateKeys) /\ f \in [DOMAIN f -> Nat \cup {Null}]
    /\ Null \notin Nat /\ Shown \in Nat \ {0} /\ MaxRequests \in Nat /\ MaxTime \in Nat

(* A file that cannot be parsed is like one without any setting and like a *)
(* history without any revision.                                           *)
Garbage == <<>>

VARIABLES
    settings, \* system_settings.json: the settings it holds
    history,  \* system_settings_history.json: the revisions it holds
    serving,  \* what each process is doing
    now, stamp, \* time, and modification time of the settings
    cache, cachedAt, \* _runtime_settings_cache and _runtime_settings_mtime
    seen, text, \* a pipeline's call under way: modification time and contents
    requests, \* requests and edits so far
    held,     \* history: contents the file had under each modification time
    settled   \* history: the last request ran alone and to its end

settingsVars == <<settings, history, serving, now, stamp, cache, cachedAt, seen, text,
                  requests, held, settled>>
files == <<settings, history, stamp, held>>
reading == <<cache, cachedAt, seen, text>>

NoRequest == [step |-> "idle"]
NoFile == MaxTime + 1
Unread == [unread |-> TRUE]
-----------------------------------------------------------------------------
(* _load_system_settings, and what the body of a PATCH makes of it.        *)
Loaded(file) == [k \in ApiKeys |-> IF k \in DOMAIN file THEN file[k] ELSE Defaults[k]]

(* A null cannot be compared; neither relaxed threshold may be above its   *)
(* strict one, and LVFace must have a weight.                              *)
Valid(s) ==
    /\ \A k \in {"strict", "relaxed", "lvstrict", "lvrelaxed", "weight"} : s[k] # Null
    /\ s.relaxed <= s.strict /\ s.lvrelaxed <= s.lvstrict /\ s.weight > 0

(* Mutant: the history is taken to be newest first.                        *)
NextIdOfFirst(past) == IF past = <<>> THEN 1 ELSE past[1].id + 1

NextId(past) == Max({0} \cup {past[i].id : i \in DOMAIN past}) + 1

Latest(past) == SubSeq(past, IF Len(past) > Shown THEN Len(past) - Shown + 1 ELSE 1, Len(past))

(* What get_runtime_gates makes of a file: a null ends the reading, and    *)
(* the keys after it keep their defaults; relaxed thresholds are clamped.  *)
Unset(k) ==
    IF k = "ann" THEN 0 ELSE IF k = "weight" THEN OwnWeight ELSE Defaults[k]

Merged(file) ==
    [k \in Range(GateKeys) |->
        IF k \in DOMAIN file /\ \E i \in DOMAIN GateKeys : GateKeys[i] = k
              /\ \A j \in 1 .. i : GateKeys[j] \in DOMAIN file => file[GateKeys[j]] # Null
        THEN file[k] ELSE Unset(k)]

(* Mutant: the thresholds are taken as they come.                          *)
GatesOfUnordered(file) == Merged(file)

GatesOf(file) ==
    [Merged(file) EXCEPT !.relaxed = Min({@, Merged(file).strict}),
                         !.lvrelaxed = Min({@, Merged(file).lvstrict})]

SettingsTypeOK ==
    /\ DOMAIN settings \subseteq Range(GateKeys)
    /\ Len(history) <= Shown /\ \A i \in DOMAIN history : Valid(history[i].snapshot)
    /\ now \in 0 .. MaxTime /\ stamp \in 0 .. NoFile /\ requests \in 0 .. MaxRequests
    /\ \A p \in Pipelines :
          /\ cachedAt[p] \in 0 .. NoFile /\ seen[p] \in 0 .. NoFile
          /\ cache[p] # <<>> =>
                cache[p].relaxed <= cache[p].strict /\ cache[p].lvrelaxed <= cache[p].lvstrict
-----------------------------------------------------------------------------
SettingsInit ==
    /\ settings = Garbage /\ history = Garbage /\ serving = [p \in Processes |-> NoRequest]
    /\ now = 0 /\ stamp = NoFile /\ requests = 0
    /\ cache = [p \in Pipelines |-> <<>>] /\ cachedAt = [p \in Pipelines |-> NoFile]
    /\ seen = [p \in Pipelines |-> NoFile] /\ text = [p \in Pipelines |-> Unread]
    /\ held = [t \in 0 .. MaxTime |-> {}] /\ settled = TRUE

Idle == \A p \in Processes : serving[p] = NoRequest

StartsRequest(p, snapshot, id) ==
    /\ serving[p] = NoRequest /\ requests < MaxRequests
    /\ requests' = requests + 1
    /\ serving' = [q \in Processes |->
          IF q = p THEN [step |-> "empty", snapshot |-> snapshot, id |-> id, past |-> <<>>,
                         alone |-> Idle, spoilt |-> FALSE]
          ELSE IF serving[q] # NoRequest THEN [serving[q] EXCEPT !.alone = FALSE] ELSE NoRequest]
    /\ settled' = FALSE
    /\ UNCHANGED <<files, now, reading>>

(* update_system_settings; a request that is refused leaves nothing behind,*)
(* and the weight of LVFace is set to one whatever was asked for.          *)
StartUpdate(p, u) ==
    LET current == [k \in ApiKeys |-> IF k \in DOMAIN u THEN u[k] ELSE Loaded(settings)[k]]
    IN Valid(current) /\ StartsRequest(p, [current EXCEPT !.weight = Defaults.weight], 0)

(* rollback_system_settings gives the new revision its id at once.         *)
StartRollback(p, i) ==
    i \in DOMAIN history /\ StartsRequest(p, history[i].snapshot, NextId(history))

Holds(content) ==
    /\ settings' = content /\ stamp' = now
    /\ held' = [held EXCEPT ![now] = @ \cup {content}]

(* Path.write_text: the file is emptied, then written from its start; the  *)
(* rest of a longer text that another process wrote in between stays.      *)
EmptySettings(p) ==
    /\ serving[p].step = "empty"
    /\ Holds(Garbage)
    /\ serving' = [serving EXCEPT ![p].step = "write"]
    /\ UNCHANGED <<history, now, reading, requests, settled>>

Written(p, next) ==
    [q \in Processes |->
        IF q = p THEN [serving[p] EXCEPT !.step = next, !.spoilt = FALSE]
        ELSE IF serving[q].step = serving[p].step THEN [serving[q] EXCEPT !.spoilt = TRUE] ELSE serving[q]]

WriteSettings(p) ==
    /\ serving[p].step = "write"
    /\ Holds(serving[p].snapshot) \/ (serving[p].spoilt /\ Holds(Garbage))
    /\ serving' = Written(p, IF serving[p].id = 0 THEN "number" ELSE "append")
    /\ UNCHANGED <<history, now, reading, requests, settled>>

Number(p) ==
    /\ serving[p].step = "number"
    /\ serving' = [serving EXCEPT ![p].step = "append", ![p].id = NextId(history)]
    /\ UNCHANGED <<files, now, reading, requests, settled>>

(* _append_settings_revision reads the history again.                      *)
AppendRevision(p) ==
    /\ serving[p].step = "append"
    /\ serving' = [serving EXCEPT ![p].step = "clear",
                     ![p].past = Append(history, [id |-> serving[p].id, snapshot |-> serving[p].snapshot])]
    /\ UNCHANGED <<files, now, reading, requests, settled>>

EmptyHistory(p) ==
    /\ serving[p].step = "clear"
    /\ history' = Garbage
    /\ serving' = [serving EXCEPT ![p].step = "save"]
    /\ UNCHANGED <<settings, stamp, held, now, reading, requests, settled>>

WriteHistory(p) ==
    /\ serving[p].step = "save"
    /\ history' = Latest(serving[p].past) \/ (serving[p].spoilt /\ history' = Garbage)
    /\ serving' = Written(p, "audit")
    /\ UNCHANGED <<settings, stamp, held, now, reading, requests, settled>>

(* The audit entry and the reply, or an error with the settings changed.   *)
Respond(p) ==
    /\ serving[p].step = "audit"
    /\ serving' = [serving EXCEPT ![p] = NoRequest]
    /\ settled' = serving[p].alone
    /\ UNCHANGED <<files, now, reading, requests>>

(* A process dies in the middle of a request.                              *)
CutShort(p) ==
    /\ serving[p] # NoRequest
    /\ serving' = [serving EXCEPT ![p] = NoRequest]
    /\ UNCHANGED <<files, now, reading, requests, settled>>

EditByHand(content) ==
    /\ Idle /\ requests < MaxRequests /\ requests' = requests + 1
    /\ Holds(content) /\ settled' = FALSE
    /\ UNCHANGED <<history, serving, now, reading>>

Tick ==
    /\ now < MaxTime /\ now' = now + 1
    /\ UNCHANGED <<files, serving, reading, requests, settled>>
-----------------------------------------------------------------------------
(* get_runtime_gates asks for the modification time, reads the file unless *)
(* its gates are those of that time, and keeps what it made of it.         *)
Stat(p) ==
    /\ seen[p] = NoFile /\ text[p] = Unread /\ stamp # NoFile
    /\ cache[p] = <<>> \/ cachedAt[p] # stamp
    /\ seen' = [seen EXCEPT ![p] = stamp]
    /\ UNCHANGED <<files, serving, now, cache, cachedAt, text, requests, settled>>

ReadFile(p) ==
    /\ seen[p] # NoFile /\ text[p] = Unread
    /\ text' = [text EXCEPT ![p] = settings]
    /\ UNCHANGED <<files, serving, now, cache, cachedAt, seen, requests, settled>>

(* Mutant: the modification time is asked for once the file has been read. *)
KeepLate(p) ==
    /\ text[p] # Unread
    /\ cache' = [cache EXCEPT ![p] = GatesOf(text[p])]
    /\ cachedAt' = [cachedAt EXCEPT ![p] = stamp]
    /\ seen' = [seen EXCEPT ![p] = NoFile] /\ text' = [text EXCEPT ![p] = Unread]
    /\ UNCHANGED <<files, serving, now, requests, settled>>

Keep(p) ==
    /\ text[p] # Unread
    /\ cache' = [cache EXCEPT ![p] = GatesOf(text[p])]
    /\ cachedAt' = [cachedAt EXCEPT ![p] = seen[p]]
    /\ seen' = [seen EXCEPT ![p] = NoFile] /\ text' = [text EXCEPT ![p] = Unread]
    /\ UNCHANGED <<files, serving, now, requests, settled>>

SettingsNext ==
    \/ \E p \in Processes :
        \/ EmptySettings(p) \/ WriteSettings(p) \/ Number(p) \/ AppendRevision(p)
        \/ EmptyHistory(p) \/ WriteHistory(p) \/ Respond(p) \/ CutShort(p)
        \/ \E u \in Updates : StartUpdate(p, u)
        \/ \E i \in 1 .. Shown : StartRollback(p, i)
    \/ \E p \in Pipelines : Stat(p) \/ ReadFile(p) \/ Keep(p)
    \/ \E content \in HandEdits : EditByHand(content)
    \/ Tick

SettingsSpec == SettingsInit /\ [][SettingsNext]_settingsVars
-----------------------------------------------------------------------------
(* Gates that a pipeline goes on using, as the file's modification time is *)
(* the one it keeps, are those of a content the file had at that time,     *)
(* however requests and readings interleave: a change is overlooked only   *)
(* within one tick of file times.                                          *)
GatesFollowFile ==
    \A p \in Pipelines :
        cachedAt[p] # NoFile /\ cachedAt[p] = stamp =>
            \E content \in held[stamp] : cache[p] = GatesOf(content)

(* After an update or a rollback that no other request overlapped, and     *)
(* whatever broken requests went before, the settings in force are the     *)
(* snapshot of the last revision, whose id is above those of all others.   *)
LastRevisionInForce ==
    settled /\ requests > 0 =>
        /\ history # <<>>
        /\ LET last == history[Len(history)]
           IN /\ settings = last.snapshot
              /\ \A i \in 1 .. Len(history) - 1 : history[i].id < last.id
=============================================================================
