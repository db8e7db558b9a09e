---------------------- MODULE TemplateLifecycleProofs ----------------------
(***************************************************************************)
(* Theorems about TemplateLifecycle, for any students, templates, requests *)
(* and limits.                                                             *)
(***************************************************************************)
EXTENDS TemplateLifecycle, NumberFacts

-----------------------------------------------------------------------------
(* The inductive invariant, first of one open request x beside the log and *)
(* the committed templates.                                                *)

(* Templates that differ in status only, as far as students and models go. *)
Kin(a, b) == a.student = b.student /\ a.model = b.model

Plan(x) ==
    /\ x.kind # "purge" => \E s \in Students : x.students = {s}
    /\ x.step = "photos" => x.kind = "upload"
    /\ x.step = "read" => x.kind \in {"erase", "purge"}
    /\ x.step = "decide" => x.kind \in {"upload", "status"}
    /\ x.step \in {"photos", "read"} => DOMAIN x.seen = {}
    /\ x.step \in {"read", "write"} /\ x.kind # "upload" => DOMAIN x.change = {}
    /\ x.step # "commit" \/ x.kind \in {"refresh", "rollback", "purge"} => x.flag = "same"
    /\ x.kind = "erase" => x.flag # "set"

Writes(x) ==
    /\ x.kind \in {"erase", "purge"} /\ x.step = "commit" =>
          DOMAIN x.change = DOMAIN x.seen /\ \A r \in DOMAIN x.change : x.change[r] = Deleted
    /\ x.kind \notin {"erase", "purge"} => \A r \in DOMAIN x.change : x.change[r] # Deleted
    /\ x.kind \in {"status", "rollback"} => DOMAIN x.change \subseteq DOMAIN x.seen
    /\ x.kind = "embedding" =>
          DOMAIN x.seen = {} /\ \A r \in DOMAIN x.change : x.change[r].model = "lvface"

(* A refresh demotes the template it read and adds a copy of it.           *)
Refreshes(x, table) ==
    x.kind = "refresh" =>
        \E b \in Rows :
            /\ DOMAIN x.seen = {b} /\ x.seen[b].model = "arcface" /\ x.seen[b].status = "active"
            /\ x.step = "commit" =>
                  \E r \in Rows \ {b} :
                      /\ DOMAIN x.change = {b, r}
                      /\ x.change[b].status = "backup" /\ x.change[r] = x.seen[b]
                      /\ table[r] = Unused

RollsBack(x, entries) ==
    x.kind = "rollback" =>
        LET refresh == entries[x.entry]
            ordered(r) == IF r = refresh.old THEN "active" ELSE "backup"
        IN /\ x.entry \in DOMAIN entries /\ refresh.kind = "refresh"
           /\ x.students = {refresh.student}
           /\ DOMAIN x.seen \subseteq {refresh.old, refresh.new}
           /\ \A r \in DOMAIN x.seen : x.seen[r].model = "arcface"
           /\ x.step = "commit" =>
                 \A r \in DOMAIN x.seen :
                    ordered(r) = IF r \in DOMAIN x.change THEN x.change[r].status ELSE x.seen[r].status

(* What x read and wrote are templates of its students, still or again.    *)
Owned(x, table) ==
    /\ \A r \in DOMAIN x.change :
          /\ Exists(x.change[r]) => x.change[r].student \in x.students /\ table[r] # Deleted
          /\ Exists(table[r]) => table[r].student \in x.students
          /\ Exists(x.change[r]) /\ Exists(table[r]) => Kin(x.change[r], table[r])
    /\ \A r \in DOMAIN x.seen :
          LET now == Over(x.change, table)[r]
          IN x.seen[r].student \in x.students /\ now # Unused /\ (Exists(now) => Kin(now, x.seen[r]))

Sound(x, entries, table) ==
    Plan(x) /\ Writes(x) /\ Refreshes(x, table) /\ RollsBack(x, entries) /\ Owned(x, table)

Traced(i, entries, table) ==
    /\ \A r \in {entries[i].old, entries[i].new} :
          /\ table[r] # Unused
          /\ Exists(table[r]) => table[r].student = entries[i].student /\ table[r].model = "arcface"
    /\ entries[i].kind = "refresh" =>
          /\ entries[i].old # entries[i].new
          /\ \A j \in DOMAIN entries \ {i} :
                entries[j].kind = "refresh" => entries[j].new # entries[i].new

Base ==
    /\ TypeOK /\ tx = [t \in Tx |-> tx[t]]
    /\ \A t \in Tx : Open(t) => Sound(tx[t], log, templates)
    /\ \A t, u \in Tx : t # u /\ Open(t) /\ Open(u) => DOMAIN tx[t].change \cap DOMAIN tx[u].change = {}
    /\ \A i \in DOMAIN log : Traced(i, log, templates)

(* alone says what it should, and a request that is alone knows the        *)
(* student's enrolment and templates.                                      *)
Apart ==
    \A t, u \in Tx : t # u /\ Open(t) /\ Open(u) /\ tx[t].students \cap tx[u].students # {} => ~tx[t].alone

EnrolledAfter(x, s) == IF x.flag = "same" THEN enrolled[s] ELSE x.flag = "set"

Counting ==
    \A t \in Tx : Open(t) /\ tx[t].alone => \A s \in tx[t].students :
        /\ Is(t, {"upload", "erase"}) => (tx[t].loaded <=> enrolled[s])
        /\ Is(t, {"upload", "status", "erase"}) /\ At(t, "commit") =>
              (EnrolledAfter(tx[t], s) <=> Complete(s, Visible(t)))
        /\ Is(t, {"erase"}) /\ ~At(t, "read") => RowsOf(s, templates) \subseteq DOMAIN tx[t].seen

CountInv == Base /\ Apart /\ Counting /\ EnrolledAsCounted

Forgetting ==
    \A s \in forgotten : \A t \in Tx : Open(t) /\ s \in tx[t].students =>
        \/ Is(t, {"erase", "purge"})
        \/ Is(t, {"rollback"}) /\ DOMAIN tx[t].seen = {}

ForgetInv == CountInv /\ Forgetting /\ ForgottenStayForgotten

(* What a request that is alone knows of the templates of its student s.   *)
KnowsFor(t, s) ==
    /\ Is(t, {"erase", "purge"}) /\ ~At(t, "read") => RowsOf(s, templates) \subseteq DOMAIN tx[t].seen
    /\ Is(t, {"upload"}) /\ At(t, "write") =>
          /\ DOMAIN tx[t].seen = RowsOf(s, Visible(t))
          /\ \A r \in DOMAIN tx[t].seen : Visible(t)[r] = tx[t].seen[r]
    /\ /\ Is(t, {"upload"}) /\ (At(t, "decide") \/ At(t, "commit"))
       /\ \E r \in RowsOf(s, Visible(t)) : Visible(t)[r].model = "arcface"
       => InUse(s, Visible(t)) # {}
    /\ Is(t, {"refresh", "rollback"}) => \A r \in DOMAIN tx[t].seen : templates[r] = tx[t].seen[r]
    /\ Is(t, {"rollback"}) =>
          /\ Stands(tx[t].entry, log)
          /\ \A r \in {log[tx[t].entry].old, log[tx[t].entry].new} :
                Exists(templates[r]) => r \in DOMAIN tx[t].seen

Knowing == \A t \in Tx : Open(t) /\ tx[t].alone => \A s \in tx[t].students : KnowsFor(t, s)

(* The two templates of an entry are lost together, and a rollback has     *)
(* read both or none.                                                      *)
InPairs(s) ==
    /\ \A i \in DOMAIN log :
          log[i].student = s => (Exists(templates[log[i].old]) <=> Exists(templates[log[i].new]))
    /\ \A t \in Tx : Is(t, {"rollback"}) /\ s \in tx[t].students =>
          DOMAIN tx[t].seen \in {{}, {log[tx[t].entry].old, log[tx[t].entry].new}}

(* Templates with all that they were refreshed from; refreshes have no     *)
(* cycle.                                                                  *)
Closed(ids, s, entries) ==
    \A i \in DOMAIN entries :
        entries[i].kind = "refresh" /\ entries[i].student = s /\ entries[i].new \in ids => entries[i].old \in ids
Acyclic(s, entries) ==
    \A i \in DOMAIN entries : entries[i].kind = "refresh" /\ entries[i].student = s =>
        \E ids \in SUBSET Rows : /\ Closed(ids, s, entries)
                                 /\ entries[i].old \in ids /\ entries[i].new \notin ids

(* An open rollback that will not write the template it restores, because  *)
(* it was active when the rollback read it.                                *)
Trusting(t, s) ==
    /\ Is(t, {"rollback"}) /\ s \in tx[t].students
    /\ log[tx[t].entry].old \in DOMAIN tx[t].seen
    /\ tx[t].seen[log[tx[t].entry].old].status = "active"

(* A closed set of templates with an active one that no such rollback      *)
(* takes out of use.                                                       *)
Keeps(s) ==
    \E ids \in SUBSET Rows :
        /\ Closed(ids, s, log) /\ ids \cap InUse(s, templates) # {}
        /\ \A t \in Tx : Trusting(t, s) => log[tx[t].entry].new \notin ids

Held(s) == InUse(s, templates) # {} \/ (\E t \in Tx : Trusting(t, s)) => Keeps(s)

KeepInv ==
    /\ Base /\ Apart /\ Knowing
    /\ \A s \in Students : Acyclic(s, log)
    /\ \A s \in Students \ demoted : InPairs(s) /\ Held(s)

ExchangeInv == KeepInv /\ \A s \in Students \ (tangled \cup demoted) : InOrder(s, templates, log)

-----------------------------------------------------------------------------
(* Lemmas about rows, tables and requests.                                 *)

LEMMA RowsExist ==
    /\ \A row \in Row : Exists(row) /\ row # Unused /\ row # Deleted
    /\ ~Exists(Unused) /\ ~Exists(Deleted) /\ Unused # Deleted
BY DEF Row, Exists, Unused, Deleted, Statuses

LEMMA OverAt ==
    ASSUME NEW new, NEW old
    PROVE  /\ DOMAIN Over(new, old) = DOMAIN new \cup DOMAIN old
           /\ \A r \in DOMAIN new \cup DOMAIN old :
                 Over(new, old)[r] = IF r \in DOMAIN new THEN new[r] ELSE old[r]
BY DEF Over

LEMMA OpenType ==
    ASSUME TypeOK, NEW t \in Tx, Open(t)
    PROVE  /\ tx[t] \in Transaction(DOMAIN tx[t].seen, DOMAIN tx[t].change)
           /\ DOMAIN tx[t].seen \subseteq Rows /\ DOMAIN tx[t].change \subseteq Rows
           /\ tx[t].seen \in [DOMAIN tx[t].seen -> Row]
           /\ tx[t].change \in [DOMAIN tx[t].change -> Row \cup {Deleted}]
           /\ tx[t].students \subseteq Students
BY DEF TypeOK, Open, Transaction

LEMMA VisibleAt ==
    ASSUME TypeOK, NEW t \in Tx, Open(t)
    PROVE  /\ Visible(t) \in [Rows -> Row \cup {Unused, Deleted}]
           /\ \A r \in Rows : Visible(t)[r] = IF r \in DOMAIN tx[t].change THEN tx[t].change[r]
                                              ELSE templates[r]
<1>1. templates \in [Rows -> Row \cup {Unused, Deleted}]
  BY DEF TypeOK
<1> QED
  BY <1>1, OpenType, OverAt DEF Visible, Over

(* The fields of a request after a statement.                              *)
Taken(x, step, change, flag) ==
    [x EXCEPT !.step = step, !.change = Over(change, @), !.flag = flag]

Took(x, step, change, flag, y) ==
    /\ y \in Transaction(DOMAIN y.seen, DOMAIN y.change)
    /\ y.seen = x.seen /\ y.change = Over(change, x.change)
    /\ DOMAIN y.change = DOMAIN change \cup DOMAIN x.change
    /\ \A r \in DOMAIN y.change : y.change[r] = IF r \in DOMAIN change THEN change[r] ELSE x.change[r]
    /\ y.kind = x.kind /\ y.step = step /\ y.students = x.students
    /\ y.loaded = x.loaded /\ y.order = x.order /\ y.flag = flag
    /\ y.entry = x.entry /\ y.alone = x.alone

LEMMA Takes ==
    ASSUME NEW x, x \in Transaction(DOMAIN x.seen, DOMAIN x.change),
           NEW step, step \in {"photos", "write", "decide", "commit"},
           NEW change, change \in [DOMAIN change -> Row \cup {Deleted}],
           NEW flag, flag \in {"same", "set", "cleared"},
           NEW y, y = Taken(x, step, change, flag)
    PROVE  Took(x, step, change, flag, y)
<1>1. /\ x.change \in [DOMAIN x.change -> Row \cup {Deleted}]
      /\ x.seen \in [DOMAIN x.seen -> Row]
  BY DEF Transaction
<1>2. Over(change, x.change) \in [DOMAIN change \cup DOMAIN x.change -> Row \cup {Deleted}]
  BY <1>1 DEF Over
<1>3. /\ y.seen = x.seen /\ y.change = Over(change, x.change)
      /\ y.kind = x.kind /\ y.step = step /\ y.students = x.students
      /\ y.loaded = x.loaded /\ y.order = x.order /\ y.flag = flag
      /\ y.entry = x.entry /\ y.alone = x.alone
  BY DEF Taken, Transaction
<1>4. DOMAIN y.change = DOMAIN change \cup DOMAIN x.change
  BY <1>2, <1>3
<1>5. y \in Transaction(DOMAIN x.seen, DOMAIN change \cup DOMAIN x.change)
  BY <1>1, <1>2 DEF Taken, Transaction
<1>6. \A r \in DOMAIN y.change : y.change[r] = IF r \in DOMAIN change THEN change[r] ELSE x.change[r]
  BY <1>3, <1>4 DEF Over
<1>7. y \in Transaction(DOMAIN y.seen, DOMAIN y.change)
  BY <1>3, <1>4, <1>5
<1> QED
  BY <1>3, <1>4, <1>6, <1>7 DEF Took

LEMMA GoesTo ==
    ASSUME Base, NEW t \in Tx, Open(t), NEW step, NEW change, NEW flag, Goes(t, step, change, flag)
    PROVE  tx' = [tx EXCEPT ![t] = Taken(tx[t], step, change, flag)]
BY DEF Base, Goes, Taken

-----------------------------------------------------------------------------
(* The base of the invariant holds.                                        *)

Others == <<templates, enrolled, aged, due, log, requests, doubtful, demoted, tangled>>

(* A statement of t that leaves it a sound request, and took only ids that *)
(* nobody else holds, is a sound step.                                     *)
LEMMA StatementKeepsBase ==
    ASSUME Base, NEW t \in Tx, Open(t), UNCHANGED Others, UNCHANGED forgotten,
           NEW y, tx' = [tx EXCEPT ![t] = y],
           y # Idle => /\ y \in Transaction(DOMAIN y.seen, DOMAIN y.change)
                       /\ DOMAIN y.seen \subseteq Rows /\ DOMAIN y.change \subseteq Rows
                       /\ Sound(y, log, templates)
                       /\ (DOMAIN y.change \ DOMAIN tx[t].change) \cap Locked(t) = {}
    PROVE  Base'
<1>1. /\ tx' = [u \in Tx |-> tx'[u]] /\ tx'[t] = y /\ \A u \in Tx \ {t} : tx'[u] = tx[u]
      /\ templates' = templates /\ log' = log
  BY DEF Base, Others
<1>2. TypeOK' /\ (tx = [u \in Tx |-> tx[u]])'
  BY <1>1 DEF Base, TypeOK, Others
<1>3. ASSUME NEW u \in Tx, Open(u)'
      PROVE  Sound(tx'[u], log', templates')
  <2>1. CASE u = t
    BY <1>1, <1>3, <2>1 DEF Open
  <2>2. CASE u # t
    BY <1>1, <1>3, <2>2 DEF Open, Base
  <2> QED BY <2>1, <2>2
<1>4. ASSUME NEW u \in Tx, NEW v \in Tx, u # v, Open(u)', Open(v)'
      PROVE  DOMAIN tx'[u].change \cap DOMAIN tx'[v].change = {}
  <2>1. ASSUME NEW w \in Tx \ {t}, Open(w), y # Idle
        PROVE  DOMAIN y.change \cap DOMAIN tx[w].change = {}
    <3>1. DOMAIN tx[w].change \subseteq Locked(t)
      BY <2>1 DEF Locked
    <3>2. DOMAIN tx[t].change \cap DOMAIN tx[w].change = {}
      BY <2>1 DEF Base
    <3> QED BY <2>1, <3>1, <3>2
  <2>2. CASE u # t /\ v # t
    BY <1>1, <1>4, <2>2 DEF Open, Base
  <2>3. CASE u = t
    BY <1>1, <1>4, <2>1, <2>3 DEF Open
  <2>4. CASE v = t
    BY <1>1, <1>4, <2>1, <2>4 DEF Open
  <2> QED BY <2>2, <2>3, <2>4
<1>5. (\A i \in DOMAIN log : Traced(i, log, templates))'
  BY <1>1 DEF Base
<1> QED
  BY <1>2, <1>3, <1>4, <1>5 DEF Base

LEMMA AbortKeepsBase ==
    ASSUME Base, NEW t \in Tx, Abort(t)
    PROVE  Base'
<1>1. /\ UNCHANGED Others /\ UNCHANGED forgotten /\ tx' = [tx EXCEPT ![t] = Idle]
  BY DEF Abort, Others
<1> QED
  BY <1>1, StatementKeepsBase DEF Abort

(* The same of a statement that writes rows.                               *)
LEMMA WriteKeepsBase ==
    ASSUME Base, NEW t \in Tx, Open(t), NEW step \in {"photos", "write", "decide", "commit"},
           NEW change, change \in [DOMAIN change -> Row \cup {Deleted}], DOMAIN change \subseteq Rows,
           NEW flag \in {"same", "set", "cleared"}, Goes(t, step, change, flag),
           NEW y, Took(tx[t], step, change, flag, y), y = Taken(tx[t], step, change, flag),
           Sound(y, log, templates),
           (DOMAIN change \ DOMAIN tx[t].change) \cap Locked(t) = {}
    PROVE  Base'
<1>1. DOMAIN tx[t].seen \subseteq Rows /\ DOMAIN tx[t].change \subseteq Rows
  BY OpenType DEF Base
<1>2. /\ y \in Transaction(DOMAIN y.seen, DOMAIN y.change)
      /\ y.seen = tx[t].seen /\ DOMAIN y.change = DOMAIN change \cup DOMAIN tx[t].change
  BY DEF Took
<1>3. tx' = [tx EXCEPT ![t] = y]
  BY GoesTo
<1>4. UNCHANGED Others /\ UNCHANGED forgotten
  BY DEF Goes, Others
<1> QED
  BY <1>1, <1>2, <1>3, <1>4, StatementKeepsBase

LEMMA GoesOn ==
    ASSUME Base, NEW t \in Tx, Open(t), NEW step, step \in {"photos", "write", "decide", "commit"},
           NEW change, change \in [DOMAIN change -> Row \cup {Deleted}],
           NEW flag, flag \in {"same", "set", "cleared"}
    PROVE  Took(tx[t], step, change, flag, Taken(tx[t], step, change, flag))
<1>1. tx[t] \in Transaction(DOMAIN tx[t].seen, DOMAIN tx[t].change)
  BY OpenType DEF Base
<1> QED
  BY <1>1, Takes

-----------------------------------------------------------------------------
(* What statements write.                                                  *)

(* The row a request may write under id r.                                 *)
MayWrite(x, r, row, table) ==
    /\ Exists(row) => row.student \in x.students /\ table[r] # Deleted
    /\ Exists(table[r]) => table[r].student \in x.students
    /\ Exists(row) /\ Exists(table[r]) => Kin(row, table[r])
    /\ r \in DOMAIN x.seen => row # Unused /\ (Exists(row) => Kin(row, x.seen[r]))

LEMMA StillOwned ==
    ASSUME NEW x, NEW y, NEW change, NEW table, Owned(x, table), DOMAIN x.seen \subseteq DOMAIN table,
           y.seen = x.seen, y.change = Over(change, x.change), y.students = x.students,
           \A r \in DOMAIN change : MayWrite(x, r, change[r], table)
    PROVE  Owned(y, table)
<1>3. /\ DOMAIN y.change = DOMAIN change \cup DOMAIN x.change
      /\ \A r \in DOMAIN y.change : y.change[r] = IF r \in DOMAIN change THEN change[r] ELSE x.change[r]
      /\ \A r \in DOMAIN table :
            /\ Over(x.change, table)[r] = IF r \in DOMAIN x.change THEN x.change[r] ELSE table[r]
            /\ Over(y.change, table)[r] = IF r \in DOMAIN y.change THEN y.change[r] ELSE table[r]
  BY DEF Over
<1>1. ASSUME NEW r \in DOMAIN y.change
      PROVE  /\ Exists(y.change[r]) => y.change[r].student \in y.students /\ table[r] # Deleted
             /\ Exists(table[r]) => table[r].student \in y.students
             /\ Exists(y.change[r]) /\ Exists(table[r]) => Kin(y.change[r], table[r])
  <2>1. CASE r \in DOMAIN change
    BY <1>1, <2>1, <1>3 DEF MayWrite
  <2>2. CASE r \notin DOMAIN change
    <3>1. r \in DOMAIN x.change /\ y.change[r] = x.change[r]
      BY <1>1, <2>2, <1>3
    <3> QED BY <3>1 DEF Owned
  <2> QED BY <2>1, <2>2
<1>2. ASSUME NEW r \in DOMAIN y.seen
      PROVE  LET now == Over(y.change, table)[r]
             IN y.seen[r].student \in y.students /\ now # Unused /\ (Exists(now) => Kin(now, y.seen[r]))
  <2>0. r \in DOMAIN table /\ r \in DOMAIN x.seen
    BY <1>2
  <2>1. CASE r \in DOMAIN change
    <3>1. Over(y.change, table)[r] = change[r]
      BY <2>0, <2>1, <1>3
    <3> QED BY <2>0, <2>1, <3>1 DEF MayWrite, Owned
  <2>2. CASE r \notin DOMAIN change
    <3>1. Over(y.change, table)[r] = Over(x.change, table)[r]
      BY <2>0, <2>2, <1>3
    <3> QED BY <2>0, <3>1 DEF Owned
  <2> QED BY <2>1, <2>2
<1> QED
  BY <1>1, <1>2 DEF Owned

LEMMA Restated ==
    ASSUME NEW row \in Row, NEW status \in Statuses
    PROVE  LET new == [row EXCEPT !.status = status]
           IN /\ new \in Row /\ Kin(new, row) /\ new.status = status
              /\ new.student = row.student /\ new.model = row.model
BY DEF Row, Kin

(* A free id.                                                              *)
LEMMA FreeIdIsNew ==
    ASSUME Base, NEW t \in Tx, Open(t), NEW r \in Rows, FreeId(t, r)
    PROVE  /\ templates[r] = Unused /\ r \notin DOMAIN tx[t].change /\ r \notin Locked(t)
           /\ r \notin DOMAIN tx[t].seen
           /\ \A row \in Row : row.student \in tx[t].students => MayWrite(tx[t], r, row, templates)
<1>1. Visible(t)[r] = Unused /\ r \notin Locked(t)
  BY DEF FreeId
<1>2. r \notin DOMAIN tx[t].change /\ templates[r] = Unused
  BY <1>1, VisibleAt, OpenType, RowsExist DEF Base
<1>3. r \notin DOMAIN tx[t].seen
  BY <1>1 DEF Base, Sound, Owned, Visible
<1> QED
  BY <1>1, <1>2, <1>3, RowsExist DEF MayWrite

(* An existing row that the request has read or written.                   *)
LEMMA UpdateIsOwned ==
    ASSUME Base, NEW t \in Tx, Open(t), NEW r \in DOMAIN tx[t].seen, Exists(Visible(t)[r]),
           NEW status \in Statuses
    PROVE  LET new == [Visible(t)[r] EXCEPT !.status = status]
           IN /\ new \in Row /\ new.status = status /\ Kin(new, tx[t].seen[r])
              /\ new.student \in tx[t].students
              /\ MayWrite(tx[t], r, new, templates)
<1> DEFINE new == [Visible(t)[r] EXCEPT !.status = status]
<1>1. r \in Rows /\ Visible(t)[r] \in Row
  BY VisibleAt, OpenType, RowsExist DEF Base
<1>2. new \in Row /\ Kin(new, Visible(t)[r]) /\ new.status = status
  BY <1>1, Restated
<1>3. Kin(Visible(t)[r], tx[t].seen[r]) /\ tx[t].seen[r].student \in tx[t].students
  BY DEF Base, Sound, Owned, Visible
<1>4. Kin(new, tx[t].seen[r]) /\ new.student \in tx[t].students
  BY <1>2, <1>3 DEF Kin
<1> HIDE DEF new
<1>5. /\ templates[r] # Deleted /\ (Exists(templates[r]) => templates[r].student \in tx[t].students)
      /\ Exists(templates[r]) => Kin(new, templates[r])
  <2>1. CASE r \in DOMAIN tx[t].change
    <3>1. Visible(t)[r] = tx[t].change[r]
      BY <1>1, <2>1, VisibleAt DEF Base
    <3>2. Exists(tx[t].change[r])
      BY <3>1
    <3>3. Exists(templates[r]) => Kin(tx[t].change[r], templates[r]) /\ templates[r].student \in tx[t].students
      BY <2>1, <3>2 DEF Base, Sound, Owned
    <3>4. templates[r] # Deleted
      BY <2>1, <3>2 DEF Base, Sound, Owned
    <3> QED BY <1>2, <3>1, <3>3, <3>4 DEF Kin
  <2>2. CASE r \notin DOMAIN tx[t].change
    <3>1. Visible(t)[r] = templates[r]
      BY <1>1, <2>2, VisibleAt DEF Base
    <3>2. templates[r] # Deleted
      BY <3>1, RowsExist
    <3> QED BY <1>2, <1>3, <3>1, <3>2 DEF Kin
  <2> QED BY <2>1, <2>2
<1>6. MayWrite(tx[t], r, new, templates)
  BY <1>2, <1>4, <1>5, RowsExist DEF MayWrite
<1> QED
  BY <1>2, <1>4, <1>6 DEF new

Restatuses(t, new, change) ==
    /\ DOMAIN change = {r \in DOMAIN tx[t].seen : new[r].status # tx[t].seen[r].status}
    /\ DOMAIN change \cap Locked(t) = {}
    /\ \A r \in DOMAIN change :
          /\ change[r] = [Visible(t)[r] EXCEPT !.status = new[r].status]
          /\ change[r] \in Row /\ change[r].status = new[r].status
          /\ MayWrite(tx[t], r, change[r], templates)
    /\ change \in [DOMAIN change -> Row \cup {Deleted}] /\ DOMAIN change \subseteq Rows

LEMMA RestatusedRows ==
    ASSUME Base, NEW t \in Tx, Open(t), NEW new, DOMAIN new = DOMAIN tx[t].seen,
           \A r \in DOMAIN new : new[r].status \in Statuses,
           Writable(t, DOMAIN Restatused(t, new))
    PROVE  Restatuses(t, new, Restatused(t, new))
<1> DEFINE stale == {r \in DOMAIN tx[t].seen : new[r].status # tx[t].seen[r].status}
           change == [r \in stale |-> [Visible(t)[r] EXCEPT !.status = new[r].status]]
<1>1. Restatused(t, new) = change
  BY DEF Restatused
<1>2. ASSUME NEW r \in stale
      PROVE  /\ change[r] = [Visible(t)[r] EXCEPT !.status = new[r].status]
             /\ change[r] \in Row /\ change[r].status = new[r].status
             /\ MayWrite(tx[t], r, change[r], templates)
  <2>1. r \in DOMAIN tx[t].seen /\ Exists(Visible(t)[r]) /\ new[r].status \in Statuses
    BY <1>1, <1>2 DEF Writable
  <2> QED BY <1>2, <2>1, UpdateIsOwned
<1>3. DOMAIN change = stale /\ stale \cap Locked(t) = {} /\ stale \subseteq Rows
  BY <1>1, OpenType DEF Writable, Base
<1>4. change \in [stale -> Row \cup {Deleted}]
  BY <1>2
<1> HIDE DEF change
<1> QED
  BY <1>1, <1>2, <1>3, <1>4 DEF Restatuses

-----------------------------------------------------------------------------
(* Statement by statement.                                                 *)

LEMMA AcceptPhotoKeepsBase ==
    ASSUME Base, NEW t \in Tx, NEW r \in Rows, NEW face \in Faces, NEW pose \in Poses, NEW score \in Scores,
           AcceptPhoto(t, r, face, pose, score)
    PROVE  Base'
<1>1. Open(t) /\ tx[t].step = "photos" /\ FreeId(t, r)
  BY DEF AcceptPhoto, At
<1>2. PICK s \in tx[t].students :
         Goes(t, "photos",
              [q \in {r} |-> [student |-> s, model |-> "lvface", pose |-> pose, face |-> face,
                              score |-> score, status |-> "backup"]], "same")
  BY DEF AcceptPhoto
<1> DEFINE row == [student |-> s, model |-> "lvface", pose |-> pose, face |-> face,
                   score |-> score, status |-> "backup"]
           change == [q \in {r} |-> row]
           y == Taken(tx[t], "photos", change, "same")
<1>3. row \in Row /\ row.student = s
  BY <1>1, OpenType DEF Row, Models, Statuses, Base
<1> HIDE DEF row
<1>4. change \in [DOMAIN change -> Row \cup {Deleted}] /\ DOMAIN change = {r} /\ change[r] = row
  BY <1>3
<1>5. Goes(t, "photos", change, "same")
  BY <1>2 DEF row
<1> HIDE DEF change
<1>6. Took(tx[t], "photos", change, "same", y)
  BY <1>1, <1>4, GoesOn
<1>7. y = Taken(tx[t], "photos", change, "same")
  OBVIOUS
<1> HIDE DEF y
<1>8. MayWrite(tx[t], r, change[r], templates) /\ r \notin Locked(t)
  BY <1>1, <1>3, <1>4, FreeIdIsNew
<1>9. Owned(y, templates)
  <2>1. Owned(tx[t], templates) /\ DOMAIN tx[t].seen \subseteq DOMAIN templates
    BY <1>1, OpenType DEF Base, Sound, TypeOK
  <2> QED BY <1>4, <1>6, <1>8, <2>1, StillOwned DEF Took
<1>10. Plan(tx[t]) /\ Writes(tx[t])
  BY <1>1 DEF Base, Sound
<1>11. Plan(y)
  BY <1>1, <1>6, <1>10 DEF Took, Plan
<1>12. Writes(y)
  BY <1>1, <1>3, <1>4, <1>6, <1>10, RowsExist DEF Took, Plan, Writes
<1>13. Refreshes(y, templates) /\ RollsBack(y, log)
  BY <1>1, <1>6, <1>10 DEF Took, Plan, Refreshes, RollsBack
<1>14. Sound(y, log, templates)
  BY <1>9, <1>11, <1>12, <1>13 DEF Sound
<1> QED
  BY <1>1, <1>4, <1>5, <1>6, <1>7, <1>8, <1>14, WriteKeepsBase

LEMMA WriteEmbeddingKeepsBase ==
    ASSUME Base, NEW t \in Tx, NEW r \in Rows, NEW face \in Faces, NEW pose \in Poses,
           WriteEmbedding(t, r, face, pose)
    PROVE  Base'
<1> DEFINE best == CHOOSE m \in Scores : \A n \in Scores : n <= m
           flag == IF tx[t].loaded THEN "same" ELSE "set"
<1>1. Open(t) /\ tx[t].step = "write" /\ tx[t].kind = "embedding" /\ FreeId(t, r)
  BY DEF WriteEmbedding, At, Is
<1>0. best \in Scores
  BY ScoresAssumption
<1> HIDE DEF best
<1>2. PICK s \in tx[t].students :
         Goes(t, "commit",
              [q \in {r} |-> [student |-> s, model |-> "lvface", pose |-> pose, face |-> face,
                              score |-> best, status |-> "active"]], flag)
  BY DEF WriteEmbedding, best
<1> DEFINE row == [student |-> s, model |-> "lvface", pose |-> pose, face |-> face,
                   score |-> best, status |-> "active"]
           change == [q \in {r} |-> row]
           y == Taken(tx[t], "commit", change, flag)
<1>3. row \in Row /\ row.student = s /\ row.model = "lvface"
  BY <1>0, <1>1, OpenType DEF Row, Models, Statuses, Base
<1> HIDE DEF row
<1>4. change \in [DOMAIN change -> Row \cup {Deleted}] /\ DOMAIN change = {r} /\ change[r] = row
  BY <1>3
<1>5. Goes(t, "commit", change, flag)
  BY <1>2 DEF row
<1> HIDE DEF change
<1>6. flag \in {"same", "set", "cleared"} /\ flag # "cleared"
  OBVIOUS
<1> HIDE DEF flag
<1>7. Took(tx[t], "commit", change, flag, y)
  BY <1>1, <1>4, <1>6, GoesOn
<1>8. y = Taken(tx[t], "commit", change, flag)
  OBVIOUS
<1> HIDE DEF y
<1>9. MayWrite(tx[t], r, change[r], templates) /\ r \notin Locked(t)
  BY <1>1, <1>3, <1>4, FreeIdIsNew
<1>10. Owned(y, templates)
  <2>1. Owned(tx[t], templates) /\ DOMAIN tx[t].seen \subseteq DOMAIN templates
    BY <1>1, OpenType DEF Base, Sound, TypeOK
  <2> QED BY <1>4, <1>7, <1>9, <2>1, StillOwned DEF Took
<1>11. Plan(tx[t]) /\ Writes(tx[t])
  BY <1>1 DEF Base, Sound
<1>12. Plan(y)
  BY <1>1, <1>7, <1>11 DEF Took, Plan
<1>13. Writes(y)
  BY <1>1, <1>3, <1>4, <1>7, <1>11, RowsExist DEF Took, Plan, Writes
<1>14. Refreshes(y, templates) /\ RollsBack(y, log)
  BY <1>1, <1>7, <1>11 DEF Took, Plan, Refreshes, RollsBack
<1>15. Sound(y, log, templates)
  BY <1>10, <1>12, <1>13, <1>14 DEF Sound
<1> QED
  BY <1>1, <1>4, <1>5, <1>6, <1>7, <1>8, <1>9, <1>15, WriteKeepsBase

(* A request that reads some existing templates of its students.           *)
LEMMA ReadKeepsBase ==
    ASSUME Base, NEW t \in Tx, Open(t), tx[t].kind \in {"upload", "erase", "purge"},
           tx[t].step \in {"photos", "read"},
           NEW ids, ids \subseteq Rows, NEW table, table = Visible(t),
           \A r \in ids : Exists(table[r]) /\ table[r].student \in tx[t].students,
           tx' = [tx EXCEPT ![t].step = "write", ![t].seen = Restrict(table, ids)],
           UNCHANGED Others, UNCHANGED forgotten
    PROVE  Base'
<1> DEFINE seen == [r \in ids |-> table[r]]
           y == [tx[t] EXCEPT !.step = "write", !.seen = seen]
<1>1. seen \in [ids -> Row] /\ Restrict(table, ids) = seen
  <2>1. \A r \in ids : table[r] \in Row
    BY VisibleAt, RowsExist DEF Base
  <2> QED BY <2>1 DEF Restrict
<1>2. tx' = [tx EXCEPT ![t] = y]
  BY <1>1 DEF Base
<1>3. /\ tx[t] \in Transaction(DOMAIN tx[t].seen, DOMAIN tx[t].change)
      /\ DOMAIN tx[t].change \subseteq Rows /\ Sound(tx[t], log, templates)
  BY OpenType DEF Base
<1>4. /\ y.kind = tx[t].kind /\ y.step = "write" /\ y.students = tx[t].students
      /\ y.flag = tx[t].flag /\ y.seen = seen /\ y.change = tx[t].change
  BY <1>3 DEF Transaction
<1>5. y \in Transaction(DOMAIN y.seen, DOMAIN y.change)
  BY <1>1, <1>3, <1>4 DEF Transaction
<1> HIDE DEF y
<1>6. DOMAIN y.seen = ids /\ \A r \in ids : y.seen[r] = table[r]
  BY <1>4
<1>7. Plan(y) /\ Refreshes(y, templates) /\ RollsBack(y, log)
  BY <1>3, <1>4 DEF Sound, Plan, Refreshes, RollsBack
<1>8. Writes(y)
  BY <1>3, <1>4 DEF Sound, Plan, Writes
<1>9. Owned(y, templates)
  <2>1. ASSUME NEW r \in DOMAIN y.seen
        PROVE  LET now == Over(y.change, templates)[r]
               IN y.seen[r].student \in y.students /\ now # Unused /\ (Exists(now) => Kin(now, y.seen[r]))
    <3>1. Over(y.change, templates)[r] = y.seen[r]
      BY <1>4, <1>6, <2>1 DEF Visible
    <3>2. y.seen[r].student \in y.students /\ y.seen[r] # Unused
      BY <1>4, <1>6, <2>1, RowsExist
    <3> QED BY <3>1, <3>2 DEF Kin
  <2> QED BY <1>3, <1>4, <2>1 DEF Sound, Owned
<1>10. Sound(y, log, templates)
  BY <1>7, <1>8, <1>9 DEF Sound
<1>11. /\ DOMAIN y.seen \subseteq Rows /\ DOMAIN y.change \subseteq Rows
       /\ (DOMAIN y.change \ DOMAIN tx[t].change) \cap Locked(t) = {}
  BY <1>3, <1>4, <1>6
<1> QED
  BY <1>2, <1>5, <1>10, <1>11, StatementKeepsBase

LEMMA ReadTemplatesKeepsBase ==
    ASSUME Base, NEW t \in Tx, ReadTemplates(t)
    PROVE  Base'
<1>1. Open(t) /\ tx[t].step = "photos" /\ tx[t].kind = "upload"
  BY DEF ReadTemplates, At, Base, Sound, Plan
<1>2. PICK s \in tx[t].students :
         tx' = [tx EXCEPT ![t].step = "write",
                          ![t].seen = Restrict(Visible(t), RowsOf(s, Visible(t)))]
  BY DEF ReadTemplates
<1>3. /\ RowsOf(s, Visible(t)) \subseteq Rows
      /\ \A r \in RowsOf(s, Visible(t)) : Exists(Visible(t)[r]) /\ Visible(t)[r].student \in tx[t].students
  BY DEF RowsOf
<1>4. UNCHANGED Others /\ UNCHANGED forgotten
  BY DEF ReadTemplates, Others
<1> QED
  BY <1>1, <1>2, <1>3, <1>4, ReadKeepsBase

LEMMA StartDeleteKeepsBase ==
    ASSUME Base, NEW t \in Tx, StartDelete(t)
    PROVE  Base'
<1> DEFINE ids == UNION {RowsOf(s, templates) : s \in tx[t].students}
<1>1. /\ Open(t) /\ tx[t].step = "read" /\ tx[t].kind \in {"erase", "purge"}
      /\ DOMAIN tx[t].change = {}
  BY DEF StartDelete, At, Base, Sound, Plan
<1>2. Visible(t) = templates
  <2>1. templates = [r \in Rows |-> templates[r]]
    BY DEF Base, TypeOK
  <2> QED BY <1>1, <2>1 DEF Visible, Over
<1>3. ids \subseteq Rows /\ \A r \in ids : Exists(templates[r]) /\ templates[r].student \in tx[t].students
  BY DEF RowsOf
<1>4. /\ tx' = [tx EXCEPT ![t].step = "write", ![t].seen = Restrict(templates, ids)]
      /\ UNCHANGED Others /\ UNCHANGED forgotten
  BY DEF StartDelete, Others
<1> HIDE DEF ids
<1> QED
  BY <1>1, <1>2, <1>3, <1>4, ReadKeepsBase

(* Changes of status of templates the request has read.                    *)
LEMMA RestatusKeepsBase ==
    ASSUME Base, NEW t \in Tx, Open(t), tx[t].step = "write",
           tx[t].kind \in {"upload", "status", "rollback"},
           NEW new, DOMAIN new = DOMAIN tx[t].seen, \A r \in DOMAIN new : new[r].status \in Statuses,
           NEW step, step \in {"decide", "commit"},
           step = IF tx[t].kind = "rollback" THEN "commit" ELSE "decide",
           tx[t].kind = "rollback" =>
              \A r \in DOMAIN new : new[r].status = IF r = log[tx[t].entry].old THEN "active" ELSE "backup",
           NEW change, change = Restatused(t, new),
           Writable(t, DOMAIN change), Goes(t, step, change, "same")
    PROVE  Base'
<1> DEFINE y == Taken(tx[t], step, change, "same")
<1>1. /\ DOMAIN change = {r \in DOMAIN tx[t].seen : new[r].status # tx[t].seen[r].status}
      /\ DOMAIN change \cap Locked(t) = {}
      /\ \A r \in DOMAIN change :
            /\ change[r] \in Row /\ change[r].status = new[r].status
            /\ MayWrite(tx[t], r, change[r], templates)
      /\ change \in [DOMAIN change -> Row \cup {Deleted}] /\ DOMAIN change \subseteq Rows
  <2>1. Restatuses(t, new, change)
    BY RestatusedRows
  <2> QED BY <2>1 DEF Restatuses
<1>2. Took(tx[t], step, change, "same", y)
  BY <1>1, GoesOn
<1>3. y = Taken(tx[t], step, change, "same")
  OBVIOUS
<1> HIDE DEF y
<1>4. Sound(tx[t], log, templates) /\ DOMAIN tx[t].seen \subseteq DOMAIN templates
  BY OpenType DEF Base, TypeOK
<1>5. Owned(y, templates)
  BY <1>1, <1>2, <1>4, StillOwned DEF Took, Sound
<1>6. Plan(y)
  BY <1>2, <1>4 DEF Took, Sound, Plan
<1>7. Writes(y)
  <2>1. \A r \in DOMAIN y.change : y.change[r] # Deleted
    BY <1>1, <1>2, <1>4, RowsExist, ZenonT(60) DEF Took, Sound, Writes
  <2>2. tx[t].kind \in {"status", "rollback"} => DOMAIN y.change \subseteq DOMAIN y.seen
    BY <1>1, <1>2, <1>4 DEF Took, Sound, Writes
  <2> QED BY <1>2, <2>1, <2>2 DEF Took, Writes
<1>8. Refreshes(y, templates)
  BY <1>2 DEF Took, Refreshes
<1>9. RollsBack(y, log)
  <2>1. CASE tx[t].kind = "rollback"
    <3>1. DOMAIN tx[t].change = {}
      BY <1>4, <2>1 DEF Sound, Plan
    <3>2. DOMAIN y.change = DOMAIN change /\ \A r \in DOMAIN change : y.change[r].status = new[r].status
      BY <1>1, <1>2, <3>1, ZenonT(60) DEF Took
    <3>3. \A r \in DOMAIN tx[t].seen :
             new[r].status = IF r \in DOMAIN y.change THEN y.change[r].status ELSE tx[t].seen[r].status
      BY <1>1, <3>2
    <3>4. RollsBack(tx[t], log)
      BY <1>4 DEF Sound
    <3> QED BY <1>2, <2>1, <3>3, <3>4, SMTT(40) DEF Took, RollsBack
  <2>2. CASE tx[t].kind # "rollback"
    BY <1>2, <2>2 DEF Took, RollsBack
  <2> QED BY <2>1, <2>2
<1>10. Sound(y, log, templates)
  BY <1>5, <1>6, <1>7, <1>8, <1>9 DEF Sound
<1> QED
  BY <1>1, <1>2, <1>3, <1>10, WriteKeepsBase, ZenonT(60)

(* The statuses that rebalancing gives.                                    *)
BalancedStatus(rows, rank, r) ==
    CASE Place(rows, rank, r) < ActiveLimit -> "active"
      [] Place(rows, rank, r) \in ActiveLimit .. ActiveLimit + BackupLimit - 1 -> "backup"
      [] OTHER -> "quarantined"

LEMMA BalancedRows ==
    ASSUME NEW rows, rows \in [DOMAIN rows -> Row], NEW rank
    PROVE  /\ DOMAIN Balanced(rows, rank) = DOMAIN rows
           /\ \A r \in DOMAIN rows :
                 /\ Balanced(rows, rank)[r].status = BalancedStatus(rows, rank, r)
                 /\ Balanced(rows, rank)[r].status \in Statuses
<1>1. Balanced(rows, rank) = [r \in DOMAIN rows |-> [rows[r] EXCEPT !.status = BalancedStatus(rows, rank, r)]]
  BY DEF Balanced, BalancedStatus
<1>2. \A r : BalancedStatus(rows, rank, r) \in Statuses
  BY DEF BalancedStatus, Statuses
<1>3. \A r \in DOMAIN rows :
         [rows[r] EXCEPT !.status = BalancedStatus(rows, rank, r)].status = BalancedStatus(rows, rank, r)
  BY <1>2, Restated
<1> QED
  BY <1>1, <1>2, <1>3

LEMMA Rebalances ==
    ASSUME Base, NEW t \in Tx, Rebalance(t)
    PROVE  /\ Open(t) /\ tx[t].step = "write" /\ tx[t].kind = "upload"
           /\ tx[t].seen \in [DOMAIN tx[t].seen -> Row] /\ DOMAIN tx[t].seen \subseteq Rows
           /\ \E rank \in Rankings(tx[t].seen) :
                 LET new == Balanced(tx[t].seen, rank)
                     change == Restatused(t, new)
                 IN Restatuses(t, new, change) /\ Writable(t, DOMAIN change) /\ Goes(t, "decide", change, "same")
<1>1. Open(t) /\ tx[t].step = "write" /\ tx[t].kind = "upload"
  BY DEF Rebalance, At, Is
<1>2. PICK rank \in Rankings(tx[t].seen) :
         LET change == Restatused(t, Balanced(tx[t].seen, rank))
         IN Writable(t, DOMAIN change) /\ Goes(t, "decide", change, "same")
  BY DEF Rebalance
<1>3. tx[t].seen \in [DOMAIN tx[t].seen -> Row] /\ DOMAIN tx[t].seen \subseteq Rows
  BY <1>1, OpenType DEF Base
<1>4. Restatuses(t, Balanced(tx[t].seen, rank), Restatused(t, Balanced(tx[t].seen, rank)))
  BY <1>1, <1>2, <1>3, BalancedRows, RestatusedRows
<1> QED
  BY <1>1, <1>2, <1>3, <1>4

LEMMA RebalanceKeepsBase ==
    ASSUME Base, NEW t \in Tx, Rebalance(t)
    PROVE  Base'
<1>1. /\ Open(t) /\ tx[t].step = "write" /\ tx[t].kind = "upload"
      /\ tx[t].seen \in [DOMAIN tx[t].seen -> Row]
  BY Rebalances
<1>2. PICK rank \in Rankings(tx[t].seen) :
         LET change == Restatused(t, Balanced(tx[t].seen, rank))
         IN Writable(t, DOMAIN change) /\ Goes(t, "decide", change, "same")
  BY Rebalances
<1> QED
  BY <1>1, <1>2, BalancedRows, RestatusKeepsBase

LEMMA WriteStatusKeepsBase ==
    ASSUME Base, NEW t \in Tx, WriteStatus(t)
    PROVE  Base'
<1> DEFINE new == [r \in DOMAIN tx[t].seen |-> [tx[t].seen[r] EXCEPT !.status = tx[t].order]]
<1>1. Open(t) /\ tx[t].step = "write" /\ tx[t].kind = "status"
  BY DEF WriteStatus, At, Is
<1>2. DOMAIN new = DOMAIN tx[t].seen /\ \A r \in DOMAIN new : new[r].status \in Statuses
  <2>1. tx[t].seen \in [DOMAIN tx[t].seen -> Row] /\ tx[t].order \in Statuses
    BY <1>1, OpenType DEF Base, Transaction
  <2> QED BY <2>1, Restated
<1>3. Writable(t, DOMAIN Restatused(t, new)) /\ Goes(t, "decide", Restatused(t, new), "same")
  BY DEF WriteStatus
<1> HIDE DEF new
<1> QED
  BY <1>1, <1>2, <1>3, RestatusKeepsBase

LEMMA WriteRollbackKeepsBase ==
    ASSUME Base, NEW t \in Tx, WriteRollback(t)
    PROVE  Base'
<1> DEFINE new == [r \in DOMAIN tx[t].seen |->
                     [tx[t].seen[r] EXCEPT !.status = IF r = log[tx[t].entry].old THEN "active" ELSE "backup"]]
<1>1. Open(t) /\ tx[t].step = "write" /\ tx[t].kind = "rollback"
  BY DEF WriteRollback, At, Is
<1>2. /\ DOMAIN new = DOMAIN tx[t].seen
      /\ \A r \in DOMAIN new : /\ new[r].status \in Statuses
                               /\ new[r].status = IF r = log[tx[t].entry].old THEN "active" ELSE "backup"
  <2>1. tx[t].seen \in [DOMAIN tx[t].seen -> Row]
    BY <1>1, OpenType DEF Base
  <2> DEFINE status(r) == IF r = log[tx[t].entry].old THEN "active" ELSE "backup"
  <2>2. \A r : status(r) \in Statuses
    BY DEF Statuses
  <2>3. new = [r \in DOMAIN tx[t].seen |-> [tx[t].seen[r] EXCEPT !.status = status(r)]]
    OBVIOUS
  <2>5. \A r : status(r) = IF r = log[tx[t].entry].old THEN "active" ELSE "backup"
    OBVIOUS
  <2> HIDE DEF status, new
  <2>4. \A r \in DOMAIN tx[t].seen : [tx[t].seen[r] EXCEPT !.status = status(r)].status = status(r)
    BY <2>1, <2>2, Restated
  <2> QED BY <2>2, <2>3, <2>4, <2>5
<1>3. Writable(t, DOMAIN Restatused(t, new)) /\ Goes(t, "commit", Restatused(t, new), "same")
  BY DEF WriteRollback
<1> HIDE DEF new
<1> QED
  BY <1>1, <1>2, <1>3, RestatusKeepsBase

(* Nothing is written to templates.                                        *)
LEMMA DecideKeepsBase ==
    ASSUME Base, NEW t \in Tx, Decide(t)
    PROVE  Base'
<1>1. Open(t) /\ tx[t].step = "decide"
  BY DEF Decide, At
<1>2. PICK flag \in {"same", "set", "cleared"} : Goes(t, "commit", <<>>, flag)
  BY DEF Decide
<1> DEFINE y == Taken(tx[t], "commit", <<>>, flag)
<1>3. <<>> \in [DOMAIN <<>> -> Row \cup {Deleted}] /\ DOMAIN <<>> = {}
  OBVIOUS
<1>4. Took(tx[t], "commit", <<>>, flag, y)
  BY <1>1, <1>2, <1>3, GoesOn
<1>5. y = Taken(tx[t], "commit", <<>>, flag)
  OBVIOUS
<1> HIDE DEF y
<1>6. Sound(tx[t], log, templates) /\ DOMAIN tx[t].seen \subseteq DOMAIN templates
  BY <1>1, OpenType DEF Base, TypeOK
<1>7. Owned(y, templates)
  BY <1>3, <1>4, <1>6, StillOwned DEF Took, Sound
<1>8. tx[t].kind \in {"upload", "status"}
  BY <1>1, <1>6 DEF Sound, Plan
<1>9. Plan(y)
  BY <1>4, <1>6, <1>8 DEF Took, Sound, Plan
<1>10. DOMAIN y.change = DOMAIN tx[t].change /\ \A r \in DOMAIN y.change : y.change[r] = tx[t].change[r]
  BY <1>3, <1>4 DEF Took
<1>11. Writes(y)
  BY <1>4, <1>6, <1>8, <1>10 DEF Took, Sound, Writes
<1>12. Refreshes(y, templates) /\ RollsBack(y, log)
  BY <1>4, <1>8 DEF Took, Refreshes, RollsBack
<1>13. Sound(y, log, templates)
  BY <1>7, <1>9, <1>11, <1>12 DEF Sound
<1> QED
  BY <1>1, <1>2, <1>3, <1>4, <1>5, <1>13, WriteKeepsBase

LEMMA WriteRefreshKeepsBase ==
    ASSUME Base, NEW t \in Tx, NEW r \in Rows, WriteRefresh(t, r)
    PROVE  Base'
<1>1. /\ Open(t) /\ tx[t].step = "write" /\ tx[t].kind = "refresh" /\ FreeId(t, r)
      /\ Writable(t, DOMAIN tx[t].seen)
  BY DEF WriteRefresh, At, Is
<1>2. PICK best \in DOMAIN tx[t].seen :
         Goes(t, "commit",
              [q \in {best, r} |-> IF q = best THEN [Visible(t)[best] EXCEPT !.status = "backup"]
                                   ELSE [tx[t].seen[best] EXCEPT !.status = "active"]], "same")
  BY DEF WriteRefresh
<1> DEFINE old == [Visible(t)[best] EXCEPT !.status = "backup"]
           young == [tx[t].seen[best] EXCEPT !.status = "active"]
           change == [q \in {best, r} |-> IF q = best THEN old ELSE young]
           y == Taken(tx[t], "commit", change, "same")
<1>3. /\ Sound(tx[t], log, templates) /\ DOMAIN tx[t].seen \subseteq DOMAIN templates
      /\ DOMAIN tx[t].seen \subseteq Rows /\ tx[t].seen \in [DOMAIN tx[t].seen -> Row]
  BY <1>1, OpenType DEF Base, TypeOK
<1>4. /\ best \in Rows /\ r # best /\ templates[r] = Unused
      /\ DOMAIN tx[t].seen = {best} /\ tx[t].seen[best].model = "arcface"
      /\ tx[t].seen[best].status = "active" /\ DOMAIN tx[t].change = {}
      /\ tx[t].seen[best].student \in tx[t].students
  <2>1. r # best /\ templates[r] = Unused
    BY <1>1, FreeIdIsNew
  <2> QED BY <1>1, <1>3, <2>1 DEF Sound, Refreshes, Plan, Owned
<1>5. /\ old \in Row /\ old.status = "backup" /\ MayWrite(tx[t], best, old, templates)
      /\ best \notin Locked(t)
  <2>1. Exists(Visible(t)[best]) /\ best \notin Locked(t)
    BY <1>1 DEF Writable
  <2>2. "backup" \in Statuses
    BY DEF Statuses
  <2> QED BY <1>1, <2>1, <2>2, UpdateIsOwned
<1>6. young = tx[t].seen[best]
  <2>1. tx[t].seen[best] \in Row
    BY <1>3
  <2> QED BY <1>4, <2>1 DEF Row
<1>7. young \in Row /\ MayWrite(tx[t], r, young, templates) /\ r \notin Locked(t)
  <2>1. young \in Row /\ young.student \in tx[t].students
    BY <1>3, <1>4, <1>6
  <2> QED BY <1>1, <2>1, FreeIdIsNew
<1>8. Goes(t, "commit", change, "same")
  BY <1>2
<1> HIDE DEF old, young
<1>9. /\ change \in [DOMAIN change -> Row \cup {Deleted}] /\ DOMAIN change = {best, r}
      /\ change[best] = old /\ change[r] = young
  BY <1>4, <1>5, <1>7
<1> HIDE DEF change
<1>10. Took(tx[t], "commit", change, "same", y)
  BY <1>1, <1>9, GoesOn
<1>11. y = Taken(tx[t], "commit", change, "same")
  OBVIOUS
<1> HIDE DEF y
<1>12. \A q \in DOMAIN change : MayWrite(tx[t], q, change[q], templates)
  BY <1>5, <1>7, <1>9
<1>13. Owned(y, templates)
  BY <1>3, <1>10, <1>12, StillOwned DEF Took, Sound
<1>14. Plan(y)
  BY <1>1, <1>3, <1>10 DEF Took, Sound, Plan
<1>15. DOMAIN y.change = {best, r} /\ y.change[best] = old /\ y.change[r] = young
  BY <1>4, <1>9, <1>10 DEF Took
<1>16. Writes(y)
  BY <1>1, <1>5, <1>7, <1>10, <1>15, RowsExist DEF Took, Writes
<1>17. Refreshes(y, templates)
  <2>1. y.seen = tx[t].seen
    BY <1>10 DEF Took
  <2>2. /\ DOMAIN y.seen = {best} /\ y.seen[best].model = "arcface" /\ y.seen[best].status = "active"
        /\ r \in Rows \ {best} /\ DOMAIN y.change = {best, r}
        /\ y.change[best].status = "backup" /\ y.change[r] = y.seen[best]
        /\ templates[r] = Unused
    BY <1>4, <1>5, <1>6, <1>15, <2>1
  <2> QED BY <1>4, <2>2 DEF Refreshes
<1>18. RollsBack(y, log)
  BY <1>1, <1>10 DEF Took, RollsBack
<1>19. Sound(y, log, templates)
  BY <1>13, <1>14, <1>16, <1>17, <1>18 DEF Sound
<1>20. DOMAIN change \subseteq Rows /\ (DOMAIN change \ DOMAIN tx[t].change) \cap Locked(t) = {}
  BY <1>4, <1>5, <1>7, <1>9
<1> QED
  BY <1>1, <1>8, <1>9, <1>10, <1>11, <1>19, <1>20, WriteKeepsBase

LEMMA FinishDeleteKeepsBase ==
    ASSUME Base, NEW t \in Tx, FinishDelete(t)
    PROVE  Base'
<1>1. /\ Open(t) /\ tx[t].step = "write" /\ tx[t].kind \in {"erase", "purge"}
      /\ DOMAIN tx[t].seen \cap Locked(t) = {}
  BY DEF FinishDelete, At, Is
<1> DEFINE change == [r \in DOMAIN tx[t].seen |-> Deleted]
           flag == IF Is(t, {"erase"}) /\ tx[t].loaded THEN "cleared" ELSE "same"
           y == Taken(tx[t], "commit", change, flag)
<1>2. Goes(t, "commit", change, flag)
  BY DEF FinishDelete
<1>3. /\ change \in [DOMAIN change -> Row \cup {Deleted}] /\ DOMAIN change = DOMAIN tx[t].seen
      /\ \A r \in DOMAIN change : change[r] = Deleted
  OBVIOUS
<1>4. flag \in {"same", "cleared"} /\ (tx[t].kind = "purge" => flag = "same")
  BY DEF Is
<1> HIDE DEF change, flag
<1>5. Took(tx[t], "commit", change, flag, y)
  BY <1>1, <1>3, <1>4, GoesOn
<1>6. y = Taken(tx[t], "commit", change, flag)
  OBVIOUS
<1> HIDE DEF y
<1>7. /\ Sound(tx[t], log, templates) /\ DOMAIN tx[t].seen \subseteq DOMAIN templates
      /\ DOMAIN tx[t].seen \subseteq Rows /\ DOMAIN tx[t].change = {}
  BY <1>1, OpenType DEF Base, TypeOK, Sound, Plan
<1>8. \A r \in DOMAIN change : MayWrite(tx[t], r, change[r], templates)
  <2>1. ASSUME NEW r \in DOMAIN change, Exists(templates[r])
        PROVE  templates[r].student \in tx[t].students
    <3>1. Over(tx[t].change, templates)[r] = templates[r]
      BY <1>3, <1>7, <2>1 DEF Over
    <3> QED BY <1>3, <1>7, <2>1, <3>1 DEF Sound, Owned, Kin
  <2> QED BY <1>3, <2>1, RowsExist DEF MayWrite
<1>9. Owned(y, templates)
  BY <1>5, <1>7, <1>8, StillOwned DEF Took, Sound
<1>10. Plan(y)
  BY <1>1, <1>4, <1>5, <1>7 DEF Took, Sound, Plan
<1>11. Writes(y)
  BY <1>1, <1>3, <1>5, <1>7 DEF Took, Sound, Writes
<1>12. Refreshes(y, templates) /\ RollsBack(y, log)
  BY <1>1, <1>5 DEF Took, Refreshes, RollsBack
<1>13. Sound(y, log, templates)
  BY <1>9, <1>10, <1>11, <1>12 DEF Sound
<1> QED
  BY <1>1, <1>2, <1>3, <1>4, <1>5, <1>6, <1>7, <1>13, WriteKeepsBase

-----------------------------------------------------------------------------
(* Beginning a request.                                                    *)

Begun(kind, step, concerned, seen, order, entry, alone) ==
    [kind |-> kind, step |-> step, students |-> concerned,
     loaded |-> \E s \in concerned : enrolled[s], seen |-> seen,
     change |-> <<>>, order |-> order, flag |-> "same", entry |-> entry, alone |-> alone]

Concerned(concerned) == {u \in Tx : Open(u) /\ tx[u].students \cap concerned # {}}

(* y is x, perhaps no longer alone.                                        *)
AsBefore(x, y) == y = x \/ y = [x EXCEPT !.alone = FALSE]

LEMMA NoLongerAlone ==
    ASSUME NEW x, x \in Transaction(DOMAIN x.seen, DOMAIN x.change), NEW y, AsBefore(x, y)
    PROVE  /\ y \in Transaction(DOMAIN x.seen, DOMAIN x.change)
           /\ y.kind = x.kind /\ y.step = x.step /\ y.students = x.students /\ y.loaded = x.loaded
           /\ y.seen = x.seen /\ y.change = x.change /\ y.order = x.order /\ y.flag = x.flag
           /\ y.entry = x.entry /\ (y.alone => x.alone)
BY DEF AsBefore, Transaction

LEMMA SoundAsBefore ==
    ASSUME NEW x, x \in Transaction(DOMAIN x.seen, DOMAIN x.change), NEW y, AsBefore(x, y),
           NEW entries, NEW table, Sound(x, entries, table)
    PROVE  Sound(y, entries, table)
<1>1. /\ y.kind = x.kind /\ y.step = x.step /\ y.students = x.students
      /\ y.seen = x.seen /\ y.change = x.change /\ y.flag = x.flag /\ y.entry = x.entry
  BY NoLongerAlone
<1>2. Plan(y) /\ Writes(y)
  BY <1>1 DEF Sound, Plan, Writes
<1>3. Refreshes(y, table) /\ RollsBack(y, entries)
  BY <1>1 DEF Sound, Refreshes, RollsBack
<1>4. Owned(y, table)
  BY <1>1 DEF Sound, Owned
<1> QED
  BY <1>2, <1>3, <1>4 DEF Sound

LEMMA BeginAdds ==
    ASSUME Base, NEW t \in Tx, NEW kind, NEW step, NEW concerned, NEW seen, NEW order, NEW entry,
           Begin(t, kind, step, concerned, seen, order, entry)
    PROVE  /\ ~Open(t)
           /\ tx' = [u \in Tx |-> tx'[u]]
           /\ tx'[t] = Begun(kind, step, concerned, seen, order, entry, Concerned(concerned) = {})
           /\ \A u \in Tx \ {t} :
                 tx'[u] = IF u \in Concerned(concerned) THEN [tx[u] EXCEPT !.alone = FALSE] ELSE tx[u]
BY DEF Begin, Begun, Concerned, Open

Starts(kind, step, concerned, ids, seen, order, entry) ==
    /\ kind \in Kinds /\ concerned \subseteq Students /\ order \in Statuses /\ entry \in Nat
    /\ ids \subseteq Rows /\ seen \in [ids -> Row]
    /\ kind # "purge" => \E s \in Students : concerned = {s}
    /\ step = IF kind = "upload" THEN "photos" ELSE IF kind \in {"erase", "purge"} THEN "read" ELSE "write"
    /\ kind \in {"upload", "erase", "purge", "embedding"} => ids = {}
    /\ kind = "status" => ids # {}
    /\ \A r \in ids : templates[r] = seen[r] /\ seen[r].student \in concerned
    /\ kind = "refresh" =>
          \E b \in Rows : ids = {b} /\ seen[b].model = "arcface" /\ seen[b].status = "active"
    /\ kind = "rollback" =>
          /\ entry \in DOMAIN log /\ log[entry].kind = "refresh" /\ concerned = {log[entry].student}
          /\ ids = {r \in {log[entry].old, log[entry].new} : Exists(templates[r])}
          /\ \A r \in ids : seen[r].model = "arcface"
          /\ \A j \in DOMAIN log : log[j].of # entry

LEMMA BeginKeepsBase ==
    ASSUME Base, NEW t \in Tx, NEW kind, NEW step, NEW concerned, NEW ids, NEW seen,
           NEW order, NEW entry,
           Begin(t, kind, step, concerned, seen, order, entry),
           Starts(kind, step, concerned, ids, seen, order, entry)
    PROVE  Base'
<1> DEFINE y == Begun(kind, step, concerned, seen, order, entry, Concerned(concerned) = {})
<1>0. /\ kind \in Kinds /\ concerned \subseteq Students /\ order \in Statuses /\ entry \in Nat
      /\ ids \subseteq Rows /\ seen \in [ids -> Row] /\ step \in {"photos", "read", "write"}
      /\ \A r \in ids : templates[r] = seen[r] /\ seen[r].student \in concerned
  BY DEF Starts
<1>1. /\ ~Open(t) /\ tx' = [u \in Tx |-> tx'[u]] /\ tx'[t] = y
  BY BeginAdds
<1>2. \A u \in Tx \ {t} : AsBefore(tx[u], tx'[u])
  BY BeginAdds DEF AsBefore
<1>3. /\ y.kind = kind /\ y.step = step /\ y.students = concerned /\ y.seen = seen /\ y.change = <<>>
      /\ y.flag = "same" /\ y.entry = entry
  BY DEF Begun
<1>4. <<>> \in [{} -> Row \cup {Deleted}] /\ DOMAIN y.change = {} /\ DOMAIN y.seen = ids
  BY <1>0, <1>3
<1>5. y \in Transaction(DOMAIN y.seen, DOMAIN y.change) /\ y # Idle
  BY <1>0, <1>4 DEF Begun, Transaction, Idle, Kinds
<1> HIDE DEF y
<1>6. /\ templates' = templates /\ log' = log /\ enrolled' = enrolled /\ aged' = aged /\ due' = due
      /\ doubtful' = doubtful /\ demoted' = demoted /\ tangled' = tangled /\ forgotten' \subseteq forgotten
      /\ requests' \in 0 .. MaxRequests
  BY LimitsAssumption DEF Begin, Base, TypeOK
<1>7. \A u \in Tx \ {t} : Open(u)' => Open(u)
  BY <1>2 DEF Open, AsBefore, Idle
<1>8. ASSUME NEW u \in Tx, Open(u)', u # t
      PROVE  /\ Open(u) /\ tx[u] \in Transaction(DOMAIN tx[u].seen, DOMAIN tx[u].change)
             /\ AsBefore(tx[u], tx'[u])
             /\ tx'[u] \in Transaction(DOMAIN tx[u].seen, DOMAIN tx[u].change)
             /\ tx'[u].change = tx[u].change /\ tx'[u].seen = tx[u].seen
             /\ DOMAIN tx[u].seen \subseteq Rows /\ DOMAIN tx[u].change \subseteq Rows
             /\ Sound(tx'[u], log, templates)
  <2>1. Open(u) /\ AsBefore(tx[u], tx'[u])
    BY <1>2, <1>7, <1>8
  <2>2. /\ tx[u] \in Transaction(DOMAIN tx[u].seen, DOMAIN tx[u].change)
        /\ DOMAIN tx[u].seen \subseteq Rows /\ DOMAIN tx[u].change \subseteq Rows
        /\ Sound(tx[u], log, templates)
    BY <2>1, OpenType DEF Base
  <2>3. /\ tx'[u] \in Transaction(DOMAIN tx[u].seen, DOMAIN tx[u].change)
        /\ tx'[u].change = tx[u].change /\ tx'[u].seen = tx[u].seen
    BY <2>1, <2>2, NoLongerAlone
  <2>4. Sound(tx'[u], log, templates)
    BY <2>1, <2>2, SoundAsBefore
  <2> QED BY <2>1, <2>2, <2>3, <2>4
<1>9. TypeOK' /\ (tx = [u \in Tx |-> tx[u]])'
  <2>1. ASSUME NEW u \in Tx, tx'[u] # Idle
        PROVE  /\ tx'[u] \in Transaction(DOMAIN tx'[u].seen, DOMAIN tx'[u].change)
               /\ DOMAIN tx'[u].seen \subseteq Rows /\ DOMAIN tx'[u].change \subseteq Rows
    <3>1. CASE u = t
      BY <1>0, <1>1, <1>4, <1>5, <3>1
    <3>2. CASE u # t
      BY <1>8, <2>1, <3>2 DEF Open
    <3> QED BY <3>1, <3>2
  <2>2. DOMAIN tx' = Tx
    BY <1>1
  <2> QED BY <1>1, <1>6, <2>1, <2>2 DEF Base, TypeOK
<1>10. Sound(y, log, templates)
  <2>1. Plan(y)
    BY <1>3, <1>4 DEF Plan, Starts
  <2>2. Writes(y)
    BY <1>3, <1>4 DEF Writes, Starts
  <2>3. Refreshes(y, templates)
    BY <1>3, <1>4 DEF Refreshes, Starts
  <2>4. RollsBack(y, log)
    BY <1>3, <1>4 DEF RollsBack, Starts
  <2>5. Owned(y, templates)
    <3>1. ASSUME NEW r \in ids
          PROVE  /\ Over(y.change, templates)[r] = seen[r] /\ seen[r] \in Row
                 /\ seen[r].student \in concerned
      <4>1. r \in DOMAIN templates
        BY <1>0 DEF Base, TypeOK
      <4> QED BY <1>0, <1>4, <3>1, <4>1 DEF Over
    <3> QED BY <1>3, <1>4, <3>1, RowsExist DEF Owned, Kin
  <2> QED BY <2>1, <2>2, <2>3, <2>4, <2>5 DEF Sound
<1>11. (\A u \in Tx : Open(u) => Sound(tx[u], log, templates))'
  BY <1>1, <1>6, <1>8, <1>10
<1>12. (\A u, v \in Tx : u # v /\ Open(u) /\ Open(v) => DOMAIN tx[u].change \cap DOMAIN tx[v].change = {})'
  <2>1. ASSUME NEW u \in Tx, NEW v \in Tx, u # v, Open(u)', Open(v)'
        PROVE  DOMAIN tx'[u].change \cap DOMAIN tx'[v].change = {}
    <3>1. CASE u = t \/ v = t
      BY <1>1, <1>4, <3>1
    <3>2. CASE u # t /\ v # t
      BY <1>8, <2>1, <3>2 DEF Base
    <3> QED BY <3>1, <3>2
  <2> QED BY <2>1
<1>13. (\A i \in DOMAIN log : Traced(i, log, templates))'
  BY <1>6 DEF Base
<1> QED
  BY <1>9, <1>11, <1>12, <1>13 DEF Base

(* What a request that begins may read.                                    *)
Enters(t) ==
    \E kind, step, concerned, ids, seen, order, entry :
        /\ Begin(t, kind, step, concerned, seen, order, entry)
        /\ Starts(kind, step, concerned, ids, seen, order, entry)

LEMMA RequestEnters ==
    ASSUME Base, NEW t \in Tx, Request(t)
    PROVE  Enters(t)
<1>0. /\ templates \in [Rows -> Row \cup {Unused, Deleted}] /\ due \subseteq Students
      /\ log \in Seq(Entry)
      /\ Requested \subseteq Students /\ <<>> \in [{} -> Row] /\ {} \in SUBSET Rows
  BY RequestedAssumption DEF Base, TypeOK
<1>1. CASE BeginPurge(t)
  <2>1. Starts("purge", "read", due, {}, <<>>, "quarantined", 0)
    BY <1>0 DEF Starts, Kinds, Statuses
  <2> QED BY <1>1, <2>1 DEF BeginPurge, Enters
<1>2. ASSUME NEW s \in Requested, BeginUpload(t, s)
      PROVE  Enters(t)
  <2>1. Starts("upload", "photos", {s}, {}, <<>>, "backup", 0)
    BY <1>0 DEF Starts, Kinds, Statuses
  <2> QED BY <1>2, <2>1 DEF BeginUpload, Enters
<1>3. ASSUME NEW s \in Requested, BeginEmbedding(t, s)
      PROVE  Enters(t)
  <2>1. Starts("embedding", "write", {s}, {}, <<>>, "active", 0)
    BY <1>0 DEF Starts, Kinds, Statuses
  <2> QED BY <1>3, <2>1 DEF BeginEmbedding, Enters
<1>4. ASSUME NEW s \in Requested, BeginErase(t, s)
      PROVE  Enters(t)
  <2>1. Starts("erase", "read", {s}, {}, <<>>, "quarantined", 0)
    BY <1>0 DEF Starts, Kinds, Statuses
  <2> QED BY <1>4, <2>1 DEF BeginErase, Enters
<1>5. ASSUME NEW ids \in SUBSET Rows, \A r \in ids : Exists(templates[r])
      PROVE  /\ Restrict(templates, ids) \in [ids -> Row]
             /\ \A r \in ids : templates[r] = Restrict(templates, ids)[r]
             /\ \A r \in ids : templates[r].student \in Students
  <2>1. \A r \in ids : templates[r] \in Row /\ templates[r].student \in Students
    BY <1>0, <1>5, RowsExist DEF Row
  <2> QED BY <2>1 DEF Restrict
<1>6. ASSUME NEW r \in Rows, BeginRefresh(t, r)
      PROVE  Enters(t)
  <2>1. /\ Exists(templates[r]) /\ templates[r].model = "arcface" /\ templates[r].status = "active"
        /\ Begin(t, "refresh", "write", {templates[r].student}, Restrict(templates, {r}), "backup", 0)
    BY <1>6 DEF BeginRefresh, Refreshable
  <2>2. {r} \in SUBSET Rows
    OBVIOUS
  <2>3. /\ Restrict(templates, {r}) \in [{r} -> Row] /\ templates[r] = Restrict(templates, {r})[r]
        /\ templates[r].student \in Students
    BY <1>5, <2>1, <2>2
  <2>4. Starts("refresh", "write", {templates[r].student}, {r}, Restrict(templates, {r}), "backup", 0)
    BY <2>1, <2>3 DEF Starts, Kinds, Statuses
  <2> QED BY <2>1, <2>4 DEF Enters
<1>7. ASSUME NEW r \in Rows, NEW status \in Statuses, BeginStatus(t, r, status)
      PROVE  Enters(t)
  <2>1. /\ Exists(templates[r])
        /\ Begin(t, "status", "write", {templates[r].student}, Restrict(templates, {r}), status, 0)
    BY <1>7 DEF BeginStatus
  <2>2. {r} \in SUBSET Rows
    OBVIOUS
  <2>3. /\ Restrict(templates, {r}) \in [{r} -> Row] /\ templates[r] = Restrict(templates, {r})[r]
        /\ templates[r].student \in Students
    BY <1>5, <2>1, <2>2
  <2>4. Starts("status", "write", {templates[r].student}, {r}, Restrict(templates, {r}), status, 0)
    BY <2>1, <2>3 DEF Starts, Kinds, Statuses
  <2> QED BY <2>1, <2>4 DEF Enters
<1>8. ASSUME NEW i \in DOMAIN log, BeginRollback(t, i)
      PROVE  Enters(t)
  <2> DEFINE ids == {r \in {log[i].old, log[i].new} : Exists(templates[r])}
  <2>1. /\ log[i].kind = "refresh" /\ Traced(i, log, templates)
        /\ Begin(t, "rollback", "write", {log[i].student}, Restrict(templates, ids), "backup", i)
    BY <1>8 DEF BeginRollback, Base
  <2>2. log[i] \in Entry /\ i \in Nat
    BY <1>0
  <2>3. ids \in SUBSET Rows /\ log[i].student \in Students
    BY <2>2 DEF Entry
  <2>4. \A r \in ids : Exists(templates[r]) /\ templates[r].model = "arcface" /\ templates[r].student = log[i].student
    BY <2>1 DEF Traced
  <2>5. /\ Restrict(templates, ids) \in [ids -> Row]
        /\ \A r \in ids : templates[r] = Restrict(templates, ids)[r]
    BY <1>5, <2>3, <2>4
  <2>6. ids = {r \in {log[i].old, log[i].new} : Exists(templates[r])}
    OBVIOUS
  <2>8. \A j \in DOMAIN log : log[j].of # i
    BY <1>8 DEF BeginRollback
  <2> HIDE DEF ids
  <2>7. Starts("rollback", "write", {log[i].student}, ids, Restrict(templates, ids), "backup", i)
    BY <2>1, <2>2, <2>3, <2>4, <2>5, <2>6, <2>8 DEF Starts, Kinds, Statuses
  <2> QED BY <2>1, <2>7 DEF Enters
<1> QED
  BY <1>1, <1>2, <1>3, <1>4, <1>6, <1>7, <1>8 DEF Request

LEMMA RequestKeepsBase ==
    ASSUME Base, NEW t \in Tx, Request(t)
    PROVE  Base'
BY RequestEnters, BeginKeepsBase DEF Enters

-----------------------------------------------------------------------------
(* Committing.                                                             *)

(* The entry of a refresh of b into r, and of a rollback.                  *)
RefreshEntry(s, b, r) == [kind |-> "refresh", of |-> 0, student |-> s, old |-> b, new |-> r]
RollbackEntry(i) ==
    [kind |-> "rollback", of |-> i, student |-> log[i].student, old |-> log[i].new, new |-> log[i].old]

Refreshed(t, s, b, r) ==
    /\ s \in Students /\ b \in Rows /\ r \in Rows \ {b}
    /\ tx[t].students = {s} /\ DOMAIN tx[t].seen = {b} /\ DOMAIN tx[t].change = {b, r}
    /\ tx[t].seen[b].model = "arcface" /\ tx[t].seen[b].status = "active"
    /\ tx[t].seen[b].student = s
    /\ tx[t].change[b].status = "backup" /\ tx[t].change[r] = tx[t].seen[b]
    /\ templates[r] = Unused
    /\ NewEntries(t) = <<RefreshEntry(s, b, r)>>

LEMMA ARefreshIsLogged ==
    ASSUME Base, NEW t \in Tx, At(t, "commit"), tx[t].kind = "refresh"
    PROVE  \E s \in Students, b \in Rows, r \in Rows : Refreshed(t, s, b, r)
<1>1. Open(t) /\ Sound(tx[t], log, templates) /\ tx[t].step = "commit"
  BY DEF At, Base
<1>2. PICK s \in Students : tx[t].students = {s}
  BY <1>1 DEF Sound, Plan
<1>3. PICK b \in Rows :
         /\ DOMAIN tx[t].seen = {b} /\ tx[t].seen[b].model = "arcface" /\ tx[t].seen[b].status = "active"
         /\ \E r \in Rows \ {b} :
               /\ DOMAIN tx[t].change = {b, r}
               /\ tx[t].change[b].status = "backup" /\ tx[t].change[r] = tx[t].seen[b]
               /\ templates[r] = Unused
  BY <1>1 DEF Sound, Refreshes
<1>4. PICK r \in Rows \ {b} :
         /\ DOMAIN tx[t].change = {b, r}
         /\ tx[t].change[b].status = "backup" /\ tx[t].change[r] = tx[t].seen[b]
         /\ templates[r] = Unused
  BY <1>3
<1>5. tx[t].seen[b].student = s
  BY <1>1, <1>2, <1>3 DEF Sound, Owned
<1>6. NewEntries(t) = <<RefreshEntry(s, b, r)>>
  <2>1. (CHOOSE q \in DOMAIN tx[t].change : q \notin DOMAIN tx[t].seen) = r
    BY <1>3, <1>4
  <2>2. (CHOOSE q \in DOMAIN tx[t].seen : TRUE) = b
    BY <1>3
  <2>3. (CHOOSE q \in tx[t].students : TRUE) = s
    BY <1>2
  <2>4. Is(t, {"refresh"})
    BY <1>1 DEF Is
  <2> QED BY <2>1, <2>2, <2>3, <2>4 DEF NewEntries, RefreshEntry
<1> QED
  BY <1>2, <1>3, <1>4, <1>5, <1>6 DEF Refreshed

LEMMA ARollbackIsLogged ==
    ASSUME Base, NEW t \in Tx, At(t, "commit"), tx[t].kind = "rollback"
    PROVE  /\ tx[t].entry \in DOMAIN log /\ log[tx[t].entry].kind = "refresh"
           /\ NewEntries(t) = <<RollbackEntry(tx[t].entry)>>
BY DEF At, Base, Sound, RollsBack, NewEntries, RollbackEntry, Is

LEMMA NothingElseIsLogged ==
    ASSUME NEW t \in Tx, tx[t].kind \notin {"refresh", "rollback"}
    PROVE  NewEntries(t) = <<>>
BY DEF NewEntries, Is

(* The log with e at its end.                                              *)
Grown(e) ==
    /\ e \in Entry /\ e.of \in 0 .. Len(log)
    /\ log' \in Seq(Entry) /\ Len(log) \in Nat
    /\ DOMAIN log' = DOMAIN log \cup {Len(log) + 1} /\ Len(log) + 1 \notin DOMAIN log
    /\ log'[Len(log) + 1] = e /\ \A i \in DOMAIN log : log'[i] = log[i]

LEMMA Appended ==
    ASSUME TypeOK, NEW e \in Entry, e.of \in 0 .. Len(log), log' = log \o <<e>>
    PROVE  Grown(e)
<1>1. log \in Seq(Entry)
  BY DEF TypeOK
<1>2. log' = Append(log, e)
  BY <1>1
<1>3. /\ log' \in Seq(Entry) /\ Len(log') = Len(log) + 1 /\ Len(log) \in Nat
      /\ log'[Len(log) + 1] = e /\ \A i \in 1 .. Len(log) : log'[i] = log[i]
  BY <1>1, <1>2
<1>4. DOMAIN log = 1 .. Len(log) /\ DOMAIN log' = 1 .. Len(log')
  BY <1>1, <1>3
<1> QED
  BY <1>3, <1>4 DEF Grown

LEMMA LogAfterCommit ==
    ASSUME Base, NEW t \in Tx, Commit(t)
    PROVE  \/ /\ tx[t].kind = "refresh"
              /\ \E s \in Students, b \in Rows, r \in Rows : Refreshed(t, s, b, r) /\ Grown(RefreshEntry(s, b, r))
           \/ /\ tx[t].kind = "rollback" /\ tx[t].entry \in DOMAIN log
              /\ log[tx[t].entry].kind = "refresh" /\ Grown(RollbackEntry(tx[t].entry))
           \/ tx[t].kind \notin {"refresh", "rollback"} /\ log' = log
<1>1. At(t, "commit") /\ log' = log \o NewEntries(t) /\ TypeOK /\ log \in Seq(Entry)
  BY DEF Commit, Base, TypeOK
<1>2. CASE tx[t].kind = "refresh"
  <2>1. PICK s \in Students, b \in Rows, r \in Rows : Refreshed(t, s, b, r)
    BY <1>1, <1>2, ARefreshIsLogged
  <2>2. RefreshEntry(s, b, r) \in Entry /\ RefreshEntry(s, b, r).of \in 0 .. Len(log)
    BY <1>1 DEF RefreshEntry, Entry
  <2>3. log' = log \o <<RefreshEntry(s, b, r)>>
    BY <1>1, <2>1 DEF Refreshed
  <2>4. Grown(RefreshEntry(s, b, r))
    BY <1>1, <2>2, <2>3, Appended
  <2> QED BY <1>2, <2>1, <2>4
<1>3. CASE tx[t].kind = "rollback"
  <2> DEFINE i == tx[t].entry
  <2>1. i \in DOMAIN log /\ log[i].kind = "refresh" /\ NewEntries(t) = <<RollbackEntry(i)>>
    BY <1>1, <1>3, ARollbackIsLogged
  <2>2. RollbackEntry(i) \in Entry /\ RollbackEntry(i).of \in 0 .. Len(log)
    <3>1. log[i] \in Entry /\ i \in 1 .. Len(log) /\ Len(log) \in Nat
      BY <1>1, <2>1
    <3> QED BY <3>1 DEF RollbackEntry, Entry
  <2>3. log' = log \o <<RollbackEntry(i)>>
    BY <1>1, <2>1
  <2>4. Grown(RollbackEntry(i))
    BY <1>1, <2>2, <2>3, Appended
  <2> QED BY <1>3, <2>1, <2>4
<1>4. CASE tx[t].kind \notin {"refresh", "rollback"}
  <2>1. log' = log
    BY <1>1, <1>4, NothingElseIsLogged
  <2> QED BY <1>4, <2>1
<1> QED
  BY <1>2, <1>3, <1>4

(* The rows after t commits: no id becomes unused, and a row that was      *)
(* there before is still of the same student and model.                    *)
LEMMA RowsAfterCommit ==
    ASSUME Base, NEW t \in Tx, Commit(t)
    PROVE  /\ templates' \in [Rows -> Row \cup {Unused, Deleted}]
           /\ \A r \in Rows :
                 /\ templates'[r] = IF r \in DOMAIN tx[t].change THEN tx[t].change[r] ELSE templates[r]
                 /\ templates[r] # Unused => templates'[r] # Unused
                 /\ templates[r] # Unused /\ Exists(templates'[r]) =>
                       Exists(templates[r]) /\ Kin(templates'[r], templates[r])
<1>1. Open(t) /\ templates' = Visible(t) /\ TypeOK
  BY DEF Commit, At, Base
<1>2. /\ templates' \in [Rows -> Row \cup {Unused, Deleted}]
      /\ \A r \in Rows :
            templates'[r] = IF r \in DOMAIN tx[t].change THEN tx[t].change[r] ELSE templates[r]
  BY <1>1, VisibleAt
<1>3. ASSUME NEW r \in Rows, templates[r] # Unused
      PROVE  /\ templates'[r] # Unused
             /\ Exists(templates'[r]) => Exists(templates[r]) /\ Kin(templates'[r], templates[r])
  <2>1. CASE r \in DOMAIN tx[t].change
    <3>1. tx[t].change[r] \in Row \cup {Deleted} /\ templates[r] \in Row \cup {Unused, Deleted}
      BY <1>1, <2>1, OpenType DEF TypeOK
    <3>2. /\ Exists(tx[t].change[r]) => templates[r] # Deleted
          /\ Exists(tx[t].change[r]) /\ Exists(templates[r]) => Kin(tx[t].change[r], templates[r])
      BY <1>1, <2>1 DEF Base, Sound, Owned
    <3> QED BY <1>2, <1>3, <2>1, <3>1, <3>2, RowsExist
  <2>2. CASE r \notin DOMAIN tx[t].change
    BY <1>2, <1>3, <2>2 DEF Kin
  <2> QED BY <2>1, <2>2
<1> QED
  BY <1>2, <1>3

LEMMA TracedAfterCommit ==
    ASSUME Base, NEW t \in Tx, Commit(t), NEW i \in DOMAIN log'
    PROVE  Traced(i, log, templates)'
<1> DEFINE Known(e, table) ==
        \A r \in {e.old, e.new} :
            /\ table[r] # Unused
            /\ Exists(table[r]) => table[r].student = e.student /\ table[r].model = "arcface"
<1>1. /\ log \in Seq(Entry) /\ Open(t) /\ Sound(tx[t], log, templates)
      /\ \A j \in DOMAIN log : Traced(j, log, templates)
      /\ templates \in [Rows -> Row \cup {Unused, Deleted}]
  BY DEF Base, TypeOK, Commit, At
<1>2. \A j \in DOMAIN log : log[j] \in Entry /\ log[j].old \in Rows /\ log[j].new \in Rows
  <2>1. \A j \in DOMAIN log : log[j] \in Entry
    BY <1>1
  <2>2. \A e \in Entry : e.old \in Rows /\ e.new \in Rows
    BY DEF Entry
  <2> QED BY <2>1, <2>2
<1>3. \A j \in DOMAIN log : Known(log[j], templates')
  <2>1. \A j \in DOMAIN log : Known(log[j], templates)
    BY <1>1 DEF Traced
  <2> QED BY <1>2, <2>1, RowsAfterCommit DEF Kin
<1>4. CASE log' = log
  BY <1>1, <1>3, <1>4 DEF Traced
<1>5. ASSUME NEW s \in Students, NEW b \in Rows, NEW r \in Rows,
             Refreshed(t, s, b, r), Grown(RefreshEntry(s, b, r)), tx[t].kind = "refresh"
      PROVE  Traced(i, log, templates)'
  <2> DEFINE n == Len(log) + 1
  <2>1. /\ log'[n].old = b /\ log'[n].new = r /\ log'[n].student = s /\ log'[n].kind = "refresh"
        /\ DOMAIN log' = DOMAIN log \cup {n} /\ \A j \in DOMAIN log : log'[j] = log[j]
    BY <1>5 DEF Grown, RefreshEntry
  <2>2. templates[r] = Unused /\ r # b
    BY <1>5 DEF Refreshed
  <2>3. \A j \in DOMAIN log : log[j].new # r
    BY <1>1, <2>2 DEF Traced
  <2>4. /\ templates'[r] = tx[t].change[r] /\ templates'[b] = tx[t].change[b]
        /\ tx[t].change[r] = tx[t].seen[b] /\ tx[t].seen[b].model = "arcface" /\ tx[t].seen[b].student = s
        /\ b \in DOMAIN tx[t].change /\ b \in DOMAIN tx[t].seen /\ tx[t].students = {s}
    BY <1>5, RowsAfterCommit DEF Refreshed
  <2>5. Over(tx[t].change, templates)[b] = tx[t].change[b]
    BY <1>1, <2>4 DEF Over
  <2>6. /\ tx[t].change[b] # Unused
        /\ Exists(tx[t].change[b]) => tx[t].change[b].student = s /\ tx[t].change[b].model = "arcface"
    BY <1>1, <2>4, <2>5 DEF Sound, Owned, Kin
  <2>7. tx[t].seen[b] # Unused
    BY <1>1, <2>4, OpenType, RowsExist DEF Base
  <2>8. Known(log'[n], templates')
    BY <2>1, <2>4, <2>6, <2>7
  <2>9. CASE i = n
    BY <2>1, <2>2, <2>3, <2>8, <2>9 DEF Traced
  <2>10. CASE i \in DOMAIN log
    BY <1>1, <1>3, <2>1, <2>3, <2>10 DEF Traced
  <2> QED BY <2>1, <2>9, <2>10
<1>6. ASSUME tx[t].entry \in DOMAIN log, Grown(RollbackEntry(tx[t].entry))
      PROVE  Traced(i, log, templates)'
  <2> DEFINE n == Len(log) + 1
  <2>1. /\ log'[n].old = log[tx[t].entry].new /\ log'[n].new = log[tx[t].entry].old
        /\ log'[n].student = log[tx[t].entry].student /\ log'[n].kind = "rollback"
        /\ DOMAIN log' = DOMAIN log \cup {n} /\ \A j \in DOMAIN log : log'[j] = log[j]
    BY <1>6 DEF Grown, RollbackEntry
  <2>2. Known(log'[n], templates')
    BY <1>3, <1>6, <2>1
  <2>3. CASE i = n
    BY <2>1, <2>2, <2>3 DEF Traced
  <2>4. CASE i \in DOMAIN log
    BY <1>1, <1>3, <2>1, <2>4 DEF Traced
  <2> QED BY <2>1, <2>3, <2>4
<1> QED
  BY <1>4, <1>5, <1>6, LogAfterCommit

LEMMA OthersSoundAfterCommit ==
    ASSUME Base, NEW t \in Tx, Commit(t), NEW u \in Tx \ {t}, Open(u)
    PROVE  Sound(tx[u], log', templates')
<1>1. /\ Open(t) /\ DOMAIN tx[u].change \subseteq Rows /\ DOMAIN tx[u].seen \subseteq Rows
      /\ Sound(tx[u], log, templates)
      /\ DOMAIN templates = Rows /\ DOMAIN templates' = Rows
  BY OpenType, RowsAfterCommit DEF Base, TypeOK, Commit, At
<1>2. \A r \in DOMAIN tx[u].change : templates'[r] = templates[r]
  <2>1. DOMAIN tx[u].change \cap DOMAIN tx[t].change = {}
    BY <1>1 DEF Base
  <2> QED BY <1>1, <2>1, RowsAfterCommit
<1>3. Owned(tx[u], templates')
  <2>1. ASSUME NEW r \in DOMAIN tx[u].seen
        PROVE  LET now == Over(tx[u].change, templates')[r]
               IN /\ tx[u].seen[r].student \in tx[u].students /\ now # Unused
                  /\ Exists(now) => Kin(now, tx[u].seen[r])
    <3> DEFINE before == Over(tx[u].change, templates)[r]
               now == Over(tx[u].change, templates')[r]
    <3>1. /\ before = IF r \in DOMAIN tx[u].change THEN tx[u].change[r] ELSE templates[r]
          /\ now = IF r \in DOMAIN tx[u].change THEN tx[u].change[r] ELSE templates'[r]
      BY <1>1, <2>1 DEF Over
    <3>2. /\ tx[u].seen[r].student \in tx[u].students /\ before # Unused
          /\ Exists(before) => Kin(before, tx[u].seen[r])
      BY <1>1, <2>1 DEF Sound, Owned
    <3> HIDE DEF before, now
    <3>3. CASE r \in DOMAIN tx[u].change
      BY <3>1, <3>2, <3>3 DEF now
    <3>4. CASE r \notin DOMAIN tx[u].change
      <4>1. /\ templates[r] # Unused => templates'[r] # Unused
            /\ templates[r] # Unused /\ Exists(templates'[r]) =>
                  Exists(templates[r]) /\ Kin(templates'[r], templates[r])
        BY <1>1, <2>1, RowsAfterCommit
      <4>2. now # Unused /\ (Exists(now) => Kin(now, tx[u].seen[r]))
        BY <3>1, <3>2, <3>4, <4>1 DEF Kin
      <4> QED BY <3>2, <4>2 DEF now
    <3> QED BY <3>3, <3>4
  <2> QED BY <1>1, <1>2, <2>1 DEF Sound, Owned
<1>4. Refreshes(tx[u], templates')
  BY <1>1, <1>2 DEF Sound, Refreshes
<1>5. RollsBack(tx[u], log')
  <2>1. \A i \in DOMAIN log : i \in DOMAIN log' /\ log'[i] = log[i]
    BY LogAfterCommit DEF Grown
  <2>2. RollsBack(tx[u], log)
    BY <1>1 DEF Sound
  <2>3. CASE tx[u].kind = "rollback"
    <3>1. tx[u].entry \in DOMAIN log
      BY <2>2, <2>3 DEF RollsBack
    <3>2. tx[u].entry \in DOMAIN log' /\ log'[tx[u].entry] = log[tx[u].entry]
      BY <2>1, <3>1
    <3> QED BY <2>2, <3>2 DEF RollsBack
  <2> QED BY <2>3 DEF RollsBack
<1> QED
  BY <1>1, <1>3, <1>4, <1>5 DEF Sound

LEMMA CommitKeepsBase ==
    ASSUME Base, NEW t \in Tx, Commit(t)
    PROVE  Base'
<1>1. /\ Open(t) /\ TypeOK /\ tx' = [tx EXCEPT ![t] = Idle]
      /\ aged' = aged /\ requests' = requests
  BY DEF Commit, At, Base
<1>2. /\ tx' = [u \in Tx |-> tx'[u]] /\ tx'[t] = Idle /\ \A u \in Tx \ {t} : tx'[u] = tx[u]
  BY <1>1 DEF Base
<1>3. tx[t].students \subseteq Students
  BY <1>1, OpenType
<1>4. /\ log' \in Seq(Entry) /\ \A i \in DOMAIN log' : log'[i].of < i
  <2>1. log \in Seq(Entry) /\ \A i \in DOMAIN log : log[i].of < i
    BY <1>1 DEF TypeOK
  <2>2. ASSUME NEW e, Grown(e)
        PROVE  log' \in Seq(Entry) /\ \A i \in DOMAIN log' : log'[i].of < i
    BY <2>1, <2>2 DEF Grown
  <2> QED BY <2>1, <2>2, LogAfterCommit
<1>5. TypeOK'
  <2>1. templates' \in [Rows -> Row \cup {Unused, Deleted}]
    BY RowsAfterCommit
  <2>2. enrolled' \in [Students -> BOOLEAN] /\ due' \subseteq Students
    BY <1>1 DEF Commit, TypeOK
  <2>3. doubtful' \cup forgotten' \cup demoted' \cup tangled' \subseteq Students
    <3>1. doubtful' \subseteq Students
      BY <1>1, <1>3 DEF Commit, TypeOK, NowDoubtful
    <3>2. forgotten' \subseteq Students /\ demoted' \subseteq Students /\ tangled' \subseteq Students
      BY <1>1, <1>3 DEF Commit, TypeOK
    <3> QED BY <3>1, <3>2
  <2>4. DOMAIN tx' = Tx
    BY <1>2
  <2>5. ASSUME NEW u \in Tx, tx'[u] # Idle
        PROVE  /\ tx'[u] \in Transaction(DOMAIN tx'[u].seen, DOMAIN tx'[u].change)
               /\ DOMAIN tx'[u].seen \subseteq Rows /\ DOMAIN tx'[u].change \subseteq Rows
    BY <1>1, <1>2, <2>5 DEF TypeOK
  <2> QED BY <1>1, <1>4, <2>1, <2>2, <2>3, <2>4, <2>5 DEF TypeOK
<1>6. (\A u \in Tx : Open(u) => Sound(tx[u], log, templates))'
  BY <1>2, OthersSoundAfterCommit DEF Open
<1>7. (\A u, v \in Tx : u # v /\ Open(u) /\ Open(v) => DOMAIN tx[u].change \cap DOMAIN tx[v].change = {})'
  BY <1>2 DEF Open, Base
<1>8. (\A i \in DOMAIN log : Traced(i, log, templates))'
  BY TracedAfterCommit
<1> QED
  BY <1>2, <1>5, <1>6, <1>7, <1>8 DEF Base

LEMMA InitBase ==
    ASSUME Init
    PROVE  Base
<1>1. PICK stored \in Stored : templates = stored.templates /\ log = stored.log
  BY DEF Init
<1>2. templates \in [Rows -> Row \cup {Unused, Deleted}] /\ log \in Seq(Entry)
  BY <1>1, StoredAssumption
<1>3. /\ tx = [t \in Tx |-> Idle] /\ enrolled = [s \in Students |-> Complete(s, templates)]
      /\ aged = {} /\ requests = 0 /\ due \in SUBSET Requested
      /\ doubtful = {} /\ forgotten = {} /\ demoted \subseteq Students /\ tangled \subseteq Students
  BY DEF Init
<1>4. \A i \in DOMAIN log : log[i].of < i
  BY <1>1, EntriesAssumption
<1>5. enrolled \in [Students -> BOOLEAN]
  <2>1. \A s \in Students : Complete(s, templates) \in BOOLEAN
    BY DEF Complete
  <2> QED BY <1>3, <2>1
<1>6. TypeOK
  BY <1>2, <1>3, <1>4, <1>5, RequestedAssumption, LimitsAssumption DEF TypeOK
<1>7. \A i \in DOMAIN log : Traced(i, log, templates)
  <2>1. \A i \in DOMAIN log : log[i] \in Entry
    BY <1>2
  <2>2. \A e \in Entry : e.old \in Nat /\ e.new \in Nat
    BY RowsAssumption DEF Entry
  <2>3. \A i \in DOMAIN log : log[i].old < log[i].new => log[i].old # log[i].new
    BY <2>1, <2>2
  <2> SUFFICES ASSUME NEW i \in DOMAIN log
               PROVE  Traced(i, log, templates)
    OBVIOUS
  <2>4. i \in DOMAIN stored.log
    BY <1>1
  <2>5. \A r \in {stored.log[i].old, stored.log[i].new} :
           /\ stored.templates[r] # Unused
           /\ Exists(stored.templates[r]) =>
                 stored.templates[r].student = stored.log[i].student /\ stored.templates[r].model = "arcface"
    BY <2>4, EntriesAssumption, Zenon
  <2>6. \A r \in {log[i].old, log[i].new} :
           /\ templates[r] # Unused
           /\ Exists(templates[r]) =>
                 templates[r].student = log[i].student /\ templates[r].model = "arcface"
    BY <1>1, <2>5
  <2>7. stored.log[i].kind = "refresh" =>
           /\ stored.log[i].old < stored.log[i].new
           /\ \A j \in DOMAIN stored.log \ {i} :
                 stored.log[j].kind = "refresh" => stored.log[j].new # stored.log[i].new
    BY <2>4, EntriesAssumption, Zenon
  <2>8. log[i].kind = "refresh" =>
           /\ log[i].old < log[i].new
           /\ \A j \in DOMAIN log \ {i} : log[j].kind = "refresh" => log[j].new # log[i].new
    BY <1>1, <2>7
  <2> QED BY <2>3, <2>6, <2>8, Zenon DEF Traced
<1> QED
  BY <1>3, <1>6, <1>7 DEF Base, Open

LEMMA NextKeepsBase ==
    ASSUME Base, [Next]_vars
    PROVE  Base'
<1>1. ASSUME NEW t \in Tx, Statement(t)
      PROVE  Base'
  BY <1>1, ReadTemplatesKeepsBase, RebalanceKeepsBase, WriteStatusKeepsBase, DecideKeepsBase,
     WriteRollbackKeepsBase, StartDeleteKeepsBase, FinishDeleteKeepsBase, CommitKeepsBase,
     AbortKeepsBase, WriteRefreshKeepsBase, WriteEmbeddingKeepsBase, AcceptPhotoKeepsBase
  DEF Statement
<1>2. ASSUME NEW r \in Rows, Age(r)
      PROVE  Base'
  <2>1. aged' \subseteq Rows /\ UNCHANGED <<templates, enrolled, due, log, tx, requests, doubtful, forgotten, demoted, tangled>>
    BY <1>2 DEF Age, Base, TypeOK
  <2> QED BY <2>1 DEF Base, TypeOK, Open, Traced
<1>3. CASE UNCHANGED vars
  BY <1>3 DEF vars, Base, TypeOK, Open, Traced
<1> QED
  BY <1>1, <1>2, <1>3, RequestKeepsBase DEF Next

LEMMA BaseHolds == Spec => []Base
<1>1. Init => Base
  BY InitBase
<1>2. Base /\ [Next]_vars => Base'
  BY NextKeepsBase
<1> QED
  BY <1>1, <1>2, PTL DEF Spec

(* The type invariant.                                                     *)
THEOREM TypesHold == Spec => []TypeOK
<1>1. Base => TypeOK
  BY DEF Base
<1> QED
  BY <1>1, BaseHolds, PTL

-----------------------------------------------------------------------------
(* Which templates of a student a step concerns.                           *)

Agree(s, one, other) ==
    \A r \in Rows : r \in RowsOf(s, one) \cup RowsOf(s, other) => one[r] = other[r]
ServeAlike(s, one, other) ==
    \A r \in Rows : r \in Serving(s, one) \cup Serving(s, other) => one[r] = other[r]

LEMMA ServingAlike ==
    ASSUME NEW s, NEW one, NEW other, ServeAlike(s, one, other)
    PROVE  Complete(s, one) = Complete(s, other)
<1>1. Serving(s, one) = Serving(s, other)
  BY DEF ServeAlike, Serving, RowsOf
<1>2. \A r \in Serving(s, one) : one[r] = other[r]
  BY <1>1 DEF ServeAlike, Serving, RowsOf
<1>3. \A l \in Labels : {r \in Serving(s, one) : Label[one[r].pose] = l}
                          = {r \in Serving(s, other) : Label[other[r].pose] = l}
  BY <1>1, <1>2
<1>4. Missing(s, one) = Missing(s, other)
  BY <1>3 DEF Missing
<1> QED
  BY <1>1, <1>4 DEF Complete

LEMMA AgreeingTables ==
    ASSUME NEW s, NEW one, NEW other, Agree(s, one, other)
    PROVE  /\ RowsOf(s, one) = RowsOf(s, other)
           /\ ServeAlike(s, one, other)
           /\ InUse(s, one) = InUse(s, other)
BY DEF Agree, ServeAlike, RowsOf, Serving, InUse

(* A commit leaves the templates of other students alone.                  *)
LEMMA CommitIsAboutItsStudents ==
    ASSUME Base, NEW t \in Tx, Commit(t), NEW s \in Students, s \notin tx[t].students
    PROVE  Agree(s, templates, templates') /\ enrolled'[s] = enrolled[s]
<1>1. Open(t) /\ Sound(tx[t], log, templates)
  BY DEF Commit, At, Base
<1>2. ASSUME NEW r \in Rows, r \in RowsOf(s, templates) \cup RowsOf(s, templates')
      PROVE  templates'[r] = templates[r]
  <2>1. CASE r \in DOMAIN tx[t].change
    <3>1. templates'[r] = tx[t].change[r]
      BY <2>1, RowsAfterCommit
    <3>2. /\ Exists(tx[t].change[r]) => tx[t].change[r].student \in tx[t].students
          /\ Exists(templates[r]) => templates[r].student \in tx[t].students
      BY <1>1, <2>1 DEF Sound, Owned
    <3> QED BY <1>2, <3>1, <3>2 DEF RowsOf
  <2>2. CASE r \notin DOMAIN tx[t].change
    BY <2>2, RowsAfterCommit
  <2> QED BY <2>1, <2>2
<1>3. enrolled'[s] = enrolled[s]
  BY DEF Commit
<1> QED
  BY <1>2, <1>3 DEF Agree

LEMMA SeesOthersAlike ==
    ASSUME Base, NEW t \in Tx, Commit(t), NEW u \in Tx \ {t}, Open(u),
           NEW s \in Students, s \notin tx[t].students
    PROVE  Agree(s, Visible(u), Visible(u)')
<1>1. /\ Base' /\ TypeOK /\ TypeOK' /\ tx'[u] = tx[u] /\ Open(u)'
  BY CommitKeepsBase DEF Base, Commit, Open
<1>2. /\ \A r \in Rows : Visible(u)[r] = IF r \in DOMAIN tx[u].change THEN tx[u].change[r] ELSE templates[r]
      /\ \A r \in Rows : Visible(u)'[r] = IF r \in DOMAIN tx[u].change THEN tx[u].change[r] ELSE templates'[r]
  <2>1. \A r \in Rows : Visible(u)[r] = IF r \in DOMAIN tx[u].change THEN tx[u].change[r] ELSE templates[r]
    BY <1>1, VisibleAt
  <2>2. DOMAIN templates' = Rows /\ DOMAIN tx[u].change \subseteq Rows
    BY <1>1, OpenType DEF TypeOK
  <2>3. \A r \in Rows : Visible(u)'[r] = IF r \in DOMAIN tx[u].change THEN tx[u].change[r] ELSE templates'[r]
    BY <1>1, <2>2 DEF Visible, Over
  <2> QED BY <2>1, <2>3
<1>3. Agree(s, templates, templates')
  BY CommitIsAboutItsStudents
<1>4. ASSUME NEW r \in Rows, r \in RowsOf(s, Visible(u)) \cup RowsOf(s, Visible(u)')
      PROVE  Visible(u)[r] = Visible(u)'[r]
  BY <1>2, <1>3, <1>4 DEF Agree, RowsOf
<1> QED
  BY <1>4 DEF Agree

(* Refreshes and rollbacks write arcface templates only.                   *)
LEMMA ArcfaceOnly ==
    ASSUME Base, NEW t \in Tx, At(t, "commit"), tx[t].kind \in {"refresh", "rollback"},
           NEW r \in DOMAIN tx[t].change
    PROVE  /\ tx[t].change[r] \in Row /\ tx[t].change[r].model = "arcface"
           /\ Exists(templates[r]) => templates[r].model = "arcface"
<1>1. /\ Open(t) /\ Sound(tx[t], log, templates) /\ tx[t].step = "commit"
      /\ r \in Rows /\ tx[t].change[r] \in Row \cup {Deleted}
  BY OpenType DEF At, Base
<1>2. tx[t].change[r] \in Row
  BY <1>1 DEF Sound, Writes
<1>3. r \in DOMAIN tx[t].seen => tx[t].change[r].model = tx[t].seen[r].model
  <2>1. Over(tx[t].change, templates)[r] = tx[t].change[r]
    BY DEF Over
  <2> QED BY <1>1, <1>2, <2>1, RowsExist DEF Sound, Owned, Kin
<1>4. Exists(templates[r]) => templates[r].model = tx[t].change[r].model
  BY <1>1, <1>2, RowsExist DEF Sound, Owned, Kin
<1>5. tx[t].change[r].model = "arcface"
  <2>1. CASE tx[t].kind = "refresh"
    BY <1>1, <1>3, <2>1 DEF Sound, Refreshes
  <2>2. CASE tx[t].kind = "rollback"
    BY <1>1, <1>3, <2>2 DEF Sound, Writes, RollsBack
  <2> QED BY <2>1, <2>2
<1> QED
  BY <1>2, <1>4, <1>5

LEMMA RefreshesServeAlike ==
    ASSUME Base, NEW t \in Tx, Commit(t), tx[t].kind \in {"refresh", "rollback"}, NEW s
    PROVE  ServeAlike(s, templates, templates')
<1>1. At(t, "commit")
  BY DEF Commit
<1>2. ASSUME NEW r \in Rows, r \in Serving(s, templates) \cup Serving(s, templates')
      PROVE  templates[r] = templates'[r]
  <2>1. r \notin DOMAIN tx[t].change
    BY <1>1, <1>2, ArcfaceOnly, RowsAfterCommit DEF Serving, RowsOf
  <2> QED BY <2>1, RowsAfterCommit
<1> QED
  BY <1>2 DEF ServeAlike

LEMMA EmptyIsIncomplete ==
    ASSUME NEW s, NEW table, RowsOf(s, table) = {}
    PROVE  ~Complete(s, table)
<1>1. Serving(s, table) = {} /\ Cardinality({}) = 0
  BY FS_EmptySet DEF Serving
<1>2. MinActive \in Nat /\ MinActive > 0
  BY MinActiveAssumption
<1> QED
  BY <1>1, <1>2 DEF Complete

-----------------------------------------------------------------------------
(* Every step but a commit leaves the tables alone, and every request that *)
(* stays open remains the request it was.                                  *)

SameRequest(x, y) ==
    /\ y # Idle
    /\ y.kind = x.kind /\ y.students = x.students /\ y.loaded = x.loaded
    /\ y.entry = x.entry /\ y.alone = x.alone

Continues(t) ==
    /\ Open(t) /\ UNCHANGED Others /\ UNCHANGED forgotten
    /\ \A u \in Tx \ {t} : tx'[u] = tx[u]
    /\ tx'[t] = Idle \/ SameRequest(tx[t], tx'[t])

LEMMA GoingOnContinues ==
    ASSUME Base, NEW t \in Tx, Open(t), NEW step, NEW change, NEW flag, Goes(t, step, change, flag)
    PROVE  /\ Continues(t)
           /\ tx'[t] # Idle /\ tx'[t].step = step /\ tx'[t].flag = flag
           /\ tx'[t].seen = tx[t].seen /\ tx'[t].change = Over(change, tx[t].change)
<1> DEFINE y == [tx[t] EXCEPT !.step = step, !.change = Over(change, @), !.flag = flag]
<1>1. tx[t] \in Transaction(DOMAIN tx[t].seen, DOMAIN tx[t].change)
  BY OpenType DEF Base
<1>2. /\ y.kind = tx[t].kind /\ y.students = tx[t].students /\ y.loaded = tx[t].loaded
      /\ y.entry = tx[t].entry /\ y.alone = tx[t].alone /\ y.seen = tx[t].seen
      /\ y.change = Over(change, tx[t].change) /\ y.step = step /\ y.flag = flag
  BY <1>1 DEF Transaction
<1>3. y # Idle
  BY <1>1 DEF Transaction, Idle
<1>4. tx' = [tx EXCEPT ![t] = y]
  BY DEF Goes
<1> HIDE DEF y
<1>5. tx'[t] = y /\ \A u \in Tx \ {t} : tx'[u] = tx[u]
  BY <1>4 DEF Base
<1>6. UNCHANGED Others /\ UNCHANGED forgotten
  BY DEF Goes, Others
<1> QED
  BY <1>2, <1>3, <1>5, <1>6 DEF Continues, SameRequest

LEMMA ReadingContinues ==
    ASSUME Base, NEW t \in Tx, Open(t), NEW seen, UNCHANGED Others, UNCHANGED forgotten,
           tx' = [tx EXCEPT ![t].step = "write", ![t].seen = seen]
    PROVE  /\ Continues(t)
           /\ tx'[t] # Idle /\ tx'[t].step = "write" /\ tx'[t].flag = tx[t].flag
           /\ tx'[t].seen = seen /\ tx'[t].change = tx[t].change
<1> DEFINE y == [tx[t] EXCEPT !.step = "write", !.seen = seen]
<1>1. tx[t] \in Transaction(DOMAIN tx[t].seen, DOMAIN tx[t].change)
  BY OpenType DEF Base
<1>2. /\ y.kind = tx[t].kind /\ y.students = tx[t].students /\ y.loaded = tx[t].loaded
      /\ y.entry = tx[t].entry /\ y.alone = tx[t].alone /\ y.seen = seen
      /\ y.change = tx[t].change /\ y.step = "write" /\ y.flag = tx[t].flag
  BY <1>1 DEF Transaction
<1>3. y # Idle
  BY <1>1 DEF Transaction, Idle
<1>4. tx' = [tx EXCEPT ![t] = y]
  OBVIOUS
<1> HIDE DEF y
<1>5. tx'[t] = y /\ \A u \in Tx \ {t} : tx'[u] = tx[u]
  BY <1>4 DEF Base
<1> QED
  BY <1>2, <1>3, <1>5 DEF Continues, SameRequest

LEMMA StatementContinues ==
    ASSUME Base, NEW t \in Tx, Statement(t), ~Commit(t)
    PROVE  Continues(t)
<1>1. CASE ReadTemplates(t)
  BY <1>1, ReadingContinues DEF ReadTemplates, At, Others
<1>2. CASE StartDelete(t)
  BY <1>2, ReadingContinues DEF StartDelete, At, Others
<1>3. CASE Rebalance(t)
  BY <1>3, GoingOnContinues DEF Rebalance, At
<1>4. CASE WriteStatus(t)
  BY <1>4, GoingOnContinues DEF WriteStatus, At
<1>5. CASE Decide(t)
  BY <1>5, GoingOnContinues DEF Decide, At
<1>6. CASE WriteRollback(t)
  BY <1>6, GoingOnContinues DEF WriteRollback, At
<1>7. CASE FinishDelete(t)
  BY <1>7, GoingOnContinues DEF FinishDelete, At
<1>8. CASE Abort(t)
  BY <1>8 DEF Abort, Continues, Others, Base
<1>9. ASSUME NEW r \in Rows, WriteRefresh(t, r)
      PROVE  Continues(t)
  BY <1>9, GoingOnContinues DEF WriteRefresh, At
<1>10. ASSUME NEW r \in Rows, NEW f \in Faces, NEW p \in Poses, WriteEmbedding(t, r, f, p)
       PROVE  Continues(t)
  BY <1>10, GoingOnContinues DEF WriteEmbedding, At
<1>11. ASSUME NEW r \in Rows, NEW f \in Faces, NEW p \in Poses, NEW n \in Scores, AcceptPhoto(t, r, f, p, n)
       PROVE  Continues(t)
  BY <1>11, GoingOnContinues DEF AcceptPhoto, At
<1> QED
  BY <1>1, <1>2, <1>3, <1>4, <1>5, <1>6, <1>7, <1>8, <1>9, <1>10, <1>11 DEF Statement

-----------------------------------------------------------------------------
(* A request that is alone is.                                             *)

(* A request beside one that begins.                                       *)
Beside(u, concerned) ==
    /\ Open(u) /\ tx'[u].kind = tx[u].kind /\ tx'[u].step = tx[u].step
    /\ tx'[u].students = tx[u].students /\ tx'[u].loaded = tx[u].loaded
    /\ tx'[u].seen = tx[u].seen /\ tx'[u].change = tx[u].change
    /\ tx'[u].flag = tx[u].flag /\ tx'[u].entry = tx[u].entry
    /\ tx'[u].alone => tx[u].alone /\ tx[u].students \cap concerned = {}

LEMMA BeginsBeside ==
    ASSUME Base, NEW t \in Tx, NEW kind, NEW step, NEW concerned, NEW seen, NEW order, NEW entry,
           Begin(t, kind, step, concerned, seen, order, entry), NEW u \in Tx \ {t}, Open(u)'
    PROVE  Beside(u, concerned)
<1>1. tx'[u] = IF u \in Concerned(concerned) THEN [tx[u] EXCEPT !.alone = FALSE] ELSE tx[u]
  BY BeginAdds
<1>2. Open(u)
  BY <1>1 DEF Open, Concerned
<1>3. tx[u] \in Transaction(DOMAIN tx[u].seen, DOMAIN tx[u].change)
  BY <1>2, OpenType DEF Base
<1>4. CASE u \in Concerned(concerned)
  <2>1. tx'[u].alone = FALSE
    BY <1>1, <1>3, <1>4 DEF Transaction
  <2>2. AsBefore(tx[u], tx'[u])
    BY <1>1, <1>4 DEF AsBefore
  <2>3. /\ tx'[u].kind = tx[u].kind /\ tx'[u].step = tx[u].step
        /\ tx'[u].students = tx[u].students /\ tx'[u].loaded = tx[u].loaded
        /\ tx'[u].seen = tx[u].seen /\ tx'[u].change = tx[u].change
        /\ tx'[u].flag = tx[u].flag /\ tx'[u].entry = tx[u].entry
    BY <1>3, <2>2, NoLongerAlone
  <2> QED BY <1>2, <2>1, <2>3 DEF Beside
<1>5. CASE u \notin Concerned(concerned)
  BY <1>1, <1>2, <1>5 DEF Beside, Concerned
<1> QED
  BY <1>4, <1>5

Itself(t, kind, step, concerned, seen, entry) ==
    /\ ~Open(t)
    /\ tx'[t].kind = kind /\ tx'[t].step = step /\ tx'[t].students = concerned
    /\ tx'[t].loaded = (\E s \in concerned : enrolled[s]) /\ tx'[t].seen = seen
    /\ tx'[t].change = <<>> /\ tx'[t].flag = "same" /\ tx'[t].entry = entry
    /\ tx'[t].alone = (Concerned(concerned) = {})
    /\ UNCHANGED <<templates, enrolled, log, doubtful, demoted, tangled>>
    /\ forgotten' = IF kind \in {"upload", "embedding"} THEN forgotten \ concerned ELSE forgotten

LEMMA BeginsItself ==
    ASSUME Base, NEW t \in Tx, NEW kind, NEW step, NEW concerned, NEW seen, NEW order, NEW entry,
           Begin(t, kind, step, concerned, seen, order, entry)
    PROVE  Itself(t, kind, step, concerned, seen, entry)
<1>1. ~Open(t) /\ tx'[t] = Begun(kind, step, concerned, seen, order, entry, Concerned(concerned) = {})
  BY BeginAdds
<1>2. /\ UNCHANGED <<templates, enrolled, log, doubtful, demoted, tangled>>
      /\ forgotten' = IF kind \in {"upload", "embedding"} THEN forgotten \ concerned ELSE forgotten
  BY DEF Begin
<1>3. /\ tx'[t].kind = kind /\ tx'[t].step = step /\ tx'[t].students = concerned
      /\ tx'[t].loaded = (\E s \in concerned : enrolled[s]) /\ tx'[t].seen = seen
      /\ tx'[t].change = <<>> /\ tx'[t].flag = "same" /\ tx'[t].entry = entry
      /\ tx'[t].alone = (Concerned(concerned) = {})
  BY <1>1 DEF Begun
<1> QED
  BY <1>1, <1>2, <1>3 DEF Itself

LEMMA NextKeepsApart ==
    ASSUME Base, Apart, [Next]_vars
    PROVE  Apart'
<1>1. ASSUME NEW t \in Tx, Request(t)
      PROVE  Apart'
  <2>1. PICK kind, step, concerned, ids, seen, order, entry :
           Begin(t, kind, step, concerned, seen, order, entry)
    BY <1>1, RequestEnters DEF Enters
  <2>2. \A u \in Tx \ {t} : Open(u)' => Beside(u, concerned)
    BY <2>1, BeginsBeside
  <2>3. tx'[t].students = concerned /\ tx'[t].alone = (Concerned(concerned) = {})
    <3>1. Itself(t, kind, step, concerned, seen, entry)
      BY <2>1, BeginsItself
    <3> QED BY <3>1 DEF Itself
  <2>4. ASSUME NEW u \in Tx, NEW v \in Tx, u # v, Open(u)', Open(v)', tx'[u].students \cap tx'[v].students # {}
        PROVE  ~tx'[u].alone
    <3>1. CASE u = t
      <4>1. v \in Concerned(concerned)
        BY <2>2, <2>3, <2>4, <3>1 DEF Concerned, Beside
      <4> QED BY <2>3, <3>1, <4>1
    <3>2. CASE v = t
      BY <2>2, <2>3, <2>4, <3>2 DEF Beside
    <3>3. CASE u # t /\ v # t
      BY <2>2, <2>4, <3>3 DEF Beside, Apart
    <3> QED BY <3>1, <3>2, <3>3
  <2> QED BY <2>4 DEF Apart
<1>2. ASSUME NEW t \in Tx, Continues(t)
      PROVE  Apart'
  <2>1. ASSUME NEW u \in Tx, Open(u)'
        PROVE  Open(u) /\ tx'[u].students = tx[u].students /\ tx'[u].alone = tx[u].alone
    BY <1>2, <2>1 DEF Continues, SameRequest, Open
  <2> QED BY <2>1 DEF Apart
<1>3. ASSUME NEW t \in Tx, Commit(t)
      PROVE  Apart'
  <2>1. tx'[t] = Idle /\ \A u \in Tx \ {t} : tx'[u] = tx[u]
    BY <1>3 DEF Commit, Base
  <2> QED BY <2>1 DEF Apart, Open
<1>4. CASE UNCHANGED tx
  BY <1>4 DEF Apart, Open
<1> QED
  BY <1>1, <1>2, <1>3, <1>4, StatementContinues DEF Next, Age, vars

-----------------------------------------------------------------------------
(* is_enrolled.                                                            *)

CountsFor(t, s) ==
    /\ Is(t, {"upload", "erase"}) => (tx[t].loaded <=> enrolled[s])
    /\ Is(t, {"upload", "status", "erase"}) /\ At(t, "commit") =>
          (EnrolledAfter(tx[t], s) <=> Complete(s, Visible(t)))
    /\ Is(t, {"erase"}) /\ ~At(t, "read") => RowsOf(s, templates) \subseteq DOMAIN tx[t].seen

LEMMA VisibleUnchanged ==
    ASSUME NEW t \in Tx, templates' = templates, tx'[t].change = tx[t].change
    PROVE  Visible(t)' = Visible(t)
BY DEF Visible

(* A request beside another's statement, beginning or end.                 *)
LEMMA BesideCounts ==
    ASSUME NEW u \in Tx, Open(u), NEW s, CountsFor(u, s), templates' = templates, enrolled' = enrolled,
           tx'[u] # Idle, tx'[u].kind = tx[u].kind, tx'[u].step = tx[u].step, tx'[u].loaded = tx[u].loaded,
           tx'[u].seen = tx[u].seen, tx'[u].change = tx[u].change, tx'[u].flag = tx[u].flag
    PROVE  CountsFor(u, s)'
<1>1. Visible(u)' = Visible(u)
  BY VisibleUnchanged
<1>2. Open(u)'
  BY DEF Open
<1> QED
  BY <1>1, <1>2 DEF CountsFor, Is, At, Open, EnrolledAfter

(* The statements that prepare a commit.                                   *)
LEMMA DecideCounts ==
    ASSUME Base, NEW t \in Tx, Decide(t), NEW s \in tx[t].students, CountsFor(t, s)
    PROVE  CountsFor(t, s)'
<1> DEFINE complete == Complete(s, Visible(t))
           loaded == IF Is(t, {"status"}) THEN enrolled[s] ELSE tx[t].loaded
<1>1. /\ Open(t) /\ tx[t].kind \in {"upload", "status"} /\ tx[t].students = {s}
      /\ complete \in BOOLEAN
  BY DEF Decide, At, Base, Sound, Plan, Complete
<1>2. /\ loaded <=> enrolled[s]
      /\ tx[t].kind = "upload" => (tx[t].loaded <=> enrolled[s])
  BY <1>1 DEF CountsFor, Is
<1>3. PICK flag : /\ Goes(t, "commit", <<>>, flag)
                  /\ flag = IF complete = loaded THEN "same" ELSE IF complete THEN "set" ELSE "cleared"
  BY <1>1 DEF Decide
<1> HIDE DEF complete, loaded
<1>4. /\ Continues(t) /\ tx'[t] # Idle /\ tx'[t].step = "commit" /\ tx'[t].flag = flag
      /\ tx'[t].change = Over(<<>>, tx[t].change) /\ tx'[t].kind = tx[t].kind /\ tx'[t].loaded = tx[t].loaded
      /\ templates' = templates /\ enrolled' = enrolled
  <2>1. /\ Continues(t) /\ tx'[t] # Idle /\ tx'[t].step = "commit" /\ tx'[t].flag = flag
        /\ tx'[t].change = Over(<<>>, tx[t].change)
    BY <1>1, <1>3, GoingOnContinues
  <2> QED BY <2>1 DEF Continues, SameRequest, Others
<1>5. tx'[t].change = tx[t].change
  <2>1. tx[t].change = [r \in DOMAIN tx[t].change |-> tx[t].change[r]]
    BY <1>1, OpenType DEF Base
  <2>2. DOMAIN <<>> = {}
    OBVIOUS
  <2> QED BY <1>4, <2>1, <2>2 DEF Over
<1>6. Visible(t)' = Visible(t)
  BY <1>4, <1>5, VisibleUnchanged
<1>7. EnrolledAfter(tx[t], s)' <=> Complete(s, Visible(t))'
  <2>1. Complete(s, Visible(t))' = complete
    BY <1>6 DEF complete, Complete, Serving, Missing, RowsOf
  <2>2. EnrolledAfter(tx[t], s)' <=> complete
    BY <1>1, <1>2, <1>3, <1>4 DEF EnrolledAfter, Base, TypeOK
  <2> QED BY <2>1, <2>2
<1> QED
  BY <1>1, <1>2, <1>4, <1>7 DEF CountsFor, Is, At

LEMMA FinishDeleteCounts ==
    ASSUME Base, NEW t \in Tx, FinishDelete(t), NEW s \in tx[t].students, CountsFor(t, s)
    PROVE  CountsFor(t, s)'
<1> DEFINE flag == IF Is(t, {"erase"}) /\ tx[t].loaded THEN "cleared" ELSE "same"
           gone == [r \in DOMAIN tx[t].seen |-> Deleted]
<1>1. /\ Open(t) /\ tx[t].step = "write" /\ tx[t].kind \in {"erase", "purge"} /\ DOMAIN tx[t].change = {}
      /\ s \in Students
  BY OpenType DEF FinishDelete, At, Is, Base, Sound, Plan
<1>2. Goes(t, "commit", gone, flag)
  BY DEF FinishDelete
<1>3. /\ Continues(t) /\ tx'[t] # Idle /\ tx'[t].step = "commit" /\ tx'[t].flag = flag
      /\ tx'[t].change = Over(gone, tx[t].change) /\ tx'[t].seen = tx[t].seen
  BY <1>1, <1>2, GoingOnContinues
<1>4. /\ templates' = templates /\ enrolled' = enrolled
      /\ tx'[t].kind = tx[t].kind /\ tx'[t].loaded = tx[t].loaded
  BY <1>3 DEF Continues, SameRequest, Others
<1>5. CASE tx[t].kind = "erase"
  <2>1. RowsOf(s, templates) \subseteq DOMAIN tx[t].seen /\ (tx[t].loaded <=> enrolled[s])
    BY <1>1, <1>5 DEF CountsFor, Is, At
  <2>2. /\ DOMAIN tx'[t].change = DOMAIN tx[t].seen
        /\ \A r \in DOMAIN tx[t].seen : tx'[t].change[r] = Deleted
    BY <1>1, <1>3 DEF Over
  <2>3. \A r \in Rows : Visible(t)'[r] = IF r \in DOMAIN tx[t].seen THEN Deleted ELSE templates[r]
    <3>1. DOMAIN templates = Rows
      BY DEF Base, TypeOK
    <3> QED BY <1>4, <2>2, <3>1 DEF Visible, Over
  <2>4. RowsOf(s, Visible(t)') = {}
    BY <2>1, <2>3, RowsExist DEF RowsOf
  <2>5. ~Complete(s, Visible(t)')
    BY <2>4, EmptyIsIncomplete
  <2>6. ~EnrolledAfter(tx[t], s)'
    <3>1. flag = IF tx[t].loaded THEN "cleared" ELSE "same"
      BY <1>1, <1>5 DEF Is
    <3> HIDE DEF flag
    <3> QED BY <1>3, <1>4, <2>1, <3>1 DEF EnrolledAfter
  <2>7. RowsOf(s, templates)' \subseteq DOMAIN tx'[t].seen
    BY <1>3, <1>4, <2>1 DEF RowsOf
  <2>8. Complete(s, Visible(t))' = Complete(s, Visible(t)')
    BY DEF Complete, Serving, Missing, RowsOf
  <2> QED BY <1>4, <2>1, <2>5, <2>6, <2>7, <2>8 DEF CountsFor, Is, At
<1>6. CASE tx[t].kind = "purge"
  BY <1>4, <1>6 DEF CountsFor, Is
<1> QED
  BY <1>1, <1>5, <1>6

LEMMA StartDeleteCounts ==
    ASSUME Base, NEW t \in Tx, StartDelete(t), NEW s \in tx[t].students, CountsFor(t, s)
    PROVE  CountsFor(t, s)'
<1> DEFINE ids == UNION {RowsOf(q, templates) : q \in tx[t].students}
<1>1. /\ Open(t) /\ tx[t].step = "read" /\ tx[t].kind \in {"erase", "purge"}
      /\ tx' = [tx EXCEPT ![t].step = "write", ![t].seen = Restrict(templates, ids)]
      /\ UNCHANGED Others /\ UNCHANGED forgotten
  BY DEF StartDelete, At, Base, Sound, Plan, Others
<1>2. RowsOf(s, templates) \subseteq ids
  OBVIOUS
<1> HIDE DEF ids
<1>3. Continues(t) /\ tx'[t] # Idle /\ tx'[t].step = "write" /\ tx'[t].seen = Restrict(templates, ids)
  BY <1>1, ReadingContinues
<1>4. /\ templates' = templates /\ enrolled' = enrolled
      /\ tx'[t].kind = tx[t].kind /\ tx'[t].loaded = tx[t].loaded
  BY <1>3 DEF Continues, SameRequest, Others
<1>5. RowsOf(s, templates)' \subseteq DOMAIN tx'[t].seen
  BY <1>2, <1>3, <1>4 DEF RowsOf, Restrict
<1>6. tx[t].kind = "erase" => (tx[t].loaded <=> enrolled[s])
  BY <1>1 DEF CountsFor, Is
<1> QED
  BY <1>1, <1>3, <1>4, <1>5, <1>6 DEF CountsFor, Is, At

LEMMA UncountedStep ==
    ASSUME NEW t \in Tx, Continues(t), NEW s, CountsFor(t, s), tx[t].kind # "erase",
           tx[t].kind \in {"upload", "status"} => tx'[t].step # "commit", tx'[t] # Idle
    PROVE  CountsFor(t, s)'
<1>1. /\ tx'[t].kind = tx[t].kind /\ tx'[t].loaded = tx[t].loaded /\ enrolled' = enrolled /\ Open(t)
  BY DEF Continues, SameRequest, Others
<1> QED
  BY <1>1 DEF CountsFor, Is, At

LEMMA StatementCounts ==
    ASSUME Base, NEW t \in Tx, Statement(t), ~Commit(t), tx'[t] # Idle,
           NEW s \in tx[t].students, CountsFor(t, s)
    PROVE  CountsFor(t, s)'
<1>1. /\ Continues(t) /\ Open(t) /\ Plan(tx[t])
  BY StatementContinues DEF Continues, Base, Sound
<1>2. CASE ReadTemplates(t)
  <2>1. tx[t].kind = "upload" /\ tx'[t].step = "write"
    BY <1>1, <1>2, ReadingContinues DEF ReadTemplates, At, Plan, Others
  <2> QED BY <1>1, <2>1, UncountedStep
<1>3. CASE StartDelete(t)
  BY <1>3, StartDeleteCounts
<1>4. CASE Rebalance(t)
  <2>1. tx[t].kind = "upload" /\ tx'[t].step = "decide"
    BY <1>1, <1>4, GoingOnContinues DEF Rebalance, Is
  <2> QED BY <1>1, <2>1, UncountedStep
<1>5. CASE WriteStatus(t)
  <2>1. tx[t].kind = "status" /\ tx'[t].step = "decide"
    BY <1>1, <1>5, GoingOnContinues DEF WriteStatus, Is
  <2> QED BY <1>1, <2>1, UncountedStep
<1>6. CASE Decide(t)
  BY <1>6, DecideCounts
<1>7. CASE WriteRollback(t)
  BY <1>1, <1>7, UncountedStep DEF WriteRollback, Is
<1>8. CASE FinishDelete(t)
  BY <1>8, FinishDeleteCounts
<1>9. CASE Abort(t)
  BY <1>9 DEF Abort, Base
<1>10. ASSUME NEW r \in Rows, WriteRefresh(t, r)
       PROVE  CountsFor(t, s)'
  BY <1>1, <1>10, UncountedStep DEF WriteRefresh, Is
<1>11. ASSUME NEW r \in Rows, NEW f \in Faces, NEW p \in Poses, WriteEmbedding(t, r, f, p)
       PROVE  CountsFor(t, s)'
  BY <1>1, <1>11, UncountedStep DEF WriteEmbedding, Is
<1>12. ASSUME NEW r \in Rows, NEW f \in Faces, NEW p \in Poses, NEW n \in Scores, AcceptPhoto(t, r, f, p, n)
       PROVE  CountsFor(t, s)'
  <2>1. tx[t].kind = "upload" /\ tx'[t].step = "photos"
    BY <1>1, <1>12, GoingOnContinues DEF AcceptPhoto, At, Plan
  <2> QED BY <1>1, <2>1, UncountedStep
<1> QED
  BY <1>2, <1>3, <1>4, <1>5, <1>6, <1>7, <1>8, <1>9, <1>10, <1>11, <1>12 DEF Statement

LEMMA CountingFor == Counting <=> \A t \in Tx : Open(t) /\ tx[t].alone => \A s \in tx[t].students : CountsFor(t, s)
BY DEF Counting, CountsFor

LEMMA BeginKeepsCounting ==
    ASSUME Base, Counting, NEW t \in Tx, Request(t), NEW u \in Tx, Open(u)', tx'[u].alone,
           NEW s \in tx'[u].students
    PROVE  CountsFor(u, s)'
<1>1. PICK kind, step, concerned, ids, seen, order, entry :
         /\ Begin(t, kind, step, concerned, seen, order, entry)
         /\ Starts(kind, step, concerned, ids, seen, order, entry)
  BY RequestEnters DEF Enters
<1>2. Itself(t, kind, step, concerned, seen, entry)
  BY <1>1, BeginsItself
<1>3. CASE u = t
  <2>1. /\ tx'[t].kind = kind /\ tx'[t].step = step /\ tx'[t].students = concerned
        /\ tx'[t].loaded = (\E q \in concerned : enrolled[q]) /\ enrolled' = enrolled
    BY <1>2 DEF Itself
  <2>2. /\ kind \in {"upload", "erase"} => concerned = {s}
        /\ step # "commit" /\ (kind = "erase" => step = "read")
    BY <1>1, <1>3, <2>1 DEF Starts
  <2> QED BY <1>3, <2>1, <2>2 DEF CountsFor, Is, At, Open
<1>4. CASE u # t
  <2>1. Beside(u, concerned)
    BY <1>1, <1>4, BeginsBeside
  <2>2. CountsFor(u, s)
    BY <2>1, CountingFor DEF Beside
  <2>3. templates' = templates /\ enrolled' = enrolled
    BY <1>2 DEF Itself
  <2> QED BY <2>1, <2>2, <2>3, BesideCounts DEF Beside, Open
<1> QED
  BY <1>3, <1>4

LEMMA CommitKeepsCounting ==
    ASSUME Base, Apart, Counting, NEW t \in Tx, Commit(t), NEW u \in Tx, Open(u)', tx'[u].alone,
           NEW s \in tx'[u].students
    PROVE  CountsFor(u, s)'
<1>1. Open(t) /\ tx'[t] = Idle /\ \A v \in Tx \ {t} : tx'[v] = tx[v]
  BY DEF Commit, At, Base
<1>2. u # t /\ Open(u) /\ tx'[u] = tx[u]
  BY <1>1 DEF Open
<1>3. CountsFor(u, s)
  BY <1>2, CountingFor
<1>4. s \notin tx[t].students /\ s \in Students
  BY <1>1, <1>2, OpenType DEF Apart, Base
<1>5. enrolled'[s] = enrolled[s] /\ RowsOf(s, templates) = RowsOf(s, templates')
  BY <1>4, CommitIsAboutItsStudents, AgreeingTables
<1>6. Complete(s, Visible(u)) = Complete(s, Visible(u)')
  <2>1. ServeAlike(s, Visible(u), Visible(u)')
    BY <1>2, <1>4, SeesOthersAlike, AgreeingTables
  <2> QED BY <2>1, ServingAlike
<1>7. /\ Complete(s, Visible(u))' = Complete(s, Visible(u)')
      /\ RowsOf(s, templates)' = RowsOf(s, templates')
  BY DEF Complete, Serving, Missing, RowsOf
<1>8. EnrolledAfter(tx[u], s)' = EnrolledAfter(tx[u], s)
  BY <1>2, <1>5 DEF EnrolledAfter
<1> QED
  BY <1>2, <1>3, <1>5, <1>6, <1>7, <1>8 DEF CountsFor, Is, At, Open

LEMMA NextKeepsCounting ==
    ASSUME Base, Apart, Counting, [Next]_vars
    PROVE  Counting'
<1> SUFFICES ASSUME NEW u \in Tx, Open(u)', tx'[u].alone, NEW s \in tx'[u].students
             PROVE  CountsFor(u, s)'
  BY DEF Counting, CountsFor
<1>1. ASSUME NEW t \in Tx, Request(t)
      PROVE  CountsFor(u, s)'
  BY <1>1, BeginKeepsCounting
<1>2. ASSUME NEW t \in Tx, Commit(t)
      PROVE  CountsFor(u, s)'
  BY <1>2, CommitKeepsCounting
<1>3. ASSUME NEW t \in Tx, Statement(t), ~Commit(t)
      PROVE  CountsFor(u, s)'
  <2>1. Continues(t)
    BY <1>3, StatementContinues
  <2>2. CASE u = t
    <3>1. /\ Open(t) /\ tx'[t] # Idle /\ tx[t].alone /\ tx[t].students = tx'[t].students
      BY <2>1, <2>2 DEF Continues, SameRequest, Open
    <3>2. CountsFor(t, s)
      BY <2>2, <3>1, CountingFor
    <3> QED BY <1>3, <2>2, <3>1, <3>2, StatementCounts
  <2>3. CASE u # t
    <3>1. tx'[u] = tx[u] /\ Open(u) /\ templates' = templates /\ enrolled' = enrolled
      BY <2>1, <2>3 DEF Continues, Others, Open
    <3>2. CountsFor(u, s)
      BY <3>1, CountingFor
    <3> QED BY <3>1, <3>2, BesideCounts DEF Open
  <2> QED BY <2>2, <2>3
<1>4. CASE UNCHANGED <<templates, enrolled, tx>>
  <2>1. Open(u) /\ CountsFor(u, s)
    BY <1>4, CountingFor DEF Open
  <2> QED BY <1>4, <2>1, BesideCounts DEF Open
<1> QED
  BY <1>1, <1>2, <1>3, <1>4 DEF Next, Age, vars

LEMMA CommitKeepsEnrolled ==
    ASSUME CountInv, NEW t \in Tx, Commit(t)
    PROVE  EnrolledAsCounted'
<1> SUFFICES ASSUME NEW s \in Students, s \notin doubtful'
             PROVE  enrolled'[s] <=> Complete(s, templates')
  BY DEF EnrolledAsCounted, Complete, Serving, Missing, RowsOf
<1>1. /\ Base /\ Apart /\ Counting /\ EnrolledAsCounted /\ Open(t) /\ At(t, "commit")
      /\ Plan(tx[t]) /\ tx[t] \in Transaction(DOMAIN tx[t].seen, DOMAIN tx[t].change)
      /\ templates' = Visible(t) /\ doubtful' = NowDoubtful(t)
      /\ enrolled' = [q \in Students |->
                        IF q \in tx[t].students /\ tx[t].flag # "same" THEN tx[t].flag = "set" ELSE enrolled[q]]
  BY OpenType DEF CountInv, Commit, At, Base, Sound
<1>2. CASE s \notin tx[t].students
  <2>1. s \notin doubtful
    BY <1>1, <1>2 DEF NowDoubtful
  <2>2. enrolled'[s] = enrolled[s] /\ ServeAlike(s, templates, templates')
    BY <1>1, <1>2, CommitIsAboutItsStudents, AgreeingTables
  <2>3. Complete(s, templates) = Complete(s, templates')
    BY <2>2, ServingAlike
  <2> QED BY <1>1, <2>1, <2>2, <2>3 DEF EnrolledAsCounted
<1>3. CASE s \in tx[t].students /\ tx[t].kind \in {"refresh", "rollback"}
  <2>1. s \notin doubtful
    BY <1>1, <1>3 DEF NowDoubtful, Is
  <2>2. enrolled'[s] = enrolled[s]
    BY <1>1, <1>3 DEF Plan
  <2>3. ServeAlike(s, templates, templates')
    BY <1>1, <1>3, RefreshesServeAlike
  <2>4. Complete(s, templates) = Complete(s, templates')
    BY <2>3, ServingAlike
  <2> QED BY <1>1, <2>1, <2>2, <2>4 DEF EnrolledAsCounted
<1>4. CASE s \in tx[t].students /\ tx[t].kind \notin {"refresh", "rollback"}
  <2>1. tx[t].kind \in {"upload", "status", "erase"} /\ tx[t].alone
    BY <1>1, <1>4 DEF NowDoubtful, Is, Transaction, Kinds
  <2>2. EnrolledAfter(tx[t], s) <=> Complete(s, Visible(t))
    BY <1>1, <1>4, <2>1 DEF Counting, Is
  <2>3. enrolled'[s] = EnrolledAfter(tx[t], s)
    BY <1>1, <1>4 DEF EnrolledAfter
  <2> QED BY <1>1, <2>2, <2>3
<1> QED
  BY <1>2, <1>3, <1>4

LEMMA NextKeepsEnrolled ==
    ASSUME CountInv, [Next]_vars
    PROVE  EnrolledAsCounted'
<1>1. CASE UNCHANGED <<templates, enrolled, doubtful>>
  BY <1>1 DEF CountInv, EnrolledAsCounted, Complete, Serving, Missing, RowsOf
<1>2. ASSUME NEW t \in Tx, Request(t)
      PROVE  UNCHANGED <<templates, enrolled, doubtful>>
  BY <1>2 DEF Request, BeginPurge, BeginUpload, BeginEmbedding, BeginErase, BeginRefresh,
              BeginStatus, BeginRollback, Begin
<1>3. ASSUME NEW t \in Tx, Statement(t), ~Commit(t)
      PROVE  UNCHANGED <<templates, enrolled, doubtful>>
  BY <1>3, StatementContinues DEF Continues, Others, CountInv
<1> QED
  BY <1>1, <1>2, <1>3, CommitKeepsEnrolled DEF Next, Age, vars

LEMMA CountInvHolds == Spec => []CountInv
<1>1. Init => CountInv
  BY InitBase DEF Init, CountInv, Apart, Counting, Open, EnrolledAsCounted
<1>2. CountInv /\ [Next]_vars => CountInv'
  BY NextKeepsBase, NextKeepsApart, NextKeepsCounting, NextKeepsEnrolled DEF CountInv
<1> QED
  BY <1>1, <1>2, PTL DEF Spec

(* Whatever the order and the overlaps of requests, is_enrolled agrees     *)
(* with the templates of students who are not doubtful.                    *)
THEOREM EnrolmentAgrees == Spec => []EnrolledAsCounted
<1>1. CountInv => EnrolledAsCounted
  BY DEF CountInv
<1> QED
  BY <1>1, CountInvHolds, PTL

-----------------------------------------------------------------------------
(* Erased students.                                                        *)

ForgetsFor(t, s) ==
    \/ Is(t, {"erase", "purge"})
    \/ Is(t, {"rollback"}) /\ DOMAIN tx[t].seen = {}

LEMMA SeenStays ==
    ASSUME Base, NEW t \in Tx, Statement(t), ~Commit(t), tx[t].kind \notin {"upload", "erase", "purge"},
           tx'[t] # Idle
    PROVE  tx'[t].seen = tx[t].seen
<1>1. Open(t) /\ Plan(tx[t])
  BY StatementContinues DEF Continues, Base, Sound
<1>2. ~ReadTemplates(t) /\ ~StartDelete(t)
  BY <1>1 DEF ReadTemplates, StartDelete, At, Plan
<1>3. CASE Rebalance(t) \/ WriteStatus(t) \/ Decide(t) \/ WriteRollback(t) \/ FinishDelete(t)
  BY <1>1, <1>3, GoingOnContinues DEF Rebalance, WriteStatus, Decide, WriteRollback, FinishDelete
<1>4. CASE Abort(t)
  BY <1>4 DEF Abort, Base
<1>5. ASSUME NEW r \in Rows, WriteRefresh(t, r)
      PROVE  tx'[t].seen = tx[t].seen
  BY <1>1, <1>5, GoingOnContinues DEF WriteRefresh
<1>6. ASSUME NEW r \in Rows, NEW f \in Faces, NEW p \in Poses, WriteEmbedding(t, r, f, p)
      PROVE  tx'[t].seen = tx[t].seen
  BY <1>1, <1>6, GoingOnContinues DEF WriteEmbedding
<1>7. ASSUME NEW r \in Rows, NEW f \in Faces, NEW p \in Poses, NEW n \in Scores, AcceptPhoto(t, r, f, p, n)
      PROVE  tx'[t].seen = tx[t].seen
  BY <1>1, <1>7, GoingOnContinues DEF AcceptPhoto
<1> QED
  BY <1>2, <1>3, <1>4, <1>5, <1>6, <1>7 DEF Statement

LEMMA BeginKeepsForgetting ==
    ASSUME ForgetInv, NEW t \in Tx, Request(t), NEW u \in Tx, Open(u)', NEW s \in forgotten',
           s \in tx'[u].students
    PROVE  ForgetsFor(u, s)'
<1>0. Base /\ Forgetting /\ ForgottenStayForgotten
  BY DEF ForgetInv, CountInv
<1>1. PICK kind, step, concerned, ids, seen, order, entry :
         /\ Begin(t, kind, step, concerned, seen, order, entry)
         /\ Starts(kind, step, concerned, ids, seen, order, entry)
  BY <1>0, RequestEnters DEF Enters
<1>2. Itself(t, kind, step, concerned, seen, entry)
  BY <1>0, <1>1, BeginsItself
<1>3. s \in forgotten /\ (kind \in {"upload", "embedding"} => s \notin concerned)
  BY <1>2 DEF Itself
<1>4. CASE u = t
  <2>1. tx'[t].kind = kind /\ tx'[t].students = concerned /\ tx'[t].seen = seen /\ kind \in Kinds
    BY <1>1, <1>2 DEF Itself, Starts
  <2>2. kind \notin {"upload", "embedding"} /\ s \in concerned
    BY <1>3, <1>4, <2>1
  <2>3. kind # "purge" => ids = {}
    <3>1. SUFFICES ASSUME kind # "purge", NEW r \in ids
                   PROVE  FALSE
      OBVIOUS
    <3>2. concerned = {s} /\ r \in Rows /\ templates[r] = seen[r] /\ seen[r] \in Row /\ seen[r].student = s
      BY <1>1, <2>2, <3>1 DEF Starts
    <3>3. r \in RowsOf(s, templates)
      BY <3>2, RowsExist DEF RowsOf
    <3> QED BY <1>0, <1>3, <3>3 DEF ForgottenStayForgotten
  <2>4. kind \notin {"status", "refresh"}
    BY <1>1, <2>3 DEF Starts
  <2>5. kind \in {"rollback", "erase", "purge"}
    BY <2>1, <2>2, <2>4 DEF Kinds
  <2>6. DOMAIN seen = ids
    BY <1>1 DEF Starts
  <2> QED BY <1>4, <2>1, <2>3, <2>5, <2>6 DEF ForgetsFor, Is
<1>5. CASE u # t
  <2>1. Beside(u, concerned)
    BY <1>0, <1>1, <1>5, BeginsBeside
  <2>2. ForgetsFor(u, s)
    BY <1>0, <1>3, <2>1 DEF Forgetting, ForgetsFor, Beside
  <2> QED BY <2>1, <2>2 DEF Beside, ForgetsFor, Is, Open
<1> QED
  BY <1>4, <1>5

LEMMA CommitForgets ==
    ASSUME ForgetInv, NEW t \in Tx, Commit(t), NEW s \in forgotten'
    PROVE  RowsOf(s, templates') = {} /\ ~enrolled'[s]
<1>1. /\ Base /\ Counting /\ Forgetting /\ ForgottenStayForgotten /\ Open(t) /\ At(t, "commit")
      /\ tx[t].step = "commit" /\ Sound(tx[t], log, templates) /\ templates' = Visible(t)
      /\ enrolled' = [q \in Students |->
                        IF q \in tx[t].students /\ tx[t].flag # "same" THEN tx[t].flag = "set" ELSE enrolled[q]]
      /\ forgotten' = IF Is(t, {"erase"}) /\ tx[t].alone THEN forgotten \cup tx[t].students ELSE forgotten
  BY DEF ForgetInv, CountInv, Commit, At, Base
<1>2. s \in Students /\ forgotten \subseteq Students
  BY <1>1, OpenType DEF Base, TypeOK
<1>3. ASSUME s \in tx[t].students, Is(t, {"erase", "purge"}), RowsOf(s, templates) \subseteq DOMAIN tx[t].seen
      PROVE  RowsOf(s, templates') = {}
  <2>1. DOMAIN tx[t].change = DOMAIN tx[t].seen /\ \A r \in DOMAIN tx[t].change : tx[t].change[r] = Deleted
    BY <1>1, <1>3 DEF Sound, Writes, Is
  <2> QED BY <1>1, <1>3, <2>1, RowsAfterCommit, RowsExist DEF RowsOf
<1>4. CASE s \notin tx[t].students
  <2>1. s \in forgotten /\ RowsOf(s, templates) = RowsOf(s, templates') /\ enrolled'[s] = enrolled[s]
    BY <1>1, <1>2, <1>4, CommitIsAboutItsStudents, AgreeingTables
  <2> QED BY <1>1, <2>1 DEF ForgottenStayForgotten
<1>5. CASE s \in tx[t].students /\ s \in forgotten
  <2>1. RowsOf(s, templates) = {} /\ ~enrolled[s] /\ ForgetsFor(t, s)
    BY <1>1, <1>5 DEF Forgetting, ForgetsFor, ForgottenStayForgotten
  <2>2. tx[t].flag # "set"
    BY <1>1, <2>1 DEF Sound, Plan, ForgetsFor, Is
  <2>3. ~enrolled'[s]
    BY <1>1, <1>2, <2>1, <2>2
  <2>4. CASE Is(t, {"erase", "purge"})
    BY <1>3, <1>5, <2>1, <2>3, <2>4
  <2>5. CASE Is(t, {"rollback"}) /\ DOMAIN tx[t].seen = {}
    <3>1. DOMAIN tx[t].change = {}
      BY <1>1, <2>5 DEF Sound, Writes, Is
    <3>2. RowsOf(s, templates') = {}
      BY <1>1, <2>1, <3>1, RowsAfterCommit DEF RowsOf
    <3> QED BY <2>3, <3>2
  <2> QED BY <2>1, <2>4, <2>5 DEF ForgetsFor
<1>6. CASE s \in tx[t].students /\ s \notin forgotten
  <2>1. Is(t, {"erase"}) /\ tx[t].alone
    BY <1>1, <1>6
  <2>2. RowsOf(s, templates) \subseteq DOMAIN tx[t].seen /\ (EnrolledAfter(tx[t], s) <=> Complete(s, Visible(t)))
    BY <1>1, <1>6, <2>1 DEF Counting, Is, At
  <2>3. RowsOf(s, templates') = {}
    BY <1>3, <1>6, <2>1, <2>2 DEF Is
  <2>4. ~EnrolledAfter(tx[t], s)
    BY <1>1, <2>2, <2>3, EmptyIsIncomplete
  <2>5. enrolled'[s] = EnrolledAfter(tx[t], s)
    BY <1>1, <1>2, <1>6 DEF EnrolledAfter
  <2> QED BY <2>3, <2>4, <2>5
<1> QED
  BY <1>4, <1>5, <1>6

LEMMA NextKeepsForgetting ==
    ASSUME ForgetInv, [Next]_vars
    PROVE  Forgetting'
<1>0. Base /\ Apart /\ Forgetting
  BY DEF ForgetInv, CountInv
<1> SUFFICES ASSUME NEW s \in forgotten', NEW u \in Tx, Open(u)', s \in tx'[u].students
             PROVE  ForgetsFor(u, s)'
  BY DEF Forgetting, ForgetsFor
<1>1. ASSUME NEW t \in Tx, Request(t)
      PROVE  ForgetsFor(u, s)'
  BY <1>1, BeginKeepsForgetting
<1>2. ASSUME NEW t \in Tx, Commit(t)
      PROVE  ForgetsFor(u, s)'
  <2>1. u # t /\ Open(u) /\ Open(t) /\ tx'[u] = tx[u]
    BY <1>0, <1>2 DEF Commit, At, Open, Base
  <2>2. s \in forgotten \/ (s \in tx[t].students /\ tx[t].alone)
    BY <1>2 DEF Commit
  <2>3. s \in forgotten
    BY <1>0, <2>1, <2>2 DEF Apart
  <2> QED BY <1>0, <2>1, <2>3 DEF Forgetting, ForgetsFor, Is, Open
<1>3. ASSUME NEW t \in Tx, Statement(t), ~Commit(t)
      PROVE  ForgetsFor(u, s)'
  <2>1. Continues(t) /\ forgotten' = forgotten
    BY <1>0, <1>3, StatementContinues DEF Continues
  <2>2. Open(u) /\ tx'[u].students = tx[u].students /\ tx'[u].kind = tx[u].kind
    BY <2>1 DEF Continues, SameRequest, Open
  <2>3. ForgetsFor(u, s)
    BY <1>0, <2>1, <2>2 DEF Forgetting, ForgetsFor
  <2>4. tx[u].kind = "rollback" => tx'[u].seen = tx[u].seen
    <3>1. CASE u = t
      BY <1>0, <1>3, <3>1, SeenStays DEF Open
    <3>2. CASE u # t
      BY <2>1, <3>2 DEF Continues
    <3> QED BY <3>1, <3>2
  <2> QED BY <2>2, <2>3, <2>4 DEF ForgetsFor, Is, Open
<1>4. CASE UNCHANGED <<tx, forgotten>>
  BY <1>0, <1>4 DEF Forgetting, ForgetsFor, Is, Open
<1> QED
  BY <1>1, <1>2, <1>3, <1>4 DEF Next, Age, vars

LEMMA NextStaysForgotten ==
    ASSUME ForgetInv, [Next]_vars
    PROVE  ForgottenStayForgotten'
<1>0. Base /\ ForgottenStayForgotten
  BY DEF ForgetInv, CountInv
<1>1. ASSUME NEW t \in Tx, Commit(t)
      PROVE  ForgottenStayForgotten'
  BY <1>1, CommitForgets DEF ForgottenStayForgotten, RowsOf
<1>2. CASE templates' = templates /\ enrolled' = enrolled /\ forgotten' \subseteq forgotten
  BY <1>0, <1>2 DEF ForgottenStayForgotten, RowsOf
<1>3. ASSUME NEW t \in Tx, Request(t)
      PROVE  templates' = templates /\ enrolled' = enrolled /\ forgotten' \subseteq forgotten
  BY <1>3 DEF Request, BeginPurge, BeginUpload, BeginEmbedding, BeginErase, BeginRefresh,
              BeginStatus, BeginRollback, Begin
<1>4. ASSUME NEW t \in Tx, Statement(t), ~Commit(t)
      PROVE  templates' = templates /\ enrolled' = enrolled /\ forgotten' = forgotten
  BY <1>0, <1>4, StatementContinues DEF Continues, Others
<1> QED
  BY <1>1, <1>2, <1>3, <1>4 DEF Next, Age, vars

LEMMA ForgetInvHolds == Spec => []ForgetInv
<1>1. Init => ForgetInv
  BY InitBase DEF Init, ForgetInv, CountInv, Apart, Counting, Open, EnrolledAsCounted, Forgetting,
                  ForgottenStayForgotten
<1>2. ForgetInv /\ [Next]_vars => ForgetInv'
  BY NextKeepsBase, NextKeepsApart, NextKeepsCounting, NextKeepsEnrolled, NextKeepsForgetting,
     NextStaysForgotten DEF ForgetInv, CountInv
<1> QED
  BY <1>1, <1>2, PTL DEF Spec

(* An erased student has no templates and is not enrolled until somebody   *)
(* begins to enrol the student again, whatever other requests do.          *)
THEOREM ForgottenStay == Spec => []ForgottenStayForgotten
<1>1. ForgetInv => ForgottenStayForgotten
  BY DEF ForgetInv
<1> QED
  BY <1>1, ForgetInvHolds, PTL

-----------------------------------------------------------------------------
(* What a request that is alone knows stays so.                            *)

LEMMA BesideKnows ==
    ASSUME NEW u \in Tx, Open(u), NEW s, KnowsFor(u, s), templates' = templates, log' = log,
           tx'[u] # Idle, tx'[u].kind = tx[u].kind, tx'[u].step = tx[u].step, tx'[u].entry = tx[u].entry,
           tx'[u].seen = tx[u].seen, tx'[u].change = tx[u].change
    PROVE  KnowsFor(u, s)'
<1>1. Visible(u)' = Visible(u)
  BY VisibleUnchanged
<1>2. /\ Open(u)' /\ RowsOf(s, Visible(u))' = RowsOf(s, Visible(u)) /\ RowsOf(s, templates)' = RowsOf(s, templates)
      /\ InUse(s, Visible(u))' = InUse(s, Visible(u))
  BY <1>1 DEF Open, RowsOf, InUse
<1> QED
  BY <1>1, <1>2 DEF KnowsFor, Is, At, Open, Stands

LEMMA BeginKnows ==
    ASSUME Base, NEW t \in Tx, NEW kind, NEW step, NEW concerned, NEW ids, NEW seen, NEW order, NEW entry,
           Begin(t, kind, step, concerned, seen, order, entry),
           Starts(kind, step, concerned, ids, seen, order, entry), NEW s \in concerned
    PROVE  KnowsFor(t, s)'
<1>1. Itself(t, kind, step, concerned, seen, entry)
  BY BeginsItself
<1>2. /\ tx'[t].kind = kind /\ tx'[t].step = step /\ tx'[t].seen = seen /\ tx'[t].entry = entry
      /\ templates' = templates /\ log' = log
  BY <1>1 DEF Itself
<1>3. /\ kind \in {"erase", "purge"} => step = "read"
      /\ kind = "upload" => step = "photos"
      /\ DOMAIN seen = ids /\ \A r \in ids : templates[r] = seen[r]
      /\ kind = "rollback" =>
            /\ Stands(entry, log)
            /\ \A r \in {log[entry].old, log[entry].new} : Exists(templates[r]) => r \in ids
  BY DEF Starts, Stands
<1> QED
  BY <1>2, <1>3 DEF KnowsFor, Is, At, Stands

LEMMA RequestKnows ==
    ASSUME Base, Knowing, NEW t \in Tx, Request(t), NEW u \in Tx, Open(u)', tx'[u].alone,
           NEW s \in tx'[u].students
    PROVE  KnowsFor(u, s)'
<1>1. PICK kind, step, concerned, ids, seen, order, entry :
         /\ Begin(t, kind, step, concerned, seen, order, entry)
         /\ Starts(kind, step, concerned, ids, seen, order, entry)
  BY RequestEnters DEF Enters
<1>2. Itself(t, kind, step, concerned, seen, entry)
  BY <1>1, BeginsItself
<1>3. CASE u = t
  <2>1. s \in concerned
    BY <1>2, <1>3 DEF Itself
  <2> QED BY <1>1, <1>3, <2>1, BeginKnows
<1>4. CASE u # t
  <2>1. Beside(u, concerned)
    BY <1>1, <1>4, BeginsBeside
  <2>2. KnowsFor(u, s)
    BY <2>1 DEF Beside, Knowing
  <2>3. templates' = templates /\ log' = log
    BY <1>2 DEF Itself
  <2> QED BY <2>1, <2>2, <2>3, BesideKnows DEF Beside, Open
<1> QED
  BY <1>3, <1>4

LEMMA CommitKnows ==
    ASSUME Base, Apart, Knowing, NEW t \in Tx, Commit(t), NEW u \in Tx, Open(u)', tx'[u].alone,
           NEW s \in tx'[u].students
    PROVE  KnowsFor(u, s)'
<1>1. Open(t) /\ tx'[t] = Idle /\ \A v \in Tx \ {t} : tx'[v] = tx[v]
  BY DEF Commit, At, Base
<1>2. u # t /\ Open(u) /\ tx'[u] = tx[u]
  BY <1>1 DEF Open
<1>3. KnowsFor(u, s)
  BY <1>2 DEF Knowing
<1>4. s \notin tx[t].students /\ s \in Students
  BY <1>1, <1>2, OpenType DEF Apart, Base
<1>5. Agree(s, templates, templates') /\ Agree(s, Visible(u), Visible(u)')
  BY <1>2, <1>4, CommitIsAboutItsStudents, SeesOthersAlike
<1>6. /\ RowsOf(s, templates)' = RowsOf(s, templates)
      /\ RowsOf(s, Visible(u))' = RowsOf(s, Visible(u)) /\ InUse(s, Visible(u))' = InUse(s, Visible(u))
      /\ \A r \in RowsOf(s, Visible(u)) : Visible(u)'[r] = Visible(u)[r]
      /\ \A r \in RowsOf(s, templates) : templates'[r] = templates[r]
  <2>1. /\ RowsOf(s, templates') = RowsOf(s, templates) /\ RowsOf(s, Visible(u)') = RowsOf(s, Visible(u))
        /\ InUse(s, Visible(u)') = InUse(s, Visible(u))
    BY <1>5, AgreeingTables
  <2> QED BY <1>5, <2>1 DEF RowsOf, InUse, Agree
<1>7. /\ Is(u, {"erase", "purge"}) /\ ~At(u, "read") => RowsOf(s, templates) \subseteq DOMAIN tx[u].seen
      /\ Is(u, {"upload"}) /\ At(u, "write") =>
            /\ DOMAIN tx[u].seen = RowsOf(s, Visible(u))
            /\ \A r \in DOMAIN tx[u].seen : Visible(u)[r] = tx[u].seen[r]
      /\ /\ Is(u, {"upload"}) /\ (At(u, "decide") \/ At(u, "commit"))
         /\ \E r \in RowsOf(s, Visible(u)) : Visible(u)[r].model = "arcface"
         => InUse(s, Visible(u)) # {}
  BY <1>3 DEF KnowsFor
<1>8. ASSUME tx[u].kind \in {"refresh", "rollback"}
      PROVE  \A r \in DOMAIN tx[u].seen : templates'[r] = tx[u].seen[r]
  <2>1. ASSUME NEW r \in DOMAIN tx[u].seen
        PROVE  templates'[r] = tx[u].seen[r]
    <3>1. templates[r] = tx[u].seen[r] /\ r \in Rows /\ tx[u].seen[r] \in Row /\ tx[u].seen[r].student \in tx[u].students
      BY <1>2, <1>3, <1>8, <2>1, OpenType DEF KnowsFor, Is, Base, Sound, Owned
    <3>2. tx[u].students = {s}
      BY <1>2, <1>8 DEF Base, Sound, Plan
    <3>3. r \in RowsOf(s, templates)
      BY <3>1, <3>2, RowsExist DEF RowsOf
    <3> QED BY <1>6, <3>1, <3>3
  <2> QED BY <2>1
<1>9. ASSUME tx[u].kind = "rollback"
      PROVE  /\ Stands(tx[u].entry, log')
             /\ \A r \in {log'[tx[u].entry].old, log'[tx[u].entry].new} :
                   Exists(templates'[r]) => r \in DOMAIN tx[u].seen
  <2> DEFINE i == tx[u].entry
  <2>1. /\ i \in DOMAIN log /\ log[i].kind = "refresh" /\ tx[u].students = {log[i].student}
        /\ log[i].old \in Rows /\ log[i].new \in Rows /\ Traced(i, log, templates)
    <3>1. i \in DOMAIN log /\ log[i].kind = "refresh" /\ tx[u].students = {log[i].student}
      BY <1>2, <1>9 DEF Base, Sound, RollsBack
    <3>2. log[i] \in Entry /\ Traced(i, log, templates)
      BY <3>1 DEF Base, TypeOK
    <3> QED BY <3>1, <3>2 DEF Entry
  <2>2. /\ Stands(i, log)
        /\ \A r \in {log[i].old, log[i].new} : Exists(templates[r]) => r \in DOMAIN tx[u].seen
    BY <1>2, <1>3, <1>9 DEF KnowsFor, Is
  <2>3. log'[i] = log[i] /\ \A j \in DOMAIN log : log'[j] = log[j]
    BY <2>1, LogAfterCommit DEF Grown
  <2>4. \A j \in DOMAIN log' : log'[j].of # i
    <3>1. CASE log' = log
      BY <2>2, <3>1 DEF Stands
    <3>2. ASSUME NEW q \in Students, NEW b, NEW r, Grown(RefreshEntry(q, b, r))
          PROVE  \A j \in DOMAIN log' : log'[j].of # i
      <4>1. i # 0
        BY <2>1 DEF Base, TypeOK
      <4> QED BY <2>2, <3>2, <4>1 DEF Grown, RefreshEntry, Stands
    <3>3. ASSUME tx[t].kind = "rollback", Grown(RollbackEntry(tx[t].entry))
          PROVE  \A j \in DOMAIN log' : log'[j].of # i
      <4>1. tx[t].students = {log[tx[t].entry].student}
        BY <1>1, <3>3 DEF Base, Sound, RollsBack
      <4>2. tx[t].entry # i
        BY <1>2, <1>4, <2>1, <4>1
      <4> QED BY <2>2, <3>3, <4>2 DEF Grown, RollbackEntry, Stands
    <3> QED BY <3>1, <3>2, <3>3, LogAfterCommit
  <2>5. \A r \in {log[i].old, log[i].new} : Exists(templates'[r]) => r \in DOMAIN tx[u].seen
    BY <2>1, <2>2, RowsAfterCommit DEF Traced
  <2> QED BY <2>2, <2>3, <2>4, <2>5 DEF Stands
<1> QED
  BY <1>2, <1>6, <1>7, <1>8, <1>9 DEF KnowsFor, Is, At, Open, Stands

(* Rebalancing leaves an active template of every model it has.            *)
LEMMA BalancedServes ==
    ASSUME NEW rows, rows \in [DOMAIN rows -> Row], NEW rank \in Rankings(rows),
           NEW q \in DOMAIN rows
    PROVE  \E r \in DOMAIN rows : rows[r].model = rows[q].model /\ BalancedStatus(rows, rank, r) = "active"
<1> DEFINE T == {rank[r] : r \in {r \in DOMAIN rows : SameBucket(rows[r], rows[q])}}
<1>1. rank \in [DOMAIN rows -> 1 .. Cardinality(DOMAIN rows)]
  BY DEF Rankings
<1>2. T \subseteq Nat
  BY <1>1
<1>3. rank[q] \in T
  BY DEF SameBucket
<1>4. PICK x \in T : \A y \in T : x <= y
  BY <1>2, <1>3, NatLeast
<1>5. PICK r \in DOMAIN rows : SameBucket(rows[r], rows[q]) /\ x = rank[r]
  BY <1>4
<1>6. \A p \in DOMAIN rows : SameBucket(rows[p], rows[r]) => rank[p] \in T
  BY <1>5 DEF SameBucket
<1>7. {p \in DOMAIN rows : SameBucket(rows[p], rows[r]) /\ rank[p] < rank[r]} = {}
  <2>1. \A p \in DOMAIN rows : SameBucket(rows[p], rows[r]) => rank[r] <= rank[p] /\ rank[p] \in Nat /\ rank[r] \in Nat
    BY <1>2, <1>4, <1>5, <1>6
  <2> QED BY <2>1
<1>8. Place(rows, rank, r) = 0
  BY <1>7, FS_EmptySet DEF Place
<1>9. BalancedStatus(rows, rank, r) = "active"
  <2>1. ActiveLimit \in Nat /\ 0 < ActiveLimit /\ BackupLimit \in Nat
    BY LimitsAssumption
  <2>2. 0 \notin ActiveLimit .. ActiveLimit + BackupLimit - 1
    BY <2>1
  <2> QED BY <1>8, <2>1, <2>2 DEF BalancedStatus
<1> QED
  BY <1>5, <1>9 DEF SameBucket

(* What a request sees after a statement of its own.                       *)
LEMMA SeesItsChange ==
    ASSUME Base, NEW t \in Tx, Open(t), NEW change, templates' = templates, DOMAIN change \subseteq Rows,
           tx'[t].change = Over(change, tx[t].change)
    PROVE  \A r \in Rows : Visible(t)'[r] = IF r \in DOMAIN change THEN change[r] ELSE Visible(t)[r]
<1>1. DOMAIN templates = Rows /\ DOMAIN tx[t].change \subseteq Rows
  BY OpenType DEF Base, TypeOK
<1> QED
  BY <1>1 DEF Visible, Over

LEMMA RebalanceKnows ==
    ASSUME Base, NEW t \in Tx, Rebalance(t), NEW s \in tx[t].students, KnowsFor(t, s)
    PROVE  KnowsFor(t, s)'
<1> DEFINE rows == tx[t].seen
<1>1. /\ Open(t) /\ tx[t].step = "write" /\ tx[t].kind = "upload"
      /\ rows \in [DOMAIN rows -> Row] /\ DOMAIN rows \subseteq Rows
  BY Rebalances
<1>2. PICK rank \in Rankings(rows) :
         LET new == Balanced(rows, rank)
             change == Restatused(t, new)
         IN Restatuses(t, new, change) /\ Writable(t, DOMAIN change) /\ Goes(t, "decide", change, "same")
  BY Rebalances
<1> DEFINE new == Balanced(rows, rank)
           change == Restatused(t, new)
<1>3. /\ DOMAIN change = {r \in DOMAIN rows : new[r].status # rows[r].status}
      /\ \A r \in DOMAIN change : change[r] = [Visible(t)[r] EXCEPT !.status = new[r].status]
      /\ Goes(t, "decide", change, "same") /\ DOMAIN change \subseteq Rows
  BY <1>2 DEF Restatuses
<1>4. \A r \in DOMAIN rows : new[r].status = BalancedStatus(rows, rank, r) /\ new[r].status \in Statuses
  BY <1>1, BalancedRows
<1> HIDE DEF new, change
<1>5. /\ Continues(t) /\ tx'[t] # Idle /\ tx'[t].step = "decide" /\ tx'[t].seen = rows
      /\ tx'[t].change = Over(change, tx[t].change)
  BY <1>1, <1>3, GoingOnContinues
<1>6. templates' = templates /\ tx'[t].kind = "upload"
  BY <1>1, <1>5 DEF Continues, SameRequest, Others
<1>7. \A r \in Rows : Visible(t)'[r] = IF r \in DOMAIN change THEN change[r] ELSE Visible(t)[r]
  BY <1>1, <1>3, <1>5, <1>6, SeesItsChange
<1>8. DOMAIN rows = RowsOf(s, Visible(t)) /\ \A r \in DOMAIN rows : Visible(t)[r] = rows[r]
  BY <1>1 DEF KnowsFor, Is, At
<1>9. \A r \in DOMAIN change : change[r] \in Row /\ change[r].status = new[r].status
                               /\ change[r].student = rows[r].student /\ change[r].model = rows[r].model
  <2> SUFFICES ASSUME NEW r \in DOMAIN change
               PROVE  /\ change[r] \in Row /\ change[r].status = new[r].status
                      /\ change[r].student = rows[r].student /\ change[r].model = rows[r].model
    OBVIOUS
  <2>1. r \in DOMAIN rows /\ rows[r] \in Row
    BY <1>1, <1>3
  <2>2. change[r] = [rows[r] EXCEPT !.status = new[r].status] /\ new[r].status \in Statuses
    BY <1>3, <1>4, <1>8, <2>1
  <2> QED BY <2>1, <2>2, Restated
<1>10. ASSUME NEW q \in RowsOf(s, Visible(t)'), Visible(t)'[q].model = "arcface"
       PROVE  InUse(s, Visible(t)') # {}
  <2>1. q \in DOMAIN rows /\ rows[q].model = "arcface"
    BY <1>3, <1>7, <1>8, <1>9, <1>10 DEF RowsOf
  <2>2. PICK r \in DOMAIN rows : rows[r].model = "arcface" /\ BalancedStatus(rows, rank, r) = "active"
    BY <1>1, <1>2, <2>1, BalancedServes
  <2>3. rows[r].student = s /\ r \in Rows
    BY <1>1, <1>8 DEF RowsOf
  <2>4. Visible(t)'[r].status = "active" /\ Visible(t)'[r].student = s /\ Visible(t)'[r].model = "arcface"
    BY <1>3, <1>4, <1>7, <1>8, <1>9, <2>2, <2>3
  <2> QED BY <2>3, <2>4 DEF InUse, RowsOf, Exists, Statuses
<1>11. /\ RowsOf(s, Visible(t))' = RowsOf(s, Visible(t)') /\ InUse(s, Visible(t))' = InUse(s, Visible(t)')
  BY DEF RowsOf, InUse
<1> QED
  BY <1>5, <1>6, <1>10, <1>11 DEF KnowsFor, Is, At

LEMMA NothingOver ==
    ASSUME Base, NEW t \in Tx, Open(t)
    PROVE  Over(<<>>, tx[t].change) = tx[t].change
<1>1. tx[t].change = [r \in DOMAIN tx[t].change |-> tx[t].change[r]]
  BY OpenType DEF Base
<1>2. DOMAIN <<>> = {}
  OBVIOUS
<1> QED
  BY <1>1, <1>2 DEF Over

LEMMA UploadKnows ==
    ASSUME Base, NEW t \in Tx, Statement(t), ~Commit(t), tx'[t] # Idle, tx[t].kind = "upload",
           NEW s \in tx[t].students, KnowsFor(t, s)
    PROVE  KnowsFor(t, s)'
<1>1. /\ Continues(t) /\ Open(t) /\ Plan(tx[t]) /\ tx'[t].kind = "upload" /\ templates' = templates
      /\ tx[t].students = {s}
  BY StatementContinues DEF Continues, SameRequest, Others, Base, Sound, Plan
<1>2. CASE ReadTemplates(t)
  <2>1. /\ tx' = [tx EXCEPT ![t].step = "write", ![t].seen = Restrict(Visible(t), RowsOf(s, Visible(t)))]
        /\ UNCHANGED Others /\ UNCHANGED forgotten
    BY <1>1, <1>2 DEF ReadTemplates, Others
  <2>2. /\ tx'[t].step = "write" /\ tx'[t].change = tx[t].change
        /\ tx'[t].seen = Restrict(Visible(t), RowsOf(s, Visible(t)))
    BY <1>1, <2>1, ReadingContinues
  <2>3. Visible(t)' = Visible(t)
    BY <1>1, <2>2, VisibleUnchanged
  <2>4. /\ DOMAIN tx'[t].seen = RowsOf(s, Visible(t)) /\ RowsOf(s, Visible(t))' = RowsOf(s, Visible(t))
        /\ \A r \in DOMAIN tx'[t].seen : Visible(t)'[r] = tx'[t].seen[r]
    BY <2>2, <2>3 DEF Restrict, RowsOf
  <2> QED BY <1>1, <2>2, <2>4 DEF KnowsFor, Is, At
<1>3. CASE Rebalance(t)
  BY <1>3, RebalanceKnows
<1>4. CASE Decide(t)
  <2>1. \E flag : Goes(t, "commit", <<>>, flag) /\ tx[t].step = "decide"
    BY <1>4 DEF Decide, At
  <2>2. tx'[t].step = "commit" /\ tx'[t].change = tx[t].change /\ tx[t].step = "decide"
    BY <1>1, <2>1, GoingOnContinues, NothingOver
  <2>3. Visible(t)' = Visible(t)
    BY <1>1, <2>2, VisibleUnchanged
  <2>4. (\E r \in RowsOf(s, Visible(t)) : Visible(t)[r].model = "arcface") => InUse(s, Visible(t)) # {}
    BY <1>1, <2>2 DEF KnowsFor, Is, At
  <2>5. RowsOf(s, Visible(t))' = RowsOf(s, Visible(t)) /\ InUse(s, Visible(t))' = InUse(s, Visible(t))
    BY <2>3 DEF RowsOf, InUse
  <2> QED BY <1>1, <2>2, <2>3, <2>4, <2>5 DEF KnowsFor, Is, At
<1>5. ASSUME NEW r \in Rows, NEW f \in Faces, NEW p \in Poses, NEW n \in Scores, AcceptPhoto(t, r, f, p, n)
      PROVE  KnowsFor(t, s)'
  <2>1. tx'[t].step = "photos"
    BY <1>1, <1>5, GoingOnContinues DEF AcceptPhoto
  <2> QED BY <1>1, <2>1 DEF KnowsFor, Is, At
<1>6. ~Abort(t) 
  BY <1>1 DEF Abort, Base
<1> QED
  BY <1>1, <1>2, <1>3, <1>4, <1>5, <1>6
  DEF Statement, WriteStatus, WriteRollback, StartDelete, FinishDelete, WriteRefresh, WriteEmbedding, Plan, At, Is

LEMMA DeletionKnows ==
    ASSUME Base, NEW t \in Tx, Statement(t), ~Commit(t), tx'[t] # Idle, tx[t].kind \in {"erase", "purge"},
           NEW s \in tx[t].students, KnowsFor(t, s)
    PROVE  KnowsFor(t, s)'
<1>1. /\ Continues(t) /\ Open(t) /\ Plan(tx[t]) /\ tx'[t].kind = tx[t].kind /\ templates' = templates
  BY StatementContinues DEF Continues, SameRequest, Others, Base, Sound
<1>2. CASE StartDelete(t)
  <2> DEFINE ids == UNION {RowsOf(q, templates) : q \in tx[t].students}
  <2>1. /\ tx' = [tx EXCEPT ![t].step = "write", ![t].seen = Restrict(templates, ids)]
        /\ UNCHANGED Others /\ UNCHANGED forgotten
    BY <1>2 DEF StartDelete, Others
  <2>2. RowsOf(s, templates) \subseteq ids
    OBVIOUS
  <2> HIDE DEF ids
  <2>3. DOMAIN tx'[t].seen = ids
    BY <1>1, <2>1, ReadingContinues DEF Restrict
  <2>4. (RowsOf(s, templates) \subseteq DOMAIN tx[t].seen)'
    BY <1>1, <2>2, <2>3 DEF RowsOf
  <2> QED BY <1>1, <2>4 DEF KnowsFor, Is, At
<1>3. CASE FinishDelete(t)
  <2>1. tx[t].step = "write" /\ \E change, flag : Goes(t, "commit", change, flag)
    BY <1>3 DEF FinishDelete, At
  <2>2. tx'[t].seen = tx[t].seen
    BY <1>1, <2>1, GoingOnContinues
  <2>3. RowsOf(s, templates) \subseteq DOMAIN tx[t].seen
    BY <1>1, <2>1 DEF KnowsFor, Is, At
  <2>4. (RowsOf(s, templates) \subseteq DOMAIN tx[t].seen)'
    BY <1>1, <2>2, <2>3 DEF RowsOf
  <2> QED BY <1>1, <2>4 DEF KnowsFor, Is, At
<1>4. ~Abort(t)
  BY DEF Abort, Base
<1> QED
  BY <1>1, <1>2, <1>3, <1>4
  DEF Statement, ReadTemplates, Rebalance, Decide, AcceptPhoto, WriteStatus, WriteRollback,
      WriteRefresh, WriteEmbedding, Plan, At, Is

LEMMA StatementKnows ==
    ASSUME Base, NEW t \in Tx, Statement(t), ~Commit(t), tx'[t] # Idle,
           NEW s \in tx[t].students, KnowsFor(t, s)
    PROVE  KnowsFor(t, s)'
<1>1. CASE tx[t].kind \notin {"upload", "erase", "purge"}
  <2>1. tx'[t].seen = tx[t].seen
    BY <1>1, SeenStays
  <2>2. /\ Open(t) /\ tx'[t].kind = tx[t].kind /\ tx'[t].entry = tx[t].entry
        /\ templates' = templates /\ log' = log
    BY StatementContinues DEF Continues, SameRequest, Others
  <2> QED BY <1>1, <2>1, <2>2 DEF KnowsFor, Is, At, Open, Stands
<1> QED
  BY <1>1, UploadKnows, DeletionKnows

LEMMA NextKeepsKnowing ==
    ASSUME Base, Apart, Knowing, [Next]_vars
    PROVE  Knowing'
<1> SUFFICES ASSUME NEW u \in Tx, Open(u)', tx'[u].alone, NEW s \in tx'[u].students
             PROVE  KnowsFor(u, s)'
  BY DEF Knowing
<1>1. ASSUME NEW t \in Tx, Request(t)
      PROVE  KnowsFor(u, s)'
  BY <1>1, RequestKnows
<1>2. ASSUME NEW t \in Tx, Commit(t)
      PROVE  KnowsFor(u, s)'
  BY <1>2, CommitKnows
<1>3. ASSUME NEW t \in Tx, Statement(t), ~Commit(t)
      PROVE  KnowsFor(u, s)'
  <2>1. Continues(t)
    BY <1>3, StatementContinues
  <2>2. CASE u = t
    <3>1. /\ Open(t) /\ tx'[t] # Idle /\ tx[t].alone /\ tx[t].students = tx'[t].students
      BY <2>1, <2>2 DEF Continues, SameRequest, Open
    <3>2. KnowsFor(t, s)
      BY <2>2, <3>1 DEF Knowing
    <3> QED BY <1>3, <2>2, <3>1, <3>2, StatementKnows
  <2>3. CASE u # t
    <3>1. tx'[u] = tx[u] /\ Open(u) /\ templates' = templates /\ log' = log
      BY <2>1, <2>3 DEF Continues, Others, Open
    <3>2. KnowsFor(u, s)
      BY <3>1 DEF Knowing
    <3> QED BY <3>1, <3>2, BesideKnows DEF Open
  <2> QED BY <2>2, <2>3
<1>4. CASE UNCHANGED <<templates, log, tx>>
  <2>1. Open(u) /\ KnowsFor(u, s)
    BY <1>4 DEF Knowing, Open
  <2> QED BY <1>4, <2>1, BesideKnows DEF Open
<1> QED
  BY <1>1, <1>2, <1>3, <1>4 DEF Next, Age, vars

-----------------------------------------------------------------------------
(* Templates and what they were refreshed from.                            *)

LEMMA LoggedRows ==
    ASSUME Base, NEW i \in DOMAIN log
    PROVE  /\ log[i] \in Entry /\ log[i].old \in Rows /\ log[i].new \in Rows /\ log[i].student \in Students
           /\ log[i].kind \in {"refresh", "rollback"} /\ log[i].of \in Nat
           /\ templates[log[i].old] # Unused /\ templates[log[i].new] # Unused
<1>1. log[i] \in Entry
  BY DEF Base, TypeOK
<1> QED
  BY <1>1 DEF Entry, Base, Traced

(* A closed set stays so when a refresh of one of its templates adds the   *)
(* new one, and only then.                                                 *)
WithNew(ids, b, r) == IF b \in ids THEN ids \cup {r} ELSE ids \ {r}

LEMMA ClosedAfterRefresh ==
    ASSUME Base, NEW t \in Tx, NEW q \in Students, NEW b \in Rows, NEW r \in Rows,
           Refreshed(t, q, b, r), Grown(RefreshEntry(q, b, r)),
           NEW s, NEW ids \in SUBSET Rows, Closed(ids, s, log)
    PROVE  WithNew(ids, b, r) \in SUBSET Rows /\ Closed(WithNew(ids, b, r), s, log')
<1>1. r # b /\ templates[r] = Unused
  BY DEF Refreshed
<1>2. \A j \in DOMAIN log : log'[j] = log[j] /\ log[j].old # r /\ log[j].new # r
  BY <1>1, LoggedRows DEF Grown
<1>3. DOMAIN log' = DOMAIN log \cup {Len(log) + 1} /\ log'[Len(log) + 1] = RefreshEntry(q, b, r)
  BY DEF Grown
<1>4. ASSUME NEW j \in DOMAIN log', log'[j].kind = "refresh", log'[j].student = s,
             log'[j].new \in WithNew(ids, b, r)
      PROVE  log'[j].old \in WithNew(ids, b, r)
  <2>1. CASE j \in DOMAIN log
    BY <1>2, <1>4, <2>1 DEF Closed, WithNew
  <2>2. CASE j = Len(log) + 1
    BY <1>1, <1>3, <1>4, <2>2 DEF RefreshEntry, WithNew
  <2> QED BY <1>3, <2>1, <2>2
<1> QED
  BY <1>4 DEF Closed, WithNew

LEMMA ClosedAfterCommit ==
    ASSUME Base, NEW t \in Tx, Commit(t), tx[t].kind # "refresh", NEW s, NEW ids
    PROVE  Closed(ids, s, log') <=> Closed(ids, s, log)
<1>1. CASE log' = log
  BY <1>1
<1>2. CASE Grown(RollbackEntry(tx[t].entry))
  BY <1>2 DEF Grown, RollbackEntry, Closed
<1> QED
  BY <1>1, <1>2, LogAfterCommit

LEMMA CommitKeepsAcyclic ==
    ASSUME Base, NEW t \in Tx, Commit(t), NEW s \in Students, Acyclic(s, log)
    PROVE  Acyclic(s, log')
<1>1. CASE log' = log
  BY <1>1
<1>2. CASE tx[t].kind = "rollback" /\ Grown(RollbackEntry(tx[t].entry))
  <2>1. \A ids : Closed(ids, s, log') <=> Closed(ids, s, log)
    BY <1>2, ClosedAfterCommit
  <2> QED BY <1>2, <2>1 DEF Grown, RollbackEntry, Acyclic
<1>3. ASSUME NEW q \in Students, NEW b \in Rows, NEW r \in Rows,
             Refreshed(t, q, b, r), Grown(RefreshEntry(q, b, r))
      PROVE  Acyclic(s, log')
  <2>1. r # b /\ templates[r] = Unused
    BY <1>3 DEF Refreshed
  <2>2. \A j \in DOMAIN log : log'[j] = log[j] /\ log[j].old \in Rows \ {r} /\ log[j].new # r
    BY <1>3, <2>1, LoggedRows DEF Grown
  <2>3. DOMAIN log' = DOMAIN log \cup {Len(log) + 1} /\ log'[Len(log) + 1] = RefreshEntry(q, b, r)
    BY <1>3 DEF Grown
  <2>4. ASSUME NEW i \in DOMAIN log', log'[i].kind = "refresh", log'[i].student = s
        PROVE  \E ids \in SUBSET Rows : /\ Closed(ids, s, log')
                                        /\ log'[i].old \in ids /\ log'[i].new \notin ids
    <3>1. CASE i \in DOMAIN log
      <4>1. PICK ids \in SUBSET Rows : Closed(ids, s, log) /\ log[i].old \in ids /\ log[i].new \notin ids
        BY <2>2, <2>4, <3>1 DEF Acyclic
      <4>2. WithNew(ids, b, r) \in SUBSET Rows /\ Closed(WithNew(ids, b, r), s, log')
        BY <1>3, <4>1, ClosedAfterRefresh
      <4>3. log'[i].old \in WithNew(ids, b, r) /\ log'[i].new \notin WithNew(ids, b, r)
        BY <2>2, <3>1, <4>1 DEF WithNew
      <4> QED BY <4>2, <4>3
    <3>2. CASE i = Len(log) + 1
      <4>1. Closed(Rows \ {r}, s, log')
        BY <2>1, <2>2, <2>3 DEF Closed, RefreshEntry
      <4>2. log'[i].old \in Rows \ {r} /\ log'[i].new \notin Rows \ {r}
        BY <2>1, <2>3, <3>2 DEF RefreshEntry
      <4> QED BY <4>1, <4>2
    <3> QED BY <2>3, <2>4, <3>1, <3>2
  <2> QED BY <2>4 DEF Acyclic
<1> QED
  BY <1>1, <1>2, <1>3, LogAfterCommit

LEMMA InitAcyclic ==
    ASSUME Init, NEW s \in Students
    PROVE  Acyclic(s, log)
<1>1. Base
  BY InitBase
<1>2. \A j \in DOMAIN log : log[j].old \in Rows /\ log[j].new \in Rows
  BY <1>1, LoggedRows
<1>3. \A j \in DOMAIN log : log[j].kind = "refresh" => log[j].old < log[j].new
  BY EntriesAssumption DEF Init
<1>4. ASSUME NEW i \in DOMAIN log, log[i].kind = "refresh", log[i].student = s
      PROVE  \E ids \in SUBSET Rows : /\ Closed(ids, s, log)
                                      /\ log[i].old \in ids /\ log[i].new \notin ids
  <2> DEFINE ids == {q \in Rows : q < log[i].new}
  <2>0. \A j \in DOMAIN log : log[j].old \in Nat /\ log[j].new \in Nat
    BY <1>2, RowsAssumption
  <2>1. ASSUME NEW j \in DOMAIN log, log[j].kind = "refresh", log[j].new \in ids
        PROVE  log[j].old \in ids
    <3>1. log[j].old < log[j].new /\ log[j].new < log[i].new
      BY <1>3, <2>1
    <3>2. log[j].old < log[i].new
      BY <2>0, <3>1
    <3> QED BY <1>2, <3>2
  <2>2. log[i].old \in ids /\ log[i].new \notin ids /\ ids \in SUBSET Rows
    <3>1. log[i].old < log[i].new /\ ~(log[i].new < log[i].new)
      BY <1>3, <1>4, <2>0
    <3> QED BY <1>2, <3>1
  <2>3. Closed(ids, s, log)
    BY <2>1 DEF Closed
  <2> QED BY <2>2, <2>3
<1> QED
  BY <1>4 DEF Acyclic

-----------------------------------------------------------------------------
(* The two templates of an entry.                                          *)

(* Only an erasure or a purge makes rows disappear, and one that is alone  *)
(* takes all rows of its students.                                         *)
LEMMA RowsStay ==
    ASSUME Base, NEW t \in Tx, Commit(t), tx[t].kind \notin {"erase", "purge"},
           NEW r \in Rows, templates[r] # Unused
    PROVE  Exists(templates'[r]) <=> Exists(templates[r])
<1>1. Open(t) /\ Sound(tx[t], log, templates)
  BY DEF Commit, At, Base
<1>2. ASSUME Exists(templates[r])
      PROVE  Exists(templates'[r])
  <2>1. r \in DOMAIN tx[t].change => tx[t].change[r] \in Row
    BY <1>1, OpenType DEF Base, Sound, Writes
  <2> QED BY <1>2, <2>1, RowsAfterCommit, RowsExist
<1> QED
  BY <1>2, RowsAfterCommit

LEMMA RowsGo ==
    ASSUME Base, Knowing, NEW t \in Tx, Commit(t), tx[t].kind \in {"erase", "purge"}, tx[t].alone,
           NEW s \in tx[t].students
    PROVE  RowsOf(s, templates') = {}
<1>1. Open(t) /\ tx[t].step = "commit" /\ Sound(tx[t], log, templates) /\ KnowsFor(t, s)
  BY DEF Commit, At, Base, Knowing
<1>2. RowsOf(s, templates) \subseteq DOMAIN tx[t].seen
  BY <1>1 DEF KnowsFor, Is, At
<1>3. DOMAIN tx[t].change = DOMAIN tx[t].seen /\ \A r \in DOMAIN tx[t].change : tx[t].change[r] = Deleted
  BY <1>1 DEF Sound, Writes
<1> QED
  BY <1>2, <1>3, RowsAfterCommit, RowsExist DEF RowsOf

LEMMA CommitDemotes ==
    ASSUME Base, NEW t \in Tx, Commit(t), NEW s \in Students \ demoted'
    PROVE  /\ s \notin demoted
           /\ s \in tx[t].students =>
                 /\ tx[t].kind \in {"upload", "embedding", "refresh", "rollback", "erase", "purge"}
                 /\ tx[t].kind \in {"upload", "erase", "purge"} => tx[t].alone
<1>1. Open(t) /\ tx[t].kind \in Kinds
  BY OpenType DEF Commit, At, Base, Transaction
<1> QED
  BY <1>1 DEF Commit, Is, Kinds

Paired(s, e, table) == e.student = s => (Exists(table[e.old]) <=> Exists(table[e.new]))

LEMMA StayPaired ==
    ASSUME Base, Knowing, NEW t \in Tx, Commit(t), NEW s \in Students \ demoted',
           NEW i \in DOMAIN log, Paired(s, log[i], templates)
    PROVE  Paired(s, log[i], templates')
<1> SUFFICES ASSUME log[i].student = s
             PROVE  Exists(templates'[log[i].old]) <=> Exists(templates'[log[i].new])
  BY DEF Paired
<1>1. /\ log[i].old \in Rows /\ log[i].new \in Rows
      /\ templates[log[i].old] # Unused /\ templates[log[i].new] # Unused
      /\ Exists(templates[log[i].old]) <=> Exists(templates[log[i].new])
      /\ \A r \in {log[i].old, log[i].new} : Exists(templates[r]) => templates[r].student = s
  BY LoggedRows DEF Paired, Base, Traced
<1>2. CASE s \notin tx[t].students
  <2>1. Agree(s, templates, templates')
    BY <1>2, CommitIsAboutItsStudents
  <2>2. \A r \in {log[i].old, log[i].new} : Exists(templates'[r]) <=> Exists(templates[r])
    BY <1>1, <2>1, RowsAfterCommit DEF Agree, RowsOf
  <2> QED BY <1>1, <2>2
<1>3. CASE s \in tx[t].students /\ tx[t].kind \notin {"erase", "purge"}
  BY <1>1, <1>3, RowsStay
<1>4. CASE s \in tx[t].students /\ tx[t].kind \in {"erase", "purge"}
  <2>1. RowsOf(s, templates') = {}
    BY <1>4, CommitDemotes, RowsGo
  <2>2. \A r \in {log[i].old, log[i].new} : Exists(templates'[r]) => templates'[r].student = s
    BY <1>1, RowsAfterCommit DEF Kin
  <2> QED BY <1>1, <2>1, <2>2 DEF RowsOf
<1> QED
  BY <1>2, <1>3, <1>4

LEMMA RefreshedRows ==
    ASSUME Base, NEW t \in Tx, Commit(t), NEW q \in Students, NEW b \in Rows, NEW r \in Rows, Refreshed(t, q, b, r)
    PROVE  /\ r # b /\ templates'[r] = tx[t].seen[b] /\ templates'[b] = tx[t].change[b]
           /\ templates'[r] \in Row /\ templates'[b] \in Row /\ templates'[b].status = "backup"
           /\ \A p \in Rows \ {b, r} : templates'[p] = templates[p]
<1>1. /\ Open(t) /\ tx[t].seen[b] \in Row /\ r # b /\ DOMAIN tx[t].change = {b, r}
      /\ tx[t].change[r] = tx[t].seen[b] /\ tx[t].change[b] \in Row \cup {Deleted}
      /\ tx[t].change[b].status = "backup"
  BY OpenType DEF Commit, At, Base, Refreshed
<1>2. tx[t].change[b] \in Row
  BY <1>1 DEF Deleted
<1> QED
  BY <1>1, <1>2, RowsAfterCommit

LEMMA CommitKeepsPairs ==
    ASSUME Base, Knowing, NEW t \in Tx, Commit(t), NEW s \in Students \ demoted', InPairs(s)
    PROVE  InPairs(s)'
<1>1. /\ Open(t) /\ tx'[t] = Idle /\ \A u \in Tx \ {t} : tx'[u] = tx[u]
      /\ \A i \in DOMAIN log : log'[i] = log[i]
  BY LogAfterCommit DEF Commit, At, Base, Grown
<1>2. \A i \in DOMAIN log : Paired(s, log[i], templates')
  BY StayPaired DEF InPairs, Paired
<1>3. ASSUME NEW i \in DOMAIN log'
      PROVE  Paired(s, log'[i], templates')
  <2>1. CASE i \in DOMAIN log
    BY <1>1, <1>2, <2>1
  <2>2. CASE i \notin DOMAIN log
    <3>1. ASSUME NEW q \in Students, NEW b \in Rows, NEW r \in Rows,
                 Refreshed(t, q, b, r), Grown(RefreshEntry(q, b, r))
          PROVE  Paired(s, log'[i], templates')
      <4>1. log'[i] = RefreshEntry(q, b, r)
        BY <1>3, <2>2, <3>1 DEF Grown
      <4> QED BY <3>1, <4>1, RefreshedRows, RowsExist DEF Paired, RefreshEntry
    <3>2. ASSUME tx[t].entry \in DOMAIN log, Grown(RollbackEntry(tx[t].entry))
          PROVE  Paired(s, log'[i], templates')
      <4>1. log'[i] = RollbackEntry(tx[t].entry)
        BY <1>3, <2>2, <3>2 DEF Grown
      <4> QED BY <1>2, <3>2, <4>1 DEF Paired, RollbackEntry
    <3> QED BY <1>3, <2>2, <3>1, <3>2, LogAfterCommit
  <2> QED BY <2>1, <2>2
<1>4. ASSUME NEW u \in Tx, Open(u)', tx'[u].kind = "rollback", s \in tx'[u].students
      PROVE  DOMAIN tx'[u].seen \in {{}, {log'[tx'[u].entry].old, log'[tx'[u].entry].new}}
  <2>1. u # t /\ tx'[u] = tx[u] /\ Open(u)
    BY <1>1, <1>4 DEF Open
  <2>2. tx[u].entry \in DOMAIN log
    BY <1>4, <2>1 DEF Base, Sound, RollsBack
  <2> QED BY <1>1, <1>4, <2>1, <2>2 DEF InPairs, Is
<1> QED
  BY <1>3, <1>4 DEF InPairs, Is, Paired

LEMMA RequestKeepsPairs ==
    ASSUME Base, NEW t \in Tx, Request(t), NEW s, InPairs(s)
    PROVE  InPairs(s)'
<1>1. PICK kind, step, concerned, ids, seen, order, entry :
         /\ Begin(t, kind, step, concerned, seen, order, entry)
         /\ Starts(kind, step, concerned, ids, seen, order, entry)
  BY RequestEnters DEF Enters
<1>2. Itself(t, kind, step, concerned, seen, entry)
  BY <1>1, BeginsItself
<1>3. templates' = templates /\ log' = log
  BY <1>2 DEF Itself
<1>4. ASSUME NEW u \in Tx, Open(u)', tx'[u].kind = "rollback", s \in tx'[u].students
      PROVE  DOMAIN tx'[u].seen \in {{}, {log[tx'[u].entry].old, log[tx'[u].entry].new}}
  <2>1. CASE u = t
    <3>1. tx'[u].kind = kind /\ tx'[u].students = concerned /\ tx'[u].seen = seen /\ tx'[u].entry = entry
      BY <1>2, <2>1 DEF Itself
    <3>2. /\ entry \in DOMAIN log /\ log[entry].student = s
          /\ DOMAIN seen = {r \in {log[entry].old, log[entry].new} : Exists(templates[r])}
      BY <1>1, <1>4, <3>1 DEF Starts
    <3>3. Exists(templates[log[entry].old]) <=> Exists(templates[log[entry].new])
      BY <3>2 DEF InPairs
    <3> QED BY <3>1, <3>2, <3>3
  <2>2. CASE u # t
    <3>1. Beside(u, concerned)
      BY <1>1, <1>4, <2>2, BeginsBeside
    <3> QED BY <1>4, <3>1 DEF Beside, InPairs, Is
  <2> QED BY <2>1, <2>2
<1> QED
  BY <1>3, <1>4 DEF InPairs, Is

LEMMA StatementKeepsPairs ==
    ASSUME Base, NEW t \in Tx, Statement(t), ~Commit(t), NEW s, InPairs(s)
    PROVE  InPairs(s)'
<1>1. Continues(t) /\ templates' = templates /\ log' = log
  BY StatementContinues DEF Continues, Others
<1>2. ASSUME NEW u \in Tx, Open(u)', tx'[u].kind = "rollback", s \in tx'[u].students
      PROVE  DOMAIN tx'[u].seen \in {{}, {log[tx'[u].entry].old, log[tx'[u].entry].new}}
  <2>1. /\ Open(u) /\ tx'[u].kind = tx[u].kind /\ tx'[u].students = tx[u].students
        /\ tx'[u].entry = tx[u].entry
    BY <1>1, <1>2 DEF Continues, SameRequest, Open
  <2>2. tx'[u].seen = tx[u].seen
    <3>1. u = t => tx'[u].seen = tx[u].seen
      BY <1>2, <2>1, SeenStays DEF Open
    <3> QED BY <1>1, <3>1 DEF Continues
  <2> QED BY <1>2, <2>1, <2>2 DEF InPairs, Is
<1> QED
  BY <1>1, <1>2 DEF InPairs, Is

-----------------------------------------------------------------------------
(* A student keeps an active template.                                     *)

LEMMA KeepsAfter ==
    ASSUME NEW s, NEW ids \in SUBSET Rows, Closed(ids, s, log'), ids \cap InUse(s, templates') # {},
           \A u \in Tx : Trusting(u, s)' => log'[tx'[u].entry].new \notin ids
    PROVE  Keeps(s)'
<1>1. Closed(ids, s, log)' /\ (ids \cap InUse(s, templates) # {})'
  BY DEF Closed, InUse, RowsOf
<1> QED
  BY <1>1 DEF Keeps

LEMMA TrustedEntry ==
    ASSUME Base, NEW t \in Tx, NEW s, Trusting(t, s)
    PROVE  /\ tx[t].entry \in DOMAIN log /\ log[tx[t].entry].kind = "refresh"
           /\ log[tx[t].entry].student = s /\ s \in Students
<1>1. Open(t) /\ tx[t].kind = "rollback" /\ s \in tx[t].students
  BY DEF Trusting, Is
<1>2. RollsBack(tx[t], log)
  BY <1>1 DEF Base, Sound
<1> QED
  BY <1>1, <1>2, LoggedRows DEF RollsBack

(* No statement makes a rollback trust what it read.                       *)
LEMMA TrustingBefore ==
    ASSUME Base, NEW t \in Tx, Statement(t), NEW u \in Tx, NEW s, Trusting(u, s)'
    PROVE  /\ Trusting(u, s) /\ log'[tx'[u].entry] = log[tx[u].entry]
           /\ Commit(t) => u # t /\ Open(u)
<1>1. Open(u)' /\ tx'[u].kind = "rollback"
  BY DEF Trusting, Is
<1>2. CASE Commit(t)
  <2>1. u # t /\ tx'[u] = tx[u] /\ Open(u)
    BY <1>1, <1>2 DEF Commit, Base, Open
  <2>2. tx[u].entry \in DOMAIN log
    BY <1>1, <2>1 DEF Base, Sound, RollsBack
  <2>3. log'[tx[u].entry] = log[tx[u].entry]
    BY <1>2, <2>2, LogAfterCommit DEF Grown
  <2> QED BY <2>1, <2>3 DEF Trusting, Is
<1>3. CASE ~Commit(t)
  <2>1. Continues(t) /\ log' = log
    BY <1>3, StatementContinues DEF Continues, Others
  <2>2. /\ Open(u) /\ tx'[u].kind = tx[u].kind /\ tx'[u].students = tx[u].students
        /\ tx'[u].entry = tx[u].entry
    BY <1>1, <2>1 DEF Continues, SameRequest, Open
  <2>3. tx'[u].seen = tx[u].seen
    <3>1. u = t => tx'[u].seen = tx[u].seen
      BY <1>1, <1>3, <2>2, SeenStays DEF Open
    <3> QED BY <2>1, <3>1 DEF Continues
  <2> QED BY <1>3, <2>1, <2>2, <2>3 DEF Trusting, Is
<1> QED
  BY <1>2, <1>3

LEMMA StatementHolds ==
    ASSUME Base, NEW t \in Tx, Statement(t), ~Commit(t), NEW s, Held(s)
    PROVE  Held(s)'
<1>1. templates' = templates /\ log' = log
  BY StatementContinues DEF Continues, Others
<1>2. InUse(s, templates') = InUse(s, templates) /\ InUse(s, templates)' = InUse(s, templates')
  BY <1>1 DEF InUse, RowsOf
<1>3. ASSUME InUse(s, templates) # {} \/ \E u \in Tx : Trusting(u, s)'
      PROVE  Keeps(s)'
  <2>1. PICK ids \in SUBSET Rows :
           /\ Closed(ids, s, log) /\ ids \cap InUse(s, templates) # {}
           /\ \A u \in Tx : Trusting(u, s) => log[tx[u].entry].new \notin ids
    BY <1>3, TrustingBefore DEF Held, Keeps
  <2>2. \A u \in Tx : Trusting(u, s)' => log'[tx'[u].entry].new \notin ids
    BY <2>1, TrustingBefore
  <2> QED BY <1>1, <1>2, <2>1, <2>2, KeepsAfter
<1> QED
  BY <1>2, <1>3 DEF Held

(* A rollback that begins to trust its old template finds it active.       *)
LEMMA RequestTrusts ==
    ASSUME Base, NEW t \in Tx, Request(t), NEW s, NEW u \in Tx, Trusting(u, s)'
    PROVE  \/ Trusting(u, s) /\ log'[tx'[u].entry] = log[tx[u].entry]
           \/ \E i \in DOMAIN log :
                 /\ u = t /\ tx'[t].entry = i /\ log'[i] = log[i]
                 /\ log[i].kind = "refresh" /\ log[i].student = s /\ log[i].old \in InUse(s, templates)
<1>1. PICK kind, step, concerned, ids, seen, order, entry :
         /\ Begin(t, kind, step, concerned, seen, order, entry)
         /\ Starts(kind, step, concerned, ids, seen, order, entry)
  BY RequestEnters DEF Enters
<1>2. Itself(t, kind, step, concerned, seen, entry)
  BY <1>1, BeginsItself
<1>3. log' = log /\ Open(u)'
  BY <1>2 DEF Itself, Trusting, Is
<1>4. CASE u = t
  <2> DEFINE old == log[entry].old
  <2>1. /\ tx'[t].kind = kind /\ tx'[t].students = concerned /\ tx'[t].seen = seen /\ tx'[t].entry = entry
    BY <1>2 DEF Itself
  <2>2. kind = "rollback" /\ s \in concerned /\ old \in DOMAIN seen /\ seen[old].status = "active"
    BY <1>3, <1>4, <2>1 DEF Trusting, Is
  <2>3. /\ entry \in DOMAIN log /\ log[entry].kind = "refresh" /\ log[entry].student = s
        /\ old \in Rows /\ seen[old] \in Row
        /\ templates[old] = seen[old] /\ seen[old].student = s /\ seen[old].model = "arcface"
    BY <1>1, <2>2 DEF Starts
  <2>4. old \in InUse(s, templates)
    BY <2>2, <2>3, RowsExist DEF InUse, RowsOf
  <2> QED BY <1>3, <1>4, <2>1, <2>3, <2>4
<1>5. CASE u # t
  <2>1. Beside(u, concerned)
    BY <1>1, <1>3, <1>5, BeginsBeside
  <2> QED BY <1>3, <2>1 DEF Beside, Trusting, Is
<1> QED
  BY <1>4, <1>5

LEMMA RequestHolds ==
    ASSUME Base, NEW t \in Tx, Request(t), NEW s \in Students, Acyclic(s, log), Held(s)
    PROVE  Held(s)'
<1>1. templates' = templates /\ log' = log
  <2>1. PICK kind, step, concerned, ids, seen, order, entry :
           Begin(t, kind, step, concerned, seen, order, entry)
    BY RequestEnters DEF Enters
  <2> QED BY <2>1 DEF Begin
<1>2. InUse(s, templates') = InUse(s, templates) /\ InUse(s, templates)' = InUse(s, templates')
  BY <1>1 DEF InUse, RowsOf
<1>3. ASSUME InUse(s, templates) # {} \/ \E u \in Tx : Trusting(u, s)'
      PROVE  Keeps(s)'
  <2>1. PICK ids \in SUBSET Rows :
           /\ Closed(ids, s, log) /\ ids \cap InUse(s, templates) # {}
           /\ \A u \in Tx : Trusting(u, s) => log[tx[u].entry].new \notin ids
    BY <1>3, RequestTrusts DEF Held, Keeps
  <2>2. CASE \A u \in Tx : Trusting(u, s)' => log'[tx'[u].entry].new \notin ids
    BY <1>1, <1>2, <2>1, <2>2, KeepsAfter
  <2>3. CASE \E u \in Tx : Trusting(u, s)' /\ log'[tx'[u].entry].new \in ids
    <3>1. PICK i \in DOMAIN log :
             /\ tx'[t].entry = i /\ log[i].kind = "refresh" /\ log[i].student = s
             /\ log[i].old \in InUse(s, templates) /\ log[i].new \in ids
      BY <2>1, <2>3, RequestTrusts
    <3>2. PICK below \in SUBSET Rows :
             Closed(below, s, log) /\ log[i].old \in below /\ log[i].new \notin below
      BY <3>1 DEF Acyclic
    <3>3. Closed(ids \cap below, s, log)
      BY <2>1, <3>2 DEF Closed
    <3>4. log[i].old \in ids \cap below
      BY <2>1, <3>1, <3>2 DEF Closed
    <3>5. \A u \in Tx : Trusting(u, s)' => log'[tx'[u].entry].new \notin ids \cap below
      BY <2>1, <3>1, <3>2, RequestTrusts
    <3>6. ids \cap below \in SUBSET Rows /\ (ids \cap below) \cap InUse(s, templates') # {}
      BY <1>2, <3>1, <3>4
    <3> QED BY <1>1, <3>3, <3>5, <3>6, KeepsAfter
  <2> QED BY <2>2, <2>3
<1> QED
  BY <1>2, <1>3 DEF Held

(* What commits do to the templates in use.                                *)
LEMMA UseOfOthers ==
    ASSUME Base, NEW t \in Tx, Commit(t), NEW s \in Students, s \notin tx[t].students
    PROVE  InUse(s, templates') = InUse(s, templates)
BY CommitIsAboutItsStudents, AgreeingTables

LEMMA UseAfterEmbedding ==
    ASSUME Base, NEW t \in Tx, Commit(t), tx[t].kind = "embedding", NEW s
    PROVE  InUse(s, templates') = InUse(s, templates)
<1>1. Open(t) /\ Sound(tx[t], log, templates)
  BY DEF Commit, At, Base
<1>2. ASSUME NEW r \in DOMAIN tx[t].change
      PROVE  /\ r \in Rows /\ templates'[r] = tx[t].change[r] /\ tx[t].change[r].model = "lvface"
             /\ Exists(templates[r]) => templates[r].model = "lvface"
  <2>1. r \in Rows /\ tx[t].change[r] \in Row \cup {Deleted} /\ tx[t].change[r].model = "lvface"
    BY <1>1, OpenType DEF Base, Sound, Writes
  <2>2. tx[t].change[r] # Deleted
    BY <1>1 DEF Sound, Writes
  <2>3. Exists(templates[r]) => Kin(tx[t].change[r], templates[r])
    BY <1>1, <2>1, <2>2, RowsExist DEF Sound, Owned
  <2> QED BY <2>1, <2>3, RowsAfterCommit DEF Kin
<1>3. \A r \in Rows \ DOMAIN tx[t].change : templates'[r] = templates[r]
  BY RowsAfterCommit
<1>4. \A r \in Rows : r \in InUse(s, templates') <=> r \in InUse(s, templates)
  BY <1>2, <1>3 DEF InUse, RowsOf
<1> QED
  BY <1>4 DEF InUse, RowsOf

LEMMA UseAfterRefresh ==
    ASSUME Base, NEW t \in Tx, Commit(t), NEW q \in Students, NEW b \in Rows, NEW r \in Rows, Refreshed(t, q, b, r)
    PROVE  InUse(q, templates') = (InUse(q, templates) \ {b}) \cup {r}
<1>1. /\ r # b /\ templates'[r] = tx[t].seen[b] /\ templates'[r] \in Row /\ templates'[b].status = "backup"
      /\ \A p \in Rows \ {b, r} : templates'[p] = templates[p]
  BY RefreshedRows
<1>2. tx[t].seen[b].student = q /\ tx[t].seen[b].model = "arcface" /\ tx[t].seen[b].status = "active"
      /\ templates[r] = Unused
  BY DEF Refreshed
<1>3. r \in InUse(q, templates')
  BY <1>1, <1>2, RowsExist DEF InUse, RowsOf
<1>4. b \notin InUse(q, templates')
  BY <1>1 DEF InUse
<1>5. \A p \in Rows \ {b, r} : p \in InUse(q, templates') <=> p \in InUse(q, templates)
  BY <1>1 DEF InUse, RowsOf
<1>6. r \notin InUse(q, templates)
  BY <1>2, RowsExist DEF InUse, RowsOf
<1> QED
  BY <1>3, <1>4, <1>5, <1>6 DEF InUse, RowsOf

(* A rollback that read both templates leaves the old one in use unless it *)
(* trusts that it is, and the new one not unless it was not when read.     *)
LEMMA UseAfterRollback ==
    ASSUME Base, NEW t \in Tx, Commit(t), tx[t].kind = "rollback", NEW s \in tx[t].students,
           NEW i, i = tx[t].entry,
           DOMAIN tx[t].seen = {log[i].old, log[i].new}
    PROVE  /\ i \in DOMAIN log /\ log[i].kind = "refresh" /\ log[i].student = s
           /\ log[i].old \in Rows /\ log[i].new \in Rows /\ log[i].old # log[i].new
           /\ \A p \in Rows \ {log[i].old, log[i].new} :
                 p \in InUse(s, templates') <=> p \in InUse(s, templates)
           /\ log[i].old \in InUse(s, templates) \/ ~Trusting(t, s) => log[i].old \in InUse(s, templates')
           /\ log[i].new \in InUse(s, templates') =>
                 templates'[log[i].new] = templates[log[i].new] /\ tx[t].seen[log[i].new].status = "backup"
<1> DEFINE old == log[i].old
           new == log[i].new
<1>1. /\ Open(t) /\ At(t, "commit") /\ tx[t].step = "commit" /\ Sound(tx[t], log, templates)
      /\ DOMAIN tx[t].change \subseteq DOMAIN tx[t].seen
  BY DEF Commit, At, Base, Sound, Writes
<1>2. /\ i \in DOMAIN log /\ log[i].kind = "refresh" /\ tx[t].students = {log[i].student}
      /\ \A r \in {old, new} :
            (IF r = old THEN "active" ELSE "backup")
              = IF r \in DOMAIN tx[t].change THEN tx[t].change[r].status ELSE tx[t].seen[r].status
  BY <1>1 DEF Sound, RollsBack
<1>3. old \in Rows /\ new \in Rows /\ old # new /\ log[i].student = s
  BY <1>2, LoggedRows DEF Base, Traced
<1>4. \A r \in DOMAIN tx[t].change :
         /\ tx[t].change[r] \in Row /\ tx[t].change[r].model = "arcface" /\ tx[t].change[r].student = s
  <2>1. \A r \in DOMAIN tx[t].change : tx[t].change[r] \in Row /\ tx[t].change[r].model = "arcface"
    BY <1>1, ArcfaceOnly
  <2> QED BY <1>1, <1>2, <1>3, <2>1, RowsExist DEF Sound, Owned
<1>5. \A p \in Rows : templates'[p] = IF p \in DOMAIN tx[t].change THEN tx[t].change[p] ELSE templates[p]
  BY RowsAfterCommit
<1>6. \A p \in Rows \ {old, new} : p \in InUse(s, templates') <=> p \in InUse(s, templates)
  BY <1>1, <1>5 DEF InUse, RowsOf
<1>7. old \in DOMAIN tx[t].change => old \in InUse(s, templates')
  BY <1>2, <1>3, <1>4, <1>5, RowsExist, ZenonT(60) DEF InUse, RowsOf
<1>8. old \notin DOMAIN tx[t].change => Trusting(t, s) /\ templates'[old] = templates[old]
  BY <1>1, <1>2, <1>3, <1>5 DEF Trusting, Is
<1>9. old \in InUse(s, templates) \/ ~Trusting(t, s) => old \in InUse(s, templates')
  BY <1>3, <1>7, <1>8 DEF InUse, RowsOf
<1>10. new \in InUse(s, templates') => templates'[new] = templates[new] /\ tx[t].seen[new].status = "backup"
  BY <1>2, <1>3, <1>5 DEF InUse
<1> QED
  BY <1>2, <1>3, <1>6, <1>9, <1>10

(* A commit of a refresh or a rollback keeps an active template, and so    *)
(* does one that changes none of the student's.                            *)
LEMMA SameUseKeeps ==
    ASSUME Base, NEW t \in Tx, Commit(t), NEW s \in Students, Keeps(s),
           InUse(s, templates') = InUse(s, templates), s \notin tx[t].students \/ tx[t].kind # "refresh"
    PROVE  Keeps(s)'
<1>1. PICK ids \in SUBSET Rows :
         /\ Closed(ids, s, log) /\ ids \cap InUse(s, templates) # {}
         /\ \A u \in Tx : Trusting(u, s) => log[tx[u].entry].new \notin ids
  BY DEF Keeps
<1>2. \A u \in Tx : Trusting(u, s)' => log'[tx'[u].entry].new \notin ids
  BY <1>1, TrustingBefore DEF Statement
<1>3. Closed(ids, s, log')
  <2>1. CASE tx[t].kind # "refresh"
    BY <1>1, <2>1, ClosedAfterCommit
  <2>2. CASE tx[t].kind = "refresh"
    <3>1. PICK q \in Students, b \in Rows, r \in Rows : Refreshed(t, q, b, r) /\ Grown(RefreshEntry(q, b, r))
      BY <2>2, LogAfterCommit
    <3>2. q # s
      BY <2>2, <3>1 DEF Refreshed
    <3> QED BY <1>1, <3>1, <3>2 DEF Closed, Grown, RefreshEntry
  <2> QED BY <2>1, <2>2
<1> QED
  BY <1>1, <1>2, <1>3, KeepsAfter

LEMMA RefreshKeeps ==
    ASSUME Base, NEW t \in Tx, Commit(t), tx[t].kind = "refresh", NEW s \in tx[t].students, Held(s)
    PROVE  Keeps(s)'
<1>1. PICK q \in Students, b \in Rows, r \in Rows : Refreshed(t, q, b, r) /\ Grown(RefreshEntry(q, b, r))
  BY LogAfterCommit
<1>2. q = s /\ templates[r] = Unused /\ r # b
  BY <1>1 DEF Refreshed
<1>3. InUse(s, templates') = (InUse(s, templates) \ {b}) \cup {r}
  BY <1>1, <1>2, UseAfterRefresh
<1>4. PICK ids \in SUBSET Rows :
         /\ Closed(ids, s, log) /\ WithNew(ids, b, r) \cap InUse(s, templates') # {}
         /\ \A u \in Tx : Trusting(u, s) => log[tx[u].entry].new \notin ids
  <2>1. CASE Keeps(s)
    <3>1. PICK ids \in SUBSET Rows :
             /\ Closed(ids, s, log) /\ ids \cap InUse(s, templates) # {}
             /\ \A u \in Tx : Trusting(u, s) => log[tx[u].entry].new \notin ids
      BY <2>1 DEF Keeps
    <3>2. PICK x : x \in ids /\ x \in InUse(s, templates)
      BY <3>1
    <3>3. x # r
      BY <1>2, <3>2, RowsExist DEF InUse, RowsOf
    <3>4. WithNew(ids, b, r) \cap InUse(s, templates') # {}
      BY <1>2, <1>3, <3>2, <3>3 DEF WithNew
    <3> QED BY <3>1, <3>4
  <2>2. CASE ~Keeps(s)
    <3>1. Closed(Rows, s, log)
      BY LoggedRows DEF Closed
    <3>2. \A u \in Tx : ~Trusting(u, s)
      BY <2>2 DEF Held
    <3>3. WithNew(Rows, b, r) \cap InUse(s, templates') # {}
      BY <1>3 DEF WithNew
    <3> QED BY <3>1, <3>2, <3>3
  <2> QED BY <2>1, <2>2
<1>5. WithNew(ids, b, r) \in SUBSET Rows /\ Closed(WithNew(ids, b, r), s, log')
  BY <1>1, <1>4, ClosedAfterRefresh
<1>6. ASSUME NEW u \in Tx, Trusting(u, s)'
      PROVE  log'[tx'[u].entry].new \notin WithNew(ids, b, r)
  <2>1. Trusting(u, s) /\ log'[tx'[u].entry] = log[tx[u].entry]
    BY <1>6, TrustingBefore DEF Statement
  <2>2. log[tx[u].entry].new # r
    BY <1>2, <2>1, TrustedEntry, LoggedRows
  <2> QED BY <1>4, <2>1, <2>2 DEF WithNew
<1> QED
  BY <1>4, <1>5, <1>6, KeepsAfter

LEMMA RollbackKeeps ==
    ASSUME Base, NEW t \in Tx, Commit(t), tx[t].kind = "rollback", NEW s \in tx[t].students,
           Held(s), InPairs(s), Keeps(s) \/ InUse(s, templates') # {} \/ \E u \in Tx : Trusting(u, s)'
    PROVE  Keeps(s)'
<1> DEFINE i == tx[t].entry
<1>1. Open(t) /\ s \in Students
  BY OpenType DEF Commit, At, Base
<1>2. CASE DOMAIN tx[t].seen = {}
  <2>1. DOMAIN tx[t].change = {}
    BY <1>1, <1>2 DEF Base, Sound, Writes
  <2>2. \A p \in Rows : templates'[p] = templates[p]
    BY <2>1, RowsAfterCommit
  <2>3. InUse(s, templates') = InUse(s, templates)
    BY <2>2 DEF InUse, RowsOf
  <2>4. Keeps(s)
    BY <2>3, TrustingBefore DEF Statement, Held
  <2> QED BY <1>1, <2>3, <2>4, SameUseKeeps
<1>3. CASE DOMAIN tx[t].seen = {log[i].old, log[i].new}
  <2>0. /\ i \in DOMAIN log /\ log[i].kind = "refresh" /\ log[i].student = s
        /\ log[i].old \in Rows /\ log[i].new \in Rows
        /\ \A p \in Rows \ {log[i].old, log[i].new} :
              p \in InUse(s, templates') <=> p \in InUse(s, templates)
        /\ log[i].old \in InUse(s, templates) \/ ~Trusting(t, s) => log[i].old \in InUse(s, templates')
    BY <1>3, UseAfterRollback
  <2>1. PICK ids \in SUBSET Rows :
           /\ Closed(ids, s, log) /\ ids \cap InUse(s, templates') # {}
           /\ \A u \in Tx : Trusting(u, s) => log[tx[u].entry].new \notin ids
    <3>1. CASE Keeps(s)
      <4>1. PICK ids \in SUBSET Rows :
               /\ Closed(ids, s, log) /\ ids \cap InUse(s, templates) # {}
               /\ \A u \in Tx : Trusting(u, s) => log[tx[u].entry].new \notin ids
        BY <3>1 DEF Keeps
      <4>2. PICK x \in Rows : x \in ids /\ x \in InUse(s, templates)
        BY <4>1
      <4>3. CASE x # log[i].new
        BY <2>0, <4>1, <4>2, <4>3
      <4>4. CASE x = log[i].new
        <5>1. log[i].old \in ids /\ ~Trusting(t, s)
          BY <2>0, <4>1, <4>2, <4>4 DEF Closed
        <5> QED BY <2>0, <4>1, <5>1
      <4> QED BY <4>3, <4>4
    <3>2. CASE ~Keeps(s)
      <4>1. Closed(Rows, s, log)
        BY LoggedRows DEF Closed
      <4>2. \A u \in Tx : ~Trusting(u, s)
        BY <3>2 DEF Held
      <4>3. log[i].old \in InUse(s, templates')
        BY <2>0, <4>2
      <4> QED BY <2>0, <4>1, <4>2, <4>3
    <3> QED BY <3>1, <3>2
  <2>2. \A u \in Tx : Trusting(u, s)' => log'[tx'[u].entry].new \notin ids
    BY <2>1, TrustingBefore DEF Statement
  <2>3. Closed(ids, s, log')
    BY <2>1, ClosedAfterCommit
  <2> QED BY <2>1, <2>2, <2>3, KeepsAfter
<1>4. DOMAIN tx[t].seen \in {{}, {log[i].old, log[i].new}}
  BY <1>1 DEF InPairs, Is
<1> QED
  BY <1>2, <1>3, <1>4

LEMMA CommitHolds ==
    ASSUME Base, Apart, Knowing, NEW t \in Tx, Commit(t), NEW s \in Students \ demoted', Held(s), InPairs(s)
    PROVE  Held(s)'
<1>1. InUse(s, templates)' = InUse(s, templates')
  BY DEF InUse, RowsOf
<1> SUFFICES ASSUME InUse(s, templates') # {} \/ \E u \in Tx : Trusting(u, s)'
             PROVE  Keeps(s)'
  BY <1>1 DEF Held
<1>2. Open(t) /\ tx[t].kind \in Kinds
  BY OpenType DEF Commit, At, Base, Transaction
<1>3. CASE s \notin tx[t].students \/ tx[t].kind = "embedding"
  <2>1. InUse(s, templates') = InUse(s, templates)
    BY <1>3, UseOfOthers, UseAfterEmbedding
  <2>2. Keeps(s)
    BY <2>1, TrustingBefore DEF Statement, Held
  <2> QED BY <1>3, <2>1, <2>2, SameUseKeeps
<1>4. CASE s \in tx[t].students /\ tx[t].kind \in {"upload", "erase", "purge"}
  <2>1. tx[t].alone
    BY <1>4, CommitDemotes
  <2>2. \A u \in Tx : ~Trusting(u, s)'
    <3>1. SUFFICES ASSUME NEW u \in Tx, Trusting(u, s)'
                   PROVE  FALSE
      OBVIOUS
    <3>2. Trusting(u, s) /\ u # t /\ Open(u)
      BY <3>1, TrustingBefore DEF Statement
    <3> QED BY <1>2, <1>4, <2>1, <3>2 DEF Apart, Trusting
  <2>3. tx[t].kind = "upload"
    BY <1>4, <2>1, <2>2, RowsGo DEF InUse
  <2>4. Closed(Rows, s, log')
    BY <2>3, ClosedAfterCommit, LoggedRows DEF Closed
  <2>5. Rows \cap InUse(s, templates') # {}
    BY <2>2 DEF InUse, RowsOf
  <2> QED BY <2>2, <2>4, <2>5, KeepsAfter
<1>5. CASE s \in tx[t].students /\ tx[t].kind \in {"refresh", "rollback"}
  BY <1>5, RefreshKeeps, RollbackKeeps
<1> QED
  BY <1>2, <1>3, <1>4, <1>5, CommitDemotes

(* The step of RefreshKeepsOneActive.                                      *)
KeepsOne(s) ==
    (\E r \in RowsOf(s, templates') : templates'[r].model = "arcface") /\ InUse(s, templates) # {}
        => InUse(s, templates') # {}

LEMMA CommitKeepsOne ==
    ASSUME Base, Apart, Knowing, NEW t \in Tx, Commit(t), NEW s \in Students \ demoted', Held(s), InPairs(s)
    PROVE  KeepsOne(s)
<1> SUFFICES ASSUME NEW r \in RowsOf(s, templates'), templates'[r].model = "arcface", InUse(s, templates) # {}
             PROVE  InUse(s, templates') # {}
  BY DEF KeepsOne
<1>1. Keeps(s)' => InUse(s, templates') # {}
  BY DEF Keeps, InUse, RowsOf
<1>2. /\ Open(t) /\ tx[t].kind \in Kinds /\ templates' = Visible(t) /\ At(t, "commit")
  BY OpenType DEF Commit, At, Base, Transaction
<1>3. CASE s \notin tx[t].students \/ tx[t].kind = "embedding"
  BY <1>3, UseOfOthers, UseAfterEmbedding
<1>4. CASE s \in tx[t].students /\ tx[t].kind \in {"upload", "erase", "purge"}
  <2>1. tx[t].alone
    BY <1>4, CommitDemotes
  <2>2. tx[t].kind = "upload"
    BY <1>4, <2>1, RowsGo
  <2>3. KnowsFor(t, s)
    BY <1>2, <1>4, <2>1 DEF Knowing
  <2> QED BY <1>2, <2>2, <2>3 DEF KnowsFor, Is
<1>5. CASE s \in tx[t].students /\ tx[t].kind \in {"refresh", "rollback"}
  <2>1. Keeps(s)
    BY DEF Held
  <2> QED BY <1>1, <1>5, <2>1, RefreshKeeps, RollbackKeeps
<1> QED
  BY <1>2, <1>3, <1>4, <1>5, CommitDemotes

LEMMA InitKeepInv ==
    ASSUME Init
    PROVE  KeepInv
<1>1. Base
  BY InitBase
<1>2. \A t \in Tx : ~Open(t)
  BY DEF Init, Open
<1>3. Apart /\ Knowing
  BY <1>2 DEF Apart, Knowing
<1>4. \A s \in Students : Acyclic(s, log)
  BY InitAcyclic
<1>5. ASSUME NEW s \in Students \ demoted
      PROVE  InPairs(s)
  <2>1. \A i \in DOMAIN log :
           log[i].student = s => (Exists(templates[log[i].old]) <=> Exists(templates[log[i].new]))
    BY <1>5 DEF Init, Exists
  <2> QED BY <1>2, <2>1 DEF InPairs, Is
<1>6. ASSUME NEW s \in Students
      PROVE  Held(s)
  <2>1. \A t \in Tx : ~Trusting(t, s)
    BY <1>2 DEF Trusting, Is
  <2>2. Closed(Rows, s, log)
    BY <1>1, LoggedRows DEF Closed
  <2>3. InUse(s, templates) # {} => Rows \cap InUse(s, templates) # {}
    BY DEF InUse, RowsOf
  <2> QED BY <2>1, <2>2, <2>3 DEF Held, Keeps
<1> QED
  BY <1>1, <1>3, <1>4, <1>5, <1>6 DEF KeepInv

LEMMA NextKeepsKeepInv ==
    ASSUME KeepInv, [Next]_vars
    PROVE  KeepInv'
<1>0. Base /\ Apart /\ Knowing
  BY DEF KeepInv
<1>1. Base' /\ Apart' /\ Knowing'
  BY <1>0, NextKeepsBase, NextKeepsApart, NextKeepsKnowing
<1>2. ASSUME NEW t \in Tx, Commit(t)
      PROVE  /\ (\A s \in Students : Acyclic(s, log))'
             /\ (\A s \in Students \ demoted : InPairs(s) /\ Held(s))'
  <2>1. \A s \in Students : Acyclic(s, log')
    BY <1>0, <1>2, CommitKeepsAcyclic DEF KeepInv
  <2>2. (\A s \in Students : Acyclic(s, log))'
    BY <2>1 DEF Acyclic, Closed
  <2>3. ASSUME NEW s \in Students \ demoted'
        PROVE  InPairs(s)' /\ Held(s)'
    <3>1. InPairs(s) /\ Held(s)
      BY <1>0, <1>2, CommitDemotes DEF KeepInv
    <3> QED BY <1>0, <1>2, <3>1, CommitKeepsPairs, CommitHolds
  <2> QED BY <2>2, <2>3
<1>3. ASSUME NEW t \in Tx, Request(t) \/ (Statement(t) /\ ~Commit(t))
      PROVE  /\ (\A s \in Students : Acyclic(s, log))'
             /\ (\A s \in Students \ demoted : InPairs(s) /\ Held(s))'
  <2>1. log' = log /\ demoted' = demoted
    <3>1. CASE Request(t)
      <4>1. PICK kind, step, concerned, ids, seen, order, entry :
               Begin(t, kind, step, concerned, seen, order, entry)
        BY <1>0, <3>1, RequestEnters DEF Enters
      <4> QED BY <4>1 DEF Begin
    <3>2. CASE Statement(t) /\ ~Commit(t)
      BY <1>0, <3>2, StatementContinues DEF Continues, Others
    <3> QED BY <1>3, <3>1, <3>2
  <2>2. (\A s \in Students : Acyclic(s, log))'
    BY <2>1 DEF KeepInv, Acyclic, Closed
  <2>3. ASSUME NEW s \in Students \ demoted'
        PROVE  InPairs(s)' /\ Held(s)'
    <3>1. InPairs(s) /\ Held(s) /\ Acyclic(s, log)
      BY <2>1 DEF KeepInv
    <3> QED BY <1>0, <1>3, <3>1, RequestKeepsPairs, RequestHolds, StatementKeepsPairs, StatementHolds
  <2> QED BY <2>2, <2>3
<1>4. CASE UNCHANGED <<templates, log, tx, demoted>>
  <2>1. (\A s \in Students : Acyclic(s, log))'
    BY <1>4 DEF KeepInv, Acyclic, Closed
  <2>2. ASSUME NEW s \in Students \ demoted'
        PROVE  InPairs(s)' /\ Held(s)'
    <3>1. InPairs(s) /\ Held(s)
      BY <1>4 DEF KeepInv
    <3>2. InPairs(s)'
      BY <1>4, <3>1 DEF InPairs, Is, Open
    <3>3. \A u \in Tx : Trusting(u, s)' = Trusting(u, s)
      BY <1>4 DEF Trusting, Is, Open
    <3>4. InUse(s, templates)' = InUse(s, templates)
      BY <1>4 DEF InUse, RowsOf
    <3>5. \A ids : Closed(ids, s, log)' = Closed(ids, s, log)
      BY <1>4 DEF Closed
    <3>6. Keeps(s)' <=> Keeps(s)
      BY <1>4, <3>3, <3>4, <3>5 DEF Keeps
    <3> QED BY <3>1, <3>2, <3>3, <3>4, <3>6 DEF Held
  <2> QED BY <1>1, <2>1, <2>2 DEF KeepInv
<1>5. CASE \E r \in Rows : Age(r)
  BY <1>4, <1>5 DEF Age
<1> QED
  BY <1>1, <1>2, <1>3, <1>4, <1>5 DEF KeepInv, Next, vars

LEMMA KeepInvHolds == Spec => []KeepInv
<1> QED
  BY InitKeepInv, NextKeepsKeepInv, PTL DEF Spec

LEMMA NextKeepsOne ==
    ASSUME KeepInv, Next, NEW s \in Students \ demoted'
    PROVE  KeepsOne(s)
<1>0. Base /\ Apart /\ Knowing
  BY DEF KeepInv
<1>1. ASSUME NEW t \in Tx, Commit(t)
      PROVE  KeepsOne(s)
  BY <1>0, <1>1, CommitDemotes, CommitKeepsOne DEF KeepInv
<1>2. CASE templates' = templates
  BY <1>2 DEF KeepsOne, InUse, RowsOf
<1>3. ASSUME NEW t \in Tx, Request(t)
      PROVE  templates' = templates
  <2>1. PICK kind, step, concerned, ids, seen, order, entry :
           Begin(t, kind, step, concerned, seen, order, entry)
    BY <1>0, <1>3, RequestEnters DEF Enters
  <2> QED BY <2>1 DEF Begin
<1>4. ASSUME NEW t \in Tx, Statement(t), ~Commit(t)
      PROVE  templates' = templates
  BY <1>0, <1>4, StatementContinues DEF Continues, Others
<1> QED
  BY <1>1, <1>2, <1>3, <1>4 DEF Next, Age

(* Refreshes and rollbacks, however they overlap, never take the last of a *)
(* student's active arcface templates out of use.                          *)
THEOREM RefreshesKeepOneActive == Spec => RefreshKeepsOneActive
<1>1. KeepInv /\ [Next]_vars =>
        [\A s \in Students \ demoted' :
            (\E r \in RowsOf(s, templates') : templates'[r].model = "arcface")
            /\ InUse(s, templates) # {} => InUse(s, templates') # {}]_vars
  BY NextKeepsOne DEF KeepsOne
<1> QED
  BY <1>1, KeepInvHolds, PTL DEF Spec, RefreshKeepsOneActive

-----------------------------------------------------------------------------
(* Refreshes exchange templates.                                           *)

LEMMA Exchanged ==
    ASSUME NEW S, IsFiniteSet(S), NEW out \in S, NEW into, NEW T, T \subseteq (S \ {out}) \cup {into}
    PROVE  Cardinality(T) <= Cardinality(S)
<1>1. IsFiniteSet(S \ {out}) /\ Cardinality(S \ {out}) = Cardinality(S) - 1
  BY FS_RemoveElement
<1>2. /\ IsFiniteSet((S \ {out}) \cup {into})
      /\ Cardinality((S \ {out}) \cup {into}) <= Cardinality(S \ {out}) + 1
  <2>1. Cardinality(S \ {out}) \in Nat
    BY <1>1, FS_CardinalityType
  <2> QED BY <1>1, <2>1, FS_AddElement, SMTT(40)
<1>3. Cardinality(T) <= Cardinality((S \ {out}) \cup {into})
  BY <1>2, FS_Subset
<1>4. /\ Cardinality(T) \in Nat /\ Cardinality((S \ {out}) \cup {into}) \in Nat
      /\ Cardinality(S \ {out}) \in Nat /\ Cardinality(S) \in Nat
  BY <1>1, <1>2, FS_CardinalityType, FS_Subset
<1> QED
  BY <1>1, <1>2, <1>3, <1>4

LEMMA NoMore ==
    ASSUME NEW s, NEW T, T \subseteq InUse(s, templates)
    PROVE  Cardinality(T) <= Cardinality(InUse(s, templates))
<1>1. IsFiniteSet(InUse(s, templates))
  BY RowsAssumption, FS_Subset DEF InUse, RowsOf
<1> QED
  BY <1>1, FS_Subset

(* Entries that stand, before and after.                                   *)
LEMMA StoodBefore ==
    ASSUME Base, NEW t \in Tx, Commit(t), NEW j \in DOMAIN log, Stands(j, log')
    PROVE  Stands(j, log) /\ log'[j] = log[j]
BY LogAfterCommit DEF Stands, Grown

LEMMA StillStands ==
    ASSUME Base, NEW t \in Tx, Commit(t), NEW k \in DOMAIN log, Stands(k, log),
           tx[t].kind = "rollback" => tx[t].entry # k
    PROVE  Stands(k, log') /\ log'[k] = log[k]
<1>1. k # 0
  BY DEF Base, TypeOK
<1>2. CASE log' = log
  BY <1>2
<1>3. ASSUME NEW e, Grown(e), e.of # k
      PROVE  Stands(k, log') /\ log'[k] = log[k]
  BY <1>3 DEF Stands, Grown
<1> QED
  BY <1>1, <1>2, <1>3, LogAfterCommit DEF RefreshEntry, RollbackEntry

(* A standing refresh of s whose result is gone, in use or was refreshed.  *)
OrderedAt(j, s, table, entries) ==
    \/ ~Exists(table[entries[j].new]) \/ entries[j].new \in InUse(s, table)
    \/ \E k \in DOMAIN entries : Follows(j, k, entries)

LEMMA OrderedInUse ==
    ASSUME Base, NEW s \in Students
    PROVE  InOrder(s, templates, log) <=>
             \A j \in DOMAIN log : log[j].student = s /\ Stands(j, log) => OrderedAt(j, s, templates, log)
<1>1. \A j \in DOMAIN log :
         /\ log[j].new \in Rows
         /\ Exists(templates[log[j].new]) =>
               templates[log[j].new].student = log[j].student /\ templates[log[j].new].model = "arcface"
  BY LoggedRows DEF Base, Traced
<1> QED
  BY <1>1 DEF InOrder, OrderedAt, InUse, RowsOf

Exchanges(s) ==
    /\ Cardinality(InUse(s, templates')) <= Cardinality(InUse(s, templates))
    /\ \A j \in DOMAIN log' : log'[j].student = s /\ Stands(j, log') => OrderedAt(j, s, templates', log')

(* A commit that leaves the templates in use, and rolls none of the        *)
(* student's refreshes back.                                               *)
LEMMA SameUseExchanges ==
    ASSUME Base, NEW t \in Tx, Commit(t), NEW s \in Students, InOrder(s, templates, log),
           InUse(s, templates') = InUse(s, templates),
           s \notin tx[t].students \/ tx[t].kind \notin {"refresh", "rollback"}
    PROVE  Exchanges(s)
<1>1. Cardinality(InUse(s, templates')) <= Cardinality(InUse(s, templates))
  BY NoMore
<1>2. ASSUME NEW j \in DOMAIN log', log'[j].student = s, Stands(j, log')
      PROVE  OrderedAt(j, s, templates', log')
  <2>1. j \in DOMAIN log
    <3>1. ASSUME NEW q \in Students, NEW b \in Rows, NEW r \in Rows, tx[t].kind = "refresh",
                 Refreshed(t, q, b, r), Grown(RefreshEntry(q, b, r))
          PROVE  j \in DOMAIN log
      <4>1. q # s
        BY <3>1 DEF Refreshed
      <4> QED BY <1>2, <3>1, <4>1 DEF Grown, RefreshEntry
    <3>2. ASSUME Grown(RollbackEntry(tx[t].entry))
          PROVE  j \in DOMAIN log
      BY <1>2, <3>2 DEF Grown, RollbackEntry, Stands
    <3> QED BY <1>2, <3>1, <3>2, LogAfterCommit
  <2>2. /\ Stands(j, log) /\ log'[j] = log[j] /\ log[j].student = s
        /\ log[j].new \in Rows /\ templates[log[j].new] # Unused
        /\ Exists(templates[log[j].new]) => templates[log[j].new].student = s
    BY <1>2, <2>1, StoodBefore, LoggedRows DEF Base, Traced
  <2>3. OrderedAt(j, s, templates, log)
    BY <2>1, <2>2, OrderedInUse
  <2>4. CASE ~Exists(templates[log[j].new]) \/ log[j].new \in InUse(s, templates)
    BY <2>2, <2>4, RowsAfterCommit DEF OrderedAt
  <2>5. ASSUME NEW k \in DOMAIN log, Follows(j, k, log), Exists(templates[log[j].new])
        PROVE  OrderedAt(j, s, templates', log')
    <3>1. Stands(k, log) /\ log[k].old = log[j].new /\ log[k].student = s
      BY <2>2, <2>5 DEF Follows, Base, Traced
    <3>2. tx[t].kind = "rollback" => tx[t].entry # k
      <4>1. tx[t].kind = "rollback" => tx[t].students = {log[tx[t].entry].student}
        BY DEF Commit, At, Base, Sound, RollsBack
      <4> QED BY <3>1, <4>1
    <3>3. Stands(k, log') /\ log'[k] = log[k]
      BY <3>1, <3>2, StillStands
    <3>4. k \in DOMAIN log'
      BY <2>5, LogAfterCommit DEF Grown
    <3> QED BY <2>2, <3>1, <3>3, <3>4 DEF OrderedAt, Follows
  <2> QED BY <2>3, <2>4, <2>5 DEF OrderedAt
<1> QED
  BY <1>1, <1>2 DEF Exchanges

LEMMA UseAfterUpload ==
    ASSUME Base, NEW t \in Tx, Commit(t), tx[t].kind = "upload", ~Reshuffles(t), NEW s
    PROVE  InUse(s, templates') = InUse(s, templates)
<1>1. Open(t) /\ Sound(tx[t], log, templates)
  BY DEF Commit, At, Base
<1>2. ASSUME NEW r \in DOMAIN tx[t].change
      PROVE  /\ r \in Rows /\ templates'[r] = tx[t].change[r] /\ tx[t].change[r].model # "arcface"
             /\ Exists(templates[r]) => templates[r].model # "arcface"
  <2>1. r \in Rows /\ tx[t].change[r] \in Row
    BY <1>1, OpenType DEF Base, Sound, Writes
  <2>2. tx[t].change[r].model # "arcface"
    BY <1>1 DEF Reshuffles, Is
  <2>3. Exists(templates[r]) => Kin(tx[t].change[r], templates[r])
    BY <1>1, <2>1, RowsExist DEF Sound, Owned
  <2> QED BY <2>1, <2>2, <2>3, RowsAfterCommit DEF Kin
<1>3. \A r \in Rows \ DOMAIN tx[t].change : templates'[r] = templates[r]
  BY RowsAfterCommit
<1>4. \A r \in Rows : r \in InUse(s, templates') <=> r \in InUse(s, templates)
  BY <1>2, <1>3 DEF InUse, RowsOf
<1> QED
  BY <1>4 DEF InUse, RowsOf

LEMMA DeletionExchanges ==
    ASSUME Base, Knowing, NEW t \in Tx, Commit(t), tx[t].kind \in {"erase", "purge"}, tx[t].alone,
           NEW s \in tx[t].students
    PROVE  Exchanges(s)
<1>1. RowsOf(s, templates') = {} /\ log' = log
  BY RowsGo, LogAfterCommit
<1>2. Cardinality(InUse(s, templates')) <= Cardinality(InUse(s, templates))
  BY <1>1, NoMore DEF InUse
<1>3. ASSUME NEW j \in DOMAIN log, log[j].student = s
      PROVE  ~Exists(templates'[log[j].new])
  <2>1. /\ log[j].new \in Rows /\ templates[log[j].new] # Unused
        /\ Exists(templates[log[j].new]) => templates[log[j].new].student = s
    BY <1>3, LoggedRows DEF Base, Traced
  <2> QED BY <1>1, <2>1, RowsAfterCommit DEF RowsOf, Kin
<1> QED
  BY <1>1, <1>2, <1>3 DEF Exchanges, OrderedAt

LEMMA UseIsFinite ==
    ASSUME NEW s, NEW table
    PROVE  IsFiniteSet(InUse(s, table))
BY RowsAssumption, FS_Subset DEF InUse, RowsOf

LEMMA RefreshExchanges ==
    ASSUME Base, Knowing, NEW t \in Tx, Commit(t), tx[t].kind = "refresh", tx[t].alone,
           NEW s \in tx[t].students, s \in Students, InOrder(s, templates, log)
    PROVE  Exchanges(s)
<1>1. PICK q \in Students, b \in Rows, r \in Rows : Refreshed(t, q, b, r) /\ Grown(RefreshEntry(q, b, r))
  BY LogAfterCommit
<1>2. /\ q = s /\ templates[r] = Unused /\ r # b /\ DOMAIN tx[t].seen = {b}
      /\ tx[t].seen[b].student = s /\ tx[t].seen[b].model = "arcface" /\ tx[t].seen[b].status = "active"
  BY <1>1 DEF Refreshed
<1>3. InUse(s, templates') = (InUse(s, templates) \ {b}) \cup {r}
  BY <1>1, <1>2, UseAfterRefresh
<1>4. b \in InUse(s, templates)
  <2>1. Open(t) /\ KnowsFor(t, s)
    BY DEF Commit, At, Knowing
  <2>2. templates[b] = tx[t].seen[b] /\ tx[t].seen[b] \in Row
    BY <1>2, <2>1, OpenType DEF KnowsFor, Is, Base
  <2> QED BY <1>2, <2>2, RowsExist DEF InUse, RowsOf
<1>5. Cardinality(InUse(s, templates')) <= Cardinality(InUse(s, templates))
  BY <1>3, <1>4, UseIsFinite, Exchanged
<1> DEFINE n == Len(log) + 1
<1>6. /\ DOMAIN log' = DOMAIN log \cup {n} /\ n \notin DOMAIN log /\ log'[n] = RefreshEntry(s, b, r)
      /\ \A j \in DOMAIN log : log'[j] = log[j]
  BY <1>1, <1>2 DEF Grown
<1>7. Stands(n, log')
  <2>1. \A j \in DOMAIN log : log[j].of < j /\ j \in 1 .. Len(log) /\ log[j].of \in Nat
    BY LoggedRows DEF Base, TypeOK
  <2>2. Len(log) \in Nat
    BY <1>1 DEF Grown
  <2>3. \A j \in DOMAIN log : log[j].of # n
    BY <2>1, <2>2
  <2> QED BY <1>6, <2>2, <2>3 DEF Stands, RefreshEntry
<1> HIDE DEF n
<1>8. ASSUME NEW j \in DOMAIN log', log'[j].student = s, Stands(j, log')
      PROVE  OrderedAt(j, s, templates', log')
  <2>1. CASE j = n
    BY <1>3, <1>6, <2>1 DEF OrderedAt, RefreshEntry
  <2>2. CASE j # n
    <3>1. /\ j \in DOMAIN log /\ Stands(j, log) /\ log'[j] = log[j] /\ log[j].student = s
          /\ log[j].new \in Rows /\ templates[log[j].new] # Unused
      BY <1>6, <1>8, <2>2, StoodBefore, LoggedRows
    <3>2. OrderedAt(j, s, templates, log)
      BY <3>1, OrderedInUse
    <3>3. CASE ~Exists(templates[log[j].new])
      BY <3>1, <3>3, RowsAfterCommit DEF OrderedAt
    <3>4. CASE log[j].new \in InUse(s, templates)
      <4>1. CASE log[j].new = b
        BY <1>6, <1>7, <3>1, <4>1 DEF OrderedAt, Follows, RefreshEntry
      <4>2. CASE log[j].new # b
        BY <1>3, <3>1, <3>4, <4>2 DEF OrderedAt
      <4> QED BY <4>1, <4>2
    <3>5. ASSUME NEW k \in DOMAIN log, Follows(j, k, log)
          PROVE  OrderedAt(j, s, templates', log')
      <4>1. Stands(k, log') /\ log'[k] = log[k]
        BY <3>5, StillStands DEF Follows
      <4> QED BY <1>6, <3>1, <3>5, <4>1 DEF OrderedAt, Follows
    <3> QED BY <3>2, <3>3, <3>4, <3>5 DEF OrderedAt
  <2> QED BY <2>1, <2>2
<1> QED
  BY <1>5, <1>8 DEF Exchanges

LEMMA RollbackExchanges ==
    ASSUME Base, Knowing, NEW t \in Tx, Commit(t), tx[t].kind = "rollback", tx[t].alone, ~OutOfTurn(t),
           NEW s \in tx[t].students, s \in Students, InOrder(s, templates, log), InPairs(s)
    PROVE  Exchanges(s)
<1> DEFINE i == tx[t].entry
           old == log[i].old
           new == log[i].new
<1>1. /\ Open(t) /\ KnowsFor(t, s) /\ i \in DOMAIN log /\ log[i].kind = "refresh" /\ log[i].student = s
      /\ old \in Rows /\ new \in Rows
  <2>1. Open(t) /\ KnowsFor(t, s) /\ RollsBack(tx[t], log)
    BY DEF Commit, At, Knowing, Base, Sound
  <2> QED BY <2>1, LoggedRows DEF RollsBack
<1>2. /\ Stands(i, log)
      /\ \A r \in {old, new} : Exists(templates[r]) => r \in DOMAIN tx[t].seen
      /\ \A r \in DOMAIN tx[t].seen : templates[r] = tx[t].seen[r]
  BY <1>1 DEF KnowsFor, Is
<1>3. /\ DOMAIN log' = DOMAIN log \cup {Len(log) + 1} /\ log'[Len(log) + 1] = RollbackEntry(i)
      /\ \A j \in DOMAIN log : log'[j] = log[j]
  BY <1>1, LogAfterCommit DEF Grown
<1>4. ASSUME NEW j \in DOMAIN log', log'[j].student = s, Stands(j, log')
      PROVE  /\ j \in DOMAIN log /\ j # i /\ Stands(j, log) /\ log'[j] = log[j] /\ log[j].student = s
             /\ log[j].new \in Rows /\ templates[log[j].new] # Unused
             /\ OrderedAt(j, s, templates, log)
  <2>1. j \in DOMAIN log /\ j # i
    BY <1>3, <1>4 DEF RollbackEntry, Stands
  <2>2. Stands(j, log) /\ log'[j] = log[j]
    BY <1>4, <2>1, StoodBefore
  <2> QED BY <1>4, <2>1, <2>2, LoggedRows, OrderedInUse
<1>5. ASSUME NEW j \in DOMAIN log, log'[j] = log[j], NEW k \in DOMAIN log, Follows(j, k, log), k # i
      PROVE  OrderedAt(j, s, templates', log')
  <2>1. Stands(k, log') /\ log'[k] = log[k]
    BY <1>5, StillStands DEF Follows
  <2> QED BY <1>3, <1>5, <2>1 DEF OrderedAt, Follows
<1>6. CASE DOMAIN tx[t].seen = {}
  <2>1. DOMAIN tx[t].change = {}
    BY <1>1, <1>6 DEF Base, Sound, Writes
  <2>2. \A p \in Rows : templates'[p] = templates[p]
    BY <2>1, RowsAfterCommit
  <2>3. InUse(s, templates') = InUse(s, templates)
    BY <2>2 DEF InUse, RowsOf
  <2>4. ASSUME NEW j \in DOMAIN log', log'[j].student = s, Stands(j, log')
        PROVE  OrderedAt(j, s, templates', log')
    <3>1. CASE ~Exists(templates[log[j].new]) \/ log[j].new \in InUse(s, templates)
      BY <1>4, <2>2, <2>3, <2>4, <3>1 DEF OrderedAt
    <3>2. ASSUME NEW k \in DOMAIN log, Follows(j, k, log)
          PROVE  OrderedAt(j, s, templates', log')
      <4>1. CASE k = i
        BY <1>2, <1>4, <1>6, <2>2, <2>4, <3>2, <4>1 DEF OrderedAt, Follows
      <4> QED BY <1>4, <1>5, <2>4, <3>2, <4>1
    <3> QED BY <1>4, <2>4, <3>1, <3>2 DEF OrderedAt
  <2> QED BY <2>3, <2>4, NoMore DEF Exchanges
<1>7. CASE DOMAIN tx[t].seen = {old, new}
  <2>0. /\ old # new
        /\ \A p \in Rows \ {old, new} : p \in InUse(s, templates') <=> p \in InUse(s, templates)
        /\ old \in InUse(s, templates) \/ ~Trusting(t, s) => old \in InUse(s, templates')
        /\ new \in InUse(s, templates') => templates'[new] = templates[new] /\ tx[t].seen[new].status = "backup"
    BY <1>7, UseAfterRollback
  <2>1. \A r \in {old, new} : templates[r] = tx[t].seen[r] /\ templates[r] \in Row /\ templates[r].student = s
                              /\ templates[r].model = "arcface"
    <3>1. \A r \in {old, new} : templates[r] = tx[t].seen[r] /\ templates[r] \in Row
      BY <1>1, <1>2, <1>7, OpenType DEF Base
    <3> QED BY <1>1, <3>1, RowsExist DEF Base, Traced
  <2>2. new \in InUse(s, templates)
    <3>1. OrderedAt(i, s, templates, log)
      BY <1>1, <1>2, OrderedInUse
    <3>2. \A k \in DOMAIN log : ~Follows(i, k, log)
      BY DEF OutOfTurn, Is, Commit, At
    <3> QED BY <2>1, <3>1, <3>2, RowsExist DEF OrderedAt
  <2>3. new \notin InUse(s, templates')
    BY <2>0, <2>1, <2>2 DEF InUse
  <2>4. old \in InUse(s, templates')
    <3>1. Trusting(t, s) => old \in InUse(s, templates)
      BY <1>1, <2>1, RowsExist DEF Trusting, InUse, RowsOf
    <3> QED BY <2>0, <3>1
  <2>5. InUse(s, templates') \subseteq (InUse(s, templates) \ {new}) \cup {old}
    BY <2>0, <2>3 DEF InUse, RowsOf
  <2>6. Cardinality(InUse(s, templates')) <= Cardinality(InUse(s, templates))
    BY <2>2, <2>5, UseIsFinite, Exchanged, ZenonT(60)
  <2>7. ASSUME NEW j \in DOMAIN log', log'[j].student = s, Stands(j, log')
        PROVE  OrderedAt(j, s, templates', log')
    <3>0. /\ j \in DOMAIN log /\ j # i /\ Stands(j, log) /\ log'[j] = log[j]
          /\ log[j].new \in Rows /\ templates[log[j].new] # Unused /\ OrderedAt(j, s, templates, log)
      BY <1>4, <2>7
    <3>1. CASE ~Exists(templates[log[j].new])
      BY <3>0, <3>1, RowsAfterCommit DEF OrderedAt
    <3>2. CASE log[j].new \in InUse(s, templates)
      <4>1. log[j].new # new
        BY <1>1, <3>0 DEF Base, Traced, Stands
      <4>2. log[j].new \in InUse(s, templates')
        BY <2>0, <2>4, <3>0, <3>2, <4>1
      <4> QED BY <3>0, <4>2 DEF OrderedAt
    <3>3. ASSUME NEW k \in DOMAIN log, Follows(j, k, log)
          PROVE  OrderedAt(j, s, templates', log')
      <4>1. CASE k = i
        BY <2>4, <3>0, <3>3, <4>1 DEF OrderedAt, Follows
      <4> QED BY <1>5, <3>0, <3>3, <4>1
    <3> QED BY <3>0, <3>1, <3>2, <3>3 DEF OrderedAt
  <2> QED BY <2>6, <2>7 DEF Exchanges
<1> QED
  BY <1>1, <1>6, <1>7 DEF InPairs, Is

LEMMA CommitExchanges ==
    ASSUME ExchangeInv, NEW t \in Tx, Commit(t), NEW s \in Students \ (tangled' \cup demoted')
    PROVE  Exchanges(s)
<1>0. Base /\ Apart /\ Knowing
  BY DEF ExchangeInv, KeepInv
<1>1. /\ s \notin demoted
      /\ s \in tx[t].students =>
            /\ tx[t].kind \in {"upload", "embedding", "refresh", "rollback", "erase", "purge"}
            /\ tx[t].kind \in {"upload", "erase", "purge"} => tx[t].alone
  BY <1>0, CommitDemotes
<1>2. /\ s \notin tangled
      /\ s \in tx[t].students =>
            /\ tx[t].kind \in {"refresh", "rollback"} => tx[t].alone
            /\ ~OutOfTurn(t) /\ ~Reshuffles(t)
  BY DEF Commit, At, Is
<1>3. InOrder(s, templates, log) /\ InPairs(s)
  BY <1>1, <1>2 DEF ExchangeInv, KeepInv
<1>4. CASE s \notin tx[t].students \/ tx[t].kind \in {"upload", "embedding"}
  <2>1. InUse(s, templates') = InUse(s, templates)
    BY <1>0, <1>2, <1>4, UseOfOthers, UseAfterEmbedding, UseAfterUpload
  <2> QED BY <1>0, <1>3, <1>4, <2>1, SameUseExchanges
<1>5. CASE s \in tx[t].students /\ tx[t].kind \in {"erase", "purge"}
  BY <1>0, <1>1, <1>5, DeletionExchanges
<1>6. CASE s \in tx[t].students /\ tx[t].kind = "refresh"
  BY <1>0, <1>2, <1>3, <1>6, RefreshExchanges
<1>7. CASE s \in tx[t].students /\ tx[t].kind = "rollback"
  BY <1>0, <1>2, <1>3, <1>7, RollbackExchanges
<1> QED
  BY <1>1, <1>4, <1>5, <1>6, <1>7

LEMMA NextExchanges ==
    ASSUME ExchangeInv, [Next]_vars
    PROVE  /\ ExchangeInv'
           /\ \A s \in Students \ (tangled' \cup demoted') :
                 Cardinality(InUse(s, templates')) <= Cardinality(InUse(s, templates))
<1>0. KeepInv' /\ Base
  BY NextKeepsKeepInv DEF ExchangeInv, KeepInv
<1>1. ASSUME NEW t \in Tx, Commit(t), NEW s \in Students \ (tangled' \cup demoted')
      PROVE  /\ InOrder(s, templates, log)'
             /\ Cardinality(InUse(s, templates')) <= Cardinality(InUse(s, templates))
  <2>1. Exchanges(s)
    BY <1>1, CommitExchanges
  <2>2. InOrder(s, templates, log)'
    BY <2>1 DEF Exchanges, OrderedAt, InOrder, InUse, Stands, Follows, Exists
  <2> QED BY <2>1, <2>2 DEF Exchanges
<1>2. CASE UNCHANGED <<templates, log, tangled, demoted>>
  <2>1. \A s : InUse(s, templates') = InUse(s, templates)
    BY <1>2
  <2>2. ASSUME NEW s \in Students \ (tangled' \cup demoted')
        PROVE  InOrder(s, templates, log)'
    <3>1. InOrder(s, templates, log)
      BY <1>2 DEF ExchangeInv
    <3> QED BY <1>2, <3>1 DEF InOrder, Stands, Follows, Exists
  <2> QED BY <1>0, <2>1, <2>2, NoMore DEF ExchangeInv
<1>3. ASSUME NEW t \in Tx, Request(t)
      PROVE  UNCHANGED <<templates, log, tangled, demoted>>
  <2>1. PICK kind, step, concerned, ids, seen, order, entry :
           Begin(t, kind, step, concerned, seen, order, entry)
    BY <1>0, <1>3, RequestEnters DEF Enters
  <2> QED BY <2>1 DEF Begin
<1>4. ASSUME NEW t \in Tx, Statement(t), ~Commit(t)
      PROVE  UNCHANGED <<templates, log, tangled, demoted>>
  BY <1>0, <1>4, StatementContinues DEF Continues, Others
<1>5. CASE \E t \in Tx : Commit(t)
  BY <1>0, <1>1, <1>5 DEF ExchangeInv
<1> QED
  BY <1>2, <1>3, <1>4, <1>5 DEF Next, Age, vars

LEMMA ExchangeInvHolds == Spec => []ExchangeInv
<1>1. Init => ExchangeInv
  BY InitKeepInv DEF Init, ExchangeInv
<1>2. ExchangeInv /\ [Next]_vars => ExchangeInv'
  BY NextExchanges
<1> QED
  BY <1>1, <1>2, PTL DEF Spec

(* Refreshes and rollbacks that take turns, with uploads, embeddings and   *)
(* erasures between them, never leave a student with more active arcface   *)
(* templates than before.                                                  *)
THEOREM RefreshesExchange == Spec => RefreshExchangesTemplates
<1>1. ExchangeInv /\ [Next]_vars =>
        [\A s \in Students \ (tangled' \cup demoted') :
            Cardinality(InUse(s, templates')) <= Cardinality(InUse(s, templates))]_vars
  BY NextExchanges
<1> QED
  BY <1>1, ExchangeInvHolds, PTL DEF Spec, RefreshExchangesTemplates
=============================================================================
