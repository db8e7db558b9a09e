------------------------- MODULE UserSessionsProofs -------------------------
(***************************************************************************)
(* Theorems about UserSessions, for any accounts, calls and tokens:        *)
(* sessions end at a logout and do not fork, and each token has an owner.  *)
(***************************************************************************)
EXTENDS UserSessions, TLAPS

Tokens == [number : Numbers, owner : Emails, revoked : BOOLEAN, line : SUBSET Numbers]

Running == [kind : {"register", "login", "refresh", "logout"},
            step : {"select", "revoke", "cache", "commit"}, owner : Emails,
            read : SUBSET Numbers, holds : SUBSET Numbers, new : 0 .. MaxTokens,
            alone : BOOLEAN, void : BOOLEAN]

(* Numbers in use are at most issued, and name one row.                    *)
Shapes ==
    /\ tokens \subseteq Tokens /\ call \in [Calls -> Running \cup {NoCall}]
    /\ issued \in 0 .. MaxTokens /\ ended \subseteq 1 .. issued
    /\ \A t \in tokens : t.number \in t.line /\ t.line \subseteq 1 .. issued
    /\ \A t, u \in tokens : t.number = u.number => t = u
    /\ \A c \in Open : call[c].read \subseteq 1 .. issued /\ call[c].new <= issued

(* The number of a row that is not committed yet is nowhere else.          *)
Fresh ==
    \A c \in Open : call[c].new # 0 =>
        /\ call[c].new \notin ended
        /\ \A t \in tokens : call[c].new \notin t.line
        /\ \A d \in Open : call[c].new \notin call[d].read /\ (d # c => call[d].new # call[c].new)

(* What the calls under way have read.                                     *)
Reads ==
    /\ \A c \in Open : call[c].kind \notin Revoking => call[c].read = {}
    /\ \A c \in Open : \A t \in tokens : t.number \in call[c].read => t.owner = call[c].owner

(* A call that is alone is the only one that may revoke its user's tokens, *)
Alone ==
    \A c, d \in Open :
        c # d /\ call[c].owner = call[d].owner /\ {call[c].kind, call[d].kind} \subseteq Revoking =>
            ~call[c].alone

(* and a refresh that is alone still holds a valid token.                  *)
Current ==
    \A c \in Open : call[c].kind = "refresh" /\ call[c].alone /\ ~call[c].void =>
        \E t \in tokens : ~t.revoked /\ call[c].read = {t.number} /\ t.owner = call[c].owner

(* A logout has found every valid token of the lines it will end.          *)
Found ==
    \A c \in Open : call[c].kind = "logout" =>
        \A t \in tokens : ~t.revoked /\ t.line \cap call[c].read # {} => t.number \in call[c].read

SessionInv == Shapes /\ Fresh /\ Reads /\ Alone /\ Current /\ Found /\ SessionsEndAndDoNotFork

-----------------------------------------------------------------------------
LEMMA OpenRuns ==
    ASSUME Shapes, NEW c
    PROVE  c \in Open <=> c \in Calls /\ call[c] \in Running
<1>1. NoCall \notin Running
  <2> SUFFICES ASSUME NoCall \in Running PROVE FALSE
    OBVIOUS
  <2>1. NoCall.step \in {"select", "revoke", "cache", "commit"}
    BY DEF Running
  <2> QED BY <2>1 DEF NoCall
<1> QED
  BY <1>1 DEF Shapes, Open

(* What the invariant says of a call depends on these fields.              *)
Same(c) ==
    /\ call'[c].kind = call[c].kind /\ call'[c].owner = call[c].owner /\ call'[c].read = call[c].read
    /\ call'[c].new = call[c].new /\ call'[c].alone = call[c].alone
    /\ call[c].void => call'[c].void

(* Calls that only go on, or end without a commit.                         *)
LEMMA GoingOnKeeps ==
    ASSUME SessionInv, UNCHANGED <<tokens, issued, ended>>,
           call' \in [Calls -> Running \cup {NoCall}],
           \A d \in Open' : d \in Open /\ Same(d)
    PROVE  SessionInv'
<1> USE DEF Same
<1>1. Shapes'
  BY DEF SessionInv, Shapes
<1>2. Fresh'
  BY DEF SessionInv, Fresh
<1>3. Reads' /\ Alone'
  BY DEF SessionInv, Reads, Alone
<1>4. Current'
  BY DEF SessionInv, Current
<1>5. Found'
  BY DEF SessionInv, Found
<1>6. SessionsEndAndDoNotFork'
  BY DEF SessionInv, SessionsEndAndDoNotFork, LogoutEndsSessions, OneTokenPerSession
<1> QED
  BY <1>1, <1>2, <1>3, <1>4, <1>5, <1>6 DEF SessionInv

(* One call of the slot c is rewritten in place.                           *)
LEMMA AdvancedKeeps ==
    ASSUME SessionInv, UNCHANGED <<tokens, issued, ended>>, NEW c \in Open,
           NEW r \in Running, call' = [call EXCEPT ![c] = r],
           /\ r.kind = call[c].kind /\ r.owner = call[c].owner /\ r.read = call[c].read
           /\ r.new = call[c].new /\ r.alone = call[c].alone /\ r.void = call[c].void
    PROVE  SessionInv'
<1>1. c \in Calls /\ call \in [Calls -> Running \cup {NoCall}]
  BY DEF SessionInv, Shapes, Open
<1>2. call' \in [Calls -> Running \cup {NoCall}]
  BY <1>1
<1>3. \A d \in Open' : d \in Open /\ Same(d)
  BY <1>1 DEF Open, Same
<1> QED
  BY <1>2, <1>3, GoingOnKeeps

LEMMA ClosedKeeps ==
    ASSUME SessionInv, UNCHANGED <<tokens, issued, ended>>, NEW c, Closed(c)
    PROVE  SessionInv'
<1>1. call \in [Calls -> Running \cup {NoCall}]
  BY DEF SessionInv, Shapes
<1>2. call' \in [Calls -> Running \cup {NoCall}]
  BY <1>1 DEF Closed
<1>3. \A d \in Open' : d \in Open /\ Same(d)
  BY <1>1 DEF Closed, Open, Same
<1> QED
  BY <1>2, <1>3, GoingOnKeeps

(* A call opens; what it reads is none of the numbers still to be used.    *)
LEMMA OpenedKeeps ==
    ASSUME SessionInv, UNCHANGED <<tokens, issued, ended>>, NEW c \in Calls, call[c] = NoCall,
           NEW kind \in {"register", "login", "refresh", "logout"},
           NEW step \in {"select", "revoke", "cache", "commit"}, NEW e \in Emails, NEW read,
           Opened(c, kind, step, e, read),
           \A n \in read : \E t \in tokens : t.number = n /\ t.owner = e /\ ~t.revoked,
           kind \notin Revoking => read = {},
           kind = "refresh" => \E t \in tokens : ~t.revoked /\ read = {t.number} /\ t.owner = e
    PROVE  SessionInv'
<1> DEFINE others == {d \in Open : call[d].owner = e /\ {kind, call[d].kind} \subseteq Revoking}
           r == [kind |-> kind, step |-> step, owner |-> e, read |-> read,
                 holds |-> {}, new |-> 0, alone |-> others = {}, void |-> FALSE]
<1>1. call \in [Calls -> Running \cup {NoCall}] /\ c \notin Open /\ Open \subseteq Calls
  BY DEF SessionInv, Shapes, Open
<1>2. call' = [d \in Calls |-> IF d = c THEN r
                   ELSE IF d \in others THEN [call[d] EXCEPT !.alone = FALSE] ELSE call[d]]
  BY Zenon DEF Opened
<1>3. \A n \in read : n \in Numbers /\ n \in 1 .. issued
  BY DEF SessionInv, Shapes, Tokens
<1>4. r \in Running
  BY <1>3, SessionsAssumption DEF Running
<1>5. \A d \in Open : d \in Calls /\ call[d] \in Running
  BY OpenRuns DEF SessionInv
<1>6. ASSUME NEW d \in Calls, d # c
      PROVE  /\ d \in Open' <=> d \in Open
             /\ call'[d] \in Running \cup {NoCall}
             /\ d \in Open => /\ call'[d].kind = call[d].kind /\ call'[d].owner = call[d].owner
                              /\ call'[d].read = call[d].read /\ call'[d].new = call[d].new
                              /\ call'[d].void = call[d].void
                              /\ d \in others => ~call'[d].alone
                              /\ d \notin others => call'[d].alone = call[d].alone
  <2>1. CASE d \in others
    <3>1. call[d] \in Running /\ d \in Open
      BY <1>5, <2>1
    <3>2. call'[d] = [call[d] EXCEPT !.alone = FALSE]
      BY <1>2, <1>6, <2>1
    <3>3. call'[d] \in Running
      BY <3>1, <3>2 DEF Running
    <3>4. NoCall \notin Running
      <4> SUFFICES ASSUME NoCall \in Running PROVE FALSE
        OBVIOUS
      <4>1. NoCall.step \in {"select", "revoke", "cache", "commit"}
        BY DEF Running
      <4> QED BY <4>1 DEF NoCall
    <3>5. d \in Open'
      BY <3>3, <3>4 DEF Open
    <3> QED BY <2>1, <3>1, <3>2, <3>3, <3>5 DEF Running
  <2>2. CASE d \notin others
    <3>1. call'[d] = call[d]
      BY <1>2, <1>6, <2>2
    <3> QED BY <1>1, <2>2, <3>1 DEF Open
  <2> QED BY <2>1, <2>2
<1>7. call'[c] = r
  BY <1>2
<1>8. call' \in [Calls -> Running \cup {NoCall}]
  <2>1. \A d \in Calls : call'[d] \in Running \cup {NoCall}
    BY <1>4, <1>6, <1>7
  <2> QED BY <1>2, <2>1
<1>9. Open' \subseteq Open \cup {c} /\ c \notin Open
  BY <1>1, <1>6 DEF Open
<1>10. /\ call'[c].kind = kind /\ call'[c].owner = e /\ call'[c].read = read /\ call'[c].new = 0
       /\ call'[c].alone = (others = {}) /\ call'[c].void = FALSE
  BY <1>7
<1>11. \A d \in Open' : d \in Calls
  BY DEF Open
<1> HIDE DEF others, r
<1>12. Shapes'
  BY <1>3, <1>6, <1>8, <1>9, <1>10, <1>11 DEF SessionInv, Shapes
<1>13. Fresh'
  <2> SUFFICES ASSUME NEW d \in Open', call'[d].new # 0
               PROVE  /\ call'[d].new \notin ended
                      /\ \A t \in tokens : call'[d].new \notin t.line
                      /\ \A f \in Open' : call'[d].new \notin call'[f].read
                                          /\ (f # d => call'[f].new # call'[d].new)
    BY DEF Fresh
  <2>1. d \in Open /\ d # c /\ call'[d].new = call[d].new
    BY <1>6, <1>9, <1>10, <1>11
  <2>2. /\ call[d].new \notin ended /\ \A t \in tokens : call[d].new \notin t.line
        /\ \A f \in Open : call[d].new \notin call[f].read /\ (f # d => call[f].new # call[d].new)
    BY <2>1 DEF SessionInv, Fresh
  <2>3. call[d].new \notin read
    BY <2>2 DEF SessionInv, Shapes
  <2> QED BY <1>6, <1>9, <1>10, <1>11, <2>1, <2>2, <2>3
<1>14. Reads'
  <2>1. ASSUME NEW t \in tokens, t.number \in read PROVE t.owner = e
    BY <2>1 DEF SessionInv, Shapes
  <2> QED BY <1>6, <1>9, <1>10, <1>11, <2>1 DEF SessionInv, Reads
<1>15. Alone'
  <2> SUFFICES ASSUME NEW d \in Open', NEW f \in Open', d # f, call'[d].owner = call'[f].owner,
                      {call'[d].kind, call'[f].kind} \subseteq Revoking
               PROVE  ~call'[d].alone
    BY DEF Alone
  <2>1. CASE d = c
    <3>1. f \in Open /\ call[f].owner = e /\ {kind, call[f].kind} \subseteq Revoking
      BY <1>6, <1>9, <1>10, <1>11, <2>1
    <3>2. others # {}
      BY <3>1 DEF others
    <3> QED BY <1>10, <2>1, <3>2
  <2>2. CASE f = c
    <3>1. d \in Open /\ d # c /\ call[d].owner = e /\ {kind, call[d].kind} \subseteq Revoking
      BY <1>6, <1>9, <1>10, <1>11, <2>2
    <3>2. d \in others
      BY <3>1 DEF others
    <3> QED BY <1>6, <1>11, <3>1, <3>2
  <2>3. CASE d # c /\ f # c
    <3>1. d \in Open /\ f \in Open /\ ~call[d].alone
      BY <1>6, <1>11, <2>3 DEF SessionInv, Alone
    <3> QED BY <1>6, <1>11, <2>3, <3>1
  <2> QED BY <2>1, <2>2, <2>3
<1>16. Current'
  <2> SUFFICES ASSUME NEW d \in Open', call'[d].kind = "refresh", call'[d].alone, ~call'[d].void
               PROVE  \E t \in tokens : ~t.revoked /\ call'[d].read = {t.number}
                                        /\ t.owner = call'[d].owner
    BY DEF Current
  <2>1. CASE d = c
    BY <1>10, <2>1
  <2>2. CASE d # c
    <3>1. d \in Open /\ d \notin others /\ call[d].alone
      BY <1>6, <1>11, <2>2
    <3> QED BY <1>6, <1>11, <2>2, <3>1 DEF SessionInv, Current
  <2> QED BY <2>1, <2>2
<1>17. Found'
  <2>1. ASSUME NEW t \in tokens, ~t.revoked, t.line \cap read # {} PROVE t.number \in read
    <3>1. PICK n \in read : n \in t.line
      BY <2>1
    <3>2. PICK u \in tokens : u.number = n /\ ~u.revoked
      OBVIOUS
    <3>3. n \in u.line
      BY <3>2 DEF SessionInv, Shapes
    <3>4. t = u
      BY <2>1, <3>1, <3>2, <3>3 DEF SessionInv, SessionsEndAndDoNotFork, OneTokenPerSession
    <3> QED BY <3>2, <3>4
  <2>2. ASSUME NEW d \in Open', call'[d].kind = "logout", NEW t \in tokens,
               ~t.revoked, t.line \cap call'[d].read # {}
        PROVE  t.number \in call'[d].read
    <3>1. CASE d = c
      BY <1>10, <2>1, <2>2, <3>1
    <3>2. CASE d # c
      BY <1>6, <1>11, <2>2, <3>2 DEF SessionInv, Found
    <3> QED BY <3>1, <3>2
  <2> QED BY <2>2 DEF Found
<1>18. SessionsEndAndDoNotFork'
  BY DEF SessionInv, SessionsEndAndDoNotFork, LogoutEndsSessions, OneTokenPerSession
<1> QED
  BY <1>12, <1>13, <1>14, <1>15, <1>16, <1>17, <1>18 DEF SessionInv

-----------------------------------------------------------------------------
(* The steps.                                                              *)

LEMMA CreateTokensKeeps ==
    ASSUME SessionInv, NEW c \in Calls, CreateTokens(c)
    PROVE  SessionInv'
<1> DEFINE step == IF call[c].kind = "refresh" THEN "commit" ELSE "cache"
<1>1. /\ c \in Open /\ issued < MaxTokens /\ issued' = issued + 1
      /\ call' = [call EXCEPT ![c] = [call[c] EXCEPT !.new = issued + 1, !.step = step]]
      /\ UNCHANGED <<tokens, ended>>
  BY DEF CreateTokens, Open
<1>2. call \in [Calls -> Running \cup {NoCall}] /\ issued \in Nat /\ issued + 1 \in 0 .. MaxTokens
      /\ call[c] \in Running
  BY <1>1, SessionsAssumption, OpenRuns DEF SessionInv, Shapes
<1>3. call'[c] \in Running
  BY <1>1, <1>2 DEF Running
<1>4. \A d \in Calls : d # c => call'[d] = call[d]
  BY <1>1, <1>2
<1>5. Open' \subseteq Open /\ call' \in [Calls -> Running \cup {NoCall}]
  BY <1>1, <1>2, <1>3, <1>4 DEF Open
<1>6. \A d \in Open' : d \in Calls /\ d \in Open
  BY <1>5 DEF Open
<1>7. /\ call'[c].kind = call[c].kind /\ call'[c].owner = call[c].owner /\ call'[c].read = call[c].read
      /\ call'[c].alone = call[c].alone /\ call'[c].void = call[c].void /\ call'[c].new = issued + 1
  BY <1>1, <1>2 DEF Running
<1>8. Shapes'
  <2>1. \A d \in Open' : call'[d].read \subseteq 1 .. issued' /\ call'[d].new <= issued'
    <3> SUFFICES ASSUME NEW d \in Open'
                 PROVE  call'[d].read \subseteq 1 .. issued' /\ call'[d].new <= issued'
      OBVIOUS
    <3>1. call[d].read \subseteq 1 .. issued /\ call[d].new <= issued /\ call[d].new \in Nat
      BY <1>6, OpenRuns, SessionsAssumption DEF SessionInv, Shapes, Running
    <3>2. call'[d].read = call[d].read /\ call'[d].new \in {call[d].new, issued + 1}
      BY <1>4, <1>6, <1>7
    <3> QED BY <1>1, <1>2, <3>1, <3>2
  <2>2. \A t \in tokens : t.number \in t.line /\ t.line \subseteq 1 .. issued'
    BY <1>1, <1>2 DEF SessionInv, Shapes
  <2> QED BY <1>1, <1>2, <1>5, <2>1, <2>2 DEF SessionInv, Shapes
<1>9. /\ issued + 1 \notin ended
      /\ \A t \in tokens : issued + 1 \notin t.line
      /\ \A d \in Open : issued + 1 \notin call[d].read /\ call[d].new # issued + 1
  BY <1>2 DEF SessionInv, Shapes
<1>10. Fresh'
  <2> SUFFICES ASSUME NEW d \in Open', call'[d].new # 0
               PROVE  /\ call'[d].new \notin ended
                      /\ \A t \in tokens : call'[d].new \notin t.line
                      /\ \A f \in Open' : call'[d].new \notin call'[f].read
                                          /\ (f # d => call'[f].new # call'[d].new)
    BY <1>1 DEF Fresh
  <2>1. CASE d = c
    BY <1>4, <1>6, <1>7, <1>9, <2>1
  <2>2. CASE d # c
    BY <1>4, <1>6, <1>7, <1>9, <2>2 DEF SessionInv, Fresh
  <2> QED BY <2>1, <2>2
<1>11. \A d \in Open' : /\ d \in Open /\ call'[d].kind = call[d].kind /\ call'[d].owner = call[d].owner
                        /\ call'[d].read = call[d].read /\ call'[d].alone = call[d].alone
                        /\ call'[d].void = call[d].void
  BY <1>4, <1>6, <1>7
<1>12. Reads' /\ Alone' /\ Current'
  BY <1>1, <1>11 DEF SessionInv, Reads, Alone, Current
<1>13. Found'
  BY <1>1, <1>11 DEF SessionInv, Found
<1>14. SessionsEndAndDoNotFork'
  BY <1>1 DEF SessionInv, SessionsEndAndDoNotFork, LogoutEndsSessions, OneTokenPerSession
<1> QED
  BY <1>8, <1>10, <1>12, <1>13, <1>14 DEF SessionInv

(* delete_user: rows and reads of other users stay as they were.           *)
LEMMA DeleteUserKeeps ==
    ASSUME SessionInv, NEW e \in Emails, DeleteUser(e)
    PROVE  SessionInv'
<1> DEFINE hit(c) == c \in Open /\ call[c].owner = e /\ call[c].kind # "register"
<1>1. /\ tokens' = tokens \ RowsOf(e) /\ UNCHANGED <<issued, ended>>
      /\ call' = [c \in Calls |-> IF hit(c) THEN [call[c] EXCEPT !.void = TRUE] ELSE call[c]]
  BY Zenon DEF DeleteUser
<1>2. call \in [Calls -> Running \cup {NoCall}]
  BY DEF SessionInv, Shapes
<1>3. ASSUME NEW c \in Calls
      PROVE  /\ call'[c] \in Running \cup {NoCall} /\ (c \in Open' => c \in Open)
             /\ c \in Open => Same(c) /\ (call'[c].void <=> call[c].void \/ hit(c))
  <2>1. CASE hit(c)
    <3>1. call[c] \in Running /\ call'[c] = [call[c] EXCEPT !.void = TRUE]
      BY <1>1, <2>1, OpenRuns DEF SessionInv
    <3> QED BY <2>1, <3>1 DEF Running, Same
  <2>2. CASE ~hit(c)
    <3>1. call'[c] = call[c]
      BY <1>1, <2>2
    <3> QED BY <1>2, <2>2, <3>1 DEF Open, Same
  <2> QED BY <2>1, <2>2
<1>4. call' \in [Calls -> Running \cup {NoCall}]
  <2> HIDE DEF hit
  <2> QED BY <1>1, <1>3
<1>5. \A c \in Open' : c \in Open /\ c \in Calls /\ Same(c) /\ (call'[c].void <=> call[c].void \/ hit(c))
  BY <1>3 DEF Open
<1>6. tokens' \subseteq tokens /\ \A t \in tokens : t.owner # e => t \in tokens'
  BY <1>1 DEF RowsOf
<1>7. Shapes' /\ Fresh' /\ Reads' /\ Alone'
  <2>1. \A c \in Open' : /\ c \in Open /\ call'[c].kind = call[c].kind /\ call'[c].owner = call[c].owner
                         /\ call'[c].read = call[c].read /\ call'[c].alone = call[c].alone
                         /\ call'[c].new = call[c].new
    BY <1>5 DEF Same
  <2>2. Shapes'
    BY <1>1, <1>4, <1>6, <2>1 DEF SessionInv, Shapes
  <2>3. Fresh'
    BY <1>1, <1>6, <2>1 DEF SessionInv, Fresh
  <2>4. Reads' /\ Alone'
    BY <1>6, <2>1 DEF SessionInv, Reads, Alone
  <2> QED BY <2>2, <2>3, <2>4
<1>8. Current'
  <2> SUFFICES ASSUME NEW c \in Open', call'[c].kind = "refresh", call'[c].alone, ~call'[c].void
               PROVE  \E t \in tokens' : ~t.revoked /\ call'[c].read = {t.number}
                                         /\ t.owner = call'[c].owner
    BY DEF Current
  <2>1. c \in Open /\ call[c].kind = "refresh" /\ call[c].alone /\ ~call[c].void /\ call[c].owner # e
    BY <1>5 DEF Same
  <2>2. PICK t \in tokens : ~t.revoked /\ call[c].read = {t.number} /\ t.owner = call[c].owner
    BY <2>1 DEF SessionInv, Current
  <2>3. t \in tokens'
    BY <1>6, <2>1, <2>2
  <2> QED BY <1>5, <2>2, <2>3 DEF Same
<1>9. Found'
  BY <1>5, <1>6 DEF SessionInv, Found, Same
<1>10. SessionsEndAndDoNotFork'
  BY <1>1, <1>6 DEF SessionInv, SessionsEndAndDoNotFork, LogoutEndsSessions, OneTokenPerSession
<1> QED
  BY <1>7, <1>8, <1>9, <1>10 DEF SessionInv

(* The rows after a commit: the old ones, those that were read revoked,    *)
(* and the new one.                                                        *)
LEMMA CommittedRows ==
    ASSUME SessionInv, NEW c \in Calls, CommitCall(c), NEW t \in tokens'
    PROVE  \/ \E u \in tokens : /\ t.number = u.number /\ t.owner = u.owner /\ t.line = u.line
                                /\ t \in Tokens
                                /\ t.revoked = (u.revoked \/ u.number \in call[c].read)
           \/ call[c].new # 0 /\ t = NewRow(c)
<1>1. tokens' = Revoked(call[c].read) \cup (IF call[c].new = 0 THEN {} ELSE {NewRow(c)})
  BY DEF CommitCall
<1>2. CASE t \in Revoked(call[c].read)
  <2>1. PICK u \in tokens : t = IF u.number \in call[c].read THEN [u EXCEPT !.revoked = TRUE] ELSE u
    BY <1>2 DEF Revoked
  <2>2. u \in Tokens
    BY DEF SessionInv, Shapes
  <2> QED BY <2>1, <2>2 DEF Tokens
<1> QED
  BY <1>1, <1>2

LEMMA CommitKeeps ==
    ASSUME SessionInv, NEW c \in Calls, CommitCall(c)
    PROVE  SessionInv'
<1> DEFINE r == call[c]
           Old(t, u) == /\ u \in tokens /\ t.number = u.number /\ t.owner = u.owner /\ t.line = u.line
                        /\ t \in Tokens /\ t.revoked = (u.revoked \/ u.number \in r.read)
           New(t) == r.new # 0 /\ t.number = r.new /\ t.owner = r.owner /\ t.revoked = FALSE
                     /\ t \in Tokens /\ r.new \in t.line
                     /\ \/ t.line = {r.new}
                        \/ \E u \in tokens : /\ ~u.revoked /\ r.read = {u.number}
                                             /\ u.owner = r.owner /\ t.line = {r.new} \cup u.line
                                             /\ r.alone /\ r.kind = "refresh"
<1>1. /\ c \in Open /\ r \in Running /\ issued' = issued
      /\ ended' = IF r.kind = "logout" THEN ended \cup r.read ELSE ended
      /\ ~r.void
  BY OpenRuns DEF CommitCall, SessionInv, Open
<1>2. /\ call' \in [Calls -> Running \cup {NoCall}]
      /\ \A d \in Open' : d \in Open /\ d \in Calls /\ d # c /\ call'[d] = call[d]
  <2>1. call' = [call EXCEPT ![c] = NoCall] /\ call \in [Calls -> Running \cup {NoCall}]
    BY DEF CommitCall, Closed, SessionInv, Shapes
  <2> QED BY <2>1 DEF Open
<1>3. r.read \subseteq 1 .. issued /\ r.new <= issued /\ r.new \in Nat /\ issued \in 0 .. MaxTokens
      /\ (r.new # 0 => r.new \in Numbers)
  BY <1>1, SessionsAssumption DEF SessionInv, Shapes, Running, Numbers
<1>4. ASSUME r.new # 0
      PROVE  New(NewRow(c))
  <2> DEFINE row == NewRow(c)
             inherited == r.kind = "refresh" /\ r.alone
             older == UNION {t.line : t \in {u \in tokens : u.number \in r.read}}
  <2>1. /\ row.number = r.new /\ row.owner = r.owner /\ row.revoked = FALSE
        /\ row.line = {r.new} \cup (IF inherited THEN older ELSE {})
    BY DEF NewRow
  <2>2. CASE ~inherited
    <3>1. row.line = {r.new}
      BY <2>1, <2>2
    <3>2. row = [number |-> r.new, owner |-> r.owner, revoked |-> FALSE, line |-> {r.new}]
      BY <2>2 DEF NewRow
    <3>3. row \in Tokens
      BY <1>1, <1>3, <1>4, <3>2 DEF Tokens, Running
    <3> QED BY <1>4, <2>1, <3>1, <3>3
  <2>3. CASE inherited
    <3>1. PICK u \in tokens : ~u.revoked /\ r.read = {u.number} /\ u.owner = r.owner
      BY <1>1, <2>3 DEF SessionInv, Current
    <3>2. {t \in tokens : t.number \in r.read} = {u}
      BY <3>1 DEF SessionInv, Shapes
    <3>3. older = u.line
      BY <3>2
    <3>4. row = [number |-> r.new, owner |-> r.owner, revoked |-> FALSE, line |-> {r.new} \cup u.line]
      BY <2>3, <3>3 DEF NewRow
    <3>5. u.line \subseteq Numbers
      BY DEF SessionInv, Shapes, Tokens
    <3>6. row \in Tokens
      BY <1>1, <1>3, <1>4, <3>4, <3>5 DEF Tokens, Running
    <3> QED BY <1>4, <2>3, <3>1, <3>4, <3>6
  <2> QED BY <2>2, <2>3
<1>5. \A t \in tokens' : (\E u : Old(t, u)) \/ (New(t) /\ t = NewRow(c))
  BY <1>4, CommittedRows
<1>6. r.new # 0 => /\ r.new \notin ended /\ r.new \notin r.read /\ \A t \in tokens : r.new \notin t.line
                   /\ \A d \in Open : r.new \notin call[d].read /\ (d # c => call[d].new # r.new)
  BY <1>1 DEF SessionInv, Fresh
<1> HIDE DEF Old, New, r
<1>7. \A u \in tokens : u.number \in u.line /\ u.line \subseteq 1 .. issued /\ u \in Tokens
  BY DEF SessionInv, Shapes
<1>8. \A t, s \in tokens' : t.number = s.number => t = s
  <2> SUFFICES ASSUME NEW t \in tokens', NEW s \in tokens', t.number = s.number PROVE t = s
    OBVIOUS
  <2>1. CASE \E u : Old(t, u)
    <3>1. PICK u : Old(t, u)
      BY <2>1
    <3>2. ~New(s)
      BY <1>6, <1>7, <3>1 DEF Old, New
    <3>3. PICK v : Old(s, v)
      BY <1>5, <3>2
    <3>4. u = v
      BY <3>1, <3>3 DEF Old, SessionInv, Shapes
    <3>5. /\ t \in Tokens /\ s \in Tokens /\ t.owner = s.owner /\ t.line = s.line
          /\ t.revoked = s.revoked
      BY <3>1, <3>3, <3>4 DEF Old
    <3> QED BY <3>5 DEF Tokens
  <2>2. CASE New(t) /\ t = NewRow(c)
    <3>1. ~\E v : Old(s, v)
      BY <1>6, <1>7, <2>2 DEF Old, New
    <3> QED BY <1>5, <2>2, <3>1
  <2> QED BY <1>5, <2>1, <2>2
<1>9. Shapes'
  <2>1. \A t \in tokens' : t \in Tokens /\ t.number \in t.line /\ t.line \subseteq 1 .. issued'
    <3> SUFFICES ASSUME NEW t \in tokens'
                 PROVE  t \in Tokens /\ t.number \in t.line /\ t.line \subseteq 1 .. issued
      BY <1>1
    <3>1. CASE \E u : Old(t, u)
      BY <1>7, <3>1 DEF Old
    <3>2. CASE New(t)
      BY <1>3, <1>7, <3>2 DEF New
    <3> QED BY <1>5, <3>1, <3>2
  <2>2. ended' \subseteq 1 .. issued'
    BY <1>1, <1>3 DEF SessionInv, Shapes
  <2>3. \A d \in Open' : call'[d].read \subseteq 1 .. issued' /\ call'[d].new <= issued'
    BY <1>1, <1>2 DEF SessionInv, Shapes
  <2> QED BY <1>1, <1>2, <1>3, <1>8, <2>1, <2>2, <2>3 DEF Shapes
<1>10. Fresh'
  <2> SUFFICES ASSUME NEW d \in Open', call[d].new # 0
               PROVE  /\ call[d].new \notin ended'
                      /\ \A t \in tokens' : call[d].new \notin t.line
                      /\ \A f \in Open' : call[d].new \notin call[f].read
                                          /\ (f # d => call[f].new # call[d].new)
    BY <1>2 DEF Fresh
  <2>1. /\ call[d].new \notin ended /\ \A t \in tokens : call[d].new \notin t.line
        /\ \A f \in Open : call[d].new \notin call[f].read /\ (f # d => call[f].new # call[d].new)
    BY <1>2 DEF SessionInv, Fresh
  <2>2. call[d].new \notin r.read /\ call[d].new # r.new
    BY <1>1, <1>2, <2>1 DEF r
  <2>3. \A t \in tokens' : call[d].new \notin t.line
    BY <1>5, <2>1, <2>2 DEF Old, New
  <2> QED BY <1>1, <1>2, <2>1, <2>2, <2>3
<1>11. Reads'
  <2>1. \A d \in Open' : call[d].kind \notin Revoking => call[d].read = {}
    BY <1>2 DEF SessionInv, Reads
  <2>2. ASSUME NEW d \in Open', NEW t \in tokens', t.number \in call[d].read
        PROVE  t.owner = call[d].owner
    <3>1. ~New(t)
      BY <1>2, <1>6, <2>2 DEF New
    <3>2. PICK u : Old(t, u)
      BY <1>5, <3>1
    <3> QED BY <1>2, <2>2, <3>2 DEF Old, SessionInv, Reads
  <2> QED BY <1>2, <2>1, <2>2 DEF Reads
<1>12. Alone'
  BY <1>2 DEF SessionInv, Alone
<1>13. ASSUME NEW d \in Open', call[d].alone, call[d].kind \in Revoking, call[d].owner = r.owner
       PROVE  r.kind \notin Revoking
  BY <1>1, <1>2, <1>13 DEF SessionInv, Alone, r
<1>14. Current'
  <2> SUFFICES ASSUME NEW d \in Open', call[d].kind = "refresh", call[d].alone, ~call[d].void
               PROVE  \E t \in tokens' : ~t.revoked /\ call[d].read = {t.number}
                                         /\ t.owner = call[d].owner
    BY <1>2 DEF Current
  <2>1. PICK u \in tokens : ~u.revoked /\ call[d].read = {u.number} /\ u.owner = call[d].owner
    BY <1>2 DEF SessionInv, Current
  <2>2. u.number \notin r.read
    <3> SUFFICES ASSUME u.number \in r.read PROVE FALSE
      OBVIOUS
    <3>1. u.owner = r.owner /\ r.kind \in Revoking
      BY <1>1 DEF SessionInv, Reads, r
    <3> QED BY <1>13, <2>1, <3>1 DEF Revoking
  <2>3. u \in Revoked(r.read)
    BY <2>2 DEF Revoked
  <2>4. u \in tokens'
    BY <2>3 DEF CommitCall, r
  <2> QED BY <2>1, <2>4
<1>15. Found'
  <2> SUFFICES ASSUME NEW d \in Open', call[d].kind = "logout", NEW t \in tokens',
                      ~t.revoked, t.line \cap call[d].read # {}
               PROVE  t.number \in call[d].read
    BY <1>2 DEF Found
  <2>1. CASE \E u : Old(t, u)
    BY <1>2, <2>1 DEF Old, SessionInv, Found
  <2>2. CASE New(t)
    <3>1. r.new \notin call[d].read
      BY <1>2, <1>6, <2>2 DEF New
    <3>2. PICK u \in tokens : /\ ~u.revoked /\ u.owner = r.owner /\ t.line = {r.new} \cup u.line
                              /\ r.alone /\ r.kind = "refresh"
      BY <2>2, <3>1 DEF New
    <3>3. u.line \cap call[d].read # {}
      BY <3>1, <3>2
    <3>4. u.number \in call[d].read
      BY <1>2, <3>2, <3>3 DEF SessionInv, Found
    <3>5. r.owner = call[d].owner
      BY <1>2, <3>2, <3>4 DEF SessionInv, Reads
    <3> QED BY <1>1, <1>2, <3>2, <3>5 DEF SessionInv, Alone, Revoking, r
  <2> QED BY <1>5, <2>1, <2>2
<1>16. LogoutEndsSessions'
  <2> SUFFICES ASSUME NEW t \in tokens', t.line \cap ended' # {} PROVE t.revoked
    BY DEF LogoutEndsSessions
  <2>1. CASE \E u : Old(t, u)
    <3>1. PICK u : Old(t, u)
      BY <2>1
    <3>2. CASE u.line \cap ended # {}
      BY <3>1, <3>2 DEF Old, SessionInv, SessionsEndAndDoNotFork, LogoutEndsSessions
    <3>3. CASE u.line \cap ended = {}
      <4>1. r.kind = "logout" /\ u.line \cap r.read # {}
        BY <1>1, <3>1, <3>3 DEF Old
      <4>2. u.revoked \/ u.number \in r.read
        BY <1>1, <3>1, <4>1 DEF Old, SessionInv, Found, r
      <4> QED BY <3>1, <4>2 DEF Old
    <3> QED BY <3>2, <3>3
  <2>2. CASE New(t)
    <3>1. r.new \notin ended'
      BY <1>1, <1>6, <2>2 DEF New
    <3>2. PICK u \in tokens : ~u.revoked /\ t.line = {r.new} \cup u.line /\ r.kind = "refresh"
      BY <2>2, <3>1 DEF New
    <3>3. u.line \cap ended # {}
      BY <1>1, <3>1, <3>2
    <3> QED BY <3>2, <3>3 DEF SessionInv, SessionsEndAndDoNotFork, LogoutEndsSessions
  <2> QED BY <1>5, <2>1, <2>2
<1>17. ASSUME NEW t \in tokens', NEW s \in tokens', ~t.revoked, ~s.revoked, NEW u, Old(t, u), New(s)
       PROVE  t.line \cap s.line = {}
  <2>1. u \in tokens /\ t.line = u.line /\ ~u.revoked /\ u.number \notin r.read /\ r.new \notin u.line
    BY <1>6, <1>17 DEF Old, New
  <2>2. CASE s.line = {r.new}
    BY <2>1, <2>2
  <2>3. CASE s.line # {r.new}
    <3>1. PICK v \in tokens : ~v.revoked /\ r.read = {v.number} /\ s.line = {r.new} \cup v.line
      BY <1>17, <2>3 DEF New
    <3>2. u.line \cap v.line = {}
      BY <2>1, <3>1 DEF SessionInv, SessionsEndAndDoNotFork, OneTokenPerSession
    <3> QED BY <2>1, <3>1, <3>2
  <2> QED BY <2>2, <2>3
<1>18. OneTokenPerSession'
  <2> SUFFICES ASSUME NEW t \in tokens', NEW s \in tokens', t # s, ~t.revoked, ~s.revoked
               PROVE  t.line \cap s.line = {}
    BY DEF OneTokenPerSession
  <2>1. CASE \E u : Old(t, u)
    <3>1. PICK u : Old(t, u)
      BY <2>1
    <3>2. CASE New(s)
      BY <1>17, <3>1, <3>2
    <3>3. CASE \E v : Old(s, v)
      <4>1. PICK v : Old(s, v)
        BY <3>3
      <4>2. u # v /\ ~u.revoked /\ ~v.revoked
        BY <1>8, <3>1, <4>1 DEF Old
      <4> QED BY <3>1, <4>1, <4>2 DEF Old, SessionInv, SessionsEndAndDoNotFork, OneTokenPerSession
    <3> QED BY <1>5, <3>2, <3>3
  <2>2. CASE New(t) /\ t = NewRow(c)
    <3>1. PICK v : Old(s, v)
      BY <1>5, <2>2
    <3>2. s.line \cap t.line = {}
      BY <1>17, <2>2, <3>1
    <3> QED BY <3>2
  <2> QED BY <1>5, <2>1, <2>2
<1> QED
  BY <1>9, <1>10, <1>11, <1>12, <1>14, <1>15, <1>16, <1>18 DEF SessionInv, SessionsEndAndDoNotFork

LEMMA InitSessions == SessionsInit => SessionInv
<1> SUFFICES ASSUME SessionsInit PROVE SessionInv
  OBVIOUS
<1>1. Open = {}
  BY DEF SessionsInit, Open
<1>2. Shapes
  BY <1>1, SessionsAssumption DEF SessionsInit, Shapes
<1>3. Fresh /\ Reads /\ Alone /\ Current /\ Found
  BY <1>1 DEF Fresh, Reads, Alone, Current, Found
<1>4. SessionsEndAndDoNotFork
  BY DEF SessionsInit, SessionsEndAndDoNotFork, LogoutEndsSessions, OneTokenPerSession
<1> QED
  BY <1>2, <1>3, <1>4 DEF SessionInv

LEMMA NextSessions == SessionInv /\ [SessionsNext]_sessionVars => SessionInv'
<1> SUFFICES ASSUME SessionInv, [SessionsNext]_sessionVars PROVE SessionInv'
  OBVIOUS
<1>1. ASSUME NEW c \in Calls, NEW e \in Emails, Register(c, e) \/ Login(c, e)
      PROVE  SessionInv'
  <2>1. /\ call[c] = NoCall /\ UNCHANGED <<tokens, issued, ended>>
        /\ Opened(c, "register", "select", e, {}) \/ Opened(c, "login", "select", e, {})
    BY <1>1 DEF Register, Login
  <2>2. "register" \notin Revoking /\ "login" \notin Revoking
    BY DEF Revoking
  <2>3. CASE Opened(c, "register", "select", e, {})
    BY <2>1, <2>2, <2>3, OpenedKeeps
  <2>4. CASE Opened(c, "login", "select", e, {})
    BY <2>1, <2>2, <2>4, OpenedKeeps
  <2> QED BY <2>1, <2>3, <2>4
<1>2. ASSUME NEW c \in Calls, NEW t \in tokens, Refresh(c, t)
      PROVE  SessionInv'
  <2>1. t.owner \in Emails
    BY DEF SessionInv, Shapes, Tokens
  <2>2. \A n \in {t.number} : \E u \in tokens : u.number = n /\ u.owner = t.owner /\ ~u.revoked
    BY <1>2 DEF Refresh
  <2>3. "refresh" \in Revoking
    BY DEF Revoking
  <2>4. call[c] = NoCall /\ Opened(c, "refresh", "revoke", t.owner, {t.number}) /\ ~t.revoked
        /\ UNCHANGED <<tokens, issued, ended>>
    BY <1>2 DEF Refresh
  <2> QED BY <2>1, <2>2, <2>3, <2>4, OpenedKeeps
<1>3. ASSUME NEW c \in Calls, NEW e \in Emails, Logout(c, e)
      PROVE  SessionInv'
  <2> DEFINE read == {t.number : t \in {u \in RowsOf(e) : ~u.revoked}}
  <2>1. \A n \in read : \E u \in tokens : u.number = n /\ u.owner = e /\ ~u.revoked
    BY DEF RowsOf
  <2>2. "logout" \in Revoking
    BY DEF Revoking
  <2>3. call[c] = NoCall /\ Opened(c, "logout", "cache", e, read) /\ UNCHANGED <<tokens, issued, ended>>
    BY <1>3 DEF Logout
  <2> HIDE DEF read
  <2> QED BY <2>1, <2>2, <2>3, OpenedKeeps
<1>4. ASSUME NEW c \in Calls, CacheSession(c) \/ InvalidateSession(c)
      PROVE  SessionInv'
  <2> DEFINE q == [call[c] EXCEPT !.step = "commit"]
  <2>1. c \in Open /\ call' = [call EXCEPT ![c] = q] /\ UNCHANGED <<tokens, issued, ended>>
    BY <1>4 DEF CacheSession, InvalidateSession, Advanced, Open
  <2>2. call[c] \in Running
    BY <2>1, OpenRuns DEF SessionInv
  <2>3. /\ q \in Running /\ q.kind = call[c].kind /\ q.owner = call[c].owner /\ q.read = call[c].read
        /\ q.new = call[c].new /\ q.alone = call[c].alone /\ q.void = call[c].void
    BY <2>2 DEF Running
  <2> HIDE DEF q
  <2> QED BY <2>1, <2>3, AdvancedKeeps
<1>5. ASSUME NEW c \in Calls, RevokeOld(c)
      PROVE  SessionInv'
  <2> DEFINE q == [call[c] EXCEPT !.holds = call[c].read, !.step = "select"]
  <2>1. /\ c \in Open /\ UNCHANGED <<tokens, issued, ended>>
        /\ call' = [call EXCEPT ![c] = q] \/ Closed(c)
    BY <1>5 DEF RevokeOld, Open
  <2>2. call[c] \in Running
    BY <2>1, OpenRuns DEF SessionInv
  <2>3. /\ q \in Running /\ q.kind = call[c].kind /\ q.owner = call[c].owner /\ q.read = call[c].read
        /\ q.new = call[c].new /\ q.alone = call[c].alone /\ q.void = call[c].void
    BY <2>2 DEF Running
  <2> HIDE DEF q
  <2> QED BY <2>1, <2>3, AdvancedKeeps, ClosedKeeps
<1>6. ASSUME NEW c \in Calls, RollbackCall(c)
      PROVE  SessionInv'
  BY <1>6, ClosedKeeps DEF RollbackCall
<1>7. ASSUME UNCHANGED <<tokens, call, issued, ended>>
      PROVE  SessionInv'
  BY <1>7 DEF SessionInv, Shapes, Fresh, Reads, Alone, Current, Found, Open,
              SessionsEndAndDoNotFork, LogoutEndsSessions, OneTokenPerSession
<1>8. ASSUME NEW e \in Emails, NEW state, CreateUser(e, state) \/ SetActive(e, state)
      PROVE  SessionInv'
  BY <1>7, <1>8 DEF CreateUser, SetActive
<1>9. CASE UNCHANGED sessionVars
  BY <1>7, <1>9 DEF sessionVars
<1> QED
  BY <1>1, <1>2, <1>3, <1>4, <1>5, <1>6, <1>8, <1>9, CreateTokensKeeps, CommitKeeps, DeleteUserKeeps
     DEF SessionsNext

-----------------------------------------------------------------------------
(* Whatever calls overlap, fail and follow one another: exchanges without  *)
(* an overlap leave one valid token of a login, and a logout leaves none   *)
(* that descends from a token it found (refresh_tokens, revoke_all_tokens).*)
THEOREM SessionsEnd == SessionsSpec => []SessionsEndAndDoNotFork
<1>1. SessionInv => SessionsEndAndDoNotFork
  BY DEF SessionInv
<1> QED
  BY <1>1, InitSessions, NextSessions, PTL DEF SessionsSpec

-----------------------------------------------------------------------------
(* A token, and a call that goes on with an account that is there, have an *)
(* owner: whoever deletes the account takes the tokens and ends the calls. *)
OwnersInv ==
    /\ account \in [Emails -> {"none", "active", "inactive"}] /\ cached \subseteq Emails
    /\ \A t \in tokens : account[t.owner] # "none"
    /\ \A c \in Open : call[c].kind # "register" /\ ~call[c].void => account[call[c].owner] # "none"

(* Calls that are opened for an account that is there, or go on as before, *)
(* keep the invariant.                                                     *)
LEMMA OwnersStay ==
    ASSUME OwnersInv, UNCHANGED <<account, tokens>>, cached' \subseteq Emails,
           \A c \in Open' : \/ c \in Open /\ call'[c].kind = call[c].kind
                               /\ call'[c].owner = call[c].owner /\ call'[c].void = call[c].void
                            \/ call'[c].kind = "register"
                            \/ account[call'[c].owner] # "none"
    PROVE  OwnersInv'
BY DEF OwnersInv

LEMMA OpenedOwned ==
    ASSUME SessionInv, OwnersInv, NEW c \in Calls, NEW kind, NEW step, NEW e, NEW read,
           Opened(c, kind, step, e, read), kind = "register" \/ account[e] # "none",
           UNCHANGED <<account, tokens, cached>>
    PROVE  OwnersInv'
<1> DEFINE others == {d \in Open : call[d].owner = e /\ {kind, call[d].kind} \subseteq Revoking}
           New == [kind |-> kind, step |-> step, owner |-> e, read |-> read,
                   holds |-> {}, new |-> 0, alone |-> others = {}, void |-> FALSE]
<1>1. call' = [d \in Calls |-> IF d = c THEN New
                               ELSE IF d \in others THEN [call[d] EXCEPT !.alone = FALSE] ELSE call[d]]
  BY DEF Opened
<1>2. New.kind = kind /\ New.owner = e
  OBVIOUS
<1>3. ASSUME NEW d \in Open', d # c
      PROVE  /\ d \in Open /\ call'[d].kind = call[d].kind
             /\ call'[d].owner = call[d].owner /\ call'[d].void = call[d].void
  <2>1. d \in Calls /\ call'[d] # NoCall
    BY DEF Open
  <2>2. CASE d \in others
    <3>1. d \in Open /\ call[d] \in Running
      BY <2>2, OpenRuns DEF SessionInv
    <3>2. call'[d] = [call[d] EXCEPT !.alone = FALSE]
      BY <1>1, <1>3, <2>1, <2>2
    <3> QED BY <3>1, <3>2 DEF Running
  <2>3. CASE d \notin others
    <3> HIDE DEF others, New
    <3>1. call'[d] = call[d]
      BY <1>1, <1>3, <2>1, <2>3
    <3> QED BY <2>1, <3>1 DEF Open
  <2> QED BY <2>2, <2>3
<1>4. call'[c] = New
  <2> HIDE DEF New, others
  <2> QED BY <1>1
<1>5. cached' \subseteq Emails
  BY DEF OwnersInv
<1> HIDE DEF New, others
<1> QED
  BY <1>2, <1>3, <1>4, <1>5, OwnersStay

LEMMA OwnersNext == SessionInv /\ OwnersInv /\ [SessionsNext]_sessionVars => OwnersInv'
<1> SUFFICES ASSUME SessionInv, OwnersInv, [SessionsNext]_sessionVars PROVE OwnersInv'
  OBVIOUS
<1>1. ASSUME NEW c \in Calls, NEW e \in Emails, Register(c, e) \/ Login(c, e) \/ Logout(c, e)
      PROVE  OwnersInv'
  <2>1. CASE Register(c, e)
    BY <2>1, OpenedOwned DEF Register
  <2>2. CASE Login(c, e)
    <3>1. account[e] # "none"
      BY <2>2 DEF Login
    <3> QED BY <2>2, <3>1, OpenedOwned DEF Login
  <2>3. CASE Logout(c, e)
    <3>1. account[e] # "none"
      BY <2>3 DEF Logout
    <3> QED BY <2>3, <3>1, OpenedOwned DEF Logout
  <2> QED BY <1>1, <2>1, <2>2, <2>3
<1>2. ASSUME NEW c \in Calls, NEW t \in tokens, Refresh(c, t)
      PROVE  OwnersInv'
  <2>1. account[t.owner] # "none"
    BY DEF OwnersInv
  <2> QED BY <1>2, <2>1, OpenedOwned DEF Refresh
<1>3. ASSUME NEW c \in Calls, NEW q, c \in Open, call' = [call EXCEPT ![c] = q],
             q = NoCall \/ (q.kind = call[c].kind /\ q.owner = call[c].owner /\ q.void = call[c].void),
             UNCHANGED <<account, tokens>>, cached' \subseteq Emails
      PROVE  OwnersInv'
  <2>1. call'[c] = q /\ \A d \in Calls \ {c} : call'[d] = call[d]
    BY <1>3 DEF SessionInv, Shapes
  <2> QED BY <1>3, <2>1, OwnersStay DEF Open
<1>4. ASSUME NEW c \in Calls, CreateTokens(c) \/ CacheSession(c) \/ RevokeOld(c) \/ InvalidateSession(c) \/ RollbackCall(c)
      PROVE  OwnersInv'
  <2>1. c \in Open /\ call[c] \in Running /\ call[c].owner \in Emails
    <3>1. c \in Open
      BY <1>4 DEF CreateTokens, CacheSession, RevokeOld, InvalidateSession, RollbackCall, Open
    <3>2. call[c] \in Running
      BY <3>1, OpenRuns DEF SessionInv
    <3> QED BY <3>1, <3>2 DEF Running
  <2>2. UNCHANGED <<account, tokens>> /\ cached' \subseteq Emails
    BY <1>4, <2>1 DEF CreateTokens, CacheSession, RevokeOld, InvalidateSession, RollbackCall, OwnersInv
  <2>3. \E q : /\ call' = [call EXCEPT ![c] = q]
               /\ q = NoCall \/ (q.kind = call[c].kind /\ q.owner = call[c].owner /\ q.void = call[c].void)
    <3>1. CASE CreateTokens(c)
      <4> DEFINE q == [call[c] EXCEPT !.new = issued + 1,
                                      !.step = IF call[c].kind = "refresh" THEN "commit" ELSE "cache"]
      <4>1. call' = [call EXCEPT ![c] = q]
        BY <3>1 DEF CreateTokens
      <4>2. q.kind = call[c].kind /\ q.owner = call[c].owner /\ q.void = call[c].void
        BY <2>1 DEF Running
      <4> HIDE DEF q
      <4> QED BY <4>1, <4>2
    <3>2. CASE CacheSession(c) \/ InvalidateSession(c)
      <4> DEFINE q == [call[c] EXCEPT !.step = "commit"]
      <4>1. call' = [call EXCEPT ![c] = q]
        BY <3>2 DEF CacheSession, InvalidateSession, Advanced
      <4>2. q.kind = call[c].kind /\ q.owner = call[c].owner /\ q.void = call[c].void
        BY <2>1 DEF Running
      <4> HIDE DEF q
      <4> QED BY <4>1, <4>2
    <3>3. CASE RollbackCall(c)
      BY <3>3 DEF RollbackCall, Closed
    <3>4. CASE RevokeOld(c)
      <4> DEFINE q == [call[c] EXCEPT !.holds = call[c].read, !.step = "select"]
      <4>1. call' = [call EXCEPT ![c] = q] \/ call' = [call EXCEPT ![c] = NoCall]
        BY <3>4 DEF RevokeOld, Closed
      <4>2. q.kind = call[c].kind /\ q.owner = call[c].owner /\ q.void = call[c].void
        BY <2>1 DEF Running
      <4> HIDE DEF q
      <4> QED BY <4>1, <4>2
    <3> QED BY <1>4, <3>1, <3>2, <3>3, <3>4
  <2> QED BY <1>3, <2>1, <2>2, <2>3
<1>5. ASSUME NEW c \in Calls, CommitCall(c)
      PROVE  OwnersInv'
  <2>1. /\ c \in Open /\ ~call[c].void /\ UNCHANGED cached /\ call' = [call EXCEPT ![c] = NoCall]
        /\ account' = IF call[c].kind = "register"
                      THEN [account EXCEPT ![call[c].owner] = "active"] ELSE account
        /\ tokens' = Revoked(call[c].read) \cup (IF call[c].new = 0 THEN {} ELSE {NewRow(c)})
    BY <1>5 DEF CommitCall, Open, Closed
  <2>2. call[c].owner \in Emails
    BY <2>1, OpenRuns DEF SessionInv, Running
  <2>3. account' \in [Emails -> {"none", "active", "inactive"}]
        /\ \A e \in Emails : account[e] # "none" => account'[e] # "none"
    BY <2>1, <2>2 DEF OwnersInv
  <2>4. account'[call[c].owner] # "none"
    BY <2>1, <2>2 DEF OwnersInv
  <2>5. \A t \in Revoked(call[c].read) : \E u \in tokens : t.owner = u.owner
    BY DEF Revoked, SessionInv, Shapes, Tokens
  <2>6. NewRow(c).owner = call[c].owner
    BY DEF NewRow
  <2>7. \A t \in tokens : t.owner \in Emails /\ account[t.owner] # "none"
    BY DEF OwnersInv, SessionInv, Shapes, Tokens
  <2>8. \A t \in tokens' : account'[t.owner] # "none"
    BY <2>1, <2>3, <2>4, <2>5, <2>6, <2>7
  <2>9. \A d \in Open' : d \in Open /\ call'[d] = call[d] /\ call[d].owner \in Emails
    <3>1. ASSUME NEW d \in Open' PROVE d \in Open /\ call'[d] = call[d]
      BY <2>1 DEF Open, SessionInv, Shapes
    <3> QED BY <3>1, OpenRuns DEF SessionInv, Running
  <2> QED BY <2>1, <2>3, <2>8, <2>9 DEF OwnersInv
<1>6. ASSUME NEW e \in Emails, NEW state \in {"active", "inactive"},
             CreateUser(e, state) \/ SetActive(e, state)
      PROVE  OwnersInv'
  <2>1. account' \in [Emails -> {"none", "active", "inactive"}]
        /\ \A f : account[f] # "none" => f \notin Emails \/ account'[f] # "none"
    BY <1>6 DEF CreateUser, SetActive, OwnersInv
  <2>2. \A t \in tokens : t.owner \in Emails
    BY DEF SessionInv, Shapes, Tokens
  <2>3. \A d \in Open : call[d].owner \in Emails
    BY OpenRuns DEF SessionInv, Running
  <2> QED BY <1>6, <2>1, <2>2, <2>3 DEF CreateUser, SetActive, OwnersInv, Open
<1>7. ASSUME NEW e \in Emails, DeleteUser(e)
      PROVE  OwnersInv'
  <2>1. /\ account' = [account EXCEPT ![e] = "none"] /\ tokens' = tokens \ RowsOf(e) /\ UNCHANGED cached
        /\ call' = [c \in Calls |-> IF c \in Open /\ call[c].owner = e /\ call[c].kind # "register"
                                    THEN [call[c] EXCEPT !.void = TRUE] ELSE call[c]]
    BY <1>7 DEF DeleteUser
  <2>2. account' \in [Emails -> {"none", "active", "inactive"}]
        /\ \A f \in Emails : f # e => account'[f] = account[f]
    BY <2>1 DEF OwnersInv
  <2>3. \A t \in tokens' : t \in tokens /\ t.owner \in Emails /\ t.owner # e
    BY <2>1 DEF RowsOf, SessionInv, Shapes, Tokens
  <2>4. ASSUME NEW d \in Open', call'[d].kind # "register", ~call'[d].void
        PROVE  account'[call'[d].owner] # "none"
    <3>1. d \in Calls /\ call'[d] # NoCall
      BY <2>4 DEF Open
    <3>2. CASE d \in Open /\ call[d].owner = e /\ call[d].kind # "register"
      <4>1. call[d] \in Running
        BY <3>2, OpenRuns DEF SessionInv
      <4>2. call'[d] = [call[d] EXCEPT !.void = TRUE]
        BY <2>1, <3>1, <3>2
      <4> QED BY <2>4, <4>1, <4>2 DEF Running
    <3>3. CASE ~(d \in Open /\ call[d].owner = e /\ call[d].kind # "register")
      <4>1. call'[d] = call[d] /\ d \in Open
        BY <2>1, <3>1, <3>3 DEF Open
      <4>2. call[d].owner \in Emails /\ call[d].owner # e
        BY <2>4, <3>3, <4>1, OpenRuns DEF SessionInv, Running
      <4> QED BY <2>2, <2>4, <4>1, <4>2 DEF OwnersInv
    <3> QED BY <3>2, <3>3
  <2> QED BY <2>1, <2>2, <2>3, <2>4 DEF OwnersInv
<1>8. CASE UNCHANGED sessionVars
  BY <1>8 DEF sessionVars, OwnersInv, Open
<1> QED
  BY <1>1, <1>2, <1>4, <1>5, <1>6, <1>7, <1>8 DEF SessionsNext

(* Accounts, tokens and calls keep their types: a token has a number of    *)
(* its own and an account that is there.                                   *)
THEOREM SessionsKeepTypes == SessionsSpec => []SessionsTypeOK
<1>1. SessionsInit => SessionInv /\ OwnersInv
  BY InitSessions DEF SessionsInit, OwnersInv, Open
<1>2. SessionInv /\ OwnersInv /\ [SessionsNext]_sessionVars => SessionInv' /\ OwnersInv'
  BY NextSessions, OwnersNext
<1>3. ASSUME SessionInv, OwnersInv PROVE SessionsTypeOK
  <2>1. 1 .. issued \subseteq Numbers
    BY <1>3, SessionsAssumption DEF SessionInv, Shapes, Numbers
  <2>2. \A t \in tokens : t.number \in Numbers /\ t.line \subseteq Numbers
    BY <1>3 DEF SessionInv, Shapes, Tokens
  <2>3. \A c \in Open : call[c].step \in {"select", "revoke", "cache", "commit"}
    BY <1>3, OpenRuns DEF SessionInv, Running
  <2> QED BY <1>3, <2>1, <2>2, <2>3 DEF SessionsTypeOK, SessionInv, Shapes, OwnersInv
<1> QED
  BY <1>1, <1>2, <1>3, PTL DEF SessionsSpec
=============================================================================
