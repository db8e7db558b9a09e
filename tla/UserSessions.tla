---------------------------- MODULE UserSessions ----------------------------
(***************************************************************************)
(* Accounts and refresh tokens: registration, login, rotation of a token,  *)
(* logout, and what administrators do to accounts. Each call is a          *)
(* transaction under READ COMMITTED, and calls overlap. Passwords and the  *)
(* limit on login attempts only decide whether a login begins.             *)
(***************************************************************************)
EXTENDS Naturals, FiniteSets

CONSTANTS
    Emails,     \* one account each
    Calls,      \* slots of calls that overlap
    MaxTokens   \* bound on the tokens ever issued

ASSUME SessionsAssumption == MaxTokens \in Nat

VARIABLES
    account,    \* users: state of each e-mail's account
    tokens,     \* refresh_tokens: the committed rows
    cached,     \* session:<user> in Redis
    call,       \* what each slot is doing
    issued,     \* numbers given to tokens so far
    ended       \* history: tokens that a logout had to end

sessionVars == <<account, tokens, cached, call, issued, ended>>

NoCall == [step |-> "free"]
Numbers == 1 .. MaxTokens
Open == {c \in Calls : call[c] # NoCall}
Row(n) == CHOOSE t \in tokens : t.number = n
RowsOf(e) == {t \in tokens : t.owner = e}

SessionsTypeOK ==
    /\ account \in [Emails -> {"none", "active", "inactive"}]
    /\ \A t \in tokens : t.number \in Numbers /\ account[t.owner] # "none" /\ t.line \subseteq Numbers
    /\ \A t, u \in tokens : t.number = u.number => t = u
    /\ cached \subseteq Emails /\ issued \in 0 .. MaxTokens /\ ended \subseteq Numbers
    /\ \A c \in Open : call[c].step \in {"select", "revoke", "cache", "commit"}

SessionsInit ==
    /\ account = [e \in Emails |-> "none"] /\ tokens = {} /\ cached = {}
    /\ call = [c \in Calls |-> NoCall] /\ issued = 0 /\ ended = {}
-----------------------------------------------------------------------------
(* Opening a call. A refresh or logout is alone as long as no other one of *)
(* the same account overlaps it, which may read what is about to change.   *)
Revoking == {"refresh", "logout"}

Opened(c, kind, step, e, read) ==
    LET others == {d \in Open : call[d].owner = e /\ {kind, call[d].kind} \subseteq Revoking}
    IN call' = [d \in Calls |->
          IF d = c THEN [kind |-> kind, step |-> step, owner |-> e, read |-> read,
                         holds |-> {}, new |-> 0, alone |-> others = {}, void |-> FALSE]
          ELSE IF d \in others THEN [call[d] EXCEPT !.alone = FALSE] ELSE call[d]]

Advanced(c, step) == call' = [call EXCEPT ![c].step = step]
Closed(c) == call' = [call EXCEPT ![c] = NoCall]

(* register: the check for the e-mail, the new user and its first token.   *)
Register(c, e) ==
    /\ call[c] = NoCall /\ account[e] = "none" /\ issued < MaxTokens
    /\ Opened(c, "register", "select", e, {})
    /\ UNCHANGED <<account, tokens, cached, issued, ended>>

(* login: authenticate_user refuses all but active accounts.               *)
Login(c, e) ==
    /\ call[c] = NoCall /\ account[e] = "active" /\ issued < MaxTokens
    /\ Opened(c, "login", "select", e, {})
    /\ UNCHANGED <<account, tokens, cached, issued, ended>>

(* create_tokens; a row number is never used again.                        *)
CreateTokens(c) ==
    /\ call[c] # NoCall /\ call[c].step = "select" /\ issued < MaxTokens
    /\ call' = [call EXCEPT ![c].new = issued + 1,
                            ![c].step = IF call[c].kind = "refresh" THEN "commit" ELSE "cache"]
    /\ issued' = issued + 1
    /\ UNCHANGED <<account, tokens, cached, ended>>

(* cache_session, before the transaction has been committed                *)
CacheSession(c) ==
    /\ call[c] # NoCall /\ call[c].step = "cache" /\ call[c].kind \in {"register", "login"}
    /\ cached' = cached \cup {call[c].owner}
    /\ Advanced(c, "commit")
    /\ UNCHANGED <<account, tokens, issued, ended>>
-----------------------------------------------------------------------------
(* Mutant: a revoked token is exchanged once more.                         *)
RefreshRevoked(c, t) ==
    /\ call[c] = NoCall /\ t \in tokens
    /\ Opened(c, "refresh", "revoke", t.owner, {t.number})
    /\ UNCHANGED <<account, tokens, cached, issued, ended>>

(* refresh_tokens: the stored token must not have been revoked.            *)
Refresh(c, t) ==
    /\ call[c] = NoCall /\ t \in tokens /\ ~t.revoked
    /\ Opened(c, "refresh", "revoke", t.owner, {t.number})
    /\ UNCHANGED <<account, tokens, cached, issued, ended>>

Locked(numbers) == \E d \in Open : call[d].holds \cap numbers # {}

(* The update of the old token waits for other updates of its row; then    *)
(* the account is read, and if it is not active the update is undone.      *)
RevokeOld(c) ==
    /\ call[c] # NoCall /\ call[c].step = "revoke"
    /\ ~Locked(call[c].read) /\ ~call[c].void
    /\ IF account[call[c].owner] = "active"
       THEN call' = [call EXCEPT ![c].holds = call[c].read, ![c].step = "select"]
       ELSE Closed(c)
    /\ UNCHANGED <<account, tokens, cached, issued, ended>>

(* logout: revoke_all_tokens reads the tokens that are not revoked ...     *)
Logout(c, e) ==
    /\ call[c] = NoCall /\ account[e] = "active"
    /\ Opened(c, "logout", "cache", e, {t.number : t \in {u \in RowsOf(e) : ~u.revoked}})
    /\ UNCHANGED <<account, tokens, cached, issued, ended>>

(* ... and invalidate_session runs before they are updated.                *)
InvalidateSession(c) ==
    /\ call[c] # NoCall /\ call[c].step = "cache" /\ call[c].kind = "logout"
    /\ cached' = cached \ {call[c].owner}
    /\ Advanced(c, "commit")
    /\ UNCHANGED <<account, tokens, issued, ended>>
-----------------------------------------------------------------------------
(* A token continues the line of the one it was exchanged for; one from an *)
(* exchange that was not alone begins a line of its own.                   *)
NewRow(c) ==
    [number |-> call[c].new, owner |-> call[c].owner, revoked |-> FALSE,
     line |-> {call[c].new} \cup
        IF call[c].kind = "refresh" /\ call[c].alone
        THEN UNION {t.line : t \in {u \in tokens : u.number \in call[c].read}} ELSE {}]

Revoked(numbers) ==
    {IF t.number \in numbers THEN [t EXCEPT !.revoked = TRUE] ELSE t : t \in tokens}

(* The commit of get_db; the e-mail is unique, and a call whose account    *)
(* has been deleted meanwhile fails.                                       *)
CommitCall(c) ==
    /\ call[c] # NoCall /\ call[c].step = "commit" /\ ~call[c].void
    /\ call[c].kind = "register" => account[call[c].owner] = "none"
    /\ call[c].kind = "logout" => ~Locked(call[c].read)
    /\ tokens' = Revoked(call[c].read) \cup (IF call[c].new = 0 THEN {} ELSE {NewRow(c)})
    /\ account' = IF call[c].kind = "register"
                  THEN [account EXCEPT ![call[c].owner] = "active"] ELSE account
    /\ ended' = IF call[c].kind = "logout" THEN ended \cup call[c].read ELSE ended
    /\ Closed(c)
    /\ UNCHANGED <<cached, issued>>

(* Redis or the database fails, or the process dies: a rollback.           *)
RollbackCall(c) ==
    /\ call[c] # NoCall
    /\ Closed(c)
    /\ UNCHANGED <<account, tokens, cached, issued, ended>>

(* An administrator's create_user: active or not, and without a token.     *)
CreateUser(e, state) ==
    /\ account[e] = "none"
    /\ account' = [account EXCEPT ![e] = state]
    /\ UNCHANGED <<tokens, cached, call, issued, ended>>

(* update_user sets is_active and leaves the tokens as they are.           *)
SetActive(e, state) ==
    /\ account[e] \notin {"none", state}
    /\ account' = [account EXCEPT ![e] = state]
    /\ UNCHANGED <<tokens, cached, call, issued, ended>>

(* delete_user takes the tokens along, and waits for updates of them.      *)
DeleteUser(e) ==
    /\ account[e] # "none" /\ ~Locked({t.number : t \in RowsOf(e)})
    /\ account' = [account EXCEPT ![e] = "none"]
    /\ tokens' = tokens \ RowsOf(e)
    /\ call' = [c \in Calls |-> IF c \in Open /\ call[c].owner = e /\ call[c].kind # "register"
                                THEN [call[c] EXCEPT !.void = TRUE] ELSE call[c]]
    /\ UNCHANGED <<cached, issued, ended>>

SessionsNext ==
    \/ \E c \in Calls :
        \/ CreateTokens(c) \/ CacheSession(c) \/ RevokeOld(c) \/ InvalidateSession(c)
        \/ CommitCall(c) \/ RollbackCall(c)
        \/ \E e \in Emails : Register(c, e) \/ Login(c, e) \/ Logout(c, e)
        \/ \E t \in tokens : Refresh(c, t)
    \/ \E e \in Emails :
        \/ DeleteUser(e)
        \/ \E state \in {"active", "inactive"} : CreateUser(e, state) \/ SetActive(e, state)

SessionsSpec == SessionsInit /\ [][SessionsNext]_sessionVars
-----------------------------------------------------------------------------
LogoutEndsSessions ==
    \A t \in tokens : t.line \cap ended # {} => t.revoked

OneTokenPerSession ==
    \A t, u \in tokens : t # u /\ ~t.revoked /\ ~u.revoked => t.line \cap u.line = {}

(* However calls overlap, fail and follow one another: exchanges that no   *)
(* other call of the user overlapped leave one valid token of a login, and *)
(* after a logout no valid token descends by such exchanges from one that  *)
(* the logout found.                                                       *)
SessionsEndAndDoNotFork == LogoutEndsSessions /\ OneTokenPerSession
=============================================================================
