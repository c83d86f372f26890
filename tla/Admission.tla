----------------------------- MODULE Admission -----------------------------
(***************************************************************************)
(* Who may use the service: OAuth login attempts, invitation codes, the    *)
(* admission ledger (account_access), accounts, browser sessions, and the  *)
(* management operations on them.                                          *)
(*                                                                         *)
(* A Google identity is a subject.  Its account comes and goes, its ledger *)
(* row stays.  A login is one browser's attempt from its OAuth row to the  *)
(* commit of create_google_session, whose transaction runs in steps: the   *)
(* identity lock, then the row lock on the invitation, then the commit.    *)
(* Every other operation is a transaction of one step.                     *)
(*                                                                         *)
(* Times are ticks since the start; Never stands for NULL and for every    *)
(* instant past the bound.                                                 *)
(***************************************************************************)
EXTENDS Integers, FiniteSets

CONSTANTS Subjects, Codes, Sessions, Logins,
          NoSubject, NoCode,
          Settings,                 \* the values of settings.invitation_required explored
          SessionLife, AttemptLife, \* in ticks
          Hours,                    \* the access_hours a code may carry (Never: none)
          Limits,                   \* the max_uses a code may carry
          Deadlines,                \* the expiries management sets
          MaxTime                   \* bound

Never == MaxTime + 1

ASSUME AdmissionAssumption ==
  /\ Settings \subseteq BOOLEAN
  /\ MaxTime \in Nat /\ SessionLife \in Nat \ {0} /\ AttemptLife \in Nat \ {0}
  /\ Hours \subseteq 1 .. Never /\ Limits \subseteq Nat \ {0} /\ Deadlines \subseteq 0 .. Never
  /\ NoSubject \notin Subjects /\ NoCode \notin Codes

VARIABLES required,  \* settings.invitation_required, fixed while the service runs
          now,
          code,      \* invitation_codes
          access,    \* account_access, by subject
          account,   \* users.status of the subject's account, "NONE" when it has none
          sess,      \* auth_sessions
          login,     \* oauth_login_attempts, and the callbacks under way
          erasing    \* subjects with an authenticated DELETE /me/account under way

vars == <<required, now, code, access, account, sess, login, erasing>>

Instants == 0 .. Never

CodeRow == [made : BOOLEAN, exp : Instants, hours : 1 .. Never, max : Nat \ {0}, uses : Nat, revoked : BOOLEAN]
AccessRow == [granted : BOOLEAN, code : Codes \cup {NoCode}, exp : Instants, revoked : BOOLEAN]
SessionRow == [owner : Subjects \cup {NoSubject}, exp : Instants, revoked : BOOLEAN]

\* "attempt": its row is in oauth_login_attempts; "callback": consumed, the code is
\* exchanged with Google; "locked": holds the identity lock, and the account and
\* ledger rows there are; "redeeming": also holds the invitation's row.
Login == [pc : {"idle", "attempt", "callback", "locked", "redeeming"}, code : Codes \cup {NoCode},
          exp : Instants, subject : Subjects \cup {NoSubject}, at : Instants]

\* A column default or a NULL; the row is not there.
NoInvitation == [made |-> FALSE, exp |-> Never, hours |-> Never, max |-> 1, uses |-> 0, revoked |-> FALSE]
NoAccess     == [granted |-> FALSE, code |-> NoCode, exp |-> Never, revoked |-> FALSE]
NoSession    == [owner |-> NoSubject, exp |-> 0, revoked |-> FALSE]
NoLogin      == [pc |-> "idle", code |-> NoCode, exp |-> 0, subject |-> NoSubject, at |-> 0]

Least(s, t)    == IF s < t THEN s ELSE t
Later(t, span) == Least(t + span, Never)

Present(x)   == sess[x].owner # NoSubject
SessionsOf(s) == {x \in Sessions : sess[x].owner = s}

\* Rows another transaction holds: waited for by every FOR UPDATE.
IdentityLocked(s) == \E l \in Logins : login[l].pc \in {"locked", "redeeming"} /\ login[l].subject = s
CodeLocked(c)     == \E l \in Logins : login[l].pc = "redeeming" /\ login[l].code = c

-----------------------------------------------------------------------------
(* Credentials.                                                              *)

\* access_allowed.
AccessAllowed(s) == access[s].granted /\ ~access[s].revoked /\ access[s].exp > now

\* resolve_session and matches_session_csrf.
Usable(x) ==
  /\ Present(x) /\ sess[x].exp > now /\ ~sess[x].revoked
  /\ account[sess[x].owner] = "ACTIVE"
  /\ required => AccessAllowed(sess[x].owner)

Dead(x) == Present(x) /\ (sess[x].exp <= now \/ sess[x].revoked)

\* prune_auth_records, on sessions and on attempts: a bounded batch that skips the
\* rows another transaction has locked, so any part of what is dead.
PrunedSessions(gone) == [x \in Sessions |-> IF x \in gone THEN NoSession ELSE sess[x]]
DeadAttempts         == {l \in Logins : login[l].pc = "attempt" /\ login[l].exp <= now}
Prunable(gone, old)  == gone \subseteq {x \in Sessions : Dead(x)} /\ old \subseteq DeadAttempts
PrunedLogins(old)    == [l \in Logins |-> IF l \in old THEN NoLogin ELSE login[l]]

\* cleanup_loop, every five minutes.
Cleanup(gone, old) ==
  /\ Prunable(gone, old)
  /\ gone # {} \/ old # {}
  /\ sess' = PrunedSessions(gone)
  /\ login' = PrunedLogins(old)
  /\ UNCHANGED <<required, now, code, access, account, erasing>>

\* revoke_session (logout), and revoke_sessions of one session.
RevokeSession(x) ==
  /\ Present(x) /\ ~sess[x].revoked
  /\ sess' = [sess EXCEPT ![x].revoked = TRUE]
  /\ UNCHANGED <<required, now, code, access, account, login, erasing>>

\* revoke_sessions of an account.
RevokeSessions(s) ==
  /\ account[s] # "NONE"
  /\ sess' = [x \in Sessions |-> IF x \in SessionsOf(s) THEN [sess[x] EXCEPT !.revoked = TRUE] ELSE sess[x]]
  /\ UNCHANGED <<required, now, code, access, account, login, erasing>>

-----------------------------------------------------------------------------
(* Login.                                                                    *)

\* _start_google_login: create_oauth_login_attempt prunes, then inserts.
StartLogin(l, c, gone, old) ==
  /\ login[l].pc = "idle"
  /\ Prunable(gone, old)
  /\ sess' = PrunedSessions(gone)
  /\ login' = [PrunedLogins(old) EXCEPT ![l] =
       [NoLogin EXCEPT !.pc = "attempt", !.code = c, !.exp = Later(now, AttemptLife)]]
  /\ UNCHANGED <<required, now, code, access, account, erasing>>

\* google_callback: the DELETE ... RETURNING takes the attempt, once and in time.
ConsumeAttempt(l) ==
  /\ login[l].pc = "attempt" /\ login[l].exp > now
  /\ login' = [login EXCEPT ![l].pc = "callback"]
  /\ UNCHANGED <<required, now, code, access, account, sess, erasing>>

\* The callback ends without a login: an OAuth error, a provider error, a database
\* error, a restart.  The transaction, if it was open, is rolled back.
AbandonLogin(l) ==
  /\ login[l].pc \in {"callback", "locked", "redeeming"}
  /\ login' = [login EXCEPT ![l] = NoLogin]
  /\ UNCHANGED <<required, now, code, access, account, sess, erasing>>

\* create_google_session: Google names the subject; lock_identity, then the rows of
\* its account and of its admission FOR UPDATE.
LockIdentity(l, s) ==
  /\ login[l].pc = "callback" /\ ~IdentityLocked(s)
  /\ login' = [login EXCEPT ![l].pc = "locked", ![l].subject = s]
  /\ UNCHANGED <<required, now, code, access, account, sess, erasing>>

\* admission_for_login finds the subject's ledger row.
Admitted(s) == access[s].granted

\* Mutant: the row is trusted as long as it has not expired.
AdmissibleUnexpired(s) == required => access[s].exp > now

\* The ledger row lets its subject in.
Admissible(s) == required => ~access[s].revoked /\ access[s].exp > now

\* The invitation can still be redeemed.
Redeemable(c) ==
  /\ c # NoCode /\ code[c].made /\ ~code[c].revoked
  /\ code[c].exp > now /\ code[c].uses < code[c].max

\* The end of create_google_session: the account if it is new, the ledger row, a
\* session capped at the access, and the prune of its first statement.
IssueSession(l, x, row, gone, old) ==
  LET s == login[l].subject IN
  /\ ~Present(x)
  /\ Prunable(gone, old)
  /\ account' = [account EXCEPT ![s] = IF @ = "NONE" THEN "ACTIVE" ELSE @]
  /\ access' = [access EXCEPT ![s] = row]
  /\ sess' = [PrunedSessions(gone) EXCEPT ![x] =
       [owner |-> s, exp |-> Least(Later(now, SessionLife), row.exp), revoked |-> FALSE]]
  /\ login' = [PrunedLogins(old) EXCEPT ![l] = NoLogin]
  /\ UNCHANGED <<required, now, erasing>>

\* The account, if there is one, is not suspended.
Standing(l) == login[l].pc = "locked" /\ account[login[l].subject] # "DEACTIVATED"

\* Mutant: an identity that comes back starts a new access window.
ReadmitAfresh(l, x, gone, old) ==
  LET s == login[l].subject IN
  /\ Standing(l) /\ Admitted(s) /\ Admissible(s)
  /\ access[s].code \in Codes
  /\ IssueSession(l, x, [access[s] EXCEPT !.exp = Later(now, code[access[s].code].hours)], gone, old)
  /\ code' = code

\* The subject is in the ledger: no seat is taken, its access goes on.
Readmit(l, x, gone, old) ==
  LET s == login[l].subject IN
  /\ Standing(l) /\ Admitted(s) /\ Admissible(s)
  /\ IssueSession(l, x, access[s], gone, old)
  /\ code' = code

\* Without the invitation rule a new subject is admitted as LEGACY.
AdmitLegacy(l, x, gone, old) ==
  /\ Standing(l) /\ ~Admitted(login[l].subject) /\ ~required
  /\ IssueSession(l, x, [NoAccess EXCEPT !.granted = TRUE], gone, old)
  /\ code' = code

\* Mutant: the invitation is read without FOR UPDATE.
RedeemUnlocked(l) ==
  /\ Standing(l) /\ ~Admitted(login[l].subject) /\ required
  /\ Redeemable(login[l].code)
  /\ login' = [login EXCEPT ![l].pc = "redeeming", ![l].at = now]
  /\ UNCHANGED <<required, now, code, access, account, sess, erasing>>

\* A new subject's invitation: locked, checked, and its instant read.
Redeem(l) ==
  /\ Standing(l) /\ ~Admitted(login[l].subject) /\ required
  /\ ~CodeLocked(login[l].code)
  /\ Redeemable(login[l].code)
  /\ login' = [login EXCEPT ![l].pc = "redeeming", ![l].at = now]
  /\ UNCHANGED <<required, now, code, access, account, sess, erasing>>

\* The seat is taken and everything commits together.
AdmitInvited(l, x, gone, old) ==
  LET c == login[l].code IN
  /\ login[l].pc = "redeeming"
  /\ code' = [code EXCEPT ![c].uses = @ + 1]
  /\ IssueSession(l, x, [granted |-> TRUE, code |-> c, exp |-> Later(login[l].at, code[c].hours),
                         revoked |-> FALSE], gone, old)

\* AdmissionDenied rolls everything back; without the invitation rule a suspended
\* account gets no session, and the prune commits.
Deny(l, gone, old) ==
  LET s == login[l].subject IN
  /\ login[l].pc = "locked"
  /\ \/ account[s] = "DEACTIVATED"
     \/ Admitted(s) /\ ~Admissible(s)
     \/ /\ ~Admitted(s) /\ required
        /\ ~CodeLocked(login[l].code) /\ ~Redeemable(login[l].code)
  /\ Prunable(gone, old)
  /\ required => gone = {} /\ old = {}
  /\ sess' = PrunedSessions(gone)
  /\ login' = [PrunedLogins(old) EXCEPT ![l] = NoLogin]
  /\ UNCHANGED <<required, now, code, access, account, erasing>>

-----------------------------------------------------------------------------
(* Erasure and management.                                                   *)

\* current_session for DELETE /me/account.
AuthenticateErasure(x) ==
  /\ Usable(x)
  /\ erasing' = erasing \cup {sess[x].owner}
  /\ UNCHANGED <<required, now, code, access, account, sess, login>>

\* Mutant: erasure forgets a table.
EraseKeepsSessions(s) ==
  /\ s \in erasing /\ account[s] # "NONE" /\ ~IdentityLocked(s)
  /\ account' = [account EXCEPT ![s] = "NONE"]
  /\ erasing' = erasing \ {s}
  /\ UNCHANGED <<required, now, code, access, sess, login>>

\* delete_account: sessions, identity and account go, the ledger row stays (its
\* user_id is SET NULL).  A request for an account that is gone does nothing.
EraseAccount(s) ==
  /\ s \in erasing /\ account[s] # "NONE" /\ ~IdentityLocked(s)
  /\ account' = [account EXCEPT ![s] = "NONE"]
  /\ sess' = [x \in Sessions |-> IF x \in SessionsOf(s) THEN NoSession ELSE sess[x]]
  /\ erasing' = erasing \ {s}
  /\ UNCHANGED <<required, now, code, access, login>>

CreateInvitation(c, exp, hours, max) ==
  /\ ~code[c].made
  /\ code' = [code EXCEPT ![c] = [NoInvitation EXCEPT !.made = TRUE, !.exp = exp, !.hours = hours, !.max = max]]
  /\ UNCHANGED <<required, now, access, account, sess, login, erasing>>

\* update_invitation; a field that is left alone is set to what it is.
UpdateInvitation(c, exp, hours, max) ==
  /\ code[c].made /\ ~CodeLocked(c)
  /\ max >= code[c].uses
  /\ code' = [code EXCEPT ![c].exp = exp, ![c].hours = hours, ![c].max = max]
  /\ UNCHANGED <<required, now, access, account, sess, login, erasing>>

RevokeInvitation(c) ==
  /\ code[c].made /\ ~CodeLocked(c)
  /\ code' = [code EXCEPT ![c].revoked = TRUE]
  /\ UNCHANGED <<required, now, access, account, sess, login, erasing>>

\* Mutant: sessions get the new expiry, also when it is later.
CurtailedToExpiry(s, fields, status, exp) ==
  [x \in Sessions |->
     IF x \notin SessionsOf(s) THEN sess[x]
     ELSE [sess[x] EXCEPT !.exp = IF "expiry" \in fields THEN exp ELSE @,
                          !.revoked = @ \/ ("status" \in fields /\ status = "DEACTIVATED")]]

\* Mutant: a shorter access leaves the sessions' expiry alone.
CurtailedNot(s, fields, status, exp) ==
  [x \in Sessions |->
     IF x \notin SessionsOf(s) THEN sess[x]
     ELSE [sess[x] EXCEPT !.revoked = @ \/ ("status" \in fields /\ status = "DEACTIVATED")]]

\* The session rows of s after an update of the named fields: never given more
\* time, and revoked when the account is deactivated.
Curtailed(s, fields, status, exp) ==
  [x \in Sessions |->
     IF x \notin SessionsOf(s) THEN sess[x]
     ELSE [sess[x] EXCEPT !.exp = IF "expiry" \in fields THEN Least(@, exp) ELSE @,
                          !.revoked = @ \/ ("status" \in fields /\ status = "DEACTIVATED")]]

\* update_user; fields: the columns the request sets.
UpdateUser(s, fields, status, exp) ==
  /\ account[s] # "NONE" /\ ~IdentityLocked(s) /\ access[s].granted
  /\ account' = [account EXCEPT ![s] = IF "status" \in fields THEN status ELSE @]
  /\ access' = [access EXCEPT
       ![s].revoked = IF "status" \in fields THEN status = "DEACTIVATED" ELSE @,
       ![s].exp = IF "expiry" \in fields THEN exp ELSE @]
  /\ sess' = Curtailed(s, fields, status, exp)
  /\ UNCHANGED <<required, now, code, login, erasing>>

Tick ==
  /\ now < MaxTime
  /\ now' = now + 1
  /\ UNCHANGED <<required, code, access, account, sess, login, erasing>>

-----------------------------------------------------------------------------
Init ==
  /\ required \in Settings
  /\ now = 0
  /\ code = [c \in Codes |-> NoInvitation]
  /\ access = [s \in Subjects |-> NoAccess]
  /\ account = [s \in Subjects |-> "NONE"]
  /\ sess = [x \in Sessions |-> NoSession]
  /\ login = [l \in Logins |-> NoLogin]
  /\ erasing = {}

LoginStep(l) ==
  \/ ConsumeAttempt(l) \/ AbandonLogin(l) \/ Redeem(l)
  \/ \E s \in Subjects : LockIdentity(l, s)
  \/ \E gone \in SUBSET Sessions, old \in SUBSET Logins :
       \/ Deny(l, gone, old)
       \/ \E c \in Codes \cup {NoCode} : StartLogin(l, c, gone, old)
       \/ \E x \in Sessions :
            Readmit(l, x, gone, old) \/ AdmitLegacy(l, x, gone, old) \/ AdmitInvited(l, x, gone, old)

Manage ==
  \/ \E c \in Codes :
       \/ RevokeInvitation(c)
       \/ \E exp \in Deadlines, hours \in Hours, max \in Limits :
            CreateInvitation(c, exp, hours, max) \/ UpdateInvitation(c, exp, hours, max)
  \/ \E s \in Subjects :
       \/ RevokeSessions(s)
       \/ \E fields \in SUBSET {"status", "expiry"}, status \in {"ACTIVE", "DEACTIVATED"}, exp \in Deadlines :
            UpdateUser(s, fields, status, exp)

Next ==
  \/ \E l \in Logins : LoginStep(l)
  \/ Manage
  \/ \E x \in Sessions : RevokeSession(x) \/ AuthenticateErasure(x)
  \/ \E s \in Subjects : EraseAccount(s)
  \/ \E gone \in SUBSET Sessions, old \in SUBSET Logins : Cleanup(gone, old)
  \/ Tick

Spec == Init /\ [][Next]_vars

-----------------------------------------------------------------------------
(* Properties.                                                               *)

\* Every row has its columns, and the foreign keys hold: a session and an account
\* belong to a subject of the ledger, a session to an account that exists.
TypeOK ==
  /\ required \in BOOLEAN /\ now \in 0 .. MaxTime
  /\ code \in [Codes -> CodeRow]
  /\ access \in [Subjects -> AccessRow]
  /\ account \in [Subjects -> {"NONE", "ACTIVE", "DEACTIVATED"}]
  /\ sess \in [Sessions -> SessionRow]
  /\ login \in [Logins -> Login]
  /\ erasing \subseteq Subjects
  /\ \A x \in Sessions : Present(x) => account[sess[x].owner] # "NONE"

\* The subjects that came in by code c, whether or not they still have an account.
RedeemedBy(c) == {s \in Subjects : access[s].granted /\ access[s].code = c}

\* Seats are neither lost nor oversold: use_count is the number of identities the
\* code admitted, and never passes max_uses, whatever logins race, fail, or follow
\* an erasure, and however management changes the limit.
SeatsAccounted ==
  \A c \in Codes : code[c].uses = Cardinality(RedeemedBy(c)) /\ code[c].uses <= code[c].max

\* No credential outlives the access it was issued under: sessions are capped at the
\* access expiry when issued, and again whenever management shortens it.
SessionsWithinAccess ==
  \A x \in Sessions : Present(x) => sess[x].exp <= access[sess[x].owner].exp

\* A suspended account, and where invitations are required a revoked identity even
\* after erasing and recreating its account, has no session left to use.
RevocationHolds ==
  \A x \in Sessions :
    /\ Present(x)
    /\ \/ account[sess[x].owner] = "DEACTIVATED"
       \/ required /\ access[sess[x].owner].revoked
    => sess[x].revoked

\* update_user: "Extending access never revives an expired/revoked session", and
\* neither does restoring an account or logging in again.
NoRevival ==
  [][\A x \in Sessions : Present(x) /\ ~Usable(x) => ~Usable(x)']_vars

\* Erasing an account and coming back "does not restart a trial, consume a second
\* invitation, or bypass revocation": the ledger row stays, and keeps its invitation;
\* its window and its revocation change only while the account exists.
LedgerSurvives ==
  [][\A s \in Subjects : access[s].granted =>
       /\ access'[s].granted /\ access'[s].code = access[s].code
       /\ (account[s] = "NONE" \/ account'[s] = "NONE") => access'[s] = access[s]]_vars
=============================================================================
